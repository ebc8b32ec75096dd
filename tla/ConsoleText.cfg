CONSTANTS
  WIDTH = 4
  HEIGHT = 3
  TAB = 2
  DIGITS = 3
  Strings <- MCStrings
  Leftover <- MCLeftover
SPECIFICATION Spec
INVARIANTS TypeOK BlankBelow
PROPERTY ImplementsTeletype
