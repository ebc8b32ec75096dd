CONSTANTS
  PAGE = 128
  START = 256
  INITIAL = 384
  MIN = 256
  MAX = 1280
  WORD = 65536
  Programs <- MCSame
SPECIFICATION Spec
CHECK_DEADLOCK FALSE
INVARIANTS BlocksApart
