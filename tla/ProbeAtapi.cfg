CONSTANTS
  Layouts <- MCLayouts
  Models <- MCModels
  ModelOf <- MCModelOf
  Garbage = "garbage"
SPECIFICATION Spec
CHECK_DEADLOCK FALSE
INVARIANT AllIdentified
