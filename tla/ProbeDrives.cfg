CONSTANTS
  Layouts <- MCLayouts
  Models <- MCModels
  ModelOf <- MCModelOf
  Garbage = "garbage"
SPECIFICATION Spec
CHECK_DEADLOCK FALSE
INVARIANTS TableIsCompact AtaDrivesFound AtaIdentified FoundByModel
PROPERTY Terminates
