SPECIFICATION Spec
CONSTANTS
  N = 1
  MaxCrashes = 2
  MaxCommands = 4
  Hazards = {}
INVARIANTS
  TypeOK
  SourceSurvives
  PinnedWhileDown
  RolledBackServesOrKeepsPin
PROPERTIES
  FinalizeOverLiveCopy
CHECK_DEADLOCK FALSE
