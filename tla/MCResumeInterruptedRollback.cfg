SPECIFICATION Spec
CONSTANTS
  N = 1
  MaxCrashes = 1
  MaxCommands = 3
  Hazards = {"resume_after_interrupted_rollback"}
INVARIANTS
  IntactCopy
CHECK_DEADLOCK FALSE
