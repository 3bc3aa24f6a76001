SPECIFICATION Spec
CONSTANTS
  N = 2
  MaxCrashes = 1
  MaxCommands = 2
  Hazards = {}
INVARIANTS
  IntactCopy
  DeletedIsDeleted
  FailedDeleteLeavesPinned
PROPERTIES
  TargetIsSafeOnceDeleting
CHECK_DEADLOCK FALSE
