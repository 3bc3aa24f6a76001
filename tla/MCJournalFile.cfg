SPECIFICATION Spec
CONSTANTS
  Processes = {p1, p2}
  Cuts = {"between characters"}
  MaxAppends = 5
  MaxBroken = 2
INVARIANTS
  AppendsAreSafe
PROPERTIES
  IsARecordLog
CHECK_DEADLOCK FALSE
