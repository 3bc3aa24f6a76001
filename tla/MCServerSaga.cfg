SPECIFICATION Spec
CONSTANTS
  MaxRuns = 2
  MaxFaults = 1
  MaxPolls = 2
  Hazards = {"reboot_source"}
INVARIANTS
  StepsInOrder
  RolledBackIsUndone
PROPERTIES
  OwnInstanceKept
  RunEnds
CHECK_DEADLOCK FALSE
