SPECIFICATION Spec
CONSTANTS
  N = 2
  Serves <- ServesTwo
  Contested <- Shop
  MaxTargets = 3
  MaxCommands = 3
  MaxCrashes = 1
  Deploys = {"before release"}
  LateTakers = FALSE
INVARIANTS
  RecordsSurvive
  TargetsHoldTheirOwn
  RolledBackIsWhole
  SucceededIsHandedOver
PROPERTIES
  MakeBeforeBreak
  NeverForcedOverForeign
CHECK_DEADLOCK FALSE
