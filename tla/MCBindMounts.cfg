SPECIFICATION Spec
CONSTANTS
  MaxRetries = 2
  Large = 2
  Texts <- LockedTexts
  Hazards = {}
INVARIANT BindMountsAreMirrored
CHECK_DEADLOCK FALSE
