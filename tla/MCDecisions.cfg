SPECIFICATION Spec
CONSTANTS
  MaxRetries = 2
  Large = 2
  Texts <- LockedTexts
  Hazards = {}
INVARIANTS
  PlanPaysEveryDebt
  DnsDecisionsAreProven
  NothingLeftBehind
  PairingIsFaithful
  CopyIsWhole
  SchedulesAreExact
  LockedValuesAreExact
  VariablesAreCarried
  QuietMeansNoWriter
CHECK_DEADLOCK FALSE
