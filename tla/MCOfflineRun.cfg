SPECIFICATION RunSpec
CONSTANTS
  app = app
  service = service
  other = other
  Stacks <- MCStacks
  EnvOf <- MCEnvOf
INVARIANTS
  NoRivalToTheCopy
PROPERTIES
  EndsAnswered
CHECK_DEADLOCK FALSE
