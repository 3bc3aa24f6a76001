SPECIFICATION RunSpec
CONSTANTS
  app = app
  service = service
  other = other
  Stacks <- MCStacks
  EnvOf <- MCEnvOf
INVARIANTS
  TakenOverStaysTaken
CHECK_DEADLOCK FALSE
