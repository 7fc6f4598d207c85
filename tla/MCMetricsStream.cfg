CONSTANTS
  MaxItems = 4
  c1 = c1
  c2 = c2
  Contexts <- MCContexts
SPECIFICATION Spec
INVARIANTS NothingLost UniformEvents
PROPERTIES SplitsAreDue EveryoneGetsOut JoinReturns
CHECK_DEADLOCK FALSE
