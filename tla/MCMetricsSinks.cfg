CONSTANTS
  MaxItems = 4
  c1 = c1
  c2 = c2
  Contexts <- MCContexts
SPECIFICATION Spec
INVARIANTS FileComplete DeliveryComplete NothingLeftBehind
PROPERTIES FileNotHeldByHttp FinishReturns
CHECK_DEADLOCK FALSE
