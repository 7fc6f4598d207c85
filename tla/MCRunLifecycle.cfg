CONSTANTS
  r1 = r1
  r2 = r2
  a1 = a1
  a2 = a2
  None = None
  Runs <- MCRuns
  Addrs <- MCAddrs
SPECIFICATION Spec
INVARIANTS OneNativeTest SigpipeScoped CallbackReachesItsRun SpawnHonest MetricsBeforeResult
PROPERTY CallsReturn
CHECK_DEADLOCK FALSE
