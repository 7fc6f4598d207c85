CONSTANTS
  MaxTests = 2
  MaxSessions = 3
  MaxParses = 2
  Nothing = Nothing
SPECIFICATION NativeSpec
INVARIANTS RetainedIsLast MemorySound
PROPERTY RunReturns
CHECK_DEADLOCK FALSE
