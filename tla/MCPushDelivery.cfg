CONSTANTS
  s1 = s1
  s2 = s2
  Characters <- MCCharacters
  Sinks <- MCSinks
  Configs <- MCChoices
  MaxRetries = 1
  MaxSamples = 2
  MaxUnderWay = 1
SPECIFICATION Spec
INVARIANTS OwnGroupOnly FreshUnlessLate
PROPERTY DeliveryEnds
CHECK_DEADLOCK FALSE
