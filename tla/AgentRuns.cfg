SPECIFICATION Spec
CONSTANTS
  t1 = t1
  t2 = t2
  Tests = {t1, t2}
  Mixes <- MCMixes
  Items = 2
  ResultCap = 1
  MaxConfigs = 2
  MaxPasses = 2
  MaxFaults = 1
  None = None
INVARIANTS PassIsComplete CancelIsNoFailure RadioRestored
PROPERTY LostStreamWindsDown
CHECK_DEADLOCK FALSE
