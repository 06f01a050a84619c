\* Caches of several shapes, one slow measurement.
CONSTANTS
  MAX_ASSOCIATIVITY = 10
  MaxStride = 256
  Caches <- MCCaches
  Jumps = {13, 18}
  HitTime = 10
  MissTime = 40
  Delay = 60
  MaxDelays = 1
SPECIFICATION Spec
INVARIANTS
  FindsCache
CHECK_DEADLOCK FALSE
