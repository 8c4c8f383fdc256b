SPECIFICATION Spec
CONSTANTS
  r1 = r1
  r2 = r2
  k1 = k1
  Replicas = {r1, r2}
  Keys = {k1}
  MaxMessages = 2
  BatchSize = 1
  MAX_ATTEMPTS = 2
  MaxFaults = 0
INVARIANT KeyingKeepsOrder
CHECK_DEADLOCK FALSE
