SPECIFICATION Spec
CONSTANTS
  r1 = r1
  Nobody = Nobody
  Replicas = {r1}
  Messages <- Decoded
  MaxRetries = 1
  Outages = {"dead_letter"}
  MaxLog = 2
  MaxFaults = 1
INVARIANT CommittedWasSettled
CHECK_DEADLOCK FALSE
