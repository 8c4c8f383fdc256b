SPECIFICATION FairSpec
CONSTANTS
  r1 = r1
  r2 = r2
  Nobody = Nobody
  Replicas = {r1, r2}
  Messages <- AllKinds
  MaxRetries = 1
  Outages = {"crash", "rebalance", "database", "dead_letter"}
  MaxLog = 2
  MaxFaults = 3
INVARIANTS TypeOK NothingIsSkippedSilently BuriedForAReason
PROPERTY EveryMessageIsDealtWith
CHECK_DEADLOCK FALSE
