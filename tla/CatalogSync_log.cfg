SPECIFICATION Spec
CONSTANTS
  f1 = f1
  g1 = g1
  p1 = p1
  r1 = r1
  Absent = Absent
  Null = Null
  Nobody = Nobody
  Festivals = {f1}
  Games = {g1}
  Promotions = {p1}
  Windows <- OneWindow
  Time <- Instants
  MaxVersion = 2
  Replicas = {r1}
  Messages <- AllMessages
  MaxRetries = 1
  Outages = {"crash", "database"}
  MaxLog = 3
  MaxFaults = 1
INVARIANTS TypeOK ReadModelsFollowLog AnnouncedOncePerApproval
CHECK_DEADLOCK FALSE
