SPECIFICATION FairSpec
CONSTANTS
  Festivals = {f1}
  Games = {g1}
  Requests = {r1, r2, r3}
  Windows <- OneWindow
  Time <- Frozen
  PoolSize = 2
  DirectoryAnswers = {"ids", "not_json"}
  MaxVersion = 1
  f1 = f1
  g1 = g1
  r1 = r1
  r2 = r2
  r3 = r3
  Absent = Absent
  Null = Null
PROPERTY EveryRequestAnswered
