SPECIFICATION FairSpec
CONSTANTS
  r1 = r1
  r2 = r2
  Requests = {r1, r2}
  Pages = {"detail"}
  Tokens = {"admin", "refresh"}
  TTL = 2
  MaxFill = 1
  MaxWrites = 2
INVARIANTS TypeOK CreatedIsFound RefusalsChangeNothing
PROPERTIES AnswersAreRecent CatchesUp OnlyHungRedisIsWaitedFor
