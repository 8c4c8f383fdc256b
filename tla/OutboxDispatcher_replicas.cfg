SPECIFICATION FairSpec
CONSTANTS
  r1 = r1
  r2 = r2
  k1 = k1
  Replicas = {r1, r2}
  Keys = {k1}
  MaxMessages = 3
  BatchSize = 2
  MAX_ATTEMPTS = 2
  MaxFaults = 1
INVARIANTS TypeOK BatchesAreDisjoint OnlyCommittedIsSent PublishedWasSent DuplicatesNeedFaults
PROPERTIES ImplementsChannel OvertakenOnlyIfHeld QueueDrains
CHECK_DEADLOCK FALSE
