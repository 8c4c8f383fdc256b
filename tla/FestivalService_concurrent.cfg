SPECIFICATION Spec
CONSTANTS
  Festivals = {f1}
  Games = {g1, g2}
  Requests = {r1, r2}
  Windows <- ThreeWindows
  Time <- Instants
  PoolSize = 2
  DirectoryAnswers = {"ids", "refused", "not_json"}
  MaxVersion = 2
  f1 = f1
  g1 = g1
  g2 = g2
  r1 = r1
  r2 = r2
  Absent = Absent
  Null = Null
SYMMETRY Symmetry
INVARIANTS TypeOK LockedCopyIsCurrent ListedGamesAreKnown
PROPERTIES VersionsAreWrittenOnce ImplementsAggregate
