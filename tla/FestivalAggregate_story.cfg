SPECIFICATION Spec
CONSTANTS
  f1 = f1
  g1 = g1
  g2 = g2
  g3 = g3
  Festivals = {f1}
  Games = {g1, g2, g3}
  Windows <- MCWindows
  Time <- Instants
  MaxVersion = 7
  Absent = Absent
  Null = Null
CONSTRAINT Bounded
SYMMETRY Symmetry
INVARIANTS TypeOK OutboxTellsRow OutboxIsAStory StartedStaysTrue
PROPERTY LifecycleOnlyForward
CHECK_DEADLOCK FALSE
