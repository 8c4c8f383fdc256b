SPECIFICATION FairSpec
CONSTANTS
  r1 = r1
  r2 = r2
  Replicas = {r1, r2}
  Contents = {"a", "b", "c", "edited"}
  Releases <- ThreeReleases
  MaxFaults = 2
  Absent = Absent
  Nobody = Nobody
INVARIANTS TypeOK AppliedOnceInOrder OwnerIsCurrent RunsOnItsSchema ProducerOutlivesItsUsers
PROPERTY EveryReplicaServes
