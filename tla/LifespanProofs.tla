--------------------------- MODULE LifespanProofs ---------------------------
(***************************************************************************)
(* Safety of the start and stop of any number of replicas, of any set of   *)
(* releases, with any number of faults.                                    *)
(***************************************************************************)
EXTENDS Lifespan, TLAPS

\* The lock is held by the replica that is between taking it and giving it back.
LockIsOwned ==
  \A r \in Replicas : stage[r] \in {"owner", "applying"} <=> lock = r

\* What is recorded is what was executed, file by file.
RecordedIsExecuted ==
  \A v \in Versions : recorded[v] # Absent <=> v \in DOMAIN executed

\* The files of a release before the one a replica has come to are applied as the
\* release has them; what it knows of the others is so.
ProgressIsTrue(r) ==
  /\ next[r] <= Len(release[r]) + 1
  /\ \A v \in Versions : v < next[r] => recorded[v] = release[r][v]
  /\ \A v \in Versions : v >= next[r] => known[r][v] = recorded[v]

SchemaHas(r) == \A n \in DOMAIN release[r] : recorded[n] = release[r][n]

MigrationInv ==
  /\ LockIsOwned
  /\ AppliedOnceInOrder
  /\ RecordedIsExecuted
  /\ \A r \in Replicas :
       /\ stage[r] \in {"connected", "creating", "waiting", "owner"} => next[r] = 1
       /\ stage[r] = "applying" => ProgressIsTrue(r)
       /\ stage[r] = "migrated" => SchemaHas(r)

\* What runs, for how far the start or the stop has come.
LifeInv ==
  \A r \in Replicas :
    /\ life[r] # "booting" => stage[r] = "migrated"
    /\ running[r] # {} => life[r] # "booting" /\ "producer" \in running[r]
    /\ life[r] \in {"producing", "ensured", "dispatching", "serving"} => "producer" \in running[r]
    /\ life[r] \in {"producing", "ensured"} => running[r] = {"producer"}
    /\ life[r] \notin {"booting", "producing"} => topics

LifespanInv == TypeOK /\ MigrationInv /\ LifeInv

-----------------------------------------------------------------------------
(* Types *)

LEMMA ReleaseType ==
  ASSUME TypeOK, NEW r \in Replicas
  PROVE  /\ release[r] \in Seq(Contents)
         /\ Len(release[r]) \in Versions
         /\ DOMAIN release[r] = 1 .. Len(release[r])
         /\ DOMAIN release[r] \subseteq Versions
         /\ next[r] \in 1 .. MaxFiles + 1
BY MigrationsAssumption DEF TypeOK, Versions, MaxFiles

\* The file a replica has come to.
LEMMA FileType ==
  ASSUME TypeOK, NEW r \in Replicas, AtFile(r)
  PROVE  /\ next[r] \in Versions
         /\ next[r] + 1 \in 1 .. MaxFiles + 1
         /\ next[r] \in DOMAIN release[r]
         /\ File(r) \in Contents
         /\ File(r) # Absent
<1>1. /\ release[r] \in Seq(Contents) /\ Len(release[r]) \in Versions
      /\ next[r] \in 1 .. MaxFiles + 1 /\ next[r] <= Len(release[r])
  BY ReleaseType DEF AtFile
<1>2. next[r] \in 1 .. Len(release[r]) /\ next[r] \in Versions
  <2> DEFINE n   == next[r]
             len == Len(release[r])
  <2>1. len \in 1 .. 3 /\ n \in 1 .. 4 /\ n <= len
    BY <1>1 DEF Versions, MaxFiles
  <2> HIDE DEF n, len
  <2>2. n \in 1 .. len /\ n \in 1 .. 3
    BY <2>1
  <2> QED BY <2>2 DEF n, len, Versions, MaxFiles
<1>3. release[r][next[r]] \in Contents
  BY <1>1, <1>2
<1> QED BY <1>1, <1>2, <1>3, MigrationsAssumption DEF File, Versions, MaxFiles

LEMMA TypeInit == LifeInit => TypeOK
<1> SUFFICES ASSUME LifeInit PROVE TypeOK
  OBVIOUS
<1>1. Nothing \in [Versions -> Contents \cup {Absent}]
  BY DEF Nothing
<1>2. 1 \in 1 .. MaxFiles + 1 /\ 0 \in 0 .. MaxFaults
  BY MigrationsAssumption DEF MaxFiles
<1>3. executed \in Seq([version : Versions, content : Contents])
  BY DEF LifeInit, Init
<1> QED BY <1>1, <1>2, <1>3 DEF LifeInit, Init, TypeOK, MigrationStages, Lives, Parts

LEMMA TypeMigrate ==
  ASSUME TypeOK, NEW r \in Replicas, Migrate(r), UNCHANGED lvars
  PROVE  TypeOK'
<1>0. UNCHANGED <<running, life, topics>>
  BY DEF lvars
<1>1. CASE Boot(r)
  <2>1. Nothing \in [Versions -> Contents \cup {Absent}]
    BY DEF Nothing
  <2> QED BY <1>0, <1>1, <2>1 DEF Boot, Goes, schema, TypeOK, MigrationStages, MaxFiles
<1>2. CASE LooksForTable(r) \/ CreateTable(r) \/ CreateCollides(r) \/ Lock(r) \/ ReadApplied(r)
  BY <1>0, <1>2 DEF LooksForTable, CreateTable, CreateCollides, Lock, ReadApplied, Goes, schema,
       TypeOK, MigrationStages
<1>3. CASE Skip(r)
  BY <1>0, <1>3, FileType DEF Skip, schema, TypeOK
<1>4. CASE Changed(r) \/ Unlock(r)
  BY <1>0, <1>4 DEF Changed, Unlock, Raise, Goes, schema, TypeOK, MigrationStages
<1>5. CASE Apply(r)
  <2>1. [version |-> next[r], content |-> File(r)] \in [version : Versions, content : Contents]
    BY <1>5, FileType DEF Apply
  <2>2. executed' \in Seq([version : Versions, content : Contents])
    BY <1>5, <2>1 DEF Apply, TypeOK
  <2>3. recorded' \in [Versions -> Contents \cup {Absent}] /\ next' \in [Replicas -> 1 .. MaxFiles + 1]
    BY <1>5, FileType DEF Apply, TypeOK
  <2> QED BY <1>0, <1>5, <2>2, <2>3 DEF Apply, TypeOK
<1>6. CASE ApplyFails(r)
  BY <1>0, <1>6, MigrationsAssumption DEF ApplyFails, Raise, Goes, schema, TypeOK, MigrationStages
<1> QED BY <1>1, <1>2, <1>3, <1>4, <1>5, <1>6 DEF Migrate

\* Of what the replica does for itself, and of its end.
LEMMA TypeLife ==
  ASSUME TypeOK, NEW r \in Replicas, Start(r) \/ Stop(r) \/ StopConsumer(r) \/ StopDispatcher(r) \/ StopProducer(r)
  PROVE  TypeOK' /\ UNCHANGED mvars
<1>1. ASSUME NEW part \in Parts, NEW where \in Lives, Begin(r, part, where)
      PROVE  TypeOK' /\ UNCHANGED mvars
  BY <1>1 DEF Begin, mvars, TypeOK
<1>2. ASSUME NEW part \in Parts, Finish(r, part)
      PROVE  TypeOK' /\ UNCHANGED mvars
  BY <1>2 DEF Finish, mvars, TypeOK
<1>3. CASE StartProducer(r) \/ StartDispatcher(r) \/ StartConsumer(r)
  BY <1>1, <1>3 DEF StartProducer, StartDispatcher, StartConsumer, Parts, Lives
<1>4. CASE EnsureTopics(r) \/ Stop(r)
  BY <1>4 DEF EnsureTopics, Stop, mvars, TypeOK, Lives
<1>5. CASE StopConsumer(r) \/ StopDispatcher(r) \/ StopProducer(r)
  BY <1>2, <1>5 DEF StopConsumer, StopDispatcher, StopProducer, Parts
<1> QED BY <1>3, <1>4, <1>5 DEF Start

LEMMA TypeEnd ==
  ASSUME TypeOK, NEW r \in Replicas, Ends(r), Dies(r) \/ Exit(r)
  PROVE  TypeOK'
<1>1. running' \in [Replicas -> SUBSET Parts] /\ life' \in [Replicas -> Lives] /\ topics' = topics
  BY DEF Ends, TypeOK, Lives
<1>2. stage' \in [Replicas -> MigrationStages]
  BY DEF Dies, Exit, Goes, TypeOK, MigrationStages
<1>3. lock' \in Replicas \cup {Nobody}
  BY DEF Dies, Exit, TypeOK
<1>4. faults' \in 0 .. MaxFaults
  BY MigrationsAssumption DEF Dies, Exit, TypeOK
<1>5. UNCHANGED <<table, recorded, executed, release, known, next>>
  BY DEF Dies, Exit, schema
<1> QED BY <1>1, <1>2, <1>3, <1>4, <1>5 DEF TypeOK

LEMMA TypeNext == TypeOK /\ [LifeNext]_vars => TypeOK'
<1> SUFFICES ASSUME TypeOK, [LifeNext]_vars PROVE TypeOK'
  OBVIOUS
<1>1. ASSUME NEW r \in Replicas, MigrateStep(r) PROVE TypeOK'
  BY <1>1, TypeMigrate DEF MigrateStep
<1>2. ASSUME NEW r \in Replicas,
             Start(r) \/ Stop(r) \/ StopConsumer(r) \/ StopDispatcher(r) \/ StopProducer(r)
      PROVE  TypeOK'
  BY <1>2, TypeLife
<1>3. ASSUME NEW r \in Replicas, Crash(r) \/ StartFails(r) \/ Exit(r) PROVE TypeOK'
  BY <1>3, TypeEnd DEF Crash, StartFails, Exit
<1>4. CASE UNCHANGED vars
  BY <1>4 DEF vars, TypeOK
<1> QED BY <1>1, <1>2, <1>3, <1>4 DEF LifeNext, Shutdown

\* The schema, the sessions and the parts keep their types.
THEOREM TypeCorrect == Spec => []TypeOK
BY TypeInit, TypeNext, PTL DEF Spec
-----------------------------------------------------------------------------
(* The migrations *)

LEMMA StartsEmpty == LifeInit => LifespanInv
<1> SUFFICES ASSUME LifeInit PROVE LifespanInv
  OBVIOUS
<1>1. TypeOK
  BY TypeInit
<1>2. executed = << >> /\ recorded = Nothing /\ lock = Nobody
      /\ \A r \in Replicas : stage[r] = "down" /\ running[r] = {} /\ life[r] = "booting"
  BY DEF LifeInit, Init
<1>3. LockIsOwned
  BY <1>2, MigrationsAssumption DEF LockIsOwned
<1>4. DOMAIN executed = {}
  BY <1>2
<1>5. AppliedOnceInOrder /\ RecordedIsExecuted
  BY <1>2, <1>4 DEF AppliedOnceInOrder, RecordedIsExecuted, Nothing
<1> QED BY <1>1, <1>2, <1>3, <1>5 DEF LifespanInv, MigrationInv, LifeInv

\* A replica that does not hold the lock leaves the schema alone.
LEMMA BeforeLockStep ==
  ASSUME TypeOK, MigrationInv, NEW r \in Replicas,
         Boot(r) \/ LooksForTable(r) \/ CreateTable(r) \/ CreateCollides(r)
  PROVE  MigrationInv'
<1>1. UNCHANGED <<recorded, executed, lock, release>>
      /\ \A q \in Replicas : q # r =>
           stage'[q] = stage[q] /\ next'[q] = next[q] /\ known'[q] = known[q]
  BY DEF Boot, LooksForTable, CreateTable, CreateCollides, Goes, schema, TypeOK
<1>2. /\ stage[r]  \in {"down", "connected", "creating"}
      /\ stage'[r] \in {"down", "connected", "creating", "waiting"}
      /\ stage'[r] # "down" => next'[r] = 1
  BY DEF Boot, LooksForTable, CreateTable, CreateCollides, Goes, TypeOK, MigrationInv
<1>3. LockIsOwned'
  <2> SUFFICES ASSUME NEW q \in Replicas
               PROVE  stage'[q] \in {"owner", "applying"} <=> lock = q
    BY <1>1 DEF LockIsOwned
  <2>1. CASE q = r
    BY <1>2, <2>1 DEF MigrationInv, LockIsOwned
  <2>2. CASE q # r
    BY <1>1, <2>2 DEF MigrationInv, LockIsOwned
  <2> QED BY <2>1, <2>2
<1>4. AppliedOnceInOrder' /\ RecordedIsExecuted'
  BY <1>1 DEF MigrationInv, AppliedOnceInOrder, RecordedIsExecuted
<1>5. ASSUME NEW q \in Replicas, q # r
      PROVE  /\ stage'[q] \in {"connected", "creating", "waiting", "owner"} => next'[q] = 1
             /\ stage'[q] = "applying" => ProgressIsTrue(q)'
             /\ stage'[q] = "migrated" => SchemaHas(q)'
  BY <1>1, <1>5 DEF MigrationInv, ProgressIsTrue, SchemaHas
<1> QED BY <1>2, <1>3, <1>4, <1>5 DEF MigrationInv

\* A replica gives the lock back, if it has it: it ends, or is done.
LEMMA ReleaseStep ==
  ASSUME TypeOK, MigrationInv, NEW r \in Replicas,
         UNCHANGED <<recorded, executed, release, known, next>>,
         lock' = IF lock = r THEN Nobody ELSE lock,
         NEW where \in {"down", "migrated"}, Goes(r, where),
         where = "migrated" => SchemaHas(r)
  PROVE  MigrationInv'
<1>1. /\ stage'[r] = where
      /\ \A q \in Replicas : q # r => stage'[q] = stage[q]
  BY DEF Goes, TypeOK
<1>2. LockIsOwned'
  <2> SUFFICES ASSUME NEW q \in Replicas
               PROVE  stage'[q] \in {"owner", "applying"} <=> lock' = q
    BY DEF LockIsOwned
  <2>1. CASE q = r
    BY <1>1, <2>1, MigrationsAssumption
  <2>2. CASE q # r
    BY <1>1, <2>2, MigrationsAssumption DEF MigrationInv, LockIsOwned
  <2> QED BY <2>1, <2>2
<1>3. AppliedOnceInOrder' /\ RecordedIsExecuted'
  BY DEF MigrationInv, AppliedOnceInOrder, RecordedIsExecuted
<1>4. ASSUME NEW q \in Replicas, q # r
      PROVE  /\ stage'[q] \in {"connected", "creating", "waiting", "owner"} => next'[q] = 1
             /\ stage'[q] = "applying" => ProgressIsTrue(q)'
             /\ stage'[q] = "migrated" => SchemaHas(q)'
  BY <1>1, <1>4 DEF MigrationInv, ProgressIsTrue, SchemaHas
<1>5. stage'[r] = "migrated" => SchemaHas(r)'
  BY <1>1 DEF SchemaHas
<1> QED BY <1>1, <1>2, <1>3, <1>4, <1>5 DEF MigrationInv

LEMMA LockStep ==
  ASSUME TypeOK, MigrationInv, NEW r \in Replicas, Lock(r) \/ ReadApplied(r)
  PROVE  MigrationInv'
<1>1. UNCHANGED <<recorded, executed, release, next>>
      /\ \A q \in Replicas : q # r => stage'[q] = stage[q] /\ known'[q] = known[q]
  BY DEF Lock, ReadApplied, Goes, schema, TypeOK
<1>2. lock' = r /\ lock \in {r, Nobody}
  BY DEF Lock, ReadApplied, MigrationInv, LockIsOwned
<1>3. /\ stage'[r] \in {"owner", "applying"}
      /\ next[r] = 1
      /\ stage'[r] = "applying" => known'[r] = recorded
  BY DEF Lock, ReadApplied, Goes, TypeOK, MigrationInv
<1>4. LockIsOwned'
  <2> SUFFICES ASSUME NEW q \in Replicas
               PROVE  stage'[q] \in {"owner", "applying"} <=> lock' = q
    BY DEF LockIsOwned
  <2>1. CASE q = r
    BY <1>2, <1>3, <2>1
  <2>2. CASE q # r
    BY <1>1, <1>2, <2>2, MigrationsAssumption DEF MigrationInv, LockIsOwned
  <2> QED BY <2>1, <2>2
<1>5. AppliedOnceInOrder' /\ RecordedIsExecuted'
  BY <1>1 DEF MigrationInv, AppliedOnceInOrder, RecordedIsExecuted
<1>6. ASSUME NEW q \in Replicas, q # r
      PROVE  /\ stage'[q] \in {"connected", "creating", "waiting", "owner"} => next'[q] = 1
             /\ stage'[q] = "applying" => ProgressIsTrue(q)'
             /\ stage'[q] = "migrated" => SchemaHas(q)'
  BY <1>1, <1>6 DEF MigrationInv, ProgressIsTrue, SchemaHas
<1>7. stage'[r] = "applying" => ProgressIsTrue(r)'
  BY <1>1, <1>3, ReleaseType DEF ProgressIsTrue, Versions
<1> QED BY <1>1, <1>3, <1>4, <1>5, <1>6, <1>7 DEF MigrationInv

-----------------------------------------------------------------------------
(* One file *)

\* Only the owner of the lock is at a file, and what it knows of the file is so.
LEMMA AtFileFacts ==
  ASSUME TypeOK, MigrationInv, NEW r \in Replicas, AtFile(r)
  PROVE  /\ lock = r
         /\ KnownFile(r) = recorded[next[r]]
         /\ ProgressIsTrue(r)
         /\ \A q \in Replicas : q # r => stage[q] \notin {"owner", "applying"}
<1>1. lock = r /\ ProgressIsTrue(r)
  BY DEF AtFile, MigrationInv, LockIsOwned
<1>2. KnownFile(r) = recorded[next[r]]
  BY <1>1, FileType DEF ProgressIsTrue, KnownFile, Versions
<1> QED BY <1>1, <1>2 DEF MigrationInv, LockIsOwned

LEMMA SkipStep ==
  ASSUME TypeOK, MigrationInv, NEW r \in Replicas, Skip(r)
  PROVE  MigrationInv'
<1> USE DEF Skip
<1>1. UNCHANGED <<recorded, executed, lock, stage, release, known>>
      /\ \A q \in Replicas : q # r => next'[q] = next[q]
  BY DEF schema, TypeOK
<1>2. next'[r] = next[r] + 1 /\ stage[r] = "applying" /\ next[r] \in Versions
      /\ next[r] <= Len(release[r]) /\ Len(release[r]) \in Versions
  BY FileType, ReleaseType DEF AtFile, TypeOK
<1>3. recorded[next[r]] = release[r][next[r]]
  BY AtFileFacts DEF File
<1>4. ProgressIsTrue(r)'
  <2> SUFFICES ASSUME NEW v \in Versions
               PROVE  /\ next[r] + 1 <= Len(release[r]) + 1
                      /\ v < next[r] + 1 => recorded[v] = release[r][v]
                      /\ v >= next[r] + 1 => known[r][v] = recorded[v]
    BY <1>1, <1>2 DEF ProgressIsTrue, Versions, MaxFiles
  <2>1. v < next[r] + 1 => v < next[r] \/ v = next[r]
    BY <1>2 DEF Versions
  <2>2. v >= next[r] + 1 => v >= next[r]
    BY <1>2 DEF Versions
  <2>3. next[r] + 1 <= Len(release[r]) + 1
    BY <1>2 DEF Versions
  <2> QED BY <2>1, <2>2, <2>3, <1>3, AtFileFacts DEF ProgressIsTrue
<1>5. LockIsOwned' /\ AppliedOnceInOrder' /\ RecordedIsExecuted'
  BY <1>1 DEF MigrationInv, LockIsOwned, AppliedOnceInOrder, RecordedIsExecuted
<1>6. ASSUME NEW q \in Replicas, q # r
      PROVE  /\ stage'[q] \in {"connected", "creating", "waiting", "owner"} => next'[q] = 1
             /\ stage'[q] = "applying" => ProgressIsTrue(q)'
             /\ stage'[q] = "migrated" => SchemaHas(q)'
  BY <1>1, <1>6 DEF MigrationInv, ProgressIsTrue, SchemaHas
<1> QED BY <1>1, <1>2, <1>4, <1>5, <1>6 DEF MigrationInv

\* A file without a row is the one after those that were executed.
LEMMA NextIsNew ==
  ASSUME TypeOK, MigrationInv, NEW r \in Replicas, AtFile(r), recorded[next[r]] = Absent
  PROVE  Len(executed) \in Nat /\ next[r] = Len(executed) + 1
<1>1. executed \in Seq([version : Versions, content : Contents])
  BY DEF TypeOK
<1>2. Len(executed) \in Nat /\ DOMAIN executed = 1 .. Len(executed)
  BY <1>1
<1>3. next[r] \in 1 .. 3 /\ next[r] \notin 1 .. Len(executed)
  BY <1>2, FileType DEF MigrationInv, RecordedIsExecuted, Versions, MaxFiles
<1>4. next[r] > 1 => next[r] - 1 \in 1 .. Len(executed)
  <2> SUFFICES ASSUME next[r] > 1 PROVE next[r] - 1 \in 1 .. Len(executed)
    OBVIOUS
  <2> DEFINE v == next[r] - 1
  <2>1. v \in Versions /\ v < next[r] /\ v \in 1 .. Len(release[r])
    BY <1>3, ReleaseType DEF Versions, MaxFiles, AtFile
  <2>2. recorded[v] = release[r][v]
    BY <2>1, AtFileFacts DEF ProgressIsTrue
  <2>3. recorded[v] # Absent
    BY <2>1, <2>2, ReleaseType, MigrationsAssumption
  <2> QED BY <1>2, <2>1, <2>3 DEF MigrationInv, RecordedIsExecuted
<1> QED BY <1>2, <1>3, <1>4

LEMMA ApplyStep ==
  ASSUME TypeOK, MigrationInv, NEW r \in Replicas, Apply(r)
  PROVE  MigrationInv'
<1> DEFINE n   == next[r]
           row == [version |-> n, content |-> File(r)]
<1>1. AtFile(r) /\ recorded[n] = Absent /\ executed' = Append(executed, row)
      /\ UNCHANGED <<lock, stage, release, known>>
  BY DEF Apply
<1>2. /\ n \in Versions /\ n \in DOMAIN release[r] /\ File(r) # Absent
      /\ n <= Len(release[r]) /\ Len(release[r]) \in Versions /\ File(r) = release[r][n]
  BY <1>1, FileType, ReleaseType DEF AtFile, File
<1>3. /\ recorded'[n] = File(r)
      /\ \A v \in Versions : v # n => recorded'[v] = recorded[v]
      /\ next'[r] = n + 1
      /\ \A q \in Replicas : q # r => next'[q] = next[q]
  BY <1>2 DEF Apply, TypeOK
<1>4. /\ Len(executed) \in Nat /\ n = Len(executed) + 1
      /\ DOMAIN executed = 1 .. Len(executed) /\ DOMAIN executed' = 1 .. n
      /\ executed'[n] = row /\ \A v \in 1 .. Len(executed) : executed'[v] = executed[v]
  <2>1. executed \in Seq([version : Versions, content : Contents])
    BY DEF TypeOK
  <2>2. Len(executed) \in Nat /\ n = Len(executed) + 1
    BY <1>1, NextIsNew
  <2>3. row \in [version : Versions, content : Contents]
    BY <1>1, FileType
  <2> QED BY <1>1, <2>1, <2>2, <2>3
<1>5. LockIsOwned'
  BY <1>1 DEF MigrationInv, LockIsOwned
<1>6. AppliedOnceInOrder'
  <2>1. ASSUME NEW v \in DOMAIN executed'
        PROVE  executed'[v].version = v /\ executed'[v].content = recorded'[v]
    <3>1. CASE v = n
      BY <1>3, <1>4, <3>1
    <3>2. CASE v # n
      <4>1. v \in 1 .. Len(executed)
        BY <1>4, <2>1, <3>2
      <4>2. executed[v].version = v /\ executed[v].content = recorded[v]
        BY <1>4, <4>1 DEF MigrationInv, AppliedOnceInOrder
      <4>3. v \in Versions
        BY <1>2, <1>4, <4>1 DEF Versions, MaxFiles
      <4> QED BY <1>3, <1>4, <3>2, <4>1, <4>2, <4>3
    <3> QED BY <3>1, <3>2
  <2>2. ASSUME NEW v \in Versions, recorded'[v] # Absent
        PROVE  v \in DOMAIN executed'
    <3>1. CASE v = n
      BY <1>4, <3>1
    <3>2. CASE v # n
      <4>1. v \in DOMAIN executed
        BY <1>3, <2>2, <3>2 DEF MigrationInv, AppliedOnceInOrder
      <4> QED BY <1>4, <4>1
    <3> QED BY <3>1, <3>2
  <2> QED BY <2>1, <2>2 DEF AppliedOnceInOrder
<1>7. RecordedIsExecuted'
  <2> SUFFICES ASSUME NEW v \in Versions
               PROVE  recorded'[v] # Absent <=> v \in DOMAIN executed'
    BY DEF RecordedIsExecuted
  <2>1. CASE v = n
    BY <1>2, <1>3, <1>4, <2>1
  <2>2. CASE v # n
    <3>1. v \in DOMAIN executed' <=> v \in DOMAIN executed
      BY <1>4, <2>2 DEF Versions
    <3> QED BY <1>3, <2>2, <3>1 DEF MigrationInv, RecordedIsExecuted
  <2> QED BY <2>1, <2>2
<1>8. stage[r] = "applying" /\ ProgressIsTrue(r)'
  <2>1. stage[r] = "applying" /\ ProgressIsTrue(r)
    BY <1>1, AtFileFacts DEF AtFile
  <2>2. next'[r] <= Len(release'[r]) + 1
    BY <1>1, <1>2, <1>3 DEF Versions
  <2>3. ASSUME NEW v \in Versions, v < next'[r]
        PROVE  recorded'[v] = release'[r][v]
    <3>1. v = n \/ (v < n /\ v # n)
      BY <1>2, <1>3, <2>3 DEF Versions
    <3> QED BY <1>1, <1>2, <1>3, <2>1, <3>1 DEF ProgressIsTrue
  <2>4. ASSUME NEW v \in Versions, v >= next'[r]
        PROVE  known'[r][v] = recorded'[v]
    <3>1. v >= n /\ v # n
      BY <1>2, <1>3, <2>4 DEF Versions
    <3> QED BY <1>1, <1>3, <2>1, <3>1 DEF ProgressIsTrue
  <2> QED BY <2>1, <2>2, <2>3, <2>4 DEF ProgressIsTrue
<1>9. ASSUME NEW q \in Replicas, q # r
      PROVE  /\ stage[q] \in {"connected", "creating", "waiting", "owner"} => next'[q] = 1
             /\ stage[q] # "applying"
             /\ stage[q] = "migrated" => SchemaHas(q)'
  <2>1. stage[q] # "applying"
    BY <1>1, <1>9, AtFileFacts
  <2>2. stage[q] \in {"connected", "creating", "waiting", "owner"} => next'[q] = 1
    BY <1>3, <1>9 DEF MigrationInv
  <2>3. ASSUME stage[q] = "migrated", NEW v \in DOMAIN release[q]
        PROVE  recorded'[v] = release[q][v]
    <3>1. recorded[v] = release[q][v]
      BY <2>3 DEF MigrationInv, SchemaHas
    <3>2. v \in Versions /\ release[q][v] # Absent
      BY ReleaseType, MigrationsAssumption
    <3> QED BY <1>1, <1>3, <3>1, <3>2
  <2> QED BY <1>1, <2>1, <2>2, <2>3 DEF SchemaHas
<1> QED BY <1>1, <1>5, <1>6, <1>7, <1>8, <1>9 DEF MigrationInv

-----------------------------------------------------------------------------
(* The whole *)

LEMMA MigrateStepInv ==
  ASSUME TypeOK, MigrationInv, NEW r \in Replicas, Migrate(r)
  PROVE  MigrationInv'
<1>1. CASE Boot(r) \/ LooksForTable(r) \/ CreateTable(r) \/ CreateCollides(r)
  BY <1>1, BeforeLockStep
<1>2. CASE Lock(r) \/ ReadApplied(r)
  BY <1>2, LockStep
<1>3. CASE Skip(r)
  BY <1>3, SkipStep
<1>4. CASE Apply(r)
  BY <1>4, ApplyStep
<1>5. CASE Changed(r) \/ ApplyFails(r)
  <2>1. lock = r
    BY <1>5, AtFileFacts DEF Changed, ApplyFails
  <2> QED BY <1>5, <2>1, ReleaseStep DEF Changed, ApplyFails, Raise, schema
<1>6. CASE Unlock(r)
  <2>1. lock = r /\ ProgressIsTrue(r)
    BY <1>6 DEF Unlock, MigrationInv, LockIsOwned
  <2>2. SchemaHas(r)
    <3> SUFFICES ASSUME NEW v \in DOMAIN release[r] PROVE recorded[v] = release[r][v]
      BY DEF SchemaHas
    <3>1. v \in Versions /\ v < next[r]
      BY <1>6, ReleaseType DEF Unlock, Versions, MaxFiles
    <3> QED BY <2>1, <3>1 DEF ProgressIsTrue
  <2> QED BY <1>6, <2>1, <2>2, ReleaseStep DEF Unlock, schema
<1> QED BY <1>1, <1>2, <1>3, <1>4, <1>5, <1>6 DEF Migrate

\* A replica that migrates has nothing running yet.
LEMMA MigrateLife ==
  ASSUME TypeOK, LifeInv, NEW r \in Replicas, Migrate(r), UNCHANGED lvars
  PROVE  LifeInv'
<1>1. stage[r] # "migrated" /\ \A q \in Replicas : q # r => stage'[q] = stage[q]
  <2>1. CASE Boot(r) \/ LooksForTable(r) \/ CreateTable(r) \/ CreateCollides(r)
    BY <2>1 DEF Boot, LooksForTable, CreateTable, CreateCollides, Goes, TypeOK
  <2>2. CASE Lock(r) \/ ReadApplied(r) \/ Unlock(r)
    BY <2>2 DEF Lock, ReadApplied, Unlock, Goes, TypeOK
  <2>3. CASE Skip(r) \/ Changed(r) \/ Apply(r) \/ ApplyFails(r)
    BY <2>3 DEF Skip, Changed, Apply, ApplyFails, Raise, AtFile, Goes, TypeOK
  <2> QED BY <2>1, <2>2, <2>3 DEF Migrate
<1>2. UNCHANGED <<running, life, topics>>
  BY DEF lvars
<1>3. life[r] = "booting"
  BY <1>1 DEF LifeInv
<1> QED BY <1>1, <1>2, <1>3 DEF LifeInv

LEMMA EndStep ==
  ASSUME LifespanInv, NEW r \in Replicas, Ends(r), Dies(r) \/ Exit(r)
  PROVE  MigrationInv' /\ LifeInv'
<1>1. Goes(r, "down") /\ UNCHANGED <<recorded, executed, release, known, next>>
  BY DEF Dies, Exit, schema
<1>2. lock' = IF lock = r THEN Nobody ELSE lock
  <2>1. CASE Dies(r)
    BY <2>1 DEF Dies
  <2>2. CASE Exit(r)
    BY <2>2 DEF Exit, LifespanInv, LifeInv, MigrationInv, LockIsOwned
  <2> QED BY <2>1, <2>2
<1>3. MigrationInv'
  BY <1>1, <1>2, ReleaseStep DEF LifespanInv
<1>4. /\ life'[r] = "booting" /\ running'[r] = {} /\ topics' = topics
      /\ \A q \in Replicas : q # r =>
           life'[q] = life[q] /\ running'[q] = running[q] /\ stage'[q] = stage[q]
  BY <1>1 DEF Ends, Goes, LifespanInv, TypeOK
<1> QED BY <1>3, <1>4 DEF LifespanInv, LifeInv

LEMMA LifeStep ==
  ASSUME LifespanInv, NEW r \in Replicas,
         Start(r) \/ Stop(r) \/ StopConsumer(r) \/ StopDispatcher(r) \/ StopProducer(r)
  PROVE  MigrationInv' /\ LifeInv'
<1> USE DEF LifespanInv
<1>1. UNCHANGED mvars
  BY TypeLife
<1>2. MigrationInv'
  BY <1>1 DEF mvars, MigrationInv, LockIsOwned, AppliedOnceInOrder, RecordedIsExecuted,
       ProgressIsTrue, SchemaHas
<1>3. \A q \in Replicas : q # r => life'[q] = life[q] /\ running'[q] = running[q]
  BY DEF Start, StartProducer, EnsureTopics, StartDispatcher, StartConsumer, Begin, Stop,
       StopConsumer, StopDispatcher, StopProducer, Finish, TypeOK
<1>4. topics => topics'
  BY DEF Start, StartProducer, EnsureTopics, StartDispatcher, StartConsumer, Begin, Stop,
       StopConsumer, StopDispatcher, StopProducer, Finish
<1>5. ASSUME NEW q \in Replicas, q # r
      PROVE  /\ life'[q] # "booting" => stage'[q] = "migrated"
             /\ running'[q] # {} => life'[q] # "booting" /\ "producer" \in running'[q]
             /\ life'[q] \in {"producing", "ensured", "dispatching", "serving"} => "producer" \in running'[q]
             /\ life'[q] \in {"producing", "ensured"} => running'[q] = {"producer"}
             /\ life'[q] \notin {"booting", "producing"} => topics'
  BY <1>1, <1>3, <1>4, <1>5 DEF mvars, LifeInv
<1>6. /\ life'[r] # "booting" => stage'[r] = "migrated"
      /\ running'[r] # {} => life'[r] # "booting" /\ "producer" \in running'[r]
      /\ life'[r] \in {"producing", "ensured", "dispatching", "serving"} => "producer" \in running'[r]
      /\ life'[r] \in {"producing", "ensured"} => running'[r] = {"producer"}
      /\ life'[r] \notin {"booting", "producing"} => topics'
  <2>0. stage'[r] = stage[r]
    BY <1>1 DEF mvars
  <2>1. CASE StartProducer(r)
    BY <2>0, <2>1 DEF StartProducer, Begin, TypeOK, LifeInv
  <2>2. CASE EnsureTopics(r)
    BY <2>0, <2>2 DEF EnsureTopics, TypeOK, LifeInv
  <2>3. CASE StartDispatcher(r) \/ StartConsumer(r)
    BY <2>0, <2>3 DEF StartDispatcher, StartConsumer, Begin, TypeOK, LifeInv
  <2>4. CASE Stop(r)
    BY <2>0, <2>4 DEF Stop, TypeOK, LifeInv
  <2>5. CASE StopConsumer(r) \/ StopDispatcher(r)
    BY <2>0, <2>5 DEF StopConsumer, StopDispatcher, Finish, TypeOK, LifeInv
  <2>6. CASE StopProducer(r)
    BY <2>0, <2>6 DEF StopProducer, Finish, TypeOK, LifeInv
  <2> QED BY <2>1, <2>2, <2>3, <2>4, <2>5, <2>6 DEF Start
<1> QED BY <1>2, <1>5, <1>6 DEF LifeInv

LEMMA LifespanNext == LifespanInv /\ [LifeNext]_vars => LifespanInv'
<1> SUFFICES ASSUME LifespanInv, [LifeNext]_vars PROVE LifespanInv'
  OBVIOUS
<1>0. TypeOK /\ TypeOK'
  BY TypeNext DEF LifespanInv
<1>1. ASSUME NEW r \in Replicas, MigrateStep(r) PROVE MigrationInv' /\ LifeInv'
  BY <1>1, MigrateStepInv, MigrateLife DEF MigrateStep, LifespanInv
<1>2. ASSUME NEW r \in Replicas,
             Start(r) \/ Stop(r) \/ StopConsumer(r) \/ StopDispatcher(r) \/ StopProducer(r)
      PROVE  MigrationInv' /\ LifeInv'
  BY <1>2, LifeStep
<1>3. ASSUME NEW r \in Replicas, Crash(r) \/ StartFails(r) \/ Exit(r)
      PROVE  MigrationInv' /\ LifeInv'
  BY <1>3, EndStep DEF Crash, StartFails, Exit
<1>4. CASE UNCHANGED vars
  <2>1. MigrationInv'
    BY <1>4 DEF vars, LifespanInv, MigrationInv, LockIsOwned, AppliedOnceInOrder,
         RecordedIsExecuted, ProgressIsTrue, SchemaHas
  <2> QED BY <1>0, <1>4, <2>1 DEF vars, LifespanInv, LifeInv
<1> QED BY <1>0, <1>1, <1>2, <1>3, <1>4 DEF LifeNext, Shutdown, LifespanInv

\* The invariant: the lock is held by the replica that migrates, it knows what is
\* recorded, what is recorded was executed, and nothing runs before that is done.
THEOREM LifespanInvCorrect == Spec => []LifespanInv
BY StartsEmpty, LifespanNext, PTL DEF Spec

\* Each file is executed once, in order, and recorded exactly if it was executed.
THEOREM FilesApplyOnceInOrder == Spec => []AppliedOnceInOrder
<1>1. LifespanInv => AppliedOnceInOrder
  BY DEF LifespanInv, MigrationInv
<1> QED BY <1>1, LifespanInvCorrect, PTL

\* What the owner of the advisory lock has read stays so until it gives it back.
THEOREM OwnersStayCurrent == Spec => []OwnerIsCurrent
<1>1. LifespanInv => OwnerIsCurrent
  BY AtFileFacts DEF LifespanInv, OwnerIsCurrent
<1> QED BY <1>1, LifespanInvCorrect, PTL

\* A replica works, and serves, only on the schema of its own release.
THEOREM ReplicasRunOnTheirSchema == Spec => []RunsOnItsSchema
<1>1. LifespanInv => RunsOnItsSchema
  BY DEF LifespanInv, MigrationInv, LifeInv, SchemaHas, RunsOnItsSchema
<1> QED BY <1>1, LifespanInvCorrect, PTL

\* The producer and the topics are there as long as a part that sends is.
THEOREM ProducersOutliveTheirUsers == Spec => []ProducerOutlivesItsUsers
<1>1. ASSUME LifespanInv, NEW r \in Replicas, running[r] \cap {"dispatcher", "consumer"} # {}
      PROVE  topics /\ "producer" \in running[r]
  <2>1. running[r] # {} /\ running[r] # {"producer"}
    BY <1>1
  <2> QED BY <1>1, <2>1 DEF LifespanInv, LifeInv
<1>2. LifespanInv => ProducerOutlivesItsUsers
  BY <1>1 DEF ProducerOutlivesItsUsers
<1> QED BY <1>2, LifespanInvCorrect, PTL
=============================================================================
