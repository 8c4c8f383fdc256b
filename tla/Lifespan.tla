------------------------------ MODULE Lifespan ------------------------------
(***************************************************************************)
(* The lifespan of app/bootstrap.py: what a replica starts, in which order *)
(* it stops it, and what each part may rely on meanwhile.                  *)
(*                                                                         *)
(* The schema is migrated first (Migrations), then come the producer, the  *)
(* topics, the Dispatcher and the consumer; only then are requests served. *)
(* Whatever raises before that ends the process, which is started again.   *)
(***************************************************************************)
EXTENDS Migrations

VARIABLES
  running,  \* per replica, what has been started and not stopped
  life,     \* booting, the last step of the start it has made, or its stop
  topics    \* whether the topics this service owns exist

lvars == <<running, life, topics>>
vars  == <<table, recorded, executed, lock, stage, release, known, next, faults,
           running, life, topics>>

Parts == {"producer", "dispatcher", "consumer"}
Lives == {"booting", "producing", "ensured", "dispatching", "serving", "stopping"}

LifeInit ==
  /\ Init
  /\ running = [r \in Replicas |-> {}]
  /\ life    = [r \in Replicas |-> "booting"]
  /\ topics  = FALSE

MigrateStep(r) == Migrate(r) /\ UNCHANGED lvars

-----------------------------------------------------------------------------
(* Before the yield *)

Begin(r, part, where) ==
  /\ running' = [running EXCEPT ![r] = @ \cup {part}]
  /\ life'    = [life EXCEPT ![r] = where]
  /\ UNCHANGED <<mvars, topics>>

StartProducer(r) ==
  /\ stage[r] = "migrated"
  /\ life[r] = "booting"
  /\ Begin(r, "producer", "producing")

\* Topics that are there already are no error.  An answer that does not raise is
\* taken to mean that they are there now: the code does not look into it.
EnsureTopics(r) ==
  /\ life[r] = "producing"
  /\ topics' = TRUE
  /\ life'   = [life EXCEPT ![r] = "ensured"]
  /\ UNCHANGED <<mvars, running>>

StartDispatcher(r) ==
  /\ life[r] = "ensured"
  /\ Begin(r, "dispatcher", "dispatching")

StartConsumer(r) ==
  /\ life[r] = "dispatching"
  /\ Begin(r, "consumer", "serving")

\* The process is gone, and every part of it.
Ends(r) ==
  /\ running' = [running EXCEPT ![r] = {}]
  /\ life'    = [life EXCEPT ![r] = "booting"]
  /\ UNCHANGED topics

\* Kafka cannot be reached: nothing catches what start or ensure_topics raises.
StartFails(r) ==
  /\ stage[r] = "migrated"
  /\ life[r] \in {"booting", "producing", "dispatching"}
  /\ Dies(r)
  /\ Ends(r)

-----------------------------------------------------------------------------
(* After it *)

Stop(r) ==
  /\ life[r] = "serving"
  /\ life' = [life EXCEPT ![r] = "stopping"]
  /\ UNCHANGED <<mvars, running, topics>>

Finish(r, part) ==
  /\ life[r] = "stopping"
  /\ part \in running[r]
  /\ running' = [running EXCEPT ![r] = @ \ {part}]
  /\ UNCHANGED <<mvars, life, topics>>

\* Mutant: in the order of the start.
StopProducerFirst(r) == Finish(r, "producer")

StopConsumer(r)   == Finish(r, "consumer")
StopDispatcher(r) == "consumer" \notin running[r] /\ Finish(r, "dispatcher")
StopProducer(r)   == running[r] = {"producer"} /\ Finish(r, "producer")

Exit(r) ==
  /\ life[r] = "stopping"
  /\ running[r] = {}
  /\ Goes(r, "down")
  /\ Ends(r)
  /\ UNCHANGED <<schema, lock, release, known, next, faults>>

Crash(r) == Dies(r) /\ Ends(r)

Start(r)    == StartProducer(r) \/ EnsureTopics(r) \/ StartDispatcher(r) \/ StartConsumer(r)
Shutdown(r) == StopConsumer(r) \/ StopDispatcher(r) \/ StopProducer(r) \/ Exit(r)

LifeNext ==
  \E r \in Replicas :
    MigrateStep(r) \/ Start(r) \/ StartFails(r) \/ Stop(r) \/ Shutdown(r) \/ Crash(r)

Spec == LifeInit /\ [][LifeNext]_vars

\* A process that ends is started again, one that can go on does, and Postgres
\* grants the advisory lock to whoever waits in turn.  Nothing has to stop or to
\* break.
Fairness ==
  \A r \in Replicas :
    /\ SF_vars(Lock(r) /\ UNCHANGED lvars)
    /\ WF_vars(MigrateStep(r) \/ Start(r) \/ Shutdown(r))

FairSpec == Spec /\ Fairness

-----------------------------------------------------------------------------
(* Properties *)

\* The schema, the sessions and the parts keep their types.
TypeOK ==
  /\ table    \in BOOLEAN
  /\ recorded \in [Versions -> Contents \cup {Absent}]
  /\ executed \in Seq([version : Versions, content : Contents])
  /\ lock     \in Replicas \cup {Nobody}
  /\ stage    \in [Replicas -> MigrationStages]
  /\ release  \in [Replicas -> Releases]
  /\ known    \in [Replicas -> [Versions -> Contents \cup {Absent}]]
  /\ next     \in [Replicas -> 1 .. MaxFiles + 1]
  /\ faults   \in 0 .. MaxFaults
  /\ running  \in [Replicas -> SUBSET Parts]
  /\ life     \in [Replicas -> Lives]
  /\ topics   \in BOOLEAN

\* The release and the table disagree about a file.
Conflicts(r) ==
  \E n \in DOMAIN release[r] : recorded[n] \notin {Absent, release[r][n]}

\* "Instead of leaving two environments quietly different": no part of a replica
\* works, and no request is served, on a schema that lacks a file of its release
\* or had another content in it, whoever migrated it and when.
RunsOnItsSchema ==
  \A r \in Replicas : running[r] # {} \/ life[r] = "serving" =>
    \A n \in DOMAIN release[r] : recorded[n] = release[r][n]

\* The Dispatcher sends, and the consumer buries, through the producer, on topics
\* no broker creates by itself: neither runs without them, while the replica
\* starts or while it stops.  A burial that finds no producer loses the message.
ProducerOutlivesItsUsers ==
  \A r \in Replicas :
    running[r] \cap {"dispatcher", "consumer"} # {} => topics /\ "producer" \in running[r]

\* However the replicas collide and die, each comes to serve, again and again if
\* it is stopped, unless its release conflicts with the schema.
EveryReplicaServes ==
  \A r \in Replicas : []<>(life[r] = "serving" \/ Conflicts(r))
=============================================================================
