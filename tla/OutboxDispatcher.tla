-------------------------- MODULE OutboxDispatcher --------------------------
(***************************************************************************)
(* app/platform/outbox.py: the transactional outbox and the Dispatchers,   *)
(* one per replica, that drain it onto the festival-events topic.          *)
(*                                                                         *)
(* A row is inserted by a writer's transaction and visible once that       *)
(* commits.  A Dispatcher claims a batch with FOR UPDATE SKIP LOCKED,      *)
(* sends its rows one by one, and commits what came of each; a crash, or a *)
(* commit that fails, leaves the batch as it was.                          *)
(***************************************************************************)
EXTENDS Integers, Sequences, FiniteSets

CONSTANTS
  Replicas,      \* one Dispatcher each
  Keys,          \* partition keys: the aggregate ids
  MaxMessages,   \* bound: rows ever inserted
  BatchSize,     \* outbox_batch_size
  MAX_ATTEMPTS,  \* failed sends after which a row is no longer selected
  MaxFaults      \* bound: crashes, lost acknowledgements and outages

ASSUME DispatcherAssumption ==
  /\ MaxMessages \in Nat
  /\ BatchSize \in Nat \ {0}
  /\ MAX_ATTEMPTS \in Nat \ {0}
  /\ MaxFaults \in Nat

Ids == 1 .. MaxMessages

\* A festival event is written under the festival's row lock, DiscountApplied
\* under none.
Kinds == {"festival", "discount"}

\* unused: the sequence has not reached the id.  inserting: not committed.
RowStates == {"unused", "inserting", "rolled_back", "pending", "published"}

VARIABLES
  message,  \* outbox_messages, by id
  todo,     \* per replica, the rows of its batch that are still to be sent
  sent,     \* per replica, the rows it will mark published when it commits
  failed,   \* per replica, the rows whose attempts it will raise
  topic,    \* festival-events: the ids in the order the broker appended them
  broker,   \* "up" or "down"
  faults    \* how much has gone wrong

vars  == <<message, todo, sent, failed, topic, broker, faults>>
batch == <<todo, sent, failed>>

Claimed(r) == todo[r] \cup sent[r] \cup failed[r]

\* Rows that some replica's transaction has locked.
Locked == UNION {Claimed(r) : r \in Replicas}

Init ==
  /\ message = [i \in Ids |-> [state |-> "unused"]]
  /\ todo    = [r \in Replicas |-> {}]
  /\ sent    = [r \in Replicas |-> {}]
  /\ failed  = [r \in Replicas |-> {}]
  /\ topic   = << >>
  /\ broker  = "up"
  /\ faults  = 0

-----------------------------------------------------------------------------
(* Writers *)

\* enqueue, then the flush that takes the next id.  Writers of one festival wait
\* for each other; a writer of DiscountApplied waits for nobody.
Insert(i, key, kind) ==
  /\ message[i].state = "unused"
  /\ \A j \in 1 .. i - 1 : message[j].state # "unused"
  /\ kind = "festival" =>
       \A j \in Ids : ~ /\ message[j].state = "inserting"
                        /\ message[j].key = key
                        /\ message[j].kind = "festival"
  /\ message' = [message EXCEPT ![i] =
       [state |-> "inserting", key |-> key, kind |-> kind, attempts |-> 0]]
  /\ UNCHANGED <<batch, topic, broker, faults>>

EndInsert(i, how) ==
  /\ message[i].state = "inserting"
  /\ message' = [message EXCEPT ![i].state = how]
  /\ UNCHANGED <<batch, topic, broker, faults>>

CommitInsert(i)   == EndInsert(i, "pending")
RollbackInsert(i) == EndInsert(i, "rolled_back")

-----------------------------------------------------------------------------
(* drain_once *)

\* Mutants: a row is given up one failure too late; a row is visible before its
\* transaction commits; a row that has failed is never selected again.
SelectableOnceMore == {i \in Ids : message[i].state = "pending" /\ message[i].attempts <= MAX_ATTEMPTS}
SelectableDirty    ==
  {i \in Ids : message[i].state \in {"inserting", "pending"} /\ message[i].attempts < MAX_ATTEMPTS}
SelectableUntried  == {i \in Ids : message[i].state = "pending" /\ message[i].attempts = 0}

Selectable == {i \in Ids : message[i].state = "pending" /\ message[i].attempts < MAX_ATTEMPTS}

\* Mutant: a plain select, so two replicas take the same rows.
ClaimPlain(r) ==
  LET free == Selectable IN
  /\ Claimed(r) = {}
  /\ free # {}
  /\ todo' = [todo EXCEPT ![r] = {i \in free : Cardinality({j \in free : j < i}) < BatchSize}]
  /\ UNCHANGED <<message, sent, failed, topic, broker, faults>>

\* The select: the first rows, by id, that nobody else has locked.
Claim(r) ==
  LET free == Selectable \ Locked IN
  /\ Claimed(r) = {}
  /\ free # {}
  /\ todo' = [todo EXCEPT ![r] = {i \in free : Cardinality({j \in free : j < i}) < BatchSize}]
  /\ UNCHANGED <<message, sent, failed, topic, broker, faults>>

\* Mutant: no ORDER BY, so a batch comes in any order.
IsNextUnordered(r, i) == i \in todo[r]

\* The loop sends the batch in id order.
IsNext(r, i) == i \in todo[r] /\ \A j \in todo[r] : i <= j

Send(r) ==
  /\ broker = "up"
  /\ \E i \in todo[r] :
       /\ IsNext(r, i)
       /\ todo'  = [todo EXCEPT ![r] = @ \ {i}]
       /\ sent'  = [sent EXCEPT ![r] = @ \cup {i}]
       /\ topic' = Append(topic, i)
  /\ UNCHANGED <<message, failed, broker, faults>>

\* Mutant: no `continue`, so a row that failed is marked published all the same.
SendFailsThrough(r) ==
  /\ broker = "down"
  /\ \E i \in todo[r] :
       /\ IsNext(r, i)
       /\ todo' = [todo EXCEPT ![r] = @ \ {i}]
       /\ sent' = [sent EXCEPT ![r] = @ \cup {i}]
  /\ UNCHANGED <<message, failed, topic, broker, faults>>

\* send raises: the row is counted as failed and the loop goes on to the next.
SendFails(r) ==
  /\ broker = "down"
  /\ \E i \in todo[r] :
       /\ IsNext(r, i)
       /\ todo'   = [todo EXCEPT ![r] = @ \ {i}]
       /\ failed' = [failed EXCEPT ![r] = @ \cup {i}]
  /\ UNCHANGED <<message, sent, topic, broker, faults>>

\* The broker has the message, but its acknowledgement does not arrive in time.
AckLost(r) ==
  /\ broker = "up"
  /\ faults < MaxFaults
  /\ \E i \in todo[r] :
       /\ IsNext(r, i)
       /\ todo'   = [todo EXCEPT ![r] = @ \ {i}]
       /\ failed' = [failed EXCEPT ![r] = @ \cup {i}]
       /\ topic'  = Append(topic, i)
  /\ faults' = faults + 1
  /\ UNCHANGED <<message, sent, broker>>

\* Mutant: published_at is never set.
OutcomeUnmarked(r, i) ==
  IF i \in failed[r] THEN [message[i] EXCEPT !.attempts = @ + 1] ELSE message[i]

\* The batch's outcome, as the commit writes it.
Outcome(r, i) ==
  IF i \in sent[r] THEN [message[i] EXCEPT !.state = "published"]
  ELSE IF i \in failed[r] THEN [message[i] EXCEPT !.attempts = @ + 1]
  ELSE message[i]

Release(r) ==
  /\ todo'   = [todo EXCEPT ![r] = {}]
  /\ sent'   = [sent EXCEPT ![r] = {}]
  /\ failed' = [failed EXCEPT ![r] = {}]

Finish(r) ==
  /\ Claimed(r) # {}
  /\ todo[r] = {}
  /\ message' = [i \in Ids |-> Outcome(r, i)]
  /\ Release(r)
  /\ UNCHANGED <<topic, broker, faults>>

-----------------------------------------------------------------------------
(* Faults *)

\* The replica dies, or the database drops its transaction, with a batch open.
Crash(r) ==
  /\ Claimed(r) # {}
  /\ faults < MaxFaults
  /\ faults' = faults + 1
  /\ Release(r)
  /\ UNCHANGED <<message, topic, broker>>

BrokerFails ==
  /\ broker = "up"
  /\ faults < MaxFaults
  /\ faults' = faults + 1
  /\ broker' = "down"
  /\ UNCHANGED <<message, batch, topic>>

BrokerRecovers ==
  /\ broker = "down"
  /\ broker' = "up"
  /\ UNCHANGED <<message, batch, topic, faults>>

Next ==
  \/ \E i \in Ids, key \in Keys, kind \in Kinds : Insert(i, key, kind)
  \/ \E i \in Ids : CommitInsert(i) \/ RollbackInsert(i)
  \/ \E r \in Replicas :
       Claim(r) \/ Send(r) \/ SendFails(r) \/ AckLost(r) \/ Finish(r) \/ Crash(r)
  \/ BrokerFails
  \/ BrokerRecovers

Spec == Init /\ [][Next]_vars

\* _loop drains again and again and survives what drain_once raises; an outage
\* of the broker ends.  Writers and faults are under no obligation.
Fairness ==
  /\ \A r \in Replicas :
       WF_vars(Claim(r)) /\ WF_vars(Send(r) \/ SendFails(r)) /\ WF_vars(Finish(r))
  /\ WF_vars(BrokerRecovers)

FairSpec == Spec /\ Fairness

-----------------------------------------------------------------------------
(* Properties *)

\* Rows, batches and the topic keep their types.
TypeOK ==
  /\ message \in [Ids -> [state : {"unused"}] \cup
       [state : RowStates \ {"unused"}, key : Keys, kind : Kinds, attempts : 0 .. MAX_ATTEMPTS]]
  /\ todo   \in [Replicas -> SUBSET Ids]
  /\ sent   \in [Replicas -> SUBSET Ids]
  /\ failed \in [Replicas -> SUBSET Ids]
  /\ topic  \in Seq(Ids)
  /\ broker \in {"up", "down"}
  /\ faults \in 0 .. MaxFaults

\* "each claims a disjoint batch instead of contending for the same rows": and a
\* batch holds nothing but rows that are still to be published.
BatchesAreDisjoint ==
  /\ \A r, q \in Replicas : r # q => Claimed(r) \cap Claimed(q) = {}
  /\ \A r \in Replicas : Claimed(r) \subseteq Selectable

\* An event is sent only if the transaction that wrote it has committed: nobody
\* hears of a change that was rolled back.
OnlyCommittedIsSent ==
  \A n \in DOMAIN topic : message[topic[n]].state \in {"pending", "published"}

\* A row is marked published only if the broker has it, whatever crashes in
\* between: at least once, not at most once.
PublishedWasSent ==
  \A i \in Ids : message[i].state = "published" => \E n \in DOMAIN topic : topic[n] = i

Copies(i) == Cardinality({n \in DOMAIN topic : topic[n] = i})

\* An event is sent again only because something went wrong, once per fault: no
\* schedule of several replicas duplicates one on its own.
DuplicatesNeedFaults == \A i \in Ids : Copies(i) <= 1 + faults

\* Two events of one festival, the first written before the second.
Ordered(i, j) ==
  /\ i < j
  /\ message[i].state \in {"pending", "published"}
  /\ message[j].state \in {"pending", "published"}
  /\ message[i].key = message[j].key
  /\ message[i].kind = "festival"
  /\ message[j].kind = "festival"

KeyOrder ==
  \A i, j \in Ids : Ordered(i, j) =>
    \A n \in DOMAIN topic : topic[n] = j => \E m \in 1 .. n - 1 : topic[m] = i

\* The table, the Dispatchers and the topic together are such a channel: no
\* interleaving of claims, sends, commits and crashes sends a row that is rolled
\* back, published or given up, or marks one published that was never sent.
Accepted  == {i \in Ids : message[i].state \in {"pending", "published"}}
Confirmed == {i \in Ids : message[i].state = "published"}
Abandoned == {i \in Ids : message[i].state = "pending" /\ message[i].attempts = MAX_ATTEMPTS}

Channel == INSTANCE AtLeastOnceChannel
  WITH Messages <- Ids, accepted <- Accepted, delivered <- topic,
       confirmed <- Confirmed, abandoned <- Abandoned

ImplementsChannel == Channel!Spec

\* With nothing going wrong, a Dispatcher sends an event before an earlier one of
\* the same festival only while another Dispatcher holds that one: neither writers
\* that commit while it runs nor its own batches put them out of order.
OvertakenOnlyIfHeld ==
  [][\A r \in Replicas, i, j \in Ids :
       faults = 0 /\ Ordered(i, j) /\ Copies(i) = 0 /\ j \in sent'[r] \ sent[r] =>
         \E q \in Replicas \ {r} : i \in Claimed(q)]_vars

\* The sends of a row that have failed, those of an open batch included.
Failures(i) == message[i].attempts + Cardinality({r \in Replicas : i \in failed[r]})

\* What queued up drains: while the broker is up and nothing more goes wrong, each
\* committed row is published if a single attempt is left to it, whatever batch it
\* died in and however often it failed.  A row without one is Abandoned: an outage
\* that takes MAX_ATTEMPTS sends to end loses it.
QueueDrains ==
  \A i \in Ids, n \in 0 .. MaxFaults :
    /\ message[i].state = "pending"
    /\ Failures(i) < MAX_ATTEMPTS
    /\ broker = "up"
    /\ faults = n
    ~> message[i].state = "published" \/ faults > n

-----------------------------------------------------------------------------
(* What the repository says of the outbox, and its code does not do. *)

\* events.py, partition_key: "Two events about the same order must never be
\* processed out of sequence ... this is the only thing that guarantees it":
\* keying alone, with no fault anywhere.
KeyingKeepsOrder == KeyOrder
=============================================================================
