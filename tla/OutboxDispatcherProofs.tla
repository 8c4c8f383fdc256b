----------------------- MODULE OutboxDispatcherProofs -----------------------
(***************************************************************************)
(* Safety of the outbox for any number of Dispatchers, rows and faults:    *)
(* OutboxInv is inductive, and the promises follow from it.                *)
(***************************************************************************)
EXTENDS OutboxDispatcher, TLAPS

\* What a Dispatcher is about to mark published is on the topic.
SentIsOnTopic ==
  \A r \in Replicas : \A i \in sent[r] : \E n \in DOMAIN topic : topic[n] = i

OutboxInv ==
  /\ TypeOK
  /\ BatchesAreDisjoint
  /\ OnlyCommittedIsSent
  /\ PublishedWasSent
  /\ SentIsOnTopic

Rows == [state : RowStates \ {"unused"}, key : Keys, kind : Kinds, attempts : 0 .. MAX_ATTEMPTS]
Free == [state : {"unused"}]

-----------------------------------------------------------------------------
(* Lemmas *)

\* A batch consists of committed rows that may be tried once more.
LEMMA ClaimedRow ==
  ASSUME OutboxInv, NEW r \in Replicas, NEW i \in Claimed(r)
  PROVE  /\ i \in Ids
         /\ message[i] \in Rows
         /\ message[i].state = "pending"
         /\ message[i].attempts + 1 \in 0 .. MAX_ATTEMPTS
<1>1. i \in Selectable
  BY DEF OutboxInv, BatchesAreDisjoint
<1>2. i \in Ids /\ message[i].state = "pending" /\ message[i].attempts < MAX_ATTEMPTS
  BY <1>1 DEF Selectable
<1>3. message[i] \in Rows
  BY <1>2 DEF OutboxInv, TypeOK, Rows
<1>4. message[i].attempts \in 0 .. MAX_ATTEMPTS
  BY <1>3 DEF Rows
<1> QED BY <1>2, <1>3, <1>4, DispatcherAssumption

\* Appending to the topic keeps what is on it and adds one message.
LEMMA TopicGrows ==
  ASSUME NEW i \in Ids, topic \in Seq(Ids)
  PROVE  /\ Append(topic, i) \in Seq(Ids)
         /\ DOMAIN Append(topic, i) = DOMAIN topic \cup {Len(topic) + 1}
         /\ \A n \in DOMAIN topic : Append(topic, i)[n] = topic[n]
         /\ Append(topic, i)[Len(topic) + 1] = i
OBVIOUS

\* A replica tries one row of its batch, wherever the row goes.
LEMMA TryRow ==
  ASSUME OutboxInv, NEW r \in Replicas, NEW i \in todo[r],
         NEW S \in SUBSET {i}, NEW F \in SUBSET {i},
         todo'   = [todo EXCEPT ![r] = @ \ {i}],
         sent'   = [sent EXCEPT ![r] = @ \cup S],
         failed' = [failed EXCEPT ![r] = @ \cup F],
         UNCHANGED message,
         (topic' = topic /\ S = {}) \/ topic' = Append(topic, i),
         broker' \in {"up", "down"}, faults' \in 0 .. MaxFaults
  PROVE  OutboxInv'
<1>1. i \in Ids /\ message[i].state = "pending"
  BY ClaimedRow DEF Claimed
<1>2. topic \in Seq(Ids)
  BY DEF OutboxInv, TypeOK
<1>3. /\ topic' \in Seq(Ids)
      /\ \A n \in DOMAIN topic : n \in DOMAIN topic' /\ topic'[n] = topic[n]
      /\ \A n \in DOMAIN topic' : topic'[n] = i \/ (n \in DOMAIN topic /\ topic'[n] = topic[n])
      /\ S # {} => \E n \in DOMAIN topic' : topic'[n] = i
  <2>1. CASE topic' = topic /\ S = {}
    BY <1>2, <2>1
  <2>2. CASE topic' = Append(topic, i)
    BY <1>1, <1>2, <2>2, TopicGrows
  <2> QED BY <2>1, <2>2
<1>4. \A q \in Replicas : Claimed(q)' \subseteq Claimed(q)
  BY DEF OutboxInv, TypeOK, Claimed
<1>5. TypeOK'
  BY <1>1, <1>3 DEF OutboxInv, TypeOK
<1>6. BatchesAreDisjoint'
  BY <1>4 DEF OutboxInv, BatchesAreDisjoint, Selectable
<1>7. OnlyCommittedIsSent'
  BY <1>1, <1>3 DEF OutboxInv, OnlyCommittedIsSent
<1>8. PublishedWasSent'
  BY <1>3 DEF OutboxInv, PublishedWasSent
<1>9. SentIsOnTopic'
  <2> SUFFICES ASSUME NEW q \in Replicas, NEW j \in sent'[q]
               PROVE  \E n \in DOMAIN topic' : topic'[n] = j
    BY DEF SentIsOnTopic
  <2>1. CASE j \in sent[q]
    BY <1>3, <2>1 DEF OutboxInv, SentIsOnTopic
  <2>2. CASE j \notin sent[q]
    <3>1. j = i /\ S # {}
      BY <2>2 DEF OutboxInv, TypeOK
    <3> QED BY <1>3, <3>1
  <2> QED BY <2>1, <2>2
<1> QED BY <1>5, <1>6, <1>7, <1>8, <1>9 DEF OutboxInv

\* A writer moves one row that no Dispatcher can have, and that is not sent.
LEMMA WriteRow ==
  ASSUME OutboxInv, NEW i \in Ids, NEW row \in Rows,
         message[i].state \in {"unused", "inserting"},
         row.state # "published",
         message' = [message EXCEPT ![i] = row],
         UNCHANGED <<batch, topic, broker, faults>>
  PROVE  OutboxInv'
<1>1. i \notin Selectable
  BY DEF Selectable
<1>2. Selectable \subseteq Selectable'
  BY <1>1 DEF OutboxInv, TypeOK, Selectable
<1>3. TypeOK'
  BY DEF OutboxInv, TypeOK, Rows, batch
<1>4. BatchesAreDisjoint'
  BY <1>2 DEF OutboxInv, BatchesAreDisjoint, Claimed, batch
<1>5. OnlyCommittedIsSent'
  <2>1. \A n \in DOMAIN topic : topic[n] \in Ids /\ topic[n] # i
    BY DEF OutboxInv, TypeOK, OnlyCommittedIsSent
  <2> QED BY <2>1 DEF OutboxInv, TypeOK, OnlyCommittedIsSent
<1>6. PublishedWasSent'
  BY DEF OutboxInv, TypeOK, PublishedWasSent
<1>7. SentIsOnTopic'
  BY DEF OutboxInv, SentIsOnTopic, batch
<1> QED BY <1>3, <1>4, <1>5, <1>6, <1>7 DEF OutboxInv

-----------------------------------------------------------------------------
(* Every step keeps the invariant *)

LEMMA OutboxInit == Init => OutboxInv
<1> SUFFICES ASSUME Init PROVE OutboxInv
  OBVIOUS
<1>1. TypeOK
  BY DispatcherAssumption DEF Init, TypeOK
<1>2. \A r \in Replicas : Claimed(r) = {}
  BY DEF Init, Claimed
<1>3. BatchesAreDisjoint
  BY <1>2 DEF BatchesAreDisjoint
<1>4. OnlyCommittedIsSent /\ PublishedWasSent /\ SentIsOnTopic
  BY DEF Init, OnlyCommittedIsSent, PublishedWasSent, SentIsOnTopic
<1> QED BY <1>1, <1>3, <1>4 DEF OutboxInv

\* A Dispatcher takes rows that nobody has, and that may be tried.
LEMMA ClaimInv ==
  ASSUME OutboxInv, NEW r \in Replicas, Claim(r)
  PROVE  OutboxInv'
<1>1. todo'[r] \subseteq Selectable \ Locked /\ todo \in [Replicas -> SUBSET Ids]
  BY DEF Claim, OutboxInv, TypeOK
<1>2. TypeOK'
  BY <1>1 DEF Claim, OutboxInv, TypeOK, Selectable
<1>3. /\ Claimed(r)' \subseteq Selectable \ Locked
      /\ \A q \in Replicas \ {r} : Claimed(q)' = Claimed(q)
  BY <1>1 DEF Claim, Claimed
<1>4. \A q \in Replicas : Claimed(q) \subseteq Locked
  BY DEF Locked
<1>5. Selectable' = Selectable
  BY DEF Claim, Selectable
<1>6. BatchesAreDisjoint'
  BY <1>3, <1>4, <1>5 DEF OutboxInv, BatchesAreDisjoint
<1>7. OnlyCommittedIsSent' /\ PublishedWasSent' /\ SentIsOnTopic'
  BY DEF Claim, OutboxInv, OnlyCommittedIsSent, PublishedWasSent, SentIsOnTopic
<1> QED BY <1>2, <1>6, <1>7 DEF OutboxInv

\* The commit marks rows of this batch only, and publishes what is on the topic.
LEMMA FinishInv ==
  ASSUME OutboxInv, NEW r \in Replicas, Finish(r)
  PROVE  OutboxInv'
<1>1. /\ todo \in [Replicas -> SUBSET Ids] /\ sent \in [Replicas -> SUBSET Ids]
      /\ failed \in [Replicas -> SUBSET Ids]
  BY DEF OutboxInv, TypeOK
<1>2. /\ Claimed(r)' = {}
      /\ \A q \in Replicas \ {r} : Claimed(q)' = Claimed(q)
      /\ \A q \in Replicas : sent'[q] \subseteq sent[q]
  BY <1>1 DEF Finish, Release, Claimed
<1>3. \A i \in Ids \ Claimed(r) : message'[i] = message[i]
  BY DEF Finish, Outcome, Claimed
<1>4. ASSUME NEW i \in Claimed(r)
      PROVE  /\ i \in Ids
             /\ message'[i] \in Rows
             /\ message[i].state = "pending"
             /\ message'[i].state \in {"pending", "published"}
             /\ message'[i].state = "published" => i \in sent[r]
  <2>1. i \in Ids /\ message[i] \in Rows /\ message[i].state = "pending"
        /\ message[i].attempts + 1 \in 0 .. MAX_ATTEMPTS
    BY <1>4, ClaimedRow
  <2>2. message'[i] = Outcome(r, i)
    BY <2>1 DEF Finish
  <2>3. CASE i \in sent[r]
    BY <2>1, <2>2, <2>3 DEF Outcome, Rows, RowStates
  <2>4. CASE i \notin sent[r] /\ i \in failed[r]
    BY <2>1, <2>2, <2>4 DEF Outcome, Rows
  <2>5. CASE i \notin sent[r] /\ i \notin failed[r]
    BY <2>1, <2>2, <2>5 DEF Outcome
  <2> QED BY <2>1, <2>3, <2>4, <2>5
<1>5. TypeOK'
  <2>1. message' \in [Ids -> Free \cup Rows]
    <3>1. \A i \in Ids : message'[i] \in Free \cup Rows
      BY <1>3, <1>4 DEF OutboxInv, TypeOK, Free, Rows
    <3>2. message' = [i \in Ids |-> message'[i]]
      BY DEF Finish
    <3> QED BY <3>1, <3>2
  <2> QED BY <1>1, <2>1 DEF Finish, Release, OutboxInv, TypeOK, Free, Rows
<1>6. BatchesAreDisjoint'
  <2>1. ASSUME NEW q \in Replicas \ {r}, NEW i \in Claimed(q) PROVE i \in Selectable'
    <3>1. i \notin Claimed(r) /\ i \in Selectable
      BY <2>1 DEF OutboxInv, BatchesAreDisjoint
    <3> QED BY <1>3, <3>1 DEF Selectable
  <2> QED BY <1>2, <2>1 DEF OutboxInv, BatchesAreDisjoint
<1>7. OnlyCommittedIsSent'
  <2>1. topic' = topic /\ topic \in Seq(Ids)
    BY DEF Finish, OutboxInv, TypeOK
  <2>2. ASSUME NEW n \in DOMAIN topic PROVE message'[topic[n]].state \in {"pending", "published"}
    <3>1. topic[n] \in Ids /\ message[topic[n]].state \in {"pending", "published"}
      BY <2>1, <2>2 DEF OutboxInv, OnlyCommittedIsSent
    <3> QED BY <3>1, <1>3, <1>4
  <2> QED BY <2>1, <2>2 DEF OnlyCommittedIsSent
<1>8. PublishedWasSent'
  <2> SUFFICES ASSUME NEW i \in Ids, message'[i].state = "published"
               PROVE  \E n \in DOMAIN topic : topic[n] = i
    BY DEF Finish, PublishedWasSent
  <2>1. CASE i \in Claimed(r)
    BY <1>4, <2>1 DEF OutboxInv, SentIsOnTopic
  <2>2. CASE i \notin Claimed(r)
    BY <1>3, <2>2 DEF OutboxInv, PublishedWasSent
  <2> QED BY <2>1, <2>2
<1>9. SentIsOnTopic'
  BY <1>2 DEF Finish, OutboxInv, SentIsOnTopic
<1> QED BY <1>5, <1>6, <1>7, <1>8, <1>9 DEF OutboxInv

\* A batch that is rolled back leaves every row as it was.
LEMMA CrashInv ==
  ASSUME OutboxInv, NEW r \in Replicas, Crash(r)
  PROVE  OutboxInv'
<1>1. \A q \in Replicas : Claimed(q)' \subseteq Claimed(q) /\ sent'[q] \subseteq sent[q]
  BY DEF Crash, Release, Claimed, OutboxInv, TypeOK
<1>2. TypeOK'
  BY DispatcherAssumption DEF Crash, Release, OutboxInv, TypeOK
<1>3. BatchesAreDisjoint'
  BY <1>1 DEF Crash, OutboxInv, BatchesAreDisjoint, Selectable
<1>4. OnlyCommittedIsSent' /\ PublishedWasSent' /\ SentIsOnTopic'
  BY <1>1 DEF Crash, OutboxInv, OnlyCommittedIsSent, PublishedWasSent, SentIsOnTopic
<1> QED BY <1>2, <1>3, <1>4 DEF OutboxInv

\* The broker comes and goes; no row, batch or message does.
LEMMA BrokerInv ==
  ASSUME OutboxInv, UNCHANGED <<message, batch, topic>>,
         broker' \in {"up", "down"}, faults' \in 0 .. MaxFaults
  PROVE  OutboxInv'
<1>1. TypeOK'
  BY DEF OutboxInv, TypeOK, batch
<1>2. BatchesAreDisjoint'
  BY DEF OutboxInv, BatchesAreDisjoint, Claimed, Selectable, batch
<1>3. OnlyCommittedIsSent' /\ PublishedWasSent' /\ SentIsOnTopic'
  BY DEF OutboxInv, OnlyCommittedIsSent, PublishedWasSent, SentIsOnTopic, batch
<1> QED BY <1>1, <1>2, <1>3 DEF OutboxInv

LEMMA OutboxStep == OutboxInv /\ [Next]_vars => OutboxInv'
<1> SUFFICES ASSUME OutboxInv, [Next]_vars PROVE OutboxInv'
  OBVIOUS
<1>a. /\ broker \in {"up", "down"} /\ faults \in 0 .. MaxFaults
      /\ faults < MaxFaults => faults + 1 \in 0 .. MaxFaults
  BY DispatcherAssumption DEF OutboxInv, TypeOK
<1>1. ASSUME NEW i \in Ids, NEW key \in Keys, NEW kind \in Kinds, Insert(i, key, kind)
      PROVE  OutboxInv'
  <2> DEFINE row == [state |-> "inserting", key |-> key, kind |-> kind, attempts |-> 0]
  <2>1. row \in Rows
    BY DispatcherAssumption DEF Rows, RowStates
  <2>2. message[i].state = "unused" /\ message' = [message EXCEPT ![i] = row]
        /\ UNCHANGED <<batch, topic, broker, faults>>
    BY <1>1 DEF Insert
  <2>3. row.state # "published" /\ message[i].state \in {"unused", "inserting"}
    BY <2>2
  <2> HIDE DEF row
  <2> QED BY <2>1, <2>2, <2>3, WriteRow
<1>2. ASSUME NEW i \in Ids, NEW how \in {"pending", "rolled_back"}, EndInsert(i, how)
      PROVE  OutboxInv'
  <2> DEFINE row == [message[i] EXCEPT !.state = how]
  <2>1. message[i] \in Rows /\ message[i].state = "inserting"
    BY <1>2 DEF EndInsert, OutboxInv, TypeOK, Rows
  <2>2. row \in Rows /\ row.state # "published"
    BY <2>1 DEF Rows, RowStates
  <2>3. message' = [message EXCEPT ![i] = row] /\ UNCHANGED <<batch, topic, broker, faults>>
    BY <1>2 DEF EndInsert
  <2> HIDE DEF row
  <2> QED BY <2>1, <2>2, <2>3, WriteRow
<1>3. ASSUME NEW r \in Replicas, Send(r) PROVE OutboxInv'
  <2>1. PICK i \in todo[r] :
          /\ todo'  = [todo EXCEPT ![r] = @ \ {i}]
          /\ sent'  = [sent EXCEPT ![r] = @ \cup {i}]
          /\ topic' = Append(topic, i)
    BY <1>3 DEF Send
  <2>2. failed' = [failed EXCEPT ![r] = @ \cup {}]
    BY <1>3 DEF Send, OutboxInv, TypeOK
  <2>3. /\ UNCHANGED message /\ broker' \in {"up", "down"} /\ faults' \in 0 .. MaxFaults
        /\ topic' = Append(topic, i)
    BY <1>3, <1>a, <2>1 DEF Send
  <2>4. {} \in SUBSET {i} /\ {i} \in SUBSET {i}
    OBVIOUS
  <2> QED BY <2>1, <2>2, <2>3, <2>4, TryRow
<1>4. ASSUME NEW r \in Replicas, SendFails(r) PROVE OutboxInv'
  <2>1. PICK i \in todo[r] :
          /\ todo'   = [todo EXCEPT ![r] = @ \ {i}]
          /\ failed' = [failed EXCEPT ![r] = @ \cup {i}]
    BY <1>4 DEF SendFails
  <2>2. sent' = [sent EXCEPT ![r] = @ \cup {}]
    BY <1>4 DEF SendFails, OutboxInv, TypeOK
  <2>3. /\ UNCHANGED message /\ broker' \in {"up", "down"} /\ faults' \in 0 .. MaxFaults
        /\ topic' = topic
    BY <1>4, <1>a, <2>1 DEF SendFails
  <2>4. {} \in SUBSET {i} /\ {i} \in SUBSET {i}
    OBVIOUS
  <2> QED BY <2>1, <2>2, <2>3, <2>4, TryRow
<1>5. ASSUME NEW r \in Replicas, AckLost(r) PROVE OutboxInv'
  <2>1. PICK i \in todo[r] :
          /\ todo'   = [todo EXCEPT ![r] = @ \ {i}]
          /\ failed' = [failed EXCEPT ![r] = @ \cup {i}]
          /\ topic'  = Append(topic, i)
    BY <1>5 DEF AckLost
  <2>2. sent' = [sent EXCEPT ![r] = @ \cup {}]
    BY <1>5 DEF AckLost, OutboxInv, TypeOK
  <2>3. /\ UNCHANGED message /\ broker' \in {"up", "down"} /\ faults' \in 0 .. MaxFaults
        /\ topic' = Append(topic, i)
    BY <1>5, <1>a, <2>1 DEF AckLost
  <2>4. {} \in SUBSET {i} /\ {i} \in SUBSET {i}
    OBVIOUS
  <2> QED BY <2>1, <2>2, <2>3, <2>4, TryRow
<1>6. ASSUME BrokerFails \/ BrokerRecovers PROVE OutboxInv'
  BY <1>6, <1>a, BrokerInv DEF BrokerFails, BrokerRecovers
<1>7. ASSUME UNCHANGED vars PROVE OutboxInv'
  BY <1>7, <1>a, BrokerInv DEF vars, batch
<1> QED BY <1>1, <1>2, <1>3, <1>4, <1>5, <1>6, <1>7, ClaimInv, FinishInv, CrashInv
        DEF Next, CommitInsert, RollbackInsert

-----------------------------------------------------------------------------
(* Theorems *)

LEMMA OutboxInvariant == Spec => []OutboxInv
BY OutboxInit, OutboxStep, PTL DEF Spec

\* Rows, batches and the topic keep their types; in particular no row of
\* outbox_messages is tried more often than MAX_ATTEMPTS.
THEOREM TypeCorrect == Spec => []TypeOK
BY OutboxInvariant, PTL DEF OutboxInv

\* SKIP LOCKED: no two Dispatchers ever hold the same row, and a row that one holds
\* stays fit to be sent until that Dispatcher is done with it.
THEOREM DisjointBatches == Spec => []BatchesAreDisjoint
BY OutboxInvariant, PTL DEF OutboxInv

\* No event of a transaction that rolled back, or may still do so, is ever sent.
THEOREM CommittedOnly == Spec => []OnlyCommittedIsSent
BY OutboxInvariant, PTL DEF OutboxInv

\* At least once: published_at is set only on events that the broker has.
THEOREM AtLeastOnce == Spec => []PublishedWasSent
BY OutboxInvariant, PTL DEF OutboxInv
=============================================================================
