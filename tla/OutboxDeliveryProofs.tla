------------------------- MODULE OutboxDeliveryProofs -------------------------
(***************************************************************************)
(* How often and in which order the outbox delivers, for any number of     *)
(* Dispatchers, rows and faults: the outbox implements AtLeastOnceChannel, *)
(* an event is duplicated once per fault at most, and without faults it is *)
(* overtaken only while another Dispatcher holds it.                       *)
(***************************************************************************)
EXTENDS OutboxDispatcherProofs, FiniteSetTheorems

-----------------------------------------------------------------------------
(* The outbox implements the channel *)

\* A row is tried only after its writer has committed.
NewIsUntried ==
  \A i \in Ids : message[i].state = "inserting" => message[i].attempts = 0

LEMMA NewIsUntriedStep == OutboxInv /\ NewIsUntried /\ [Next]_vars => NewIsUntried'
<1> SUFFICES ASSUME OutboxInv, NewIsUntried, [Next]_vars, NEW i \in Ids,
                    message'[i].state = "inserting"
             PROVE  message'[i].attempts = 0
  BY DEF NewIsUntried
<1>1. message[i].state = "inserting" => message[i].attempts = 0
  BY DEF NewIsUntried
<1>2. ASSUME NEW j \in Ids, NEW key \in Keys, NEW kind \in Kinds, Insert(j, key, kind)
      PROVE  message'[i].attempts = 0
  BY <1>1, <1>2 DEF Insert, OutboxInv, TypeOK
<1>3. ASSUME NEW j \in Ids, NEW how \in {"pending", "rolled_back"}, EndInsert(j, how)
      PROVE  message'[i].attempts = 0
  <2>1. j # i
    BY <1>3 DEF EndInsert, OutboxInv, TypeOK
  <2> QED BY <1>1, <1>3, <2>1 DEF EndInsert, OutboxInv, TypeOK
<1>4. ASSUME NEW r \in Replicas, Finish(r) PROVE message'[i].attempts = 0
  <2>1. message'[i] = Outcome(r, i)
    BY <1>4 DEF Finish
  <2>2. CASE i \in Claimed(r)
    <3>1. message[i] \in Rows /\ message[i].state = "pending"
      BY <2>2, ClaimedRow
    <3>2. message'[i].state \in {"pending", "published"}
      BY <2>1, <3>1 DEF Outcome, Rows
    <3> QED BY <3>2
  <2>3. CASE i \notin Claimed(r)
    BY <1>1, <2>1, <2>3 DEF Outcome, Claimed
  <2> QED BY <2>2, <2>3
<1>5. ASSUME UNCHANGED message PROVE message'[i].attempts = 0
  BY <1>1, <1>5
<1> QED BY <1>2, <1>3, <1>4, <1>5
        DEF Next, CommitInsert, RollbackInsert, Claim, Send, SendFails, AckLost, Crash,
            BrokerFails, BrokerRecovers, vars

LEMMA NewIsUntriedInvariant == Spec => []NewIsUntried
<1>1. Init => NewIsUntried
  BY DEF Init, NewIsUntried
<1> QED BY <1>1, NewIsUntriedStep, OutboxInvariant, PTL DEF Spec

LEMMA ChannelInit == Init => Channel!Init
BY DEF Init, Channel!Init, Accepted, Confirmed, Abandoned

\* Sending a row of a batch is a delivery.
LEMMA ChannelDeliver ==
  ASSUME OutboxInv, NEW r \in Replicas, NEW i \in todo[r], UNCHANGED message,
         topic' = Append(topic, i)
  PROVE  Channel!Next
<1>1. i \in Ids /\ i \in Selectable
  BY DEF OutboxInv, BatchesAreDisjoint, Claimed, Selectable
<1>2. i \in Accepted \ (Confirmed \cup Abandoned)
  BY <1>1, DispatcherAssumption DEF Selectable, Accepted, Confirmed, Abandoned
<1>3. Channel!Deliver(i)
  BY <1>2 DEF Channel!Deliver, Channel!Settled, Accepted, Confirmed, Abandoned
<1> QED BY <1>1, <1>3 DEF Channel!Next

\* The commit of a batch settles what was sent, and what has failed once too often.
LEMMA ChannelSettle ==
  ASSUME OutboxInv, NEW r \in Replicas, Finish(r)
  PROVE  Channel!Next
<1> DEFINE done     == Confirmed' \ Confirmed
           given_up == Abandoned' \ Abandoned
<1>1. \A i \in Ids \ Claimed(r) : message'[i] = message[i]
  BY DEF Finish, Outcome, Claimed
<1>2. ASSUME NEW i \in Claimed(r)
      PROVE  /\ i \in Accepted \ (Confirmed \cup Abandoned)
             /\ i \in Accepted'
             /\ i \in Confirmed' => i \in sent[r]
  <2>1. i \in Ids /\ message[i] \in Rows /\ message[i].state = "pending"
    BY <1>2, ClaimedRow
  <2>2. message[i].attempts < MAX_ATTEMPTS
    BY <1>2 DEF OutboxInv, BatchesAreDisjoint, Selectable
  <2>3. message'[i] = Outcome(r, i)
    BY <2>1 DEF Finish
  <2>4. message'[i].state \in {"pending", "published"} /\ (i \notin sent[r] => message'[i].state = "pending")
    BY <2>1, <2>3 DEF Outcome, Rows
  <2> QED BY <2>1, <2>2, <2>4, DispatcherAssumption DEF Accepted, Confirmed, Abandoned, Rows
<1>3. Accepted' = Accepted
  BY <1>1, <1>2 DEF Accepted
<1>4. /\ done \subseteq Claimed(r) /\ given_up \subseteq Claimed(r)
      /\ done \subseteq Ids /\ given_up \subseteq Ids
      /\ done \cap given_up = {}
  BY <1>1 DEF Confirmed, Abandoned
<1>5. done \subseteq {topic[n] : n \in DOMAIN topic}
  BY <1>2, <1>4 DEF OutboxInv, SentIsOnTopic
<1>6. Confirmed \subseteq Confirmed' /\ Abandoned \subseteq Abandoned'
  BY <1>1, <1>2 DEF Confirmed, Abandoned
<1>7. Confirmed' = Confirmed \cup done /\ Abandoned' = Abandoned \cup given_up
  BY <1>6
<1>8. done \cup given_up \subseteq Accepted \ (Confirmed \cup Abandoned)
  BY <1>2, <1>4
<1>9. topic' = topic
  BY DEF Finish
<1> HIDE DEF done, given_up
<1>10. Channel!Settle(done, given_up)
  BY <1>3, <1>4, <1>5, <1>7, <1>8, <1>9
     DEF Channel!Settle, Channel!Settled, Accepted, Confirmed, Abandoned
<1>11. done \in SUBSET Ids /\ given_up \in SUBSET Ids
  BY <1>4
<1>12. \E d, g \in SUBSET Ids : Channel!Settle(d, g)
  BY <1>10, <1>11
<1> QED BY <1>12 DEF Channel!Next

\* A step that leaves the table and the topic alone is a stutter.
LEMMA ChannelStutter ==
  ASSUME UNCHANGED <<message, topic>> PROVE UNCHANGED Channel!vars
BY DEF Channel!vars, Accepted, Confirmed, Abandoned

LEMMA ChannelStep == OutboxInv /\ NewIsUntried /\ [Next]_vars => [Channel!Next]_(Channel!vars)
<1> SUFFICES ASSUME OutboxInv, NewIsUntried, [Next]_vars
             PROVE  Channel!Next \/ UNCHANGED Channel!vars
  OBVIOUS
<1>0. ASSUME NEW i \in Ids, topic' = topic,
             \A j \in Ids \ {i} : message'[j] = message[j],
             i \notin Accepted, i \notin Abandoned', i \notin Confirmed'
      PROVE  Channel!Next \/ UNCHANGED Channel!vars
  <2>1. Confirmed' = Confirmed /\ Abandoned' = Abandoned
    BY <1>0 DEF Confirmed, Abandoned, Accepted
  <2>2. CASE i \in Accepted'
    <3>1. Accepted' = Accepted \cup {i}
      BY <1>0, <2>2 DEF Accepted
    <3>2. Channel!Accept(i)
      BY <1>0, <2>1, <3>1 DEF Channel!Accept, Accepted, Confirmed, Abandoned
    <3> QED BY <3>2 DEF Channel!Next
  <2>3. CASE i \notin Accepted'
    <3>1. Accepted' = Accepted
      BY <1>0, <2>3 DEF Accepted
    <3> QED BY <1>0, <2>1, <3>1 DEF Channel!vars, Accepted, Confirmed, Abandoned
  <2> QED BY <2>2, <2>3
<1>1. ASSUME NEW i \in Ids, NEW key \in Keys, NEW kind \in Kinds, Insert(i, key, kind)
      PROVE  Channel!Next \/ UNCHANGED Channel!vars
  <2>1. /\ topic' = topic /\ \A j \in Ids \ {i} : message'[j] = message[j]
        /\ message[i].state = "unused" /\ message'[i].state = "inserting"
    BY <1>1 DEF Insert, OutboxInv, TypeOK
  <2> QED BY <1>0, <2>1 DEF Accepted, Confirmed, Abandoned
<1>2. ASSUME NEW i \in Ids, NEW how \in {"pending", "rolled_back"}, EndInsert(i, how)
      PROVE  Channel!Next \/ UNCHANGED Channel!vars
  <2>1. /\ topic' = topic /\ \A j \in Ids \ {i} : message'[j] = message[j]
        /\ message[i].state = "inserting" /\ message[i] \in Rows
        /\ message'[i] = [message[i] EXCEPT !.state = how]
    BY <1>2 DEF EndInsert, OutboxInv, TypeOK, Rows
  <2>2. message'[i].state = how /\ message'[i].attempts = 0
    BY <2>1 DEF NewIsUntried, Rows
  <2> QED BY <1>0, <2>1, <2>2, DispatcherAssumption DEF Accepted, Confirmed, Abandoned
<1>3. ASSUME NEW r \in Replicas, Send(r) \/ AckLost(r) PROVE Channel!Next
  <2>1. PICK i \in todo[r] : topic' = Append(topic, i)
    BY <1>3 DEF Send, AckLost
  <2> QED BY <1>3, <2>1, ChannelDeliver DEF Send, AckLost
<1>4. ASSUME NEW r \in Replicas, Finish(r) PROVE Channel!Next
  BY <1>4, ChannelSettle
<1>5. ASSUME UNCHANGED <<message, topic>> PROVE UNCHANGED Channel!vars
  BY <1>5, ChannelStutter
<1> QED BY <1>1, <1>2, <1>3, <1>4, <1>5
        DEF Next, CommitInsert, RollbackInsert, Claim, SendFails, Crash, BrokerFails,
            BrokerRecovers, vars

\* The table, the Dispatchers and the topic implement the channel.
THEOREM OutboxImplementsChannel == Spec => ImplementsChannel
<1>1. Spec => Channel!Spec
  BY ChannelInit, ChannelStep, OutboxInvariant, NewIsUntriedInvariant, PTL DEF Spec, Channel!Spec
<1> QED BY <1>1 DEF ImplementsChannel

-----------------------------------------------------------------------------
(* An event is duplicated once per fault at most *)

\* A row is in one part of its batch.
TriedOnce == \A r \in Replicas : todo[r] \cap sent[r] = {}

\* The copy that a row's publication explains.
Explained(i) ==
  IF message[i].state = "published" \/ \E r \in Replicas : i \in sent[r] THEN 1 ELSE 0

CopiesAreExplained == \A i \in Ids : Copies(i) <= faults + Explained(i)

LEMMA CopiesType ==
  ASSUME topic \in Seq(Ids), NEW i
  PROVE  /\ IsFiniteSet({n \in DOMAIN topic : topic[n] = i})
         /\ Copies(i) \in Nat
<1>1. DOMAIN topic = 1 .. Len(topic) /\ Len(topic) \in Nat
  OBVIOUS
<1>2. IsFiniteSet(DOMAIN topic)
  BY <1>1, FS_Interval
<1>3. IsFiniteSet({n \in DOMAIN topic : topic[n] = i})
  BY <1>2, FS_Subset
<1> QED BY <1>3, FS_CardinalityType DEF Copies

LEMMA CopiesAppend ==
  ASSUME topic \in Seq(Ids), NEW i \in Ids, topic' = Append(topic, i)
  PROVE  /\ Copies(i)' = Copies(i) + 1
         /\ \A j \in Ids \ {i} : Copies(j)' = Copies(j)
<1>1. /\ DOMAIN topic' = DOMAIN topic \cup {Len(topic) + 1}
      /\ \A n \in DOMAIN topic : topic'[n] = topic[n]
      /\ topic'[Len(topic) + 1] = i
      /\ Len(topic) + 1 \notin DOMAIN topic
  BY TopicGrows
<1>2. Copies(i)' = Copies(i) + 1
  <2> DEFINE S == {n \in DOMAIN topic : topic[n] = i}
  <2>1. {n \in DOMAIN topic' : topic'[n] = i} = S \cup {Len(topic) + 1}
    BY <1>1
  <2>2. IsFiniteSet(S) /\ Len(topic) + 1 \notin S
    BY <1>1, CopiesType
  <2>3. Cardinality(S \cup {Len(topic) + 1}) = Cardinality(S) + 1
    BY <2>2, FS_AddElement
  <2> QED BY <2>1, <2>3 DEF Copies
<1>3. ASSUME NEW j \in Ids \ {i} PROVE Copies(j)' = Copies(j)
  <2>1. {n \in DOMAIN topic' : topic'[n] = j} = {n \in DOMAIN topic : topic[n] = j}
    BY <1>1
  <2> QED BY <2>1 DEF Copies
<1> QED BY <1>2, <1>3

LEMMA TriedOnceStep == OutboxInv /\ TriedOnce /\ [Next]_vars => TriedOnce'
<1> SUFFICES ASSUME OutboxInv, TriedOnce, [Next]_vars, NEW q \in Replicas
             PROVE  todo'[q] \cap sent'[q] = {}
  BY DEF TriedOnce
<1>0. todo[q] \cap sent[q] = {}
  BY DEF TriedOnce
<1>1. ASSUME UNCHANGED <<todo, sent>> PROVE todo'[q] \cap sent'[q] = {}
  BY <1>0, <1>1
<1>2. ASSUME NEW r \in Replicas, Claim(r) PROVE todo'[q] \cap sent'[q] = {}
  BY <1>0, <1>2 DEF Claim, Claimed, OutboxInv, TypeOK
<1>3. ASSUME NEW r \in Replicas, Send(r) \/ SendFails(r) \/ AckLost(r)
      PROVE  todo'[q] \cap sent'[q] = {}
  BY <1>0, <1>3 DEF Send, SendFails, AckLost, OutboxInv, TypeOK
<1>4. ASSUME NEW r \in Replicas, Release(r) PROVE todo'[q] \cap sent'[q] = {}
  BY <1>0, <1>4 DEF Release, OutboxInv, TypeOK
<1> QED BY <1>1, <1>2, <1>3, <1>4
        DEF Next, Insert, CommitInsert, RollbackInsert, EndInsert, Finish, Crash, BrokerFails,
            BrokerRecovers, batch, vars

LEMMA CopiesStep ==
  OutboxInv /\ TriedOnce /\ CopiesAreExplained /\ [Next]_vars => CopiesAreExplained'
<1> SUFFICES ASSUME OutboxInv, TriedOnce, CopiesAreExplained, [Next]_vars, NEW i \in Ids
             PROVE  Copies(i)' <= faults' + Explained(i)'
  BY DEF CopiesAreExplained
<1>0. /\ topic \in Seq(Ids) /\ faults \in Nat /\ Copies(i) \in Nat
      /\ Copies(i) <= faults + Explained(i)
      /\ Explained(i) \in {0, 1} /\ Explained(i)' \in {0, 1}
  <2>1. topic \in Seq(Ids) /\ faults \in Nat
    BY DispatcherAssumption DEF OutboxInv, TypeOK
  <2>2. Copies(i) \in Nat
    BY <2>1, CopiesType
  <2> QED BY <2>1, <2>2 DEF CopiesAreExplained, Explained
<1>1. ASSUME topic' = topic PROVE Copies(i)' = Copies(i)
  BY <1>1 DEF Copies
<1>2. ASSUME topic' = topic, faults' = faults, Explained(i) = 1 => Explained(i)' = 1
      PROVE  Copies(i)' <= faults' + Explained(i)'
  BY <1>0, <1>1, <1>2
<1>3. ASSUME topic' = topic, faults' = faults + 1
      PROVE  Copies(i)' <= faults' + Explained(i)'
  BY <1>0, <1>1, <1>3
<1>4. ASSUME NEW j \in Ids, NEW how, EndInsert(j, how) \/ \E key \in Keys, kind \in Kinds : Insert(j, key, kind)
      PROVE  Copies(i)' <= faults' + Explained(i)'
  <2>1. message[i].state = "published" => message'[i].state = "published"
    BY <1>4 DEF EndInsert, Insert, OutboxInv, TypeOK
  <2>2. topic' = topic /\ faults' = faults /\ sent' = sent
    BY <1>4 DEF EndInsert, Insert, batch
  <2> QED BY <1>2, <2>1, <2>2 DEF Explained
<1>5. ASSUME NEW r \in Replicas, Claim(r) \/ SendFails(r)
      PROVE  Copies(i)' <= faults' + Explained(i)'
  BY <1>2, <1>5 DEF Claim, SendFails, Explained
<1>6. ASSUME NEW r \in Replicas, Send(r) PROVE Copies(i)' <= faults' + Explained(i)'
  <2>1. PICK j \in todo[r] : /\ topic' = Append(topic, j)
                             /\ sent' = [sent EXCEPT ![r] = @ \cup {j}]
    BY <1>6 DEF Send
  <2>2. j \in Ids /\ message' = message /\ faults' = faults
    BY <1>6 DEF Send, OutboxInv, TypeOK
  <2>3. \A q \in Replicas : sent[q] \subseteq sent'[q]
    BY <2>1 DEF OutboxInv, TypeOK
  <2>4. CASE i = j
    <3>1. message[i].state = "pending" /\ \A q \in Replicas : i \notin sent[q]
      BY <2>1, <2>4 DEF OutboxInv, BatchesAreDisjoint, Claimed, Selectable, TriedOnce
    <3>2. Explained(i) = 0
      BY <3>1 DEF Explained
    <3>3. i \in sent'[r]
      BY <2>1, <2>4 DEF OutboxInv, TypeOK
    <3>4. Explained(i)' = 1
      BY <3>3 DEF Explained
    <3> QED BY <1>0, <2>1, <2>2, <2>4, <3>2, <3>4, CopiesAppend
  <2>5. CASE i # j
    <3>1. Copies(i)' = Copies(i)
      BY <1>0, <2>1, <2>2, <2>5, CopiesAppend
    <3>2. Explained(i) = 1 => Explained(i)' = 1
      BY <2>2, <2>3 DEF Explained
    <3> QED BY <1>0, <2>2, <3>1, <3>2
  <2> QED BY <2>4, <2>5
<1>7. ASSUME NEW r \in Replicas, AckLost(r) PROVE Copies(i)' <= faults' + Explained(i)'
  <2>1. PICK j \in todo[r] : topic' = Append(topic, j)
    BY <1>7 DEF AckLost
  <2>2. j \in Ids /\ message' = message /\ sent' = sent /\ faults' = faults + 1
    BY <1>7 DEF AckLost, OutboxInv, TypeOK
  <2>3. Copies(i)' <= Copies(i) + 1
    BY <1>0, <2>1, <2>2, CopiesAppend
  <2>4. Explained(i)' = Explained(i)
    BY <2>2 DEF Explained
  <2>5. Copies(i)' \in Nat
    BY <1>0, <2>1, <2>2, CopiesAppend
  <2> QED BY <1>0, <2>2, <2>3, <2>4, <2>5
<1>8. ASSUME NEW r \in Replicas, Finish(r) PROVE Copies(i)' <= faults' + Explained(i)'
  <2>1. message'[i] = Outcome(r, i) /\ topic' = topic /\ faults' = faults
    BY <1>8 DEF Finish
  <2>2. \A q \in Replicas \ {r} : sent'[q] = sent[q]
    BY <1>8 DEF Finish, Release, OutboxInv, TypeOK
  <2>3. i \in sent[r] => message'[i].state = "published"
    <3>1. i \in sent[r] => message[i] \in Rows
      BY ClaimedRow DEF Claimed
    <3> QED BY <2>1, <3>1 DEF Outcome, Rows
  <2>4. message[i].state = "published" => message'[i].state = "published"
    <3>1. i \in Claimed(r) => message[i].state = "pending"
      BY ClaimedRow
    <3> QED BY <2>1, <3>1 DEF Outcome, Claimed
  <2>5. Explained(i) = 1 => Explained(i)' = 1
    BY <2>2, <2>3, <2>4 DEF Explained
  <2> QED BY <1>2, <2>1, <2>5
<1>9. ASSUME BrokerFails \/ \E r \in Replicas : Crash(r)
      PROVE  Copies(i)' <= faults' + Explained(i)'
  BY <1>3, <1>9 DEF BrokerFails, Crash
<1>10. ASSUME BrokerRecovers \/ UNCHANGED vars PROVE Copies(i)' <= faults' + Explained(i)'
  BY <1>2, <1>10 DEF BrokerRecovers, batch, vars, Explained
<1> QED BY <1>4, <1>5, <1>6, <1>7, <1>8, <1>9, <1>10 DEF Next, CommitInsert, RollbackInsert

LEMMA CopiesInvariant == Spec => [](TriedOnce /\ CopiesAreExplained)
<1>1. Init => TriedOnce /\ CopiesAreExplained
  <2> SUFFICES ASSUME Init PROVE TriedOnce /\ CopiesAreExplained
    OBVIOUS
  <2>1. \A i \in Ids : {n \in DOMAIN topic : topic[n] = i} = {}
    BY DEF Init
  <2>2. \A i \in Ids : Copies(i) = 0
    BY <2>1, FS_EmptySet DEF Copies
  <2> QED BY <2>2 DEF Init, TriedOnce, CopiesAreExplained, Explained
<1> QED BY <1>1, TriedOnceStep, CopiesStep, OutboxInvariant, PTL DEF Spec

\* An event is on the topic once, and once more per fault at most.
THEOREM DuplicatesAreFaults == Spec => []DuplicatesNeedFaults
<1>1. OutboxInv /\ CopiesAreExplained => DuplicatesNeedFaults
  <2> SUFFICES ASSUME OutboxInv, CopiesAreExplained, NEW i \in Ids PROVE Copies(i) <= 1 + faults
    BY DEF DuplicatesNeedFaults
  <2>1. topic \in Seq(Ids) /\ faults \in Nat
    BY DispatcherAssumption DEF OutboxInv, TypeOK
  <2>2. Copies(i) \in Nat
    BY <2>1, CopiesType
  <2>3. Copies(i) <= faults + Explained(i) /\ Explained(i) \in {0, 1}
    BY DEF CopiesAreExplained, Explained
  <2> QED BY <2>1, <2>2, <2>3
<1> QED BY <1>1, OutboxInvariant, CopiesInvariant, PTL

-----------------------------------------------------------------------------
(* Without faults an event is overtaken only while it is held *)

OfOneFestival(i, j) ==
  /\ message[i].key = message[j].key
  /\ message[i].kind = "festival"
  /\ message[j].kind = "festival"

\* Ids are taken in order, and one writer of a festival waits for the other.
WriteOrder ==
  \A i, j \in Ids : i < j /\ message[j].state # "unused" =>
    /\ message[i].state # "unused"
    /\ OfOneFestival(i, j) => message[i].state # "inserting"

\* With no fault, no send fails and no row is tried twice.
Faultless ==
  faults = 0 =>
    /\ broker = "up"
    /\ \A r \in Replicas : failed[r] = {}
    /\ \A i \in Ids : message[i].state = "pending" => message[i].attempts = 0

NotSent(i) == \A n \in DOMAIN topic : topic[n] # i

\* While a row is in a batch, an earlier one of its festival is sent, or in a
\* batch too.
EarlierIsHeld ==
  faults = 0 =>
    \A r \in Replicas : \A j \in Claimed(r) : \A i \in Ids :
      Ordered(i, j) /\ NotSent(i) => i \in Locked

LEMMA WriteOrderStep == OutboxInv /\ WriteOrder /\ [Next]_vars => WriteOrder'
<1> SUFFICES ASSUME OutboxInv, WriteOrder, [Next]_vars,
                    NEW i \in Ids, NEW j \in Ids, i < j, message'[j].state # "unused"
             PROVE  /\ message'[i].state # "unused"
                    /\ OfOneFestival(i, j)' => message'[i].state # "inserting"
  BY DEF WriteOrder
<1> DEFINE Goal == /\ message'[i].state # "unused"
                   /\ OfOneFestival(i, j)' => message'[i].state # "inserting"
<1>0. message[j].state # "unused" =>
        /\ message[i].state # "unused"
        /\ OfOneFestival(i, j) => message[i].state # "inserting"
  BY DEF WriteOrder
<1>1. ASSUME NEW k \in Ids, NEW key \in Keys, NEW kind \in Kinds, Insert(k, key, kind)
      PROVE  Goal
  <2>1. /\ message[k].state = "unused"
        /\ message' = [message EXCEPT ![k] =
             [state |-> "inserting", key |-> key, kind |-> kind, attempts |-> 0]]
        /\ \A x \in 1 .. k - 1 : message[x].state # "unused"
        /\ kind = "festival" => \A x \in Ids : ~ /\ message[x].state = "inserting"
                                                 /\ message[x].key = key
                                                 /\ message[x].kind = "festival"
    BY <1>1 DEF Insert
  <2>2. message \in [Ids -> Free \cup Rows]
    BY DEF OutboxInv, TypeOK, Free, Rows
  <2>3. CASE j = k
    <3>1. message[i].state # "unused" /\ i # k
      BY <2>1, <2>3, DispatcherAssumption DEF Ids
    <3>2. message'[i] = message[i] /\ message'[k].key = key /\ message'[k].kind = kind
      BY <2>1, <2>2, <3>1
    <3> QED BY <2>1, <2>3, <3>1, <3>2 DEF OfOneFestival
  <2>4. CASE j # k
    <3>1. message'[j] = message[j] /\ message[i].state # "unused" /\ i # k
      BY <1>0, <2>1, <2>2, <2>4
    <3>2. message'[i] = message[i]
      BY <2>1, <2>2, <3>1
    <3> QED BY <1>0, <3>1, <3>2 DEF OfOneFestival
  <2> QED BY <2>3, <2>4
<1>2. ASSUME \A x \in Ids : /\ message'[x] = message[x] \/
                               /\ message[x] \in Rows /\ message'[x] \in Rows
                               /\ message'[x].key = message[x].key
                               /\ message'[x].kind = message[x].kind
                               /\ message'[x].state # "inserting"
      PROVE  Goal
  <2>1. \A x \in Ids : /\ message[x].state = "unused" <=> message'[x].state = "unused"
                       /\ message'[x].state = "inserting" => message[x].state = "inserting"
                       /\ message'[x].state # "unused" =>
                            message'[x].key = message[x].key /\ message'[x].kind = message[x].kind
    BY <1>2 DEF Rows, RowStates
  <2>2. message[j].state # "unused" /\ message[i].state # "unused"
    BY <1>0, <2>1
  <2> QED BY <1>0, <2>1, <2>2 DEF OfOneFestival
<1>3. ASSUME NEW k \in Ids, NEW how \in {"pending", "rolled_back"}, EndInsert(k, how)
      PROVE  Goal
  <2>1. /\ message[k] \in Rows
        /\ message' = [message EXCEPT ![k] = [message[k] EXCEPT !.state = how]]
    BY <1>3 DEF EndInsert, OutboxInv, TypeOK, Rows
  <2>2. message'[k] = [message[k] EXCEPT !.state = how] /\ \A x \in Ids \ {k} : message'[x] = message[x]
    BY <2>1 DEF OutboxInv, TypeOK
  <2>3. /\ message'[k] \in Rows /\ message'[k].key = message[k].key
        /\ message'[k].kind = message[k].kind /\ message'[k].state # "inserting"
    BY <2>1, <2>2 DEF Rows, RowStates
  <2> QED BY <1>2, <2>1, <2>2, <2>3
<1>4. ASSUME NEW r \in Replicas, Finish(r) PROVE Goal
  <2>1. \A x \in Ids : message'[x] = Outcome(r, x)
    BY <1>4 DEF Finish
  <2>2. ASSUME NEW x \in Ids, message'[x] # message[x]
        PROVE  /\ message[x] \in Rows /\ message'[x] \in Rows
               /\ message'[x].key = message[x].key
               /\ message'[x].kind = message[x].kind
               /\ message'[x].state # "inserting"
    <3>1. x \in Claimed(r)
      BY <2>1, <2>2 DEF Outcome, Claimed
    <3>2. message[x] \in Rows /\ message[x].state = "pending" /\ message[x].attempts + 1 \in 0 .. MAX_ATTEMPTS
      BY <3>1, ClaimedRow
    <3> QED BY <2>1, <3>2 DEF Outcome, Rows, RowStates
  <2> QED BY <1>2, <2>2
<1>5. ASSUME UNCHANGED message PROVE Goal
  BY <1>2, <1>5
<1> QED BY <1>1, <1>3, <1>4, <1>5
        DEF Next, CommitInsert, RollbackInsert, Claim, Send, SendFails, AckLost, Crash,
            BrokerFails, BrokerRecovers, vars

LEMMA FaultlessStep == OutboxInv /\ NewIsUntried /\ Faultless /\ [Next]_vars => Faultless'
<1> SUFFICES ASSUME OutboxInv, NewIsUntried, Faultless, [Next]_vars, faults' = 0
             PROVE  /\ broker' = "up"
                    /\ \A r \in Replicas : failed'[r] = {}
                    /\ \A i \in Ids : message'[i].state = "pending" => message'[i].attempts = 0
  BY DEF Faultless
<1> DEFINE Goal == /\ broker' = "up"
                   /\ \A r \in Replicas : failed'[r] = {}
                   /\ \A i \in Ids : message'[i].state = "pending" => message'[i].attempts = 0
<1>0. /\ faults \in Nat
      /\ faults = 0 => /\ broker = "up"
                       /\ \A r \in Replicas : failed[r] = {}
                       /\ \A i \in Ids : message[i].state = "pending" => message[i].attempts = 0
  BY DispatcherAssumption DEF OutboxInv, TypeOK, Faultless
<1>1. ASSUME UNCHANGED <<message, failed, broker, faults>> PROVE Goal
  BY <1>0, <1>1
<1>2. ASSUME NEW k \in Ids, NEW key \in Keys, NEW kind \in Kinds, Insert(k, key, kind) PROVE Goal
  BY <1>0, <1>2 DEF Insert, batch, OutboxInv, TypeOK
<1>3. ASSUME NEW k \in Ids, NEW how \in {"pending", "rolled_back"}, EndInsert(k, how) PROVE Goal
  <2>1. /\ message[k] \in Rows /\ message[k].attempts = 0
        /\ message' = [message EXCEPT ![k] = [message[k] EXCEPT !.state = how]]
        /\ UNCHANGED <<failed, broker, faults>>
    BY <1>3 DEF EndInsert, OutboxInv, TypeOK, Rows, NewIsUntried, batch
  <2>2. message'[k].attempts = 0 /\ \A x \in Ids \ {k} : message'[x] = message[x]
    BY <2>1 DEF OutboxInv, TypeOK, Rows
  <2> QED BY <1>0, <2>1, <2>2
<1>4. ASSUME NEW r \in Replicas, Finish(r) PROVE Goal
  <2>1. /\ \A x \in Ids : message'[x] = Outcome(r, x)
        /\ UNCHANGED <<broker, faults>> /\ \A q \in Replicas : failed'[q] \subseteq failed[q]
    BY <1>4 DEF Finish, Release, OutboxInv, TypeOK
  <2>2. failed[r] = {} /\ faults = 0
    BY <1>0, <2>1
  <2>3. \A x \in sent[r] : message[x] \in Rows
    BY ClaimedRow DEF Claimed
  <2>4. \A x \in Ids : message'[x] = message[x] \/ message'[x].state = "published"
    BY <2>1, <2>2, <2>3 DEF Outcome, Rows
  <2> QED BY <1>0, <2>1, <2>2, <2>4
<1>5. ASSUME NEW r \in Replicas, SendFails(r) PROVE FALSE
  BY <1>0, <1>5 DEF SendFails
<1>6. ASSUME BrokerFails \/ \E r \in Replicas : AckLost(r) \/ Crash(r) PROVE FALSE
  BY <1>0, <1>6 DEF BrokerFails, AckLost, Crash
<1>7. ASSUME BrokerRecovers PROVE FALSE
  BY <1>0, <1>7 DEF BrokerRecovers
<1> QED BY <1>1, <1>2, <1>3, <1>4, <1>5, <1>6, <1>7
        DEF Next, CommitInsert, RollbackInsert, Claim, Send, vars

\* The rows a Claim takes are the first by id: an earlier free row is among them.
LEMMA EarlierIsClaimed ==
  ASSUME OutboxInv, NEW r \in Replicas, Claim(r), NEW j \in todo'[r], NEW i \in Selectable \ Locked,
         i < j
  PROVE  i \in todo'[r]
<1> DEFINE free     == Selectable \ Locked
           below(x) == {y \in free : y < x}
<1>1. todo'[r] = {x \in free : Cardinality(below(x)) < BatchSize}
  BY DEF Claim, OutboxInv, TypeOK
<1>2. free \subseteq Ids /\ Ids = 1 .. MaxMessages /\ MaxMessages \in Int
  BY DispatcherAssumption DEF Selectable, Ids
<1>3. IsFiniteSet(Ids)
  BY <1>2, FS_Interval
<1>4. below(i) \subseteq below(j) /\ below(j) \in SUBSET Ids /\ j \in free
  BY <1>1, <1>2
<1>5. IsFiniteSet(below(j))
  BY <1>3, <1>4, FS_Subset
<1>6. IsFiniteSet(below(i)) /\ Cardinality(below(i)) <= Cardinality(below(j))
  BY <1>4, <1>5, FS_Subset
<1>7. Cardinality(below(i)) \in Nat /\ Cardinality(below(j)) \in Nat
  BY <1>5, <1>6, FS_CardinalityType
<1>8. Cardinality(below(j)) < BatchSize
  BY <1>1
<1>9. Cardinality(below(i)) < BatchSize
  <2> HIDE DEF below
  <2> QED BY <1>6, <1>7, <1>8, DispatcherAssumption
<1> QED BY <1>1, <1>9

LEMMA EarlierIsHeldStep ==
  OutboxInv /\ WriteOrder /\ Faultless /\ EarlierIsHeld /\ [Next]_vars => EarlierIsHeld'
<1> SUFFICES ASSUME OutboxInv, WriteOrder, Faultless, EarlierIsHeld, [Next]_vars, faults' = 0,
                    NEW r \in Replicas, NEW j \in Claimed(r)', NEW i \in Ids,
                    Ordered(i, j)', NotSent(i)'
             PROVE  i \in Locked'
  BY DEF EarlierIsHeld
<1>0. /\ faults \in Nat
      /\ faults = 0 => /\ broker = "up"
                       /\ \A q \in Replicas : failed[q] = {}
                       /\ \A x \in Ids : message[x].state = "pending" => message[x].attempts = 0
  BY DispatcherAssumption DEF OutboxInv, TypeOK, Faultless
<1>1. faults = 0 /\ j \in Claimed(r) /\ Ordered(i, j) /\ NotSent(i) => i \in Locked
  BY DEF EarlierIsHeld
<1>2. ASSUME UNCHANGED <<message, todo, sent, failed, topic, faults>> PROVE i \in Locked'
  BY <1>1, <1>2 DEF Claimed, Ordered, NotSent, Locked
<1>3. ASSUME NEW k \in Ids, UNCHANGED <<batch, topic, faults>>,
             message[k].state \in {"unused", "inserting"},
             \A x \in Ids \ {k} : message'[x] = message[x],
             message'[k].state = "pending" => /\ message[k].state = "inserting"
                                              /\ message'[k].key = message[k].key
                                              /\ message'[k].kind = message[k].kind,
             message'[k].state # "published"
      PROVE  i \in Locked'
  <2>1. j \in Claimed(r) /\ j \in Ids /\ message[j].state = "pending"
    BY <1>3, ClaimedRow DEF Claimed, batch
  <2>2. k # j /\ message'[j] = message[j]
    BY <1>3, <2>1
  <2>3. k # i
    <3> SUFFICES ASSUME k = i PROVE FALSE
      OBVIOUS
    <3>1. message[i].state = "inserting" /\ OfOneFestival(i, j) /\ i < j
      BY <1>3, <2>2 DEF Ordered, OfOneFestival
    <3> QED BY <2>1, <3>1 DEF WriteOrder
  <2> QED BY <1>1, <1>3, <2>1, <2>2, <2>3 DEF Ordered, NotSent, Locked, Claimed, batch
<1>4. ASSUME NEW k \in Ids, NEW key \in Keys, NEW kind \in Kinds, Insert(k, key, kind)
      PROVE  i \in Locked'
  <2>1. /\ message[k].state = "unused" /\ message'[k].state = "inserting"
        /\ UNCHANGED <<batch, topic, faults>> /\ \A x \in Ids \ {k} : message'[x] = message[x]
    BY <1>4 DEF Insert, OutboxInv, TypeOK
  <2> QED BY <1>3, <2>1
<1>5. ASSUME NEW k \in Ids, NEW how \in {"pending", "rolled_back"}, EndInsert(k, how)
      PROVE  i \in Locked'
  <2>1. /\ message[k].state = "inserting" /\ message[k] \in Rows
        /\ message'[k] = [message[k] EXCEPT !.state = how]
        /\ UNCHANGED <<batch, topic, faults>> /\ \A x \in Ids \ {k} : message'[x] = message[x]
    BY <1>5 DEF EndInsert, OutboxInv, TypeOK, Rows
  <2>2. /\ message'[k].key = message[k].key /\ message'[k].kind = message[k].kind
        /\ message'[k].state # "published"
    BY <2>1 DEF Rows
  <2> QED BY <1>3, <2>1, <2>2
<1>6. ASSUME NEW q \in Replicas, Claim(q) PROVE i \in Locked'
  <2>1. /\ UNCHANGED <<message, topic, faults>> /\ Claimed(q) = {}
        /\ Claimed(q)' = todo'[q]
        /\ \A p \in Replicas \ {q} : Claimed(p)' = Claimed(p)
    BY <1>6 DEF Claim, Claimed, OutboxInv, TypeOK
  <2>2. Locked \subseteq Locked' /\ todo'[q] \subseteq Locked'
    BY <2>1 DEF Locked
  <2>3. Ordered(i, j) /\ NotSent(i)
    BY <2>1 DEF Ordered, NotSent
  <2>4. CASE r # q
    BY <1>1, <2>1, <2>2, <2>3, <2>4
  <2>5. CASE r = q /\ i \notin Locked
    <3>1. message[i].state = "pending"
      BY <2>3 DEF Ordered, NotSent, OutboxInv, PublishedWasSent
    <3>2. i \in Selectable \ Locked
      BY <1>0, <2>1, <2>5, <3>1, DispatcherAssumption DEF Selectable
    <3>3. i < j /\ j \in todo'[q]
      BY <2>1, <2>3, <2>5 DEF Ordered
    <3> QED BY <1>6, <2>2, <3>2, <3>3, EarlierIsClaimed
  <2> QED BY <2>2, <2>4, <2>5
<1>7. ASSUME NEW q \in Replicas, Send(q) PROVE i \in Locked'
  <2>1. PICK k \in todo[q] : /\ todo'  = [todo EXCEPT ![q] = @ \ {k}]
                             /\ sent'  = [sent EXCEPT ![q] = @ \cup {k}]
                             /\ topic' = Append(topic, k)
    BY <1>7 DEF Send
  <2>2. UNCHANGED <<message, failed, faults>>
    BY <1>7 DEF Send
  <2>3. \A p \in Replicas : Claimed(p)' = Claimed(p)
    BY <2>1, <2>2 DEF Claimed, OutboxInv, TypeOK
  <2>4. k \in Ids /\ topic \in Seq(Ids)
    BY <2>1 DEF OutboxInv, TypeOK
  <2>5. NotSent(i)
    BY <2>1, <2>4, TopicGrows DEF NotSent
  <2> QED BY <1>1, <2>2, <2>3, <2>5 DEF Ordered, Locked
<1>8. ASSUME NEW q \in Replicas, Finish(q) PROVE i \in Locked'
  <2>1. /\ UNCHANGED <<topic, faults>> /\ todo[q] = {} /\ Claimed(q)' = {}
        /\ \A p \in Replicas \ {q} : Claimed(p)' = Claimed(p)
    BY <1>8 DEF Finish, Release, Claimed, OutboxInv, TypeOK
  <2>2. \A x \in Ids : message'[x] = Outcome(q, x)
    BY <1>8 DEF Finish
  <2>3. ASSUME NEW x \in Ids, message'[x] # message[x]
        PROVE  /\ message[x].state = "pending" /\ message'[x].key = message[x].key
               /\ message'[x].kind = message[x].kind
    <3>1. x \in Claimed(q)
      BY <2>2, <2>3 DEF Outcome, Claimed
    <3>2. message[x] \in Rows /\ message[x].state = "pending"
      BY <3>1, ClaimedRow
    <3> QED BY <2>2, <3>2 DEF Outcome, Rows
  <2>4. r # q /\ j \in Claimed(r) /\ j \in Ids
    BY <2>1, ClaimedRow
  <2>5. i \in Locked
    BY <1>1, <2>1, <2>3, <2>4 DEF Ordered, NotSent
  <2>6. i \notin Claimed(q)
    BY <1>0, <2>1 DEF Claimed, NotSent, OutboxInv, SentIsOnTopic
  <2> QED BY <2>1, <2>5, <2>6 DEF Locked
<1>9. ASSUME NEW q \in Replicas, SendFails(q) PROVE FALSE
  BY <1>0, <1>9 DEF SendFails
<1>10. ASSUME BrokerFails \/ BrokerRecovers \/ \E q \in Replicas : AckLost(q) \/ Crash(q) PROVE FALSE
  BY <1>0, <1>10 DEF BrokerFails, BrokerRecovers, AckLost, Crash
<1> QED BY <1>2, <1>4, <1>5, <1>6, <1>7, <1>8, <1>9, <1>10
        DEF Next, CommitInsert, RollbackInsert, vars

LEMMA OrderInvariant == Spec => [](WriteOrder /\ Faultless /\ EarlierIsHeld)
<1>1. Init => WriteOrder /\ Faultless /\ EarlierIsHeld
  BY DEF Init, WriteOrder, Faultless, EarlierIsHeld, Claimed
<1> QED BY <1>1, WriteOrderStep, FaultlessStep, EarlierIsHeldStep, OutboxInvariant,
           NewIsUntriedInvariant, PTL DEF Spec

LEMMA OvertakeStep ==
  ASSUME OutboxInv, Faultless, EarlierIsHeld, [Next]_vars,
         NEW r \in Replicas, NEW i \in Ids, NEW j \in Ids,
         faults = 0, Ordered(i, j), Copies(i) = 0, j \in sent'[r] \ sent[r]
  PROVE  \E q \in Replicas \ {r} : i \in Claimed(q)
<1>1. NotSent(i)
  <2>1. topic \in Seq(Ids)
    BY DEF OutboxInv, TypeOK
  <2>2. {n \in DOMAIN topic : topic[n] = i} = {}
    BY <2>1, CopiesType, FS_EmptySet DEF Copies
  <2> QED BY <2>2 DEF NotSent
<1>2. PICK q \in Replicas : Send(q)
  BY DEF Next, vars, batch, Insert, CommitInsert, RollbackInsert, EndInsert, Claim, SendFails,
     AckLost, Finish, Crash, Release, BrokerFails, BrokerRecovers, OutboxInv, TypeOK
<1>3. q = r /\ IsNext(r, j)
  BY <1>2 DEF Send, OutboxInv, TypeOK
<1>4. i < j /\ j \in todo[r]
  BY <1>3 DEF Ordered, IsNext
<1>5. i \notin todo[r]
  BY <1>3, <1>4 DEF IsNext, Ids
<1>6. i \notin sent[r] /\ failed[r] = {}
  BY <1>1 DEF NotSent, Faultless, OutboxInv, SentIsOnTopic
<1>7. i \in Locked /\ i \notin Claimed(r)
  BY <1>1, <1>4, <1>5, <1>6 DEF EarlierIsHeld, Claimed
<1> QED BY <1>7 DEF Locked

\* Neither writers that commit while it runs nor its own batches make one
\* Dispatcher put two events of a festival out of order.
THEOREM OvertakenOnlyWhileHeld == Spec => OvertakenOnlyIfHeld
<1>1. OutboxInv /\ Faultless /\ EarlierIsHeld /\ [Next]_vars =>
        [\A r \in Replicas, i, j \in Ids :
           faults = 0 /\ Ordered(i, j) /\ Copies(i) = 0 /\ j \in sent'[r] \ sent[r] =>
             \E q \in Replicas \ {r} : i \in Claimed(q)]_vars
  BY OvertakeStep
<1> QED BY <1>1, OutboxInvariant, OrderInvariant, PTL DEF Spec, OvertakenOnlyIfHeld

-----------------------------------------------------------------------------
(* One Dispatcher keeps the order *)

\* No two Dispatchers have a batch open.
OneDrains == \A r, q \in Replicas : Claimed(r) # {} /\ Claimed(q) # {} => r = q

\* While the broker is up, a row that has been tried is on the topic, whether or not
\* its acknowledgement has arrived.
TriedIsOnTopic ==
  /\ \A r \in Replicas : \A i \in failed[r] : ~NotSent(i)
  /\ \A i \in Ids : message[i].state = "pending" /\ message[i].attempts # 0 => ~NotSent(i)

\* While a row is in a batch, an earlier one of its festival is sent, or in the same
\* batch.
EarlierIsAlong ==
  \A r \in Replicas : \A j \in Claimed(r) : \A i \in Ids :
    Ordered(i, j) /\ NotSent(i) => i \in Claimed(r)

OrderInv == TriedIsOnTopic /\ EarlierIsAlong /\ KeyOrder

\* What is on the topic stays there.
LEMMA SentStays ==
  ASSUME OutboxInv, [Next]_vars
  PROVE  \A i \in Ids : NotSent(i)' => NotSent(i)
<1>1. ASSUME NEW k \in Ids, topic' = Append(topic, k)
      PROVE  \A i \in Ids : NotSent(i)' => NotSent(i)
  BY <1>1, TopicGrows DEF NotSent, OutboxInv, TypeOK
<1>2. ASSUME NEW r \in Replicas, Send(r) \/ AckLost(r)
      PROVE  \E k \in Ids : topic' = Append(topic, k)
  BY <1>2 DEF Send, AckLost, OutboxInv, TypeOK
<1>3. ASSUME topic' = topic
      PROVE  \A i \in Ids : NotSent(i)' => NotSent(i)
  BY <1>3 DEF NotSent
<1> QED BY <1>1, <1>2, <1>3
        DEF Next, Insert, CommitInsert, RollbackInsert, EndInsert, Claim, SendFails, Finish,
            Crash, BrokerFails, BrokerRecovers, vars

\* The row a Dispatcher tries is on the topic afterwards.
LEMMA TriedStep ==
  OutboxInv /\ NewIsUntried /\ TriedIsOnTopic /\ broker = "up" /\ [Next]_vars => TriedIsOnTopic'
<1> SUFFICES ASSUME OutboxInv, NewIsUntried, TriedIsOnTopic, broker = "up", [Next]_vars
             PROVE  TriedIsOnTopic'
  OBVIOUS
<1>0. \A i \in Ids : ~NotSent(i) => ~NotSent(i)'
  BY SentStays
<1>f. \A r \in Replicas : failed[r] \subseteq Ids
  BY DEF OutboxInv, TypeOK
<1>1. ASSUME NEW k \in Ids, UNCHANGED failed, \A x \in Ids \ {k} : message'[x] = message[x],
             message'[k].state = "pending" => message'[k].attempts = 0
      PROVE  TriedIsOnTopic'
  BY <1>0, <1>f, <1>1 DEF TriedIsOnTopic
<1>2. ASSUME NEW k \in Ids, NEW key \in Keys, NEW kind \in Kinds, Insert(k, key, kind)
      PROVE  TriedIsOnTopic'
  <2>1. /\ message'[k].state = "inserting" /\ failed' = failed
        /\ \A x \in Ids \ {k} : message'[x] = message[x]
    BY <1>2 DEF Insert, batch, OutboxInv, TypeOK
  <2> QED BY <1>1, <2>1
<1>3. ASSUME NEW k \in Ids, NEW how \in {"pending", "rolled_back"}, EndInsert(k, how)
      PROVE  TriedIsOnTopic'
  <2>1. /\ message[k].state = "inserting" /\ message[k] \in Rows /\ failed' = failed
        /\ message'[k] = [message[k] EXCEPT !.state = how]
        /\ \A x \in Ids \ {k} : message'[x] = message[x]
    BY <1>3 DEF EndInsert, batch, OutboxInv, TypeOK, Rows
  <2>2. message'[k].attempts = 0
    BY <2>1 DEF NewIsUntried, Rows
  <2> QED BY <1>1, <2>1, <2>2
<1>4. ASSUME NEW r \in Replicas, UNCHANGED message,
             \A q \in Replicas \ {r} : failed'[q] = failed[q],
             \A i \in failed'[r] : i \in failed[r] \/ (i \in Ids /\ ~NotSent(i)')
      PROVE  TriedIsOnTopic'
  BY <1>0, <1>f, <1>4 DEF TriedIsOnTopic
<1>5. ASSUME NEW r \in Replicas, Claim(r) \/ Send(r) \/ Crash(r)
      PROVE  TriedIsOnTopic'
  BY <1>4, <1>5 DEF Claim, Send, Crash, Release, OutboxInv, TypeOK
<1>6. ASSUME NEW r \in Replicas, AckLost(r) PROVE TriedIsOnTopic'
  <2>1. PICK k \in todo[r] : /\ failed' = [failed EXCEPT ![r] = @ \cup {k}]
                             /\ topic' = Append(topic, k)
    BY <1>6 DEF AckLost
  <2>2. k \in Ids /\ ~NotSent(k)'
    BY <2>1, TopicGrows DEF OutboxInv, TypeOK, NotSent
  <2> QED BY <1>4, <1>6, <2>1, <2>2 DEF AckLost, OutboxInv, TypeOK
<1>7. ASSUME NEW r \in Replicas, Finish(r) PROVE TriedIsOnTopic'
  <2>1. /\ \A x \in Ids : message'[x] = Outcome(r, x)
        /\ failed'[r] = {} /\ \A q \in Replicas \ {r} : failed'[q] = failed[q]
    BY <1>7 DEF Finish, Release, OutboxInv, TypeOK
  <2>2. ASSUME NEW x \in Ids, message'[x].state = "pending", message'[x].attempts # 0
        PROVE  ~NotSent(x)'
    <3>1. CASE x \in sent[r]
      <4>1. message[x] \in Rows
        BY <3>1, ClaimedRow DEF Claimed
      <4> QED BY <2>1, <2>2, <3>1, <4>1 DEF Outcome, Rows
    <3>2. CASE x \in failed[r]
      BY <1>0, <3>2 DEF TriedIsOnTopic
    <3>3. CASE x \notin sent[r] /\ x \notin failed[r]
      BY <1>0, <2>1, <2>2, <3>3 DEF Outcome, TriedIsOnTopic
    <3> QED BY <3>1, <3>2, <3>3
  <2> QED BY <1>0, <1>f, <2>1, <2>2 DEF TriedIsOnTopic
<1>8. CASE BrokerFails \/ BrokerRecovers \/ UNCHANGED vars
  BY <1>0, <1>f, <1>8 DEF BrokerFails, BrokerRecovers, batch, vars, TriedIsOnTopic
<1>9. ASSUME NEW r \in Replicas, SendFails(r) PROVE FALSE
  BY <1>9 DEF SendFails
<1> QED BY <1>2, <1>3, <1>5, <1>6, <1>7, <1>8, <1>9 DEF Next, CommitInsert, RollbackInsert

\* No event gets ahead of one that is committed already: its writer had waited.
LEMMA OrderedBefore ==
  ASSUME OutboxInv, WriteOrder, [Next]_vars, NEW i \in Ids, NEW j \in Ids,
         message[j].state \in {"pending", "published"}, Ordered(i, j)'
  PROVE  Ordered(i, j)
<1>1. ASSUME NEW k \in Ids, NEW key \in Keys, NEW kind \in Kinds, Insert(k, key, kind)
      PROVE  Ordered(i, j)
  <2>1. /\ message[k].state = "unused" /\ message'[k].state = "inserting"
        /\ \A x \in Ids \ {k} : message'[x] = message[x]
    BY <1>1 DEF Insert, OutboxInv, TypeOK
  <2>2. k # i /\ k # j
    BY <2>1 DEF Ordered
  <2> QED BY <2>1, <2>2 DEF Ordered
<1>2. ASSUME NEW k \in Ids, NEW how \in {"pending", "rolled_back"}, EndInsert(k, how)
      PROVE  Ordered(i, j)
  <2>1. /\ message[k].state = "inserting" /\ message[k] \in Rows
        /\ message'[k] = [message[k] EXCEPT !.state = how]
        /\ \A x \in Ids \ {k} : message'[x] = message[x]
    BY <1>2 DEF EndInsert, OutboxInv, TypeOK, Rows
  <2>2. message'[k].key = message[k].key /\ message'[k].kind = message[k].kind
    BY <2>1 DEF Rows
  <2>3. k # j /\ message'[j] = message[j]
    BY <2>1
  <2>4. k # i
    <3> SUFFICES ASSUME k = i PROVE FALSE
      OBVIOUS
    <3>1. message[i].state = "inserting" /\ OfOneFestival(i, j) /\ i < j
      BY <2>1, <2>2, <2>3 DEF Ordered, OfOneFestival
    <3> QED BY <3>1 DEF WriteOrder
  <2> QED BY <2>1, <2>3, <2>4 DEF Ordered
<1>3. ASSUME NEW q \in Replicas, Finish(q) PROVE Ordered(i, j)
  <2>1. \A x \in Ids : message'[x] = Outcome(q, x)
    BY <1>3 DEF Finish
  <2>2. ASSUME NEW x \in Ids, message'[x] # message[x]
        PROVE  /\ message[x].state = "pending" /\ message'[x].key = message[x].key
               /\ message'[x].kind = message[x].kind
    <3>1. x \in Claimed(q)
      BY <2>1, <2>2 DEF Outcome, Claimed
    <3>2. message[x] \in Rows /\ message[x].state = "pending"
      BY <3>1, ClaimedRow
    <3> QED BY <2>1, <3>2 DEF Outcome, Rows
  <2> QED BY <2>2 DEF Ordered
<1>4. ASSUME UNCHANGED message PROVE Ordered(i, j)
  BY <1>4 DEF Ordered
<1> QED BY <1>1, <1>2, <1>3, <1>4
        DEF Next, CommitInsert, RollbackInsert, Claim, Send, SendFails, AckLost, Crash,
            BrokerFails, BrokerRecovers, vars

\* A batch begins with what is still to be sent of each festival.
LEMMA AlongStep ==
  /\ OutboxInv /\ WriteOrder /\ TriedIsOnTopic /\ EarlierIsAlong
  /\ broker = "up" /\ OneDrains /\ OneDrains' /\ [Next]_vars
  => EarlierIsAlong'
<1> SUFFICES ASSUME OutboxInv, WriteOrder, TriedIsOnTopic, EarlierIsAlong,
                    broker = "up", OneDrains, OneDrains', [Next]_vars,
                    NEW r \in Replicas, NEW j \in Claimed(r)', NEW i \in Ids,
                    Ordered(i, j)', NotSent(i)'
             PROVE  i \in Claimed(r)'
  BY DEF EarlierIsAlong
<1>0. NotSent(i)
  BY SentStays
<1>1. ASSUME j \in Claimed(r), Claimed(r) \subseteq Claimed(r)'
      PROVE  i \in Claimed(r)'
  <2>1. j \in Ids /\ message[j].state = "pending"
    BY <1>1, ClaimedRow
  <2>2. Ordered(i, j)
    BY <2>1, OrderedBefore
  <2> QED BY <1>0, <1>1, <2>2 DEF EarlierIsAlong
<1>2. ASSUME UNCHANGED batch PROVE i \in Claimed(r)'
  BY <1>1, <1>2 DEF batch, Claimed
<1>3. ASSUME NEW q \in Replicas, Send(q) \/ AckLost(q) PROVE i \in Claimed(r)'
  <2>1. PICK k \in todo[q] :
          /\ todo' = [todo EXCEPT ![q] = @ \ {k}]
          /\ \/ sent' = [sent EXCEPT ![q] = @ \cup {k}] /\ failed' = failed
             \/ failed' = [failed EXCEPT ![q] = @ \cup {k}] /\ sent' = sent
    BY <1>3 DEF Send, AckLost
  <2>2. Claimed(r)' = Claimed(r)
    BY <2>1 DEF Claimed, OutboxInv, TypeOK
  <2> QED BY <1>1, <2>2
<1>4. ASSUME NEW q \in Replicas, Claim(q) PROVE i \in Claimed(r)'
  <2>1. /\ UNCHANGED message /\ Claimed(q) = {}
        /\ Claimed(q)' = todo'[q] /\ todo'[q] \subseteq Ids
        /\ \A p \in Replicas \ {q} : Claimed(p)' = Claimed(p)
    BY <1>4 DEF Claim, Claimed, Selectable, OutboxInv, TypeOK
  <2>2. CASE r # q
    BY <1>1, <2>1, <2>2
  <2>3. CASE r = q
    <3>1. \A p \in Replicas : Claimed(p) = {}
      BY <2>1, <2>3 DEF OneDrains
    <3>2. i \notin Locked
      BY <3>1 DEF Locked
    <3>3. message[i].state = "pending" /\ message[i].attempts = 0 /\ i < j
      BY <1>0, <2>1 DEF Ordered, NotSent, OutboxInv, PublishedWasSent, TriedIsOnTopic
    <3>4. i \in Selectable \ Locked
      BY <3>2, <3>3, DispatcherAssumption DEF Selectable
    <3> QED BY <1>4, <2>1, <2>3, <3>3, <3>4, EarlierIsClaimed
  <2> QED BY <2>2, <2>3
<1>5. ASSUME NEW q \in Replicas, Finish(q) \/ Crash(q) PROVE FALSE
  <2>1. /\ Claimed(q) # {} /\ Claimed(q)' = {}
        /\ \A p \in Replicas \ {q} : Claimed(p)' = Claimed(p)
    BY <1>5 DEF Finish, Crash, Release, Claimed, OutboxInv, TypeOK
  <2> QED BY <2>1 DEF OneDrains
<1>6. ASSUME NEW q \in Replicas, SendFails(q) PROVE FALSE
  BY <1>6 DEF SendFails
<1> QED BY <1>2, <1>3, <1>4, <1>5, <1>6
        DEF Next, Insert, CommitInsert, RollbackInsert, EndInsert, BrokerFails,
            BrokerRecovers, vars, batch

\* What is sent next has nothing before it that is still to be sent.
LEMMA KeyOrderStep ==
  OutboxInv /\ WriteOrder /\ OrderInv /\ [Next]_vars => KeyOrder'
<1> SUFFICES ASSUME OutboxInv, WriteOrder, OrderInv, [Next]_vars,
                    NEW i \in Ids, NEW j \in Ids, Ordered(i, j)',
                    NEW n \in DOMAIN topic', topic'[n] = j
             PROVE  \E m \in 1 .. n - 1 : topic'[m] = i
  BY DEF KeyOrder
<1>0. topic \in Seq(Ids) /\ DOMAIN topic = 1 .. Len(topic) /\ Len(topic) \in Nat
  BY DEF OutboxInv, TypeOK
<1>1. ASSUME n \in DOMAIN topic, \A m \in DOMAIN topic : topic'[m] = topic[m]
      PROVE  \E m \in 1 .. n - 1 : topic'[m] = i
  <2>1. message[j].state \in {"pending", "published"}
    BY <1>1 DEF OutboxInv, OnlyCommittedIsSent
  <2>2. Ordered(i, j)
    BY <2>1, OrderedBefore
  <2>3. PICK m \in 1 .. n - 1 : topic[m] = i
    BY <1>1, <2>2 DEF OrderInv, KeyOrder
  <2> QED BY <1>0, <1>1, <2>3
<1>2. ASSUME UNCHANGED topic PROVE \E m \in 1 .. n - 1 : topic'[m] = i
  BY <1>1, <1>2
<1>3. ASSUME NEW q \in Replicas, Send(q) \/ AckLost(q)
      PROVE  \E m \in 1 .. n - 1 : topic'[m] = i
  <2>1. PICK k \in todo[q] : IsNext(q, k) /\ topic' = Append(topic, k) /\ message' = message
    BY <1>3 DEF Send, AckLost
  <2>2. /\ k \in Ids
        /\ DOMAIN topic' = DOMAIN topic \cup {Len(topic) + 1}
        /\ \A m \in DOMAIN topic : topic'[m] = topic[m]
        /\ topic'[Len(topic) + 1] = k
    BY <1>0, <2>1, TopicGrows DEF OutboxInv, TypeOK
  <2>3. CASE n \in DOMAIN topic
    BY <1>1, <2>2, <2>3
  <2>4. CASE n = Len(topic) + 1
    <3>1. k = j /\ Ordered(i, j) /\ i < j /\ j \in Claimed(q)
      BY <2>1, <2>2, <2>4 DEF Ordered, Claimed
    <3>2. i \notin todo[q]
      BY <2>1, <3>1 DEF IsNext, Ids
    <3>3. ~NotSent(i)
      <4> SUFFICES ASSUME NotSent(i) PROVE FALSE
        OBVIOUS
      <4>1. i \in Claimed(q)
        BY <3>1 DEF OrderInv, EarlierIsAlong
      <4>2. i \in sent[q] \/ i \in failed[q]
        BY <3>2, <4>1 DEF Claimed
      <4> QED BY <4>2 DEF OrderInv, TriedIsOnTopic, OutboxInv, SentIsOnTopic, NotSent
    <3>4. PICK m \in DOMAIN topic : topic[m] = i
      BY <3>3 DEF NotSent
    <3> QED BY <1>0, <2>2, <2>4, <3>4
  <2> QED BY <2>2, <2>3, <2>4
<1> QED BY <1>2, <1>3
        DEF Next, Insert, CommitInsert, RollbackInsert, EndInsert, Claim, SendFails, Finish,
            Crash, BrokerFails, BrokerRecovers, vars

\* "Two events about the same order must never be processed out of sequence": where
\* one Dispatcher at a time has a batch open and the broker stays up, they are sent in
\* sequence, even if Dispatchers crash in mid-batch, acknowledgements get lost and
\* rows are sent again.
THEOREM OneDispatcherKeepsOrder ==
  Spec /\ [](broker = "up") /\ []OneDrains => []KeyingKeepsOrder
<1>1. Init => OrderInv
  BY DEF Init, OrderInv, TriedIsOnTopic, EarlierIsAlong, KeyOrder, Claimed
<1>2. /\ OutboxInv /\ NewIsUntried /\ WriteOrder /\ OrderInv
      /\ broker = "up" /\ OneDrains /\ OneDrains' /\ [Next]_vars
      => OrderInv'
  BY TriedStep, AlongStep, KeyOrderStep DEF OrderInv
<1>3. OrderInv => KeyingKeepsOrder
  BY DEF OrderInv, KeyingKeepsOrder
<1> QED BY <1>1, <1>2, <1>3, OutboxInvariant, NewIsUntriedInvariant, OrderInvariant, PTL DEF Spec
=============================================================================
