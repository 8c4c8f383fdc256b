----------------------- MODULE GameEventsConsumerProofs -----------------------
(***************************************************************************)
(* Safety of the consumer group for any number of replicas, messages,      *)
(* retries, rebalances and crashes: ConsumerInv is inductive.              *)
(***************************************************************************)
EXTENDS GameEventsConsumer, SequenceTheorems, TLAPS

\* Nothing more will be done about the message.
Over(n) == Settled(n) \/ n \in given_up

\* A handler that runs has an attempt left.
AttemptsLeft == \A r \in Replicas : stage[r] = "handling" => attempt[r] <= MaxRetries

\* What came under the assignment that still holds is the owner's, and is the next
\* message of the group.
HandIsNext ==
  \A r \in Replicas : hand[r] # 0 /\ ~stale[r] => owner = r /\ hand[r] = committed + 1

\* _loop commits after _handle_with_retries is done, and not before.
SettledHand == \A r \in Replicas : stage[r] = "settled" => Over(hand[r])

ConsumerInv ==
  /\ TypeOK
  /\ AttemptsLeft
  /\ HandIsNext
  /\ SettledHand
  /\ NothingIsSkippedSilently

\* The stages at which a loop has a message in hand.
Busy == {"handling", "burying", "raised", "settled"}

-----------------------------------------------------------------------------
(* Lemmas *)

\* The message in hand is one of the log, and no loop without one is busy.
LEMMA InHandType ==
  ASSUME ConsumerInv, NEW r \in Replicas, stage[r] \in Busy
  PROVE  /\ hand[r] \in 1 .. Len(log)
         /\ InHand(r) \in Messages
         /\ InHand(r).kind \in Kinds
<1>1. hand[r] \in 1 .. Len(log) /\ log \in Seq(Messages)
  BY DEF ConsumerInv, TypeOK, Busy
<1> QED BY <1>1, ConsumerAssumption DEF InHand

\* Appending to a sequence leaves what it holds in its place.
LEMMA AppendKeeps ==
  ASSUME NEW S, NEW s \in Seq(S), NEW e \in S
  PROVE  /\ Append(s, e) \in Seq(S)
         /\ Len(Append(s, e)) = Len(s) + 1
         /\ \A n \in 1 .. Len(s) : Append(s, e)[n] = s[n]
         /\ Append(s, e)[Len(s) + 1] = e
OBVIOUS

\* Whatever is over stays over: what is applied, dead-lettered and given up only
\* grows, and the log's messages stay what they are.
LEMMA OverStays ==
  ASSUME TypeOK,
         \A n \in 1 .. Len(log) : log'[n] = log[n],
         applied' = applied \/ (\E k \in 1 .. Len(log) : applied' = Append(applied, k)),
         dlq \subseteq dlq', given_up \subseteq given_up'
  PROVE  \A n \in 1 .. Len(log) : Over(n) => Over(n)'
<1>1. \A n : Handled(n) => Handled(n)'
  <2>1. CASE applied' = applied
    BY <2>1 DEF Handled
  <2>2. CASE \E k \in 1 .. Len(log) : applied' = Append(applied, k)
    <3>1. PICK k \in 1 .. Len(log) : applied' = Append(applied, k)
      BY <2>2
    <3>2. applied \in Seq(1 .. Len(log))
      BY DEF TypeOK
    <3>3. \A i \in DOMAIN applied : i \in DOMAIN applied' /\ applied'[i] = applied[i]
      BY <3>1, <3>2, AppendKeeps
    <3> QED BY <3>3 DEF Handled
  <2> QED BY <2>1, <2>2
<1> QED BY <1>1 DEF Over, Settled

\* A step that commits nothing keeps what is promised, if what is over stays so and
\* the loops that reach "settled" have earned it.
LEMMA QuietStep ==
  ASSUME ConsumerInv, TypeOK', AttemptsLeft', HandIsNext',
         \A n \in 1 .. Len(log) : Over(n) => Over(n)',
         committed' = committed,
         \A r \in Replicas : stage'[r] = "settled" =>
           Over(hand[r])' \/ (stage[r] = "settled" /\ hand'[r] = hand[r])
  PROVE  ConsumerInv'
<1>1. committed \in 0 .. Len(log) /\ Len(log) \in Nat
  BY DEF ConsumerInv, TypeOK
<1>2. \A n \in 1 .. committed : Over(n)
  BY DEF ConsumerInv, NothingIsSkippedSilently, Over
<1>3. \A n \in 1 .. committed' : Over(n)'
  BY <1>1, <1>2
<1>4. NothingIsSkippedSilently'
  BY <1>3 DEF NothingIsSkippedSilently, Over
<1>5. ASSUME NEW r \in Replicas, stage'[r] = "settled" PROVE Over(hand[r])'
  <2>1. CASE stage[r] = "settled" /\ hand'[r] = hand[r]
    <3>1. stage[r] = "settled" /\ hand'[r] = hand[r]
      BY <2>1
    <3>2. hand[r] \in 1 .. Len(log) /\ Over(hand[r])
      BY <3>1, InHandType DEF Busy, ConsumerInv, SettledHand
    <3>3. ASSUME NEW n, n = hand[r] PROVE Over(n)'
      BY <3>2, <3>3
    <3> QED BY <3>1, <3>3 DEF Over, Settled, Handled
  <2> QED BY <1>5, <2>1
<1>6. SettledHand'
  BY <1>5 DEF SettledHand
<1> QED BY <1>4, <1>6 DEF ConsumerInv
-----------------------------------------------------------------------------
(* Every step keeps the invariant *)

\* Nothing has been committed or is in hand before the first replica joins.
LEMMA ConsumerInit == Init => ConsumerInv
<1> SUFFICES ASSUME Init PROVE ConsumerInv
  OBVIOUS
<1>1. TypeOK
  BY ConsumerAssumption DEF Init, TypeOK, Stages
<1>2. AttemptsLeft /\ HandIsNext /\ SettledHand /\ NothingIsSkippedSilently
  BY DEF Init, AttemptsLeft, HandIsNext, SettledHand, NothingIsSkippedSilently
<1> QED BY <1>1, <1>2 DEF ConsumerInv

\* The log grows at its end, and nobody's message changes.
LEMMA PublishInv ==
  ASSUME ConsumerInv, NEW m \in Messages, Publish(m)
  PROVE  ConsumerInv'
<1>1. /\ log' \in Seq(Messages) /\ Len(log') = Len(log) + 1 /\ Len(log) \in Nat
      /\ \A n \in 1 .. Len(log) : log'[n] = log[n]
  BY AppendKeeps DEF Publish, ConsumerInv, TypeOK
<1>2. 0 .. Len(log) \subseteq 0 .. Len(log') /\ 1 .. Len(log) \subseteq 1 .. Len(log')
  BY <1>1
<1>3. applied \in Seq(1 .. Len(log'))
  <2>1. applied \in Seq(1 .. Len(log))
    BY DEF ConsumerInv, TypeOK
  <2> QED BY <1>2, <2>1, SeqMonotonic
<1>4. TypeOK'
  <2>1. /\ committed' \in 0 .. Len(log') /\ hand' \in [Replicas -> 0 .. Len(log')]
        /\ dlq' \in SUBSET (1 .. Len(log')) /\ given_up' \in SUBSET (1 .. Len(log'))
    BY <1>2 DEF Publish, group, ConsumerInv, TypeOK
  <2>2. applied' \in Seq(1 .. Len(log'))
    BY <1>3 DEF Publish
  <2> QED BY <1>1, <2>1, <2>2 DEF Publish, group, ConsumerInv, TypeOK
<1>5. \A n \in 1 .. Len(log) : Over(n) => Over(n)'
  BY <1>1, OverStays DEF Publish, ConsumerInv
<1>6. AttemptsLeft' /\ HandIsNext'
  BY DEF Publish, group, ConsumerInv, AttemptsLeft, HandIsNext
<1>7. committed' = committed /\ stage' = stage /\ hand' = hand
  BY DEF Publish, group
<1> QED BY <1>4, <1>5, <1>6, <1>7, QuietStep

\* The group shares the partition anew, and some loop without a message in hand, or
\* none, goes where it has none.
LEMMA RegroupInv ==
  ASSUME ConsumerInv, NEW members \in SUBSET Replicas, Regroup(members),
         stage' \in [Replicas -> Stages],
         \A r \in Replicas :
           \/ stage'[r] = stage[r]
           \/ hand[r] = 0 /\ stage'[r] \in Stages \ Busy,
         UNCHANGED <<log, committed, hand, attempt, applied, dlq, given_up>>,
         faults' \in 0 .. MaxFaults
  PROVE  ConsumerInv'
<1>1. owner' \in Replicas \cup {Nobody} /\ stale' \in [Replicas -> BOOLEAN]
  BY DEF Regroup
<1>2. TypeOK'
  BY <1>1 DEF ConsumerInv, TypeOK, Busy
<1>3. AttemptsLeft'
  BY DEF ConsumerInv, AttemptsLeft, Busy
<1>4. HandIsNext'
  BY DEF Regroup, HandIsNext
<1>5. \A n \in 1 .. Len(log) : Over(n) => Over(n)'
  BY OverStays DEF ConsumerInv
<1>6. \A r \in Replicas : stage'[r] = "settled" => stage[r] = "settled" /\ hand'[r] = hand[r]
  BY DEF Busy
<1> QED BY <1>2, <1>3, <1>4, <1>5, <1>6, QuietStep

\* A process that dies drops its message and commits nothing.
LEMMA CrashInv ==
  ASSUME ConsumerInv, NEW r \in Replicas, Crash(r)
  PROVE  ConsumerInv'
<1>1. /\ stage \in [Replicas -> Stages] /\ hand \in [Replicas -> 0 .. Len(log)]
      /\ attempt \in [Replicas -> 0 .. MaxRetries + 1] /\ faults \in 0 .. MaxFaults
      /\ Len(log) \in Nat
  BY DEF ConsumerInv, TypeOK
<1>2. owner' \in Replicas \cup {Nobody} /\ stale' \in [Replicas -> BOOLEAN]
  BY DEF Crash, Members
<1>3. faults' \in 0 .. MaxFaults
  BY <1>1, ConsumerAssumption DEF Crash, Fault
<1>4. TypeOK'
  BY <1>1, <1>2, <1>3, ConsumerAssumption DEF Crash, MoveTo, ConsumerInv, TypeOK, Stages
<1>5. AttemptsLeft'
  BY <1>1 DEF Crash, MoveTo, ConsumerInv, AttemptsLeft
<1>6. HandIsNext'
  BY <1>1 DEF Crash, HandIsNext
<1>7. \A n \in 1 .. Len(log) : Over(n) => Over(n)'
  BY OverStays DEF Crash, ConsumerInv
<1>8. \A q \in Replicas : stage'[q] = "settled" => stage[q] = "settled" /\ hand'[q] = hand[q]
  BY <1>1 DEF Crash, MoveTo
<1> QED BY <1>4, <1>5, <1>6, <1>7, <1>8, QuietStep DEF Crash

\* The owner goes on at the committed offset; what is ignored is over at once.
LEMMA PollInv ==
  ASSUME ConsumerInv, NEW r \in Replicas, Poll(r)
  PROVE  ConsumerInv'
<1>1. /\ stage \in [Replicas -> Stages] /\ hand \in [Replicas -> 0 .. Len(log)]
      /\ attempt \in [Replicas -> 0 .. MaxRetries + 1] /\ stale \in [Replicas -> BOOLEAN]
      /\ committed \in 0 .. Len(log) /\ Len(log) \in Nat /\ log \in Seq(Messages)
  BY DEF ConsumerInv, TypeOK
<1> DEFINE n == committed + 1
<1>2. n \in 1 .. Len(log) /\ log[n] \in Messages /\ log[n].kind \in Kinds
  BY <1>1, ConsumerAssumption DEF Poll
<1>3. /\ Routed(log[n]) \in Busy
      /\ Routed(log[n]) = "settled" => log[n].kind = "unknown"
  BY <1>2 DEF Routed, Kinds, Busy
<1>4. TypeOK'
  BY <1>1, <1>2, <1>3, ConsumerAssumption DEF Poll, MoveTo, ConsumerInv, TypeOK, Stages, Busy
<1>5. AttemptsLeft'
  BY <1>1, ConsumerAssumption DEF Poll, MoveTo, ConsumerInv, AttemptsLeft
<1>6. HandIsNext'
  BY <1>1 DEF Poll, ConsumerInv, HandIsNext
<1>7. \A k \in 1 .. Len(log) : Over(k) => Over(k)'
  BY OverStays DEF Poll, ConsumerInv
<1>8. ASSUME stage'[r] = "settled" PROVE Over(hand[r])'
  BY <1>1, <1>2, <1>3, <1>8 DEF Poll, MoveTo, Over, Settled
<1>9. \A q \in Replicas \ {r} : stage'[q] = stage[q] /\ hand'[q] = hand[q]
  BY <1>1 DEF Poll, MoveTo
<1>10. \A q \in Replicas : stage'[q] = "settled" =>
         Over(hand[q])' \/ (stage[q] = "settled" /\ hand'[q] = hand[q])
  BY <1>8, <1>9
<1>11. committed' = committed
  BY DEF Poll
<1> QED BY <1>4, <1>5, <1>6, <1>7, <1>10, <1>11, QuietStep

\* A loop goes on with the message in hand, and is done with it only if it is over.
LEMMA LoopInv ==
  ASSUME ConsumerInv, NEW r \in Replicas, stage[r] \in Busy,
         NEW next \in Busy, MoveTo(r, next),
         UNCHANGED <<log, committed, owner, hand, stale>>,
         attempt' \in [Replicas -> 0 .. MaxRetries + 1],
         \A q \in Replicas \ {r} : attempt'[q] = attempt[q],
         next = "handling" => attempt'[r] <= MaxRetries,
         applied' = applied \/ applied' = Append(applied, hand[r]),
         dlq \subseteq dlq', dlq' \subseteq dlq \cup {hand[r]},
         given_up \subseteq given_up', given_up' \subseteq given_up \cup {hand[r]},
         faults' \in 0 .. MaxFaults,
         next = "settled" => Over(hand[r])'
  PROVE  ConsumerInv'
<1>1. stage \in [Replicas -> Stages] /\ applied \in Seq(1 .. Len(log))
  BY DEF ConsumerInv, TypeOK
<1>2. hand[r] \in 1 .. Len(log)
  BY InHandType
<1>3. applied' \in Seq(1 .. Len(log))
  <2>1. Append(applied, hand[r]) \in Seq(1 .. Len(log))
    BY <1>1, <1>2, AppendKeeps
  <2> QED BY <1>1, <2>1
<1>4. /\ stage' \in [Replicas -> Stages] /\ stage'[r] = next
      /\ \A q \in Replicas \ {r} : stage'[q] = stage[q]
  BY <1>1 DEF MoveTo, Stages, Busy
<1>5. TypeOK'
  <2>1. \A q \in Replicas : hand'[q] # 0 <=> stage'[q] \in Busy
    BY <1>2, <1>4 DEF ConsumerInv, TypeOK, Busy
  <2>2. dlq' \in SUBSET (1 .. Len(log')) /\ given_up' \in SUBSET (1 .. Len(log'))
    BY <1>2 DEF ConsumerInv, TypeOK
  <2> QED BY <1>3, <1>4, <2>1, <2>2 DEF ConsumerInv, TypeOK, Busy
<1>6. AttemptsLeft'
  BY <1>4 DEF ConsumerInv, AttemptsLeft
<1>7. HandIsNext'
  BY DEF ConsumerInv, HandIsNext
<1>8. \A n \in 1 .. Len(log) : Over(n) => Over(n)'
  BY <1>2, OverStays DEF ConsumerInv
<1>9. \A q \in Replicas : stage'[q] = "settled" =>
        Over(hand[q])' \/ (stage[q] = "settled" /\ hand'[q] = hand[q])
  <2>1. ASSUME stage'[r] = "settled" PROVE Over(hand[r])'
    BY <1>4, <2>1
  <2> QED BY <1>4, <2>1
<1> QED BY <1>4, <1>5, <1>6, <1>7, <1>8, <1>9, QuietStep
\* A handler that raises either has an attempt left or has its message buried.
LEMMA RaiseInv ==
  ASSUME ConsumerInv, NEW r \in Replicas, stage[r] = "handling", Raise(r),
         faults' \in 0 .. MaxFaults
  PROVE  ConsumerInv'
<1>1. /\ stage[r] \in Busy /\ stage \in [Replicas -> Stages]
      /\ attempt \in [Replicas -> 0 .. MaxRetries + 1] /\ attempt[r] <= MaxRetries
  BY DEF ConsumerInv, TypeOK, AttemptsLeft, Busy
<1>2. /\ attempt' \in [Replicas -> 0 .. MaxRetries + 1]
      /\ attempt'[r] = attempt[r] + 1
      /\ \A q \in Replicas \ {r} : attempt'[q] = attempt[q]
  BY <1>1, ConsumerAssumption DEF Raise
<1> DEFINE next == IF attempt'[r] > MaxRetries THEN "burying" ELSE "handling"
<1>3. MoveTo(r, next)
  BY <1>1 DEF Raise, MoveTo
<1>4. next \in Busy /\ next # "settled" /\ (next = "handling" => attempt'[r] <= MaxRetries)
  BY <1>1, <1>2, ConsumerAssumption DEF Busy
<1>5. /\ UNCHANGED <<log, committed, owner, hand, stale>>
      /\ applied' = applied /\ dlq' = dlq /\ given_up' = given_up
  BY DEF Raise
<1> HIDE DEF next
<1> QED BY <1>1, <1>2, <1>3, <1>4, <1>5, LoopInv

LEMMA RaisesInv ==
  ASSUME ConsumerInv, NEW r \in Replicas, HandlerRaises(r)
  PROVE  ConsumerInv'
<1>1. faults' \in 0 .. MaxFaults
  BY ConsumerAssumption DEF HandlerRaises, Fault, ConsumerInv, TypeOK
<1> QED BY <1>1, RaiseInv DEF HandlerRaises

\* A handler that succeeds or refuses, the dead-letter topic that takes the message or
\* does not, and the loop that gives up on it.
LEMMA HandleInv ==
  ASSUME ConsumerInv, NEW r \in Replicas,
         \/ Apply(r) \/ HandlerRefuses(r)
         \/ DeadLetter(r) \/ DeadLetterFails(r) \/ GiveUp(r)
  PROVE  ConsumerInv'
<1>1. stage[r] \in Busy
  BY DEF Apply, HandlerRefuses, DeadLetter, DeadLetterFails, GiveUp, Busy
<1>2. hand[r] \in 1 .. Len(log)
  BY <1>1, InHandType
<1>3. /\ attempt \in [Replicas -> 0 .. MaxRetries + 1] /\ faults \in 0 .. MaxFaults
      /\ applied \in Seq(1 .. Len(log))
  BY DEF ConsumerInv, TypeOK
<1>4. CASE Apply(r)
  <2>1. /\ MoveTo(r, "settled") /\ applied' = Append(applied, hand[r])
        /\ UNCHANGED <<log, committed, owner, hand, stale, attempt, dlq, given_up, faults>>
    BY <1>4 DEF Apply
  <2>2. Len(applied) + 1 \in DOMAIN applied' /\ applied'[Len(applied) + 1] = hand[r]
    BY <1>2, <1>3, <2>1, AppendKeeps
  <2>3. Over(hand[r])'
    BY <2>1, <2>2 DEF Over, Settled, Handled
  <2> QED BY <1>1, <1>3, <2>1, <2>3, LoopInv DEF Busy
<1>5. CASE HandlerRefuses(r)
  BY <1>1, <1>3, <1>5, LoopInv DEF HandlerRefuses, Busy
<1>6. CASE DeadLetter(r)
  <2>1. Over(hand[r])'
    BY <1>6 DEF DeadLetter, Over, Settled
  <2> QED BY <1>1, <1>3, <1>6, <2>1, LoopInv DEF DeadLetter, Busy
<1>7. CASE DeadLetterFails(r)
  <2>1. faults' \in 0 .. MaxFaults
    BY <1>3, <1>7, ConsumerAssumption DEF DeadLetterFails, Fault
  <2> QED BY <1>1, <1>3, <1>7, <2>1, LoopInv DEF DeadLetterFails, Busy
<1>8. CASE GiveUp(r)
  <2>1. Over(hand[r])'
    BY <1>8 DEF GiveUp, Over
  <2> QED BY <1>1, <1>3, <1>8, <2>1, LoopInv DEF GiveUp, Busy
<1> QED BY <1>4, <1>5, <1>6, <1>7, <1>8

\* The owner's message is the next one and is over: committing it skips nothing.
\* No other loop holds a message under the assignment that still holds.
LEMMA CommitInv ==
  ASSUME ConsumerInv, NEW r \in Replicas, Commit(r)
  PROVE  ConsumerInv'
<1>1. /\ stage \in [Replicas -> Stages] /\ hand \in [Replicas -> 0 .. Len(log)]
      /\ attempt \in [Replicas -> 0 .. MaxRetries + 1] /\ stale \in [Replicas -> BOOLEAN]
      /\ committed \in 0 .. Len(log) /\ Len(log) \in Nat
  BY DEF ConsumerInv, TypeOK
<1>2. /\ hand[r] \in 1 .. Len(log) /\ hand[r] = committed + 1 /\ owner = r
      /\ Over(hand[r])
  BY <1>1, InHandType DEF Commit, Busy, ConsumerInv, HandIsNext, SettledHand
<1>3. \A n : Over(n)' <=> Over(n)
  BY DEF Commit, Over, Settled, Handled
<1>4. TypeOK'
  BY <1>1, <1>2, ConsumerAssumption DEF Commit, MoveTo, Drop, ConsumerInv, TypeOK, Stages
<1>5. AttemptsLeft'
  BY <1>1 DEF Commit, MoveTo, Drop, ConsumerInv, AttemptsLeft
<1>6. HandIsNext'
  BY <1>1, <1>2 DEF Commit, Drop, ConsumerInv, HandIsNext
<1>7. SettledHand'
  <2>1. ASSUME NEW q \in Replicas, stage'[q] = "settled" PROVE Over(hand[q])'
    <3>1. q # r /\ stage[q] = "settled" /\ hand'[q] = hand[q]
      BY <1>1, <2>1 DEF Commit, MoveTo, Drop
    <3>2. Over(hand[q])
      BY <3>1 DEF ConsumerInv, SettledHand
    <3> QED BY <3>1, <3>2 DEF Commit, Over, Settled, Handled
  <2> QED BY <2>1 DEF SettledHand
<1>8. NothingIsSkippedSilently'
  <2>1. \A n \in 1 .. committed : Over(n)
    BY DEF ConsumerInv, NothingIsSkippedSilently, Over
  <2>2. committed' = hand[r]
    BY DEF Commit
  <2>3. \A n \in 1 .. committed' : Over(n)
    BY <1>1, <1>2, <2>1, <2>2
  <2>4. \A n \in 1 .. committed' : Over(n)'
    BY <1>3, <2>3
  <2> QED BY <2>4 DEF NothingIsSkippedSilently, Over
<1> QED BY <1>4, <1>5, <1>6, <1>7, <1>8 DEF ConsumerInv

\* After a rebalance the loop lets go of the message without a commit.
LEMMA CommitStaleInv ==
  ASSUME ConsumerInv, NEW r \in Replicas, CommitStale(r)
  PROVE  ConsumerInv'
<1>1. /\ stage \in [Replicas -> Stages] /\ hand \in [Replicas -> 0 .. Len(log)]
      /\ attempt \in [Replicas -> 0 .. MaxRetries + 1] /\ stale \in [Replicas -> BOOLEAN]
      /\ Len(log) \in Nat
  BY DEF ConsumerInv, TypeOK
<1>2. /\ stage' \in [Replicas -> Stages] /\ stage'[r] \in {"polling", "stopped"}
      /\ \A q \in Replicas \ {r} : stage'[q] = stage[q]
  BY <1>1 DEF CommitStale, MoveTo, Stages
<1>3. TypeOK'
  BY <1>1, <1>2, ConsumerAssumption DEF CommitStale, Drop, ConsumerInv, TypeOK
<1>4. AttemptsLeft'
  BY <1>1, <1>2 DEF CommitStale, Drop, ConsumerInv, AttemptsLeft
<1>5. HandIsNext'
  BY <1>1 DEF CommitStale, Drop, ConsumerInv, HandIsNext
<1>6. \A n \in 1 .. Len(log) : Over(n) => Over(n)'
  BY DEF CommitStale, Over, Settled, Handled
<1>7. \A q \in Replicas : stage'[q] = "settled" => stage[q] = "settled" /\ hand'[q] = hand[q]
  BY <1>1, <1>2 DEF CommitStale, Drop
<1>8. committed' = committed
  BY DEF CommitStale
<1> QED BY <1>3, <1>4, <1>5, <1>6, <1>7, <1>8, QuietStep

\* Joining, leaving and rebalancing touch no message in hand.
LEMMA GroupInv ==
  ASSUME ConsumerInv,
         Rebalance \/ \E r \in Replicas : Join(r) \/ Expire(r)
  PROVE  ConsumerInv'
<1>1. /\ stage \in [Replicas -> Stages] /\ faults \in 0 .. MaxFaults
      /\ \A r \in Replicas : hand[r] # 0 <=> stage[r] \in Busy
  BY DEF ConsumerInv, TypeOK, Busy
<1>2. Members \in SUBSET Replicas
  BY DEF Members
<1>3. CASE Rebalance
  <2>1. faults' \in 0 .. MaxFaults
    BY <1>1, <1>3, ConsumerAssumption DEF Rebalance, Fault
  <2> QED BY <1>1, <1>2, <1>3, <2>1, RegroupInv DEF Rebalance
<1>4. ASSUME NEW r \in Replicas, Join(r) PROVE ConsumerInv'
  <2>1. /\ stage' \in [Replicas -> Stages] /\ stage'[r] \in Stages \ Busy /\ hand[r] = 0
        /\ \A q \in Replicas \ {r} : stage'[q] = stage[q]
    BY <1>1, <1>4 DEF Join, MoveTo, Stages, Busy
  <2>2. Members \cup {r} \in SUBSET Replicas
    BY <1>2
  <2> QED BY <1>1, <1>4, <2>1, <2>2, RegroupInv DEF Join
<1>5. ASSUME NEW r \in Replicas, Expire(r) PROVE ConsumerInv'
  <2>1. /\ stage' \in [Replicas -> Stages] /\ stage'[r] \in Stages \ Busy /\ hand[r] = 0
        /\ \A q \in Replicas \ {r} : stage'[q] = stage[q]
    BY <1>1, <1>5 DEF Expire, MoveTo, Stages, Busy
  <2>2. Members \ {r} \in SUBSET Replicas
    BY <1>2
  <2> QED BY <1>1, <1>5, <2>1, <2>2, RegroupInv DEF Expire
<1> QED BY <1>3, <1>4, <1>5

\* Every step of the group keeps the invariant.
LEMMA ConsumerStep == ConsumerInv /\ [Next]_vars => ConsumerInv'
<1> SUFFICES ASSUME ConsumerInv, [Next]_vars PROVE ConsumerInv'
  OBVIOUS
<1>1. ASSUME NEW m \in Messages, Publish(m) PROVE ConsumerInv'
  BY <1>1, PublishInv
<1>2. CASE Rebalance \/ \E r \in Replicas : Join(r) \/ Expire(r)
  BY <1>2, GroupInv
<1>3. ASSUME NEW r \in Replicas, Crash(r) PROVE ConsumerInv'
  BY <1>3, CrashInv
<1>4. ASSUME NEW r \in Replicas, Poll(r) PROVE ConsumerInv'
  BY <1>4, PollInv
<1>5. ASSUME NEW r \in Replicas, HandlerRaises(r) PROVE ConsumerInv'
  BY <1>5, RaisesInv
<1>6. ASSUME NEW r \in Replicas,
             \/ Apply(r) \/ HandlerRefuses(r)
             \/ DeadLetter(r) \/ DeadLetterFails(r) \/ GiveUp(r)
      PROVE  ConsumerInv'
  BY <1>6, HandleInv
<1>7. ASSUME NEW r \in Replicas, Commit(r) PROVE ConsumerInv'
  BY <1>7, CommitInv
<1>8. ASSUME NEW r \in Replicas, CommitStale(r) PROVE ConsumerInv'
  BY <1>8, CommitStaleInv
<1>9. CASE UNCHANGED vars
  BY <1>9 DEF vars, group, ConsumerInv, TypeOK, AttemptsLeft, HandIsNext, SettledHand,
              NothingIsSkippedSilently, Over, Settled, Handled
<1> QED BY <1>1, <1>2, <1>3, <1>4, <1>5, <1>6, <1>7, <1>8, <1>9 DEF Next

\* Whatever the replicas of Consumer do, ConsumerInv holds throughout.
THEOREM Inductive == Spec => []ConsumerInv
<1> QED BY ConsumerInit, ConsumerStep, PTL DEF Spec

-----------------------------------------------------------------------------
(* Results *)

\* The group, the topics and every loop keep their types (kafka.py, Consumer).
THEOREM TypeCorrect == Spec => []TypeOK
<1>1. ConsumerInv => TypeOK
  BY DEF ConsumerInv
<1> QED BY <1>1, Inductive, PTL

\* _loop and _handle_with_retries: however many replicas crash, join and are
\* rebalanced, the committed offset passes no message that was not handled, buried,
\* ignored for want of a handler, or given up with a line in the log.
THEOREM NothingSkipped == Spec => []NothingIsSkippedSilently
<1>1. ConsumerInv => NothingIsSkippedSilently
  BY DEF ConsumerInv
<1> QED BY <1>1, Inductive, PTL
-----------------------------------------------------------------------------
(* What is buried *)

\* A message that is handled or about to be buried has a handler; one whose handler
\* would have succeeded has cost a fault for each attempt at it.
HeldForAReason ==
  \A r \in Replicas :
    /\ stage[r] \in {"handling", "burying"} => InHand(r).kind # "unknown"
    /\ stage[r] = "handling" /\ InHand(r).kind = "known" => attempt[r] <= faults
    /\ stage[r] = "burying"  /\ InHand(r).kind = "known" => faults > MaxRetries

ReasonInv == HeldForAReason /\ BuriedForAReason

\* Faults are only ever added.
LEMMA FaultsGrow ==
  ASSUME ConsumerInv, [Next]_vars
  PROVE  faults \in Nat /\ faults' \in Nat /\ faults <= faults'
<1>1. faults \in Nat
  BY ConsumerAssumption DEF ConsumerInv, TypeOK
<1>2. CASE UNCHANGED vars \/ Rebalance \/ \E m \in Messages : Publish(m)
  BY <1>1, <1>2 DEF vars, Rebalance, Publish, Fault
<1>3. ASSUME NEW r \in Replicas, Crash(r) \/ DeadLetterFails(r) \/ HandlerRaises(r)
      PROVE  faults' \in Nat /\ faults <= faults'
  BY <1>1, <1>3 DEF Crash, DeadLetterFails, HandlerRaises, Fault
<1>4. ASSUME NEW r \in Replicas,
             \/ Join(r) \/ Expire(r) \/ Poll(r) \/ Apply(r) \/ HandlerRefuses(r)
             \/ DeadLetter(r) \/ GiveUp(r) \/ Commit(r) \/ CommitStale(r)
      PROVE  faults' = faults
  BY <1>4 DEF Join, Expire, Poll, Apply, HandlerRefuses, DeadLetter, GiveUp, Commit, CommitStale
<1> QED BY <1>1, <1>2, <1>3, <1>4 DEF Next

\* What is buried stays buried for its reason.
LEMMA BuriedStays ==
  ASSUME ConsumerInv, BuriedForAReason,
         faults \in Nat, faults' \in Nat, faults <= faults',
         \A n \in 1 .. Len(log) : log'[n] = log[n],
         dlq' = dlq
  PROVE  BuriedForAReason'
<1>1. dlq \in SUBSET (1 .. Len(log)) /\ MaxRetries \in Nat
  BY ConsumerAssumption DEF ConsumerInv, TypeOK
<1> QED BY <1>1 DEF BuriedForAReason

\* A loop that keeps its message and its attempts keeps its reason.
LEMMA HeldStays ==
  ASSUME ConsumerInv, HeldForAReason, NEW r \in Replicas,
         faults \in Nat, faults' \in Nat, faults <= faults',
         \A n \in 1 .. Len(log) : log'[n] = log[n],
         stage'[r] = stage[r] /\ hand'[r] = hand[r] /\ attempt'[r] = attempt[r]
  PROVE  /\ stage'[r] \in {"handling", "burying"} => InHand(r)'.kind # "unknown"
         /\ stage'[r] = "handling" /\ InHand(r)'.kind = "known" => attempt'[r] <= faults'
         /\ stage'[r] = "burying"  /\ InHand(r)'.kind = "known" => faults' > MaxRetries
<1>1. SUFFICES ASSUME stage[r] \in {"handling", "burying"}
               PROVE  /\ InHand(r)'.kind # "unknown"
                      /\ stage[r] = "handling" /\ InHand(r)'.kind = "known" => attempt[r] <= faults'
                      /\ stage[r] = "burying"  /\ InHand(r)'.kind = "known" => faults' > MaxRetries
  OBVIOUS
<1>2. hand[r] \in 1 .. Len(log)
  BY <1>1, InHandType DEF Busy
<1>3. InHand(r)' = InHand(r)
  BY <1>2 DEF InHand
<1>4. attempt[r] \in Int /\ MaxRetries \in Int
  BY ConsumerAssumption DEF ConsumerInv, TypeOK
<1> QED BY <1>1, <1>3, <1>4 DEF HeldForAReason

\* The steps after which no loop holds a message it did not hold before.
LEMMA QuietReason ==
  ASSUME ConsumerInv, ReasonInv,
         faults \in Nat, faults' \in Nat, faults <= faults',
         \A n \in 1 .. Len(log) : log'[n] = log[n],
         dlq' = dlq,
         \A r \in Replicas :
           \/ stage'[r] \notin {"handling", "burying"}
           \/ stage'[r] = stage[r] /\ hand'[r] = hand[r] /\ attempt'[r] = attempt[r]
  PROVE  ReasonInv'
<1>1. BuriedForAReason'
  BY BuriedStays DEF ReasonInv
<1>2. ASSUME NEW r \in Replicas
      PROVE  /\ stage'[r] \in {"handling", "burying"} => InHand(r)'.kind # "unknown"
             /\ stage'[r] = "handling" /\ InHand(r)'.kind = "known" => attempt'[r] <= faults'
             /\ stage'[r] = "burying"  /\ InHand(r)'.kind = "known" => faults' > MaxRetries
  <2>1. CASE stage'[r] \notin {"handling", "burying"}
    BY <2>1
  <2>2. CASE stage'[r] = stage[r] /\ hand'[r] = hand[r] /\ attempt'[r] = attempt[r]
    BY <2>2, HeldStays DEF ReasonInv
  <2> QED BY <2>1, <2>2
<1> QED BY <1>1, <1>2 DEF ReasonInv, HeldForAReason

\* The steps by which one loop comes to hold a message, or to hold it longer.
LEMMA HoldReason ==
  ASSUME ConsumerInv, ReasonInv,
         faults \in Nat, faults' \in Nat, faults <= faults',
         log' = log, dlq' = dlq, NEW r \in Replicas,
         \A q \in Replicas \ {r} :
           stage'[q] = stage[q] /\ hand'[q] = hand[q] /\ attempt'[q] = attempt[q],
         stage'[r] \in {"handling", "burying"} => InHand(r)'.kind # "unknown",
         stage'[r] = "handling" /\ InHand(r)'.kind = "known" => attempt'[r] <= faults',
         stage'[r] = "burying"  /\ InHand(r)'.kind = "known" => faults' > MaxRetries
  PROVE  ReasonInv'
<1>1. BuriedForAReason'
  BY BuriedStays DEF ReasonInv
<1>2. ASSUME NEW q \in Replicas \ {r}
      PROVE  /\ stage'[q] \in {"handling", "burying"} => InHand(q)'.kind # "unknown"
             /\ stage'[q] = "handling" /\ InHand(q)'.kind = "known" => attempt'[q] <= faults'
             /\ stage'[q] = "burying"  /\ InHand(q)'.kind = "known" => faults' > MaxRetries
  BY <1>2, HeldStays DEF ReasonInv
<1> QED BY <1>1, <1>2 DEF ReasonInv, HeldForAReason

LEMMA ReasonStep == ConsumerInv /\ ReasonInv /\ [Next]_vars => ReasonInv'
<1> SUFFICES ASSUME ConsumerInv, ReasonInv, [Next]_vars PROVE ReasonInv'
  OBVIOUS
<1>0. /\ faults \in Nat /\ faults' \in Nat /\ faults <= faults'
      /\ stage \in [Replicas -> Stages] /\ hand \in [Replicas -> 0 .. Len(log)]
      /\ attempt \in [Replicas -> 0 .. MaxRetries + 1] /\ MaxRetries \in Nat
  BY FaultsGrow, ConsumerAssumption DEF ConsumerInv, TypeOK
<1>1. ASSUME NEW m \in Messages, Publish(m) PROVE ReasonInv'
  <2>1. \A n \in 1 .. Len(log) : log'[n] = log[n]
    BY <1>1, AppendKeeps DEF Publish, ConsumerInv, TypeOK
  <2> QED BY <1>0, <1>1, <2>1, QuietReason DEF Publish, group
<1>2. CASE Rebalance \/ UNCHANGED vars
  <2>1. UNCHANGED <<log, dlq, stage, hand, attempt>>
    BY <1>2 DEF Rebalance, vars, group
  <2> QED BY <1>0, <2>1, QuietReason
<1>3. ASSUME NEW r \in Replicas,
             \/ Join(r) \/ Crash(r) \/ Expire(r)
             \/ Apply(r) \/ DeadLetterFails(r) \/ GiveUp(r) \/ Commit(r) \/ CommitStale(r)
      PROVE  ReasonInv'
  <2>1. /\ log' = log /\ dlq' = dlq /\ stage'[r] \notin {"handling", "burying"}
        /\ \A q \in Replicas \ {r} :
             stage'[q] = stage[q] /\ hand'[q] = hand[q] /\ attempt'[q] = attempt[q]
    BY <1>0, <1>3 DEF Join, Crash, Expire, Apply, DeadLetterFails, GiveUp, Commit, CommitStale,
         MoveTo, Drop
  <2> QED BY <1>0, <2>1, QuietReason
<1>4. ASSUME NEW r \in Replicas, Poll(r) PROVE ReasonInv'
  <2>1. /\ log' = log /\ dlq' = dlq /\ faults' = faults
        /\ hand'[r] = committed + 1 /\ attempt'[r] = 0
        /\ stage'[r] = Routed(log[committed + 1])
        /\ \A q \in Replicas \ {r} :
             stage'[q] = stage[q] /\ hand'[q] = hand[q] /\ attempt'[q] = attempt[q]
    BY <1>0, <1>4 DEF Poll, MoveTo
  <2>2. log[committed + 1].kind \in Kinds
    BY <1>4, ConsumerAssumption DEF Poll, ConsumerInv, TypeOK
  <2>3. InHand(r)' = log[committed + 1]
    BY <2>1 DEF InHand
  <2>4. /\ stage'[r] \in {"handling", "burying"} => InHand(r)'.kind # "unknown"
        /\ stage'[r] = "burying" => InHand(r)'.kind # "known"
    BY <2>1, <2>2, <2>3 DEF Routed, Kinds
  <2>5. attempt'[r] <= faults'
    BY <1>0, <2>1
  <2> QED BY <1>0, <2>1, <2>4, <2>5, HoldReason
<1>5. ASSUME NEW r \in Replicas, HandlerRaises(r) PROVE ReasonInv'
  <2>1. /\ stage[r] = "handling" /\ attempt[r] \in Nat /\ attempt'[r] = attempt[r] + 1
        /\ UNCHANGED <<log, dlq, hand>> /\ InHand(r)' = InHand(r)
        /\ stage'[r] = "burying" => attempt'[r] > MaxRetries
        /\ \A q \in Replicas \ {r} : stage'[q] = stage[q] /\ attempt'[q] = attempt[q]
    BY <1>0, <1>5 DEF HandlerRaises, Raise, MoveTo, InHand
  <2>2. InHand(r).kind # "unknown"
    BY <2>1 DEF ReasonInv, HeldForAReason
  <2>3. InHand(r).kind = "known" => attempt[r] <= faults /\ faults' = faults + 1
    BY <1>5, <2>1 DEF HandlerRaises, Fault, ReasonInv, HeldForAReason
  <2>4. InHand(r).kind = "known" => attempt'[r] <= faults'
    BY <1>0, <2>1, <2>3
  <2>5. stage'[r] = "burying" /\ InHand(r).kind = "known" => faults' > MaxRetries
    BY <1>0, <2>1, <2>4
  <2> QED BY <1>0, <2>1, <2>2, <2>4, <2>5, HoldReason
<1>6. ASSUME NEW r \in Replicas, HandlerRefuses(r) PROVE ReasonInv'
  <2>1. /\ UNCHANGED <<log, dlq, hand, attempt>> /\ InHand(r)' = InHand(r)
        /\ InHand(r).kind = "invalid"
        /\ \A q \in Replicas \ {r} : stage'[q] = stage[q]
    BY <1>0, <1>6 DEF HandlerRefuses, MoveTo, InHand
  <2> QED BY <1>0, <2>1, HoldReason
<1>7. ASSUME NEW r \in Replicas, DeadLetter(r) PROVE ReasonInv'
  <2>1. /\ stage[r] = "burying" /\ stage'[r] = "settled"
        /\ UNCHANGED <<log, hand, attempt, faults>> /\ dlq' = dlq \cup {hand[r]}
        /\ \A q \in Replicas \ {r} : stage'[q] = stage[q]
    BY <1>0, <1>7 DEF DeadLetter, MoveTo
  <2>2. /\ log[hand[r]].kind # "unknown"
        /\ log[hand[r]].kind = "known" => faults > MaxRetries
    BY <2>1 DEF ReasonInv, HeldForAReason, InHand
  <2>3. BuriedForAReason'
    BY <2>1, <2>2 DEF ReasonInv, BuriedForAReason
  <2>4. HeldForAReason'
    <3> SUFFICES ASSUME NEW q \in Replicas, stage'[q] \in {"handling", "burying"}
                 PROVE  /\ InHand(q)'.kind # "unknown"
                        /\ stage'[q] = "handling" /\ InHand(q)'.kind = "known" => attempt'[q] <= faults'
                        /\ stage'[q] = "burying"  /\ InHand(q)'.kind = "known" => faults' > MaxRetries
      BY DEF HeldForAReason
    <3>1. q # r /\ stage'[q] = stage[q] /\ InHand(q)' = InHand(q)
      BY <2>1 DEF InHand
    <3> QED BY <2>1, <3>1 DEF ReasonInv, HeldForAReason
  <2> QED BY <2>3, <2>4 DEF ReasonInv
<1> QED BY <1>1, <1>2, <1>3, <1>4, <1>5, <1>6, <1>7 DEF Next

\* _handle_with_retries: a message whose handler would have succeeded is dead-
\* lettered only after every attempt has met a fault, and one without a handler
\* never, across crashes and rebalances.
THEOREM BurialsHaveAReason == Spec => []BuriedForAReason
<1>1. Init => ReasonInv
  BY DEF Init, ReasonInv, HeldForAReason, BuriedForAReason
<1>2. Spec => []ReasonInv
  BY <1>1, Inductive, ReasonStep, PTL DEF Spec
<1>3. ReasonInv => BuriedForAReason
  BY DEF ReasonInv
<1> QED BY <1>2, <1>3, PTL

-----------------------------------------------------------------------------
(* What is given up *)

\* The dead-letter topic never sees the message, or may not take it.
Unburiable(n) == log[n].kind = "not_utf8" \/ "dead_letter" \in Outages

GivenUpForAReason ==
  /\ \A n \in given_up : Unburiable(n)
  /\ \A r \in Replicas : stage[r] = "raised" => Unburiable(hand[r])

LEMMA GivenUpStep == ConsumerInv /\ GivenUpForAReason /\ [Next]_vars => GivenUpForAReason'
<1> SUFFICES ASSUME ConsumerInv, GivenUpForAReason, [Next]_vars PROVE GivenUpForAReason'
  OBVIOUS
<1>0. /\ stage \in [Replicas -> Stages] /\ hand \in [Replicas -> 0 .. Len(log)]
      /\ given_up \in SUBSET (1 .. Len(log))
      /\ \A r \in Replicas : stage[r] = "raised" => hand[r] \in 1 .. Len(log)
  BY InHandType DEF ConsumerInv, TypeOK, Busy
<1>1. ASSUME NEW m \in Messages, Publish(m) PROVE GivenUpForAReason'
  <2>1. \A n \in 1 .. Len(log) : log'[n] = log[n]
    BY <1>1, AppendKeeps DEF Publish, ConsumerInv, TypeOK
  <2> QED BY <1>0, <1>1, <2>1 DEF Publish, group, GivenUpForAReason, Unburiable
<1>2. CASE Rebalance \/ UNCHANGED vars
  BY <1>2 DEF Rebalance, vars, group, GivenUpForAReason, Unburiable
<1>3. ASSUME NEW r \in Replicas,
             \/ Join(r) \/ Crash(r) \/ Expire(r)
             \/ Apply(r) \/ HandlerRaises(r) \/ HandlerRefuses(r) \/ DeadLetter(r)
             \/ Commit(r) \/ CommitStale(r)
      PROVE  GivenUpForAReason'
  <2>1. /\ log' = log /\ given_up' = given_up /\ stage'[r] # "raised"
        /\ \A q \in Replicas \ {r} : stage'[q] = stage[q] /\ hand'[q] = hand[q]
    BY <1>0, <1>3 DEF Join, Crash, Expire, Apply, HandlerRaises, Raise, HandlerRefuses,
         DeadLetter, Commit, CommitStale, MoveTo, Drop
  <2> QED BY <2>1 DEF GivenUpForAReason, Unburiable
<1>4. ASSUME NEW r \in Replicas, Poll(r) PROVE GivenUpForAReason'
  <2>1. /\ log' = log /\ given_up' = given_up /\ hand'[r] = committed + 1
        /\ stage'[r] = Routed(log[committed + 1])
        /\ \A q \in Replicas \ {r} : stage'[q] = stage[q] /\ hand'[q] = hand[q]
    BY <1>0, <1>4 DEF Poll, MoveTo
  <2>2. log[committed + 1].kind \in Kinds
    BY <1>4, ConsumerAssumption DEF Poll, ConsumerInv, TypeOK
  <2>3. stage'[r] = "raised" => log[committed + 1].kind = "not_utf8"
    BY <2>1, <2>2 DEF Routed, Kinds
  <2> QED BY <2>1, <2>3 DEF GivenUpForAReason, Unburiable
<1>5. ASSUME NEW r \in Replicas, DeadLetterFails(r) PROVE GivenUpForAReason'
  BY <1>5 DEF DeadLetterFails, Fault, GivenUpForAReason, Unburiable
<1>6. ASSUME NEW r \in Replicas, GiveUp(r) PROVE GivenUpForAReason'
  <2>1. /\ log' = log /\ hand' = hand /\ given_up' = given_up \cup {hand[r]}
        /\ stage[r] = "raised" /\ stage'[r] # "raised"
        /\ \A q \in Replicas \ {r} : stage'[q] = stage[q]
    BY <1>0, <1>6 DEF GiveUp, MoveTo
  <2> QED BY <2>1 DEF GivenUpForAReason, Unburiable
<1> QED BY <1>1, <1>2, <1>3, <1>4, <1>5, <1>6 DEF Next

\* "Offsets are committed manually, after the handler has succeeded or the message
\* has been dead-lettered": so it is, as long as the producer can write to the dead-
\* letter topic and every message is UTF-8.
THEOREM CommittedAfterSettling ==
  ASSUME "dead_letter" \notin Outages, \A m \in Messages : m.kind # "not_utf8"
  PROVE  Spec => []CommittedWasSettled
<1>1. Init => GivenUpForAReason
  BY DEF Init, GivenUpForAReason
<1>2. Spec => [](ConsumerInv /\ GivenUpForAReason)
  BY <1>1, Inductive, GivenUpStep, PTL DEF Spec
<1>3. ConsumerInv /\ GivenUpForAReason => CommittedWasSettled
  <2> SUFFICES ASSUME ConsumerInv, GivenUpForAReason PROVE CommittedWasSettled
    OBVIOUS
  <2>1. \A n \in 1 .. Len(log) : log[n].kind # "not_utf8"
    BY DEF ConsumerInv, TypeOK
  <2>2. given_up = {}
    BY <2>1 DEF GivenUpForAReason, Unburiable, ConsumerInv, TypeOK
  <2> QED BY <2>2 DEF ConsumerInv, NothingIsSkippedSilently, CommittedWasSettled
<1> QED BY <1>2, <1>3, PTL
=============================================================================
