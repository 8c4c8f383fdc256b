------------------------- MODULE GameEventsConsumer -------------------------
(***************************************************************************)
(* app/platform/kafka.py: the Consumer that every replica runs over the    *)
(* one partition of game-events, with its retries, its dead-letter topic   *)
(* and its manual commits.                                                 *)
(*                                                                         *)
(* A replica's loop goes through these stages.                             *)
(*   polling   waits for the next message                                  *)
(*   handling  a handler is registered for the one in hand, and runs       *)
(*   burying   the one in hand is to be sent to the dead-letter topic      *)
(*   raised    _handle_with_retries has raised                             *)
(*   settled   _handle_with_retries is done with it; commit comes next     *)
(*   stopped   an exception has ended the loop, but not the process, which *)
(*             is still a member of the group                              *)
(*   left      the group has excluded it, since it does not poll           *)
(* and is down while the process is.  The group, its coordinator and the   *)
(* topics are Kafka's, and aiokafka's, and modelled from their use.        *)
(***************************************************************************)
EXTENDS Integers, Sequences, FiniteSets

CONSTANTS
  Replicas,    \* at most one Consumer each
  Messages,    \* what other services write to game-events; each has a kind
  MaxRetries,  \* max_retries
  Outages,     \* what may go wrong
  MaxLog,      \* bound: messages ever written
  MaxFaults,   \* bound: how often something goes wrong
  Nobody       \* no member owns the partition

\* What becomes of a message: its handler succeeds unless the database fails,
\* raises an AppError that is not retryable, or raises something unclassified
\* every time; no handler is registered for it; Envelope.decode finds it
\* malformed; or its bytes are not UTF-8, which decode does not expect.
Kinds == {"known", "invalid", "poison", "unknown", "malformed", "not_utf8"}

ASSUME ConsumerAssumption ==
  /\ \A m \in Messages : m.kind \in Kinds
  /\ MaxRetries \in Nat
  /\ Outages \subseteq {"crash", "rebalance", "database", "dead_letter"}
  /\ MaxLog \in Nat
  /\ MaxFaults \in Nat
  /\ Nobody \notin Replicas

VARIABLES
  log,        \* game-events
  committed,  \* the group's offset: how many messages are behind it
  owner,      \* the member the partition is assigned to
  stage,      \* how far each replica's loop is
  hand,       \* the message each replica has in hand, 0 for none
  stale,      \* whether it came under an assignment that is over
  attempt,    \* how often its handler has raised
  applied,    \* the messages whose handler succeeded, in that order
  dlq,        \* game-events.dlq
  given_up,   \* the messages the loop has logged that it gives up on
  faults      \* how much has gone wrong

group == <<committed, owner, stage, hand, stale, attempt>>
vars  == <<log, group, applied, dlq, given_up, faults>>

Stages == {"down", "polling", "handling", "burying", "raised", "settled", "stopped", "left"}

Init ==
  /\ log       = << >>
  /\ committed = 0
  /\ owner     = Nobody
  /\ stage     = [r \in Replicas |-> "down"]
  /\ hand      = [r \in Replicas |-> 0]
  /\ stale     = [r \in Replicas |-> FALSE]
  /\ attempt   = [r \in Replicas |-> 0]
  /\ applied   = << >>
  /\ dlq       = {}
  /\ given_up  = {}
  /\ faults    = 0

Fault(kind) ==
  /\ kind \in Outages
  /\ faults < MaxFaults
  /\ faults' = faults + 1

InHand(r) == log[hand[r]]

MoveTo(r, next) == stage' = [stage EXCEPT ![r] = next]

-----------------------------------------------------------------------------
(* The group *)

Members == {r \in Replicas : stage[r] \notin {"down", "left"}}

\* The members share the partition anew; whatever is in hand stays in hand.
Regroup(members) ==
  /\ owner' \in IF members = {} THEN {Nobody} ELSE members
  /\ stale' = [r \in Replicas |-> hand[r] # 0]

Publish(m) ==
  /\ Len(log) < MaxLog
  /\ log' = Append(log, m)
  /\ UNCHANGED <<group, applied, dlq, given_up, faults>>

\* Consumer.start.
Join(r) ==
  /\ stage[r] = "down"
  /\ MoveTo(r, "polling")
  /\ Regroup(Members \cup {r})
  /\ UNCHANGED <<log, committed, hand, attempt, applied, dlq, given_up, faults>>

\* A member's session runs out, or the group rebalances for some other reason.
Rebalance ==
  /\ Fault("rebalance")
  /\ Members # {}
  /\ Regroup(Members)
  /\ UNCHANGED <<log, committed, stage, hand, attempt, applied, dlq, given_up>>

\* The process dies, or is stopped: stop() cancels the handler.
Crash(r) ==
  /\ Fault("crash")
  /\ stage[r] # "down"
  /\ MoveTo(r, "down")
  /\ hand'    = [hand EXCEPT ![r] = 0]
  /\ attempt' = [attempt EXCEPT ![r] = 0]
  /\ owner' \in IF Members \subseteq {r} THEN {Nobody} ELSE Members \ {r}
  /\ stale' = [q \in Replicas |-> q # r /\ hand[q] # 0]
  /\ UNCHANGED <<log, committed, applied, dlq, given_up>>

\* max_poll_interval_ms: a loop that has stopped polls no more.
Expire(r) ==
  /\ stage[r] = "stopped"
  /\ MoveTo(r, "left")
  /\ Regroup(Members \ {r})
  /\ UNCHANGED <<log, committed, hand, attempt, applied, dlq, given_up, faults>>

-----------------------------------------------------------------------------
(* _loop and _handle_with_retries *)

\* Envelope.decode and handler_for.
Routed(m) ==
  CASE m.kind = "malformed"                        -> "burying"
    [] m.kind = "not_utf8"                         -> "raised"
    [] m.kind = "unknown"                          -> "settled"
    [] m.kind \in {"known", "invalid", "poison"}   -> "handling"

\* Mutant: the offset is committed when the message is fetched.
PollAutoCommit(r) ==
  /\ stage[r] = "polling"
  /\ owner = r
  /\ committed < Len(log)
  /\ MoveTo(r, Routed(log[committed + 1]))
  /\ hand'      = [hand EXCEPT ![r] = committed + 1]
  /\ stale'     = [stale EXCEPT ![r] = FALSE]
  /\ attempt'   = [attempt EXCEPT ![r] = 0]
  /\ committed' = committed + 1
  /\ UNCHANGED <<log, owner, applied, dlq, given_up, faults>>

\* The owner goes on at the committed offset: it commits after every message.
Poll(r) ==
  /\ stage[r] = "polling"
  /\ owner = r
  /\ committed < Len(log)
  /\ MoveTo(r, Routed(log[committed + 1]))
  /\ hand'    = [hand EXCEPT ![r] = committed + 1]
  /\ stale'   = [stale EXCEPT ![r] = FALSE]
  /\ attempt' = [attempt EXCEPT ![r] = 0]
  /\ UNCHANGED <<log, committed, owner, applied, dlq, given_up, faults>>

Apply(r) ==
  /\ stage[r] = "handling"
  /\ InHand(r).kind = "known"
  /\ MoveTo(r, "settled")
  /\ applied' = Append(applied, hand[r])
  /\ UNCHANGED <<log, committed, owner, hand, stale, attempt, dlq, given_up, faults>>

\* Mutants: every failure is retried, forever; one retry too many; one too few.
RaiseForever(r) ==
  /\ attempt' = [attempt EXCEPT ![r] = IF @ > MaxRetries THEN 0 ELSE @ + 1]
  /\ UNCHANGED <<log, committed, owner, stage, hand, stale, applied, dlq, given_up>>
RaiseOnceMore(r) ==
  /\ attempt' = [attempt EXCEPT ![r] = @ + 1]
  /\ IF attempt'[r] > MaxRetries + 1 THEN MoveTo(r, "burying") ELSE UNCHANGED stage
  /\ UNCHANGED <<log, committed, owner, hand, stale, applied, dlq, given_up>>
RaiseOnceLess(r) ==
  /\ attempt' = [attempt EXCEPT ![r] = @ + 1]
  /\ IF attempt'[r] >= MaxRetries THEN MoveTo(r, "burying") ELSE UNCHANGED stage
  /\ UNCHANGED <<log, committed, owner, hand, stale, applied, dlq, given_up>>

\* The handler raises something that is retryable, or unclassified.
Raise(r) ==
  /\ attempt' = [attempt EXCEPT ![r] = @ + 1]
  /\ IF attempt'[r] > MaxRetries THEN MoveTo(r, "burying") ELSE UNCHANGED stage
  /\ UNCHANGED <<log, committed, owner, hand, stale, applied, dlq, given_up>>

HandlerRaises(r) ==
  /\ stage[r] = "handling"
  /\ \/ InHand(r).kind = "poison" /\ UNCHANGED faults
     \/ InHand(r).kind = "known" /\ Fault("database")
  /\ Raise(r)

\* An AppError that is not retryable.
HandlerRefuses(r) ==
  /\ stage[r] = "handling"
  /\ InHand(r).kind = "invalid"
  /\ MoveTo(r, "burying")
  /\ UNCHANGED <<log, committed, owner, hand, stale, attempt, applied, dlq, given_up, faults>>

DeadLetter(r) ==
  /\ stage[r] = "burying"
  /\ MoveTo(r, "settled")
  /\ dlq' = dlq \cup {hand[r]}
  /\ UNCHANGED <<log, committed, owner, hand, stale, attempt, applied, given_up, faults>>

\* The producer raises.
DeadLetterFails(r) ==
  /\ stage[r] = "burying"
  /\ Fault("dead_letter")
  /\ MoveTo(r, "raised")
  /\ UNCHANGED <<log, committed, owner, hand, stale, attempt, applied, dlq, given_up>>

\* _loop logs that it gives up on the message, and goes on to commit.
GiveUp(r) ==
  /\ stage[r] = "raised"
  /\ MoveTo(r, "settled")
  /\ given_up' = given_up \cup {hand[r]}
  /\ UNCHANGED <<log, committed, owner, hand, stale, attempt, applied, dlq, faults>>

Drop(r) ==
  /\ hand'    = [hand EXCEPT ![r] = 0]
  /\ stale'   = [stale EXCEPT ![r] = FALSE]
  /\ attempt' = [attempt EXCEPT ![r] = 0]

Commit(r) ==
  /\ stage[r] = "settled"
  /\ ~stale[r]
  /\ MoveTo(r, "polling")
  /\ committed' = hand[r]
  /\ Drop(r)
  /\ UNCHANGED <<log, owner, applied, dlq, given_up, faults>>

\* After a rebalance there is nothing of this assignment to commit; while one
\* goes on, the coordinator refuses, commit raises and the loop ends.
CommitStale(r) ==
  /\ stage[r] = "settled"
  /\ stale[r]
  /\ MoveTo(r, "polling") \/ MoveTo(r, "stopped")
  /\ Drop(r)
  /\ UNCHANGED <<log, committed, owner, applied, dlq, given_up, faults>>

Next ==
  \/ \E m \in Messages : Publish(m)
  \/ \E r \in Replicas :
       \/ Join(r) \/ Crash(r) \/ Expire(r)
       \/ Poll(r)
       \/ Apply(r) \/ HandlerRaises(r) \/ HandlerRefuses(r)
       \/ DeadLetter(r) \/ DeadLetterFails(r) \/ GiveUp(r)
       \/ Commit(r) \/ CommitStale(r)
  \/ Rebalance

Spec == Init /\ [][Next]_vars

\* The loop goes on when it can, the deployment starts a process again that has
\* died, and the coordinator excludes a member that does not poll.  Nothing makes
\* a message arrive or anything break, and nothing starts a stopped loop again.
Fairness ==
  \A r \in Replicas :
    /\ WF_vars(Poll(r))
    /\ WF_vars(Apply(r) \/ HandlerRaises(r) \/ HandlerRefuses(r))
    /\ WF_vars(DeadLetter(r) \/ DeadLetterFails(r))
    /\ WF_vars(GiveUp(r))
    /\ WF_vars(Commit(r) \/ CommitStale(r))
    /\ WF_vars(Expire(r))
    /\ WF_vars(Join(r))

FairSpec == Spec /\ Fairness

-----------------------------------------------------------------------------
(* Properties *)

\* The group, the topics and each loop keep their types, and only a loop that is
\* busy has a message in hand.
TypeOK ==
  /\ log       \in Seq(Messages)
  /\ committed \in 0 .. Len(log)
  /\ owner     \in Replicas \cup {Nobody}
  /\ stage     \in [Replicas -> Stages]
  /\ hand      \in [Replicas -> 0 .. Len(log)]
  /\ stale     \in [Replicas -> BOOLEAN]
  /\ attempt   \in [Replicas -> 0 .. MaxRetries + 1]
  /\ applied   \in Seq(1 .. Len(log))
  /\ dlq       \in SUBSET (1 .. Len(log))
  /\ given_up  \in SUBSET (1 .. Len(log))
  /\ faults    \in 0 .. MaxFaults
  /\ \A r \in Replicas : hand[r] # 0 <=> stage[r] \in {"handling", "burying", "raised", "settled"}

Handled(n) == \E i \in DOMAIN applied : applied[i] = n

\* What no handler is registered for is ignored; anything else the group has moved
\* past was handled, dead-lettered, or given up with a line in the log: a crash or
\* a rebalance in mid-handler loses nothing.
Settled(n) == Handled(n) \/ n \in dlq \/ log[n].kind = "unknown"

NothingIsSkippedSilently == \A n \in 1 .. committed : Settled(n) \/ n \in given_up

\* A message whose handler would have succeeded is buried only after all of its
\* attempts have failed, and one that is none of this service's business never.
BuriedForAReason ==
  \A n \in dlq :
    /\ log[n].kind # "unknown"
    /\ log[n].kind = "known" => faults > MaxRetries

\* Every message is dealt with, whoever dies and whatever fails, unless the loop
\* of every replica has stopped.
LoopEnded(r) == stage[r] \in {"stopped", "left"}

EveryMessageIsDealtWith ==
  \A n \in 1 .. MaxLog :
    n <= Len(log) ~> n <= committed \/ \A r \in Replicas : LoopEnded(r)

-----------------------------------------------------------------------------
(* What the repository says of the consumer, and its code does not do. *)

\* Consumer: "Offsets are committed manually, after the handler has succeeded or
\* the message has been dead-lettered".
CommittedWasSettled == \A n \in 1 .. committed : Settled(n)
=============================================================================
