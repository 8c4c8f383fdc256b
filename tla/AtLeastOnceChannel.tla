------------------------- MODULE AtLeastOnceChannel -------------------------
(***************************************************************************)
(* What a transactional outbox promises the rest of the platform, whatever *)
(* dispatchers, batches, retries and crashes it is made of: a message that *)
(* its writer has committed is delivered, perhaps more than once, until it *)
(* is settled.  It is confirmed only if it was delivered, or abandoned, and *)
(* neither is ever taken back or followed by another delivery.             *)
(***************************************************************************)
EXTENDS Sequences

CONSTANT Messages

VARIABLES
  accepted,   \* the messages whose writers have committed
  delivered,  \* the deliveries, in order
  confirmed,  \* the messages known to have been delivered
  abandoned   \* the messages nobody tries to deliver any more

vars == <<accepted, delivered, confirmed, abandoned>>

Settled == confirmed \cup abandoned

Init ==
  /\ accepted  = {}
  /\ delivered = << >>
  /\ confirmed = {}
  /\ abandoned = {}

Accept(i) ==
  /\ i \notin accepted
  /\ accepted' = accepted \cup {i}
  /\ UNCHANGED <<delivered, confirmed, abandoned>>

Deliver(i) ==
  /\ i \in accepted \ Settled
  /\ delivered' = Append(delivered, i)
  /\ UNCHANGED <<accepted, confirmed, abandoned>>

\* Several messages at once: a dispatcher settles a batch in one transaction.
Settle(done, given_up) ==
  /\ done \subseteq {delivered[n] : n \in DOMAIN delivered}
  /\ done \cap given_up = {}
  /\ done \cup given_up \subseteq accepted \ Settled
  /\ confirmed' = confirmed \cup done
  /\ abandoned' = abandoned \cup given_up
  /\ UNCHANGED <<accepted, delivered>>

Next ==
  \/ \E i \in Messages : Accept(i) \/ Deliver(i)
  \/ \E done, given_up \in SUBSET Messages : Settle(done, given_up)

Spec == Init /\ [][Next]_vars
=============================================================================
