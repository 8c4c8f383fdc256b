------------------------- MODULE FestivalAggregate -------------------------
(***************************************************************************)
(* What FestivalService promises: every use case is one indivisible change *)
(* of one festival, written together with the event that reports it (a     *)
(* reschedule is reported by none), and a use case that is refused changes *)
(* nothing.                                                                *)
(***************************************************************************)
EXTENDS FestivalDomain

VARIABLES
  rows,     \* festivals and festival_games: one record, or Absent, per id
  outbox    \* per festival, the events enqueued about it, oldest first

vars == <<rows, outbox>>

Init ==
  /\ rows   = [f \in Festivals |-> Absent]
  /\ outbox = [f \in Festivals |-> << >>]

\* save() writes the aggregate back under the next version; the events land in
\* the same transaction.
Write(f, fest, events) ==
  /\ rows'   = [rows EXCEPT ![f] = [fest EXCEPT !.version = @ + 1]]
  /\ outbox' = [outbox EXCEPT ![f] = @ \o events]

Create(f, w, now) ==
  /\ rows[f] = Absent
  /\ ValidWindow(w, now)
  /\ rows'   = [rows EXCEPT ![f] = Created(w, now)]
  /\ outbox' = [outbox EXCEPT ![f] = Append(@, CreatedEvent(w))]

Reschedule(f, w, now) ==
  /\ rows[f] # Absent
  /\ CanReschedule(rows[f], w, now)
  /\ Write(f, Rescheduled(rows[f], w), << >>)

AddGame(f, g) ==
  /\ rows[f] # Absent
  /\ CanAddGame(rows[f], g)
  /\ Write(f, WithGame(rows[f], g), <<GameAddedEvent(g)>>)

\* Mutant: the removal is saved and not reported.
RemoveGameSilently(f, g) ==
  /\ rows[f] # Absent
  /\ CanRemoveGame(rows[f], g)
  /\ Write(f, WithoutGame(rows[f], g), << >>)

RemoveGame(f, g) ==
  /\ rows[f] # Absent
  /\ CanRemoveGame(rows[f], g)
  /\ Write(f, WithoutGame(rows[f], g), <<GameRemovedEvent(g)>>)

Start(f, now, audience) ==
  /\ rows[f] # Absent
  /\ CanStart(rows[f])
  /\ Write(f, Started(rows[f], now), <<StartedEvent(rows[f], audience)>>)

End(f, now) ==
  /\ rows[f] # Absent
  /\ CanEnd(rows[f])
  /\ Write(f, Ended(rows[f], now), <<EndedEvent>>)

Cancel(f, now) ==
  /\ rows[f] # Absent
  /\ CanCancel(rows[f])
  /\ Write(f, Cancelled(rows[f], now), <<CancelledEvent>>)

Next ==
  \E f \in Festivals :
    \/ \E w \in Windows, now \in Time : Create(f, w, now) \/ Reschedule(f, w, now)
    \/ \E g \in Games : AddGame(f, g) \/ RemoveGame(f, g)
    \/ \E now \in Time, audience \in Audience : Start(f, now, audience)
    \/ \E now \in Time : End(f, now) \/ Cancel(f, now)

Spec == Init /\ [][Next]_vars

-----------------------------------------------------------------------------
(* Properties *)

\* The tables hold festivals and events.  Window, in Festival, is the check
\* constraint of the festivals table: it never refuses what the service writes.
TypeOK ==
  /\ rows   \in [Festivals -> Festival \cup {Absent}]
  /\ outbox \in [Festivals -> Seq(Events)]

\* What a consumer that applies the first n events in order ends up with.
ToldGames(events, n) ==
  {g \in Games : \E i \in 1 .. n :
     /\ events[i] = GameAddedEvent(g)
     /\ \A j \in i + 1 .. n : events[j] # GameRemovedEvent(g)}

Told(events, n, type) == \E i \in 1 .. n : events[i].type = type

ToldState(events, n) ==
  IF Told(events, n, "FestivalCancelled") THEN "CANCELLED"
  ELSE IF Told(events, n, "FestivalEnded") THEN "ENDED"
  ELSE IF Told(events, n, "FestivalStarted") THEN "ACTIVE"
  ELSE "DRAFT"

\* The transactional outbox: the events enqueued about a festival add up to the
\* row they were written with.
OutboxTellsRow ==
  \A f \in Festivals :
    IF rows[f] = Absent THEN outbox[f] = << >>
    ELSE /\ outbox[f] # << >>
         /\ rows[f].state = ToldState(outbox[f], Len(outbox[f]))
         /\ rows[f].games = ToldGames(outbox[f], Len(outbox[f]))

\* The events of one festival are a story told once: it is created first, starts
\* at most once, ends only after it started, and nothing follows its end or its
\* cancellation, however often a client repeats a call whose answer was lost.
OutboxIsAStory ==
  \A f \in Festivals : \A i \in 1 .. Len(outbox[f]) :
    LET type == outbox[f][i].type
        Before(other) == Told(outbox[f], i - 1, other) IN
    /\ type = "FestivalCreated" <=> i = 1
    /\ type = "FestivalStarted" => ~Before("FestivalStarted")
    /\ type = "FestivalEnded" => Before("FestivalStarted")
    /\ ~Before("FestivalEnded") /\ ~Before("FestivalCancelled")

\* reschedule: "moving the goalposts on a festival that is already running would
\* make FestivalStarted a lie".  The window that event announced is the row's
\* window forever, and the games it announced are those the earlier events add
\* up to, at least one of them.
StartedStaysTrue ==
  \A f \in Festivals : \A i \in 1 .. Len(outbox[f]) :
    outbox[f][i].type = "FestivalStarted" =>
      /\ outbox[f][i].window = rows[f].window
      /\ outbox[f][i].games  = ToldGames(outbox[f], i - 1)
      /\ outbox[f][i].games  # {}

\* A festival only moves forward: it never disappears, a running one keeps its
\* window and its start, and one that is over never changes again.
MovesForward(f) ==
  rows[f] # Absent =>
    /\ rows'[f] # Absent
    /\ rows'[f].created_at = rows[f].created_at
    /\ rows[f].state = "ACTIVE" =>
         /\ rows'[f].state # "DRAFT"
         /\ rows'[f].window = rows[f].window
         /\ rows'[f].started_at = rows[f].started_at
    /\ rows[f].state \in {"ENDED", "CANCELLED"} => rows'[f] = rows[f]

LifecycleOnlyForward == [][\A f \in Festivals : MovesForward(f)]_vars
=============================================================================
