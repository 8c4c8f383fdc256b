--------------------------- MODULE FestivalDomain ---------------------------
(***************************************************************************)
(* The Festival aggregate of app/domain/festival.py: its data, the guard   *)
(* of each of its methods and what each method leaves behind.  Nothing     *)
(* here has state: the modules that own a festivals table apply these      *)
(* operators to one of its rows.                                           *)
(*                                                                         *)
(* A festival's name, description and author, and a selected game's title  *)
(* and developer, are left out; the dict of selected games is the set of   *)
(* its keys.                                                               *)
(***************************************************************************)
EXTENDS Integers, Sequences

CONSTANTS
  Festivals,   \* festival ids
  Games,       \* game ids
  Windows,     \* the windows an Admin may ask for, valid or not
  Time,        \* the instants the clock may show
  Absent,      \* the row of a festival that has not been created
  Null         \* SQL NULL, and "nobody"

States   == {"DRAFT", "ACTIVE", "ENDED", "CANCELLED"}
Editable == {"DRAFT", "ACTIVE"}

Window == {w \in [starts_at : Time, ends_at : Time] : w.ends_at > w.starts_at}

Festival ==
  [state : States, games : SUBSET Games, window : Window,
   created_at : Time, started_at : Time \cup {Null}, ended_at : Time \cup {Null},
   version : Nat]

ASSUME DomainAssumption ==
  /\ Time \subseteq Nat
  /\ Windows \subseteq [starts_at : Time, ends_at : Time]
  /\ Null \notin Time
  /\ Absent \notin Festival

-----------------------------------------------------------------------------
\* _check_window.
ValidWindow(w, now) ==
  /\ w.ends_at > w.starts_at
  /\ w.ends_at > now

\* Festival.create.
Created(w, now) ==
  [state |-> "DRAFT", games |-> {}, window |-> w,
   created_at |-> now, started_at |-> Null, ended_at |-> Null, version |-> 0]

\* Mutants: the window is stored as sent; a running festival may move.
CanRescheduleUnchecked(fest, w, now) == fest.state = "DRAFT"
CanRescheduleRunning(fest, w, now)   == fest.state \in Editable /\ ValidWindow(w, now)

\* Festival.reschedule: only while nothing has started.
CanReschedule(fest, w, now) == fest.state = "DRAFT" /\ ValidWindow(w, now)
Rescheduled(fest, w) == [fest EXCEPT !.window = w]

\* Festival.add_game and Festival.remove_game: DRAFT or ACTIVE.
CanAddGame(fest, g) == fest.state \in Editable /\ g \notin fest.games
WithGame(fest, g) == [fest EXCEPT !.games = @ \cup {g}]

CanRemoveGame(fest, g) == fest.state \in Editable /\ g \in fest.games
WithoutGame(fest, g) == [fest EXCEPT !.games = @ \ {g}]

\* Mutant: a repeated start is accepted.
CanStartAgain(fest) == fest.state \in Editable /\ fest.games # {}

\* Festival.start: a draft with at least one selected game.
CanStart(fest) == fest.state = "DRAFT" /\ fest.games # {}
Started(fest, now) == [fest EXCEPT !.state = "ACTIVE", !.started_at = now]

\* Festival.end.
CanEnd(fest) == fest.state = "ACTIVE"
Ended(fest, now) == [fest EXCEPT !.state = "ENDED", !.ended_at = now]

\* Mutant: a festival that is over may be cancelled.
CanCancelLate(fest) == fest.state # "CANCELLED"

\* Festival.cancel: before or during the run.
CanCancel(fest) == fest.state \in {"DRAFT", "ACTIVE"}
Cancelled(fest, now) == [fest EXCEPT !.state = "CANCELLED", !.ended_at = now]

-----------------------------------------------------------------------------
\* The events the use cases enqueue, reduced to the payload fields that the
\* properties tell apart.
Audience == {"active_users", "nobody"}

CreatedEvent(w)     == [type |-> "FestivalCreated", window |-> w]
GameAddedEvent(g)   == [type |-> "FestivalGameAdded", game |-> g]
GameRemovedEvent(g) == [type |-> "FestivalGameRemoved", game |-> g]
StartedEvent(fest, audience) ==
  [type |-> "FestivalStarted", window |-> fest.window, games |-> fest.games,
   audience |-> audience]
EndedEvent     == [type |-> "FestivalEnded"]
CancelledEvent == [type |-> "FestivalCancelled"]

Events ==
       [type : {"FestivalCreated"}, window : Window]
  \cup [type : {"FestivalGameAdded", "FestivalGameRemoved"}, game : Games]
  \cup [type : {"FestivalStarted"}, window : Window, games : SUBSET Games,
        audience : Audience]
  \cup [type : {"FestivalEnded", "FestivalCancelled"}]
=============================================================================
