------------------------ MODULE FestivalServiceProofs ------------------------
(***************************************************************************)
(* The safety properties of FestivalService, and that it implements        *)
(* FestivalAggregate, for any number of requests, connections, festivals   *)
(* and games.                                                              *)
(***************************************************************************)
EXTENDS FestivalService, SequenceTheorems, TLAPS

-----------------------------------------------------------------------------
(* The inductive invariant *)

\* A request under way has a call its stage makes sense for.
CallFits ==
  \A r \in Requests :
    /\ stage[r] \notin Resting => call[r] \in Calls
    /\ stage[r] = "prepared" => call[r].op = "start"
    /\ stage[r] \in {"begun", "locked"} => call[r].op # "create"
    /\ stage[r] \in {"prepared", "begun", "locked"} /\ call[r].op = "start" =>
         call[r].audience \in Audience

\* A festival that is being created is nobody else's: its id is new.
Creating(r) == stage[r] = "received" /\ call[r].op = "create"

FreshIds ==
  \A r \in Requests : Creating(r) =>
    /\ rows[call[r].festival] = Absent
    /\ \A q \in Requests \ {r} : Creating(q) => call[q].festival # call[r].festival

ServiceInv == TypeOK /\ CallFits /\ FreshIds /\ LockedCopyIsCurrent

-----------------------------------------------------------------------------
(* Types of the parts *)

LEMMA CallTypes ==
  ASSUME NEW c \in Calls
  PROVE  /\ c.festival \in Festivals
         /\ c.op \in {"create", "reschedule"} => c.window \in Windows /\ c.now \in Time
         /\ c.op \in {"add_game", "remove_game"} => c.game \in Games
         /\ c.op \in {"start", "end", "cancel"} => c.now \in Time
         /\ c.op \in {"create", "reschedule", "add_game", "remove_game", "start", "end", "cancel"}
  BY DEF Calls

LEMMA CreatedType ==
  ASSUME NEW w \in Windows, NEW now \in Time, ValidWindow(w, now)
  PROVE  Created(w, now) \in Festival /\ CreatedEvent(w) \in Events
<1>1. w \in Window
  BY DomainAssumption DEF ValidWindow, Window
<1> QED BY <1>1 DEF Created, Festival, States, CreatedEvent, Events

LEMMA SaveTypes ==
  ASSUME NEW fest \in Festival
  PROVE  [fest EXCEPT !.version = @ + 1] \in Festival
  BY DEF Festival

LEMMA AppendTypes ==
  ASSUME NEW s \in Seq(Events), NEW e \in Events
  PROVE  Append(s, e) \in Seq(Events) /\ s \o <<e>> \in Seq(Events) /\ s \o << >> \in Seq(Events)
<1>1. <<e>> \in Seq(Events) /\ << >> \in Seq(Events)
  OBVIOUS
<1> QED BY <1>1, ConcatProperties

-----------------------------------------------------------------------------
(* What every use case that writes a festival has in common *)

\* The writer's copy is the row it holds the lock of.
LEMMA LockedRow ==
  ASSUME ServiceInv, NEW r \in Requests, stage[r] = "locked"
  PROVE  /\ call[r] \in Calls
         /\ call[r].festival \in Festivals
         /\ rows[call[r].festival] \in Festival
         /\ rows[call[r].festival] # Absent
         /\ copy[r] = rows[call[r].festival]
         /\ lock[call[r].festival] = r
<1>1. call[r] \in Calls
  BY DEF ServiceInv, CallFits, Resting
<1>2. call[r].festival \in Festivals
  BY <1>1, CallTypes
<1> QED BY <1>1, <1>2 DEF ServiceInv, LockedCopyIsCurrent, TypeOK

LEMMA WriteCommits ==
  ASSUME ServiceInv, NEW r \in Requests, Write(r)
  PROVE  \E fest, events :
           /\ fest \in Festival
           /\ stage[r] = "locked"
           /\ Commit(r, fest, events)
           /\ outbox[call[r].festival] \o events \in Seq(Events)
           /\ fest.version = rows[call[r].festival].version
           /\ \A g \in fest.games \ rows[call[r].festival].games :
                call[r].op = "add_game" /\ g = call[r].game
<1> DEFINE f == call[r].festival
<1>1. stage[r] = "locked"
  BY DEF Write, Reschedule, AddGame, RemoveGame, Start, End, Cancel, Holds
<1>2. call[r] \in Calls /\ f \in Festivals /\ rows[f] \in Festival /\ copy[r] = rows[f]
  BY <1>1, LockedRow
<1>3. outbox[f] \in Seq(Events)
  BY <1>2 DEF ServiceInv, TypeOK
<1>4. CASE Reschedule(r)
  <2>1. call[r].window \in Windows /\ CanReschedule(copy[r], call[r].window, call[r].now)
    BY <1>2, <1>4, CallTypes DEF Reschedule, Holds
  <2>2. call[r].window \in Window
    BY <2>1, DomainAssumption DEF CanReschedule, ValidWindow, Window
  <2>3. Rescheduled(copy[r], call[r].window) \in Festival
    BY <1>2, <2>2 DEF Rescheduled, Festival
  <2>4. outbox[f] \o << >> \in Seq(Events)
    BY <1>3, ConcatEmptySeq
  <2>5. /\ Rescheduled(copy[r], call[r].window).version = rows[f].version
        /\ Rescheduled(copy[r], call[r].window).games = rows[f].games
    BY <1>2 DEF Rescheduled, Festival
  <2> QED BY <1>1, <1>4, <2>3, <2>4, <2>5 DEF Reschedule
<1>5. CASE AddGame(r)
  <2> DEFINE g == call[r].game
  <2>1. g \in Games /\ call[r].op = "add_game"
    BY <1>2, <1>5, CallTypes DEF AddGame, Holds
  <2>2. WithGame(copy[r], g) \in Festival /\ WithGame(copy[r], g).version = rows[f].version
    BY <1>2, <2>1 DEF WithGame, Festival
  <2>3. WithGame(copy[r], g).games = rows[f].games \cup {g}
    BY <1>2, <2>1 DEF WithGame, Festival
  <2>4. outbox[f] \o <<GameAddedEvent(g)>> \in Seq(Events)
    BY <1>3, <2>1, AppendTypes DEF GameAddedEvent, Events
  <2> QED BY <1>1, <1>5, <2>1, <2>2, <2>3, <2>4 DEF AddGame
<1>6. CASE RemoveGame(r)
  <2> DEFINE g == call[r].game
  <2>1. g \in Games
    BY <1>2, <1>6, CallTypes DEF RemoveGame, Holds
  <2>2. WithoutGame(copy[r], g) \in Festival /\ WithoutGame(copy[r], g).version = rows[f].version
    BY <1>2, <2>1 DEF WithoutGame, Festival
  <2>3. WithoutGame(copy[r], g).games \subseteq rows[f].games
    BY <1>2, <2>1 DEF WithoutGame, Festival
  <2>4. outbox[f] \o <<GameRemovedEvent(g)>> \in Seq(Events)
    BY <1>3, <2>1, AppendTypes DEF GameRemovedEvent, Events
  <2> QED BY <1>1, <1>6, <2>2, <2>3, <2>4 DEF RemoveGame
<1>7. CASE Start(r)
  <2>1. call[r].now \in Time /\ call[r].audience \in Audience
    BY <1>1, <1>2, <1>7, CallTypes DEF Start, Holds, ServiceInv, CallFits
  <2>2. /\ Started(copy[r], call[r].now) \in Festival
        /\ Started(copy[r], call[r].now).version = rows[f].version
        /\ Started(copy[r], call[r].now).games = rows[f].games
    BY <1>2, <2>1 DEF Started, Festival, States
  <2>3. StartedEvent(copy[r], call[r].audience) \in Events
    BY <1>2, <2>1 DEF StartedEvent, Events, Festival
  <2>4. outbox[f] \o <<StartedEvent(copy[r], call[r].audience)>> \in Seq(Events)
    BY <1>3, <2>3, AppendTypes
  <2> QED BY <1>1, <1>7, <2>2, <2>4 DEF Start
<1>8. CASE End(r)
  <2>1. call[r].now \in Time
    BY <1>2, <1>8, CallTypes DEF End, Holds
  <2>2. /\ Ended(copy[r], call[r].now) \in Festival
        /\ Ended(copy[r], call[r].now).version = rows[f].version
        /\ Ended(copy[r], call[r].now).games = rows[f].games
    BY <1>2, <2>1 DEF Ended, Festival, States
  <2>3. outbox[f] \o <<EndedEvent>> \in Seq(Events)
    BY <1>3, AppendTypes DEF EndedEvent, Events
  <2> QED BY <1>1, <1>8, <2>2, <2>3 DEF End
<1>9. CASE Cancel(r)
  <2>1. call[r].now \in Time
    BY <1>2, <1>9, CallTypes DEF Cancel, Holds
  <2>2. /\ Cancelled(copy[r], call[r].now) \in Festival
        /\ Cancelled(copy[r], call[r].now).version = rows[f].version
        /\ Cancelled(copy[r], call[r].now).games = rows[f].games
    BY <1>2, <2>1 DEF Cancelled, Festival, States
  <2>3. outbox[f] \o <<CancelledEvent>> \in Seq(Events)
    BY <1>3, AppendTypes DEF CancelledEvent, Events
  <2> QED BY <1>1, <1>9, <2>2, <2>3 DEF Cancel
<1> QED BY <1>4, <1>5, <1>6, <1>7, <1>8, <1>9 DEF Write

-----------------------------------------------------------------------------
(* Steps that keep the ids fresh, and the locks as they are *)

LEMMA FreshKept ==
  ASSUME ServiceInv,
         \A q \in Requests : Creating(q)' => Creating(q) /\ call'[q] = call[q],
         \A f \in Festivals : rows[f] = Absent => rows'[f] = Absent
  PROVE  FreshIds'
<1>1. \A q \in Requests : Creating(q) => call[q].festival \in Festivals
  BY CallTypes DEF ServiceInv, CallFits, Creating, Resting
<1> QED BY <1>1 DEF ServiceInv, FreshIds

\* A request that holds no lock moves on, or rests, without taking one.
LEMMA MoveInv ==
  ASSUME ServiceInv, NEW r \in Requests, NEW how \in Stages \ {"locked"},
         stage[r] # "locked",
         stage' = [stage EXCEPT ![r] = how],
         copy' = copy \/ copy' = [copy EXCEPT ![r] = Null],
         UNCHANGED lock,
         \A f \in Festivals : rows[f] # Absent => rows'[f] = rows[f],
         \A q \in Requests \ {r} : call'[q] = call[q]
  PROVE  LockedCopyIsCurrent'
<1>1. /\ stage \in [Requests -> Stages] /\ copy \in [Requests -> Festival \cup {Null}]
      /\ lock \in [Festivals -> Requests \cup {Null}]
  BY DEF ServiceInv, TypeOK
<1>2. ASSUME NEW q \in Requests, stage'[q] = "locked"
      PROVE  /\ lock'[call'[q].festival] = q
             /\ copy'[q] = rows'[call'[q].festival]
             /\ copy'[q] # Absent
  <2>1. q # r /\ stage[q] = "locked" /\ copy'[q] = copy[q] /\ call'[q] = call[q]
    BY <1>1, <1>2
  <2> QED BY <2>1, LockedRow
<1>3. ASSUME NEW f \in Festivals, lock'[f] # Null
      PROVE  stage'[lock'[f]] = "locked" /\ call'[lock'[f]].festival = f
  <2>1. lock[f] \in Requests /\ stage[lock[f]] = "locked" /\ call[lock[f]].festival = f
    BY <1>1, <1>3 DEF ServiceInv, LockedCopyIsCurrent
  <2> QED BY <1>1, <2>1
<1> QED BY <1>2, <1>3 DEF LockedCopyIsCurrent

\* A request that rests keeps no call and no copy.
LEMMA RestInv ==
  ASSUME ServiceInv, NEW r \in Requests, NEW how \in Resting, Rest(r, how),
         stage[r] # "locked", UNCHANGED <<tables, catalog, clock, lock>>
  PROVE  ServiceInv'
<1>1. how \in Stages \ {"locked"} /\ how \in Resting
  BY DEF Stages, Resting
<1>2. TypeOK'
  BY <1>1 DEF ServiceInv, TypeOK, Rest, tables
<1>3. CallFits'
  BY <1>1 DEF ServiceInv, TypeOK, CallFits, Rest, Resting
<1>4. LockedCopyIsCurrent'
  <2>1. \A q \in Requests \ {r} : call'[q] = call[q]
    BY DEF ServiceInv, TypeOK, Rest
  <2> QED BY <1>1, <2>1, MoveInv DEF Rest, tables
<1>5. FreshIds'
  BY FreshKept DEF ServiceInv, TypeOK, Rest, Resting, Creating, tables
<1> QED BY <1>2, <1>3, <1>4, <1>5 DEF ServiceInv

\* A transaction that ends by rolling back: the lock it may hold is free again.
LEMMA RollbackInv ==
  ASSUME ServiceInv, NEW r \in Requests, NEW how \in Resting, Rest(r, how), Unlock(r),
         UNCHANGED <<tables, catalog, clock>>
  PROVE  ServiceInv'
<1>1. how \in Stages /\ how # "locked"
  BY DEF Stages, Resting
<1>2. TypeOK'
  BY <1>1 DEF ServiceInv, TypeOK, Rest, Unlock, tables
<1>3. CallFits'
  BY <1>1 DEF ServiceInv, TypeOK, CallFits, Rest, Resting
<1>4. /\ stage \in [Requests -> Stages] /\ copy \in [Requests -> Festival \cup {Null}]
      /\ call \in [Requests -> Calls \cup {Null}]
      /\ lock \in [Festivals -> Requests \cup {Null}]
  BY DEF ServiceInv, TypeOK
<1>5. ASSUME NEW q \in Requests, stage'[q] = "locked"
      PROVE  /\ lock'[call'[q].festival] = q
             /\ copy'[q] = rows'[call'[q].festival]
             /\ copy'[q] # Absent
  <2>1. q # r /\ stage[q] = "locked" /\ copy'[q] = copy[q] /\ call'[q] = call[q]
    BY <1>1, <1>4, <1>5 DEF Rest
  <2> QED BY <2>1, LockedRow DEF Unlock, tables
<1>6. ASSUME NEW f \in Festivals, lock'[f] # Null
      PROVE  stage'[lock'[f]] = "locked" /\ call'[lock'[f]].festival = f
  <2>1. lock[f] # Null /\ lock[f] # r /\ lock'[f] = lock[f]
    BY <1>6 DEF Unlock
  <2>2. lock[f] \in Requests /\ stage[lock[f]] = "locked" /\ call[lock[f]].festival = f
    BY <1>4, <2>1 DEF ServiceInv, LockedCopyIsCurrent
  <2> QED BY <1>4, <2>1, <2>2 DEF Rest
<1>7. FreshIds'
  BY <1>4, FreshKept DEF Rest, Resting, Creating, tables
<1> QED BY <1>2, <1>3, <1>5, <1>6, <1>7 DEF ServiceInv, LockedCopyIsCurrent

\* A commit writes the row its transaction holds the lock of, and no other
\* request has a copy of that row.
LEMMA CommitInv ==
  ASSUME ServiceInv, NEW r \in Requests, NEW fest \in Festival, NEW events,
         stage[r] = "locked", outbox[call[r].festival] \o events \in Seq(Events),
         Commit(r, fest, events)
  PROVE  ServiceInv'
<1>1. /\ stage \in [Requests -> Stages] /\ copy \in [Requests -> Festival \cup {Null}]
      /\ call \in [Requests -> Calls \cup {Null}]
      /\ lock \in [Festivals -> Requests \cup {Null}]
      /\ rows \in [Festivals -> Festival \cup {Absent}]
  BY DEF ServiceInv, TypeOK
<1>2. call[r].festival \in Festivals /\ lock[call[r].festival] = r
  BY LockedRow
<1>3. TypeOK'
  BY <1>2, SaveTypes DEF ServiceInv, TypeOK, Commit, Unlock, Stages
<1>4. CallFits'
  BY <1>1 DEF ServiceInv, CallFits, Commit, Resting
<1>5. ASSUME NEW q \in Requests, stage'[q] = "locked"
      PROVE  /\ lock'[call'[q].festival] = q
             /\ copy'[q] = rows'[call'[q].festival]
             /\ copy'[q] # Absent
  <2>1. q # r /\ stage[q] = "locked" /\ copy'[q] = copy[q] /\ call'[q] = call[q]
    BY <1>1, <1>5 DEF Commit
  <2>2. /\ call[q].festival \in Festivals /\ lock[call[q].festival] = q
        /\ copy[q] = rows[call[q].festival] /\ rows[call[q].festival] # Absent
    BY <2>1, LockedRow
  <2>3. call[q].festival # call[r].festival
    BY <1>2, <2>1, <2>2
  <2> QED BY <1>1, <2>1, <2>2, <2>3 DEF Commit, Unlock
<1>6. ASSUME NEW f \in Festivals, lock'[f] # Null
      PROVE  stage'[lock'[f]] = "locked" /\ call'[lock'[f]].festival = f
  <2>1. lock[f] # Null /\ lock[f] # r /\ lock'[f] = lock[f]
    BY <1>6 DEF Commit, Unlock
  <2>2. lock[f] \in Requests /\ stage[lock[f]] = "locked" /\ call[lock[f]].festival = f
    BY <1>1, <2>1 DEF ServiceInv, LockedCopyIsCurrent
  <2> QED BY <1>1, <2>1, <2>2 DEF Commit
<1>7. FreshIds'
  <2>1. rows[call[r].festival] # Absent
    BY LockedRow
  <2> QED BY <1>1, <1>2, <2>1, FreshKept DEF Commit, Creating
<1> QED BY <1>3, <1>4, <1>5, <1>6, <1>7 DEF ServiceInv, LockedCopyIsCurrent

-----------------------------------------------------------------------------
(* The invariant is inductive. *)

LEMMA ServiceStep == ServiceInv /\ [Next]_vars => ServiceInv'
<1> SUFFICES ASSUME ServiceInv, [Next]_vars PROVE ServiceInv'
  OBVIOUS
<1> USE DEF tables
<1>a. /\ stage \in [Requests -> Stages]
      /\ call \in [Requests -> Calls \cup {Null}]
      /\ CallFits
  BY DEF ServiceInv, TypeOK
<1>1. ASSUME NEW r \in Requests, Receive(r) PROVE ServiceInv'
  <2>1. stage[r] # "locked" /\ "received" \in Stages \ {"locked"}
    BY <1>1 DEF Receive, Resting, Stages
  <2>2. PICK c \in Calls : call' = [call EXCEPT ![r] = c]
    BY <1>1 DEF Receive, Arrivals
  <2>3. TypeOK'
    BY <1>1, <2>1, <2>2 DEF ServiceInv, TypeOK, Receive
  <2>4. CallFits'
    BY <1>1, <1>a, <2>2 DEF CallFits, Receive, Resting
  <2>5. LockedCopyIsCurrent'
    BY <1>1, <1>a, <2>1, <2>2, MoveInv DEF Receive
  <2>6. FreshIds'
    <3>1. c.op = "create" => Fresh(c.festival)
      BY <1>1, <1>a, <2>2 DEF Receive, Arrivals
    <3>2. \A q \in Requests \ {r} : Creating(q)' <=> Creating(q)
      BY <1>1, <1>a, <2>2 DEF Receive, Creating
    <3>3. \A q \in Requests \ {r} : call'[q] = call[q]
      BY <1>a, <2>2
    <3>4. call'[r] = c /\ UNCHANGED rows
      BY <1>1, <1>a, <2>2 DEF Receive
    <3>5. \A q \in Requests \ {r} :
            c.op = "create" /\ Creating(q) => call[q].festival # c.festival
      BY <3>1, <1>a, ServiceAssumption DEF Fresh, CallFits, Creating, Resting
    <3> QED BY <3>1, <3>2, <3>3, <3>4, <3>5 DEF FreshIds, ServiceInv, Fresh, Creating
  <2> QED BY <2>3, <2>4, <2>5, <2>6 DEF ServiceInv
<1>2. ASSUME NEW r \in Requests, LookupAudience(r) PROVE ServiceInv'
  <2>1. stage[r] # "locked" /\ "prepared" \in Stages \ {"locked"}
    BY <1>2 DEF LookupAudience, Stages
  <2>2. PICK audience \in Audience :
          call' = [call EXCEPT ![r] = [@ EXCEPT !.audience = audience]]
    BY <1>2 DEF LookupAudience, AudienceFor, Audience
  <2>3. call[r] \in Calls /\ call[r].op = "start"
    BY <1>2, <1>a DEF CallFits, LookupAudience, Resting
  <2>4. /\ [call[r] EXCEPT !.audience = audience] \in Calls
        /\ [call[r] EXCEPT !.audience = audience].op = "start"
        /\ [call[r] EXCEPT !.audience = audience].audience = audience
    BY <2>3 DEF Calls
  <2>5. TypeOK'
    BY <1>2, <2>1, <2>2, <2>4 DEF ServiceInv, TypeOK, LookupAudience
  <2>6. CallFits'
    BY <1>2, <1>a, <2>2, <2>4 DEF CallFits, LookupAudience, Resting
  <2>7. LockedCopyIsCurrent'
    BY <1>2, <1>a, <2>1, <2>2, MoveInv DEF LookupAudience
  <2>8. FreshIds'
    BY <1>2, <1>a, <2>2, FreshKept DEF LookupAudience, Creating
  <2> QED BY <2>5, <2>6, <2>7, <2>8 DEF ServiceInv
<1>3. ASSUME NEW r \in Requests,
             LookupRaises(r) \/ RejectCreate(r) \/ RejectGame(r) \/ PoolTimeout(r)
      PROVE  ServiceInv'
  BY <1>3, RestInv
     DEF LookupRaises, RejectCreate, RejectGame, PoolTimeout, WaitsForConnection, Resting
<1>4. ASSUME NEW r \in Requests, FestivalNotFound(r) \/ Detail(r) PROVE ServiceInv'
  BY <1>4, RestInv DEF FestivalNotFound, Detail, Resting
<1>5. ASSUME NEW r \in Requests, CreateFestival(r) PROVE ServiceInv'
  <2> DEFINE f == call[r].festival
  <2>1. stage[r] # "locked" /\ "committed" \in Stages \ {"locked"}
    BY <1>5 DEF CreateFestival, Stages
  <2>2. call[r] \in Calls /\ call[r].op = "create"
    BY <1>5, <1>a DEF CallFits, CreateFestival, Resting
  <2>3. /\ f \in Festivals
        /\ Created(call[r].window, call[r].now) \in Festival
        /\ CreatedEvent(call[r].window) \in Events
    BY <1>5, <2>2, CallTypes, CreatedType DEF CreateFestival
  <2>4. Append(outbox[f], CreatedEvent(call[r].window)) \in Seq(Events)
    BY <2>3, AppendTypes DEF ServiceInv, TypeOK
  <2>5. TypeOK'
    BY <1>5, <2>1, <2>3, <2>4 DEF ServiceInv, TypeOK, CreateFestival
  <2>6. CallFits'
    BY <1>5, <1>a, <2>2 DEF CallFits, CreateFestival, Resting
  <2>7. LockedCopyIsCurrent'
    <3>1. \A x \in Festivals : rows[x] # Absent => rows'[x] = rows[x]
      BY <1>5, <2>1, <2>3 DEF CreateFestival, ServiceInv, TypeOK, FreshIds, Creating
    <3> QED BY <1>5, <2>1, <3>1, MoveInv DEF CreateFestival
  <2>8. FreshIds'
    <3>1. Creating(r) /\ ~Creating(r)'
      BY <1>5, <1>a DEF CreateFestival, Creating
    <3>2. \A q \in Requests : Creating(q)' => q # r /\ Creating(q) /\ call'[q] = call[q]
      BY <1>5, <1>a, <3>1 DEF CreateFestival, Creating
    <3>3. \A q \in Requests : Creating(q)' => call[q].festival # f
      BY <3>1, <3>2 DEF ServiceInv, FreshIds
    <3>4. \A q \in Requests : Creating(q)' => call[q].festival \in Festivals
      BY <3>2, <1>a, CallTypes DEF CallFits, Creating, Resting
    <3>5. \A x \in Festivals : x # f => rows'[x] = rows[x]
      BY <1>5 DEF CreateFestival, ServiceInv, TypeOK
    <3> QED BY <3>2, <3>3, <3>4, <3>5 DEF ServiceInv, FreshIds
  <2> QED BY <2>5, <2>6, <2>7, <2>8 DEF ServiceInv
<1>6. ASSUME NEW r \in Requests, Begin(r) \/ CheckGame(r) PROVE ServiceInv'
  <2>1. stage[r] \in {"received", "prepared"} /\ "begun" \in Stages \ {"locked"}
    BY <1>6 DEF Begin, CheckGame, Stages
  <2>2. /\ stage' = [stage EXCEPT ![r] = "begun"]
        /\ UNCHANGED <<tables, catalog, clock, lock, call, copy>>
    BY <1>6 DEF Begin, CheckGame
  <2>3. call[r].op # "create" /\ (call[r].op = "start" => stage[r] = "prepared")
    BY <1>6, <1>a DEF Begin, CheckGame, CallFits
  <2>4. TypeOK'
    BY <2>1, <2>2 DEF ServiceInv, TypeOK
  <2>5. CallFits'
    BY <1>a, <2>1, <2>2, <2>3 DEF CallFits, Resting
  <2>6. LockedCopyIsCurrent'
    BY <2>1, <2>2, MoveInv
  <2>7. FreshIds'
    BY <1>a, <2>2, FreshKept DEF Creating
  <2> QED BY <2>4, <2>5, <2>6, <2>7 DEF ServiceInv
<1>7. ASSUME NEW r \in Requests, LockRow(r) PROVE ServiceInv'
  <2> DEFINE f == call[r].festival
  <2>1. /\ stage[r] = "begun" /\ rows[f] # Absent /\ lock[f] = Null
        /\ lock' = [lock EXCEPT ![f] = r] /\ copy' = [copy EXCEPT ![r] = rows[f]]
        /\ stage' = [stage EXCEPT ![r] = "locked"]
        /\ UNCHANGED <<tables, catalog, clock, call>>
    BY <1>7 DEF LockRow
  <2>2. call[r] \in Calls /\ f \in Festivals
    BY <1>a, <2>1, CallTypes DEF CallFits, Resting
  <2>3. rows[f] \in Festival /\ r # Null /\ "locked" \in Stages
    BY <2>1, <2>2, ServiceAssumption DEF ServiceInv, TypeOK, Stages
  <2>4. TypeOK'
    BY <2>1, <2>2, <2>3 DEF ServiceInv, TypeOK
  <2>5. CallFits'
    BY <1>a, <2>1 DEF CallFits, Resting
  <2>6. LockedCopyIsCurrent'
    <3>1. ASSUME NEW q \in Requests, stage'[q] = "locked"
          PROVE  /\ lock'[call'[q].festival] = q
                 /\ copy'[q] = rows'[call'[q].festival]
                 /\ copy'[q] # Absent
      <4>1. CASE q = r
        BY <4>1, <2>1, <2>2, <2>3 DEF ServiceInv, TypeOK
      <4>2. CASE q # r
        <5>1. /\ call[q].festival \in Festivals /\ lock[call[q].festival] = q
              /\ copy[q] = rows[call[q].festival] /\ rows[call[q].festival] # Absent
          BY <1>a, <2>1, <3>1, <4>2, LockedRow
        <5>2. call[q].festival # f
          BY <2>1, <5>1, ServiceAssumption
        <5> QED BY <4>2, <2>1, <5>1, <5>2 DEF ServiceInv, TypeOK
      <4> QED BY <4>1, <4>2
    <3>2. ASSUME NEW x \in Festivals, lock'[x] # Null
          PROVE  stage'[lock'[x]] = "locked" /\ call'[lock'[x]].festival = x
      <4>1. CASE x = f
        BY <4>1, <1>a, <2>1, <2>2 DEF ServiceInv, TypeOK
      <4>2. CASE x # f
        BY <4>2, <1>a, <2>1, <2>2, <3>2 DEF ServiceInv, TypeOK, LockedCopyIsCurrent
      <4> QED BY <4>1, <4>2
    <3> QED BY <3>1, <3>2 DEF LockedCopyIsCurrent
  <2>7. FreshIds'
    BY <1>a, <2>1, FreshKept DEF Creating
  <2> QED BY <2>4, <2>5, <2>6, <2>7 DEF ServiceInv
<1>8. ASSUME NEW r \in Requests, Write(r) PROVE ServiceInv'
  BY <1>8, WriteCommits, CommitInv
<1>9. ASSUME NEW r \in Requests, Refuse(r) \/ Abort(r) PROVE ServiceInv'
  BY <1>9, RollbackInv DEF Refuse, Abort, Resting
<1>10. ASSUME NEW g \in Games, GameEvent(g) PROVE ServiceInv'
  BY <1>10 DEF GameEvent, Known, ServiceInv, TypeOK, CallFits, LockedCopyIsCurrent,
         FreshIds, Creating
<1>11. CASE Tick
  BY <1>11 DEF Tick, ServiceInv, TypeOK, CallFits, LockedCopyIsCurrent,
         FreshIds, Creating
<1>12. CASE UNCHANGED vars
  BY <1>12 DEF vars, ServiceInv, TypeOK, CallFits, LockedCopyIsCurrent,
         FreshIds, Creating
<1> QED BY <1>1, <1>2, <1>3, <1>4, <1>5, <1>6, <1>7, <1>8, <1>9, <1>10, <1>11, <1>12 DEF Next

LEMMA ServiceInvariant == Spec => []ServiceInv
<1>1. Init => ServiceInv
  BY EmptySeq DEF Init, ServiceInv, TypeOK, CallFits, FreshIds, Creating, LockedCopyIsCurrent,
                  Resting, Stages, Known
<1> QED BY <1>1, ServiceStep, PTL DEF Spec

-----------------------------------------------------------------------------
(* The theorems *)

\* The tables and the requests keep their types; in particular no statement
\* violates the check constraint of the festivals table.
THEOREM TypeCorrect == Spec => []TypeOK
<1>1. ServiceInv => TypeOK
  BY DEF ServiceInv
<1> QED BY <1>1, ServiceInvariant, PTL

\* Row locks exclude each other and what was read under one does not go stale.
THEOREM LockDiscipline == Spec => []LockedCopyIsCurrent
<1>1. ServiceInv => LockedCopyIsCurrent
  BY DEF ServiceInv
<1> QED BY <1>1, ServiceInvariant, PTL

\* The tables that a step of Next does not write.
LEMMA TablesStep ==
  ASSUME ServiceInv, [Next]_vars
  PROVE  \/ UNCHANGED tables
         \/ \E r \in Requests : CreateFestival(r)
         \/ \E r \in Requests : Write(r)
  BY DEF Next, Receive, LookupAudience, LookupRaises, RejectCreate, Begin, CheckGame, RejectGame,
         LockRow, FestivalNotFound, Refuse, Detail, Abort, PoolTimeout, GameEvent, Tick, tables,
         vars

\* A commit changes one row, by one version.
LEMMA CommitRows ==
  ASSUME ServiceInv, NEW r \in Requests, Write(r), NEW x \in Festivals, rows'[x] # rows[x]
  PROVE  /\ x = call[r].festival
         /\ rows'[x].version = rows[x].version + 1
         /\ \A g \in rows'[x].games \ rows[x].games :
              call[r].op = "add_game" /\ g = call[r].game
<1>1. PICK fest, events :
        /\ fest \in Festival
        /\ stage[r] = "locked"
        /\ Commit(r, fest, events)
        /\ fest.version = rows[call[r].festival].version
        /\ \A g \in fest.games \ rows[call[r].festival].games :
             call[r].op = "add_game" /\ g = call[r].game
  BY WriteCommits
<1>2. rows \in [Festivals -> Festival \cup {Absent}]
  BY DEF ServiceInv, TypeOK
<1>3. x = call[r].festival /\ rows'[x] = [fest EXCEPT !.version = @ + 1]
  BY <1>1, <1>2 DEF Commit
<1>4. rows'[x].version = fest.version + 1 /\ rows'[x].games = fest.games
  BY <1>3 DEF Festival
<1> QED BY <1>1, <1>3, <1>4

\* An insert fills a row nobody has written.
LEMMA CreateRows ==
  ASSUME ServiceInv, NEW r \in Requests, CreateFestival(r)
  PROVE  /\ call[r] \in Calls /\ call[r].op = "create"
         /\ call[r].festival \in Festivals
         /\ rows[call[r].festival] = Absent
         /\ rows' = [rows EXCEPT ![call[r].festival] = Created(call[r].window, call[r].now)]
<1>1. Creating(r) /\ call[r] \in Calls
  BY DEF ServiceInv, CallFits, CreateFestival, Creating, Resting
<1> QED BY <1>1, CallTypes DEF ServiceInv, FreshIds, Creating, CreateFestival

\* No two admins write the same version of a festival: every write is made on
\* top of the one before it.
THEOREM NoLostUpdate == Spec => VersionsAreWrittenOnce
<1>1. ServiceInv /\ [Next]_vars => \A f \in Festivals : WritesNextVersion(f)
  <2> SUFFICES ASSUME ServiceInv, [Next]_vars, NEW f \in Festivals,
                      rows[f] # Absent, rows'[f] # rows[f]
               PROVE  rows'[f].version = rows[f].version + 1
    BY DEF WritesNextVersion
  <2>1. CASE UNCHANGED tables
    BY <2>1 DEF tables
  <2>2. ASSUME NEW r \in Requests, CreateFestival(r)
        PROVE  rows'[f].version = rows[f].version + 1
    BY <2>2, CreateRows DEF ServiceInv, TypeOK
  <2>3. ASSUME NEW r \in Requests, Write(r)
        PROVE  rows'[f].version = rows[f].version + 1
    BY <2>3, CommitRows
  <2> QED BY <2>1, <2>2, <2>3, TablesStep
<1> QED BY <1>1, ServiceInvariant, PTL DEF Spec, VersionsAreWrittenOnce

-----------------------------------------------------------------------------
(* The games a festival lists *)

\* The check add_game made is old, but a game that is known stays known.
CheckedGamesAreKnown ==
  \A r \in Requests :
    stage[r] \in {"begun", "locked"} /\ call[r].op = "add_game" =>
      catalog[call[r].game] # "unknown"

ListInv == CheckedGamesAreKnown /\ ListedGamesAreKnown

\* A step that neither opens the transaction of an add_game nor writes a row.
LEMMA ListKept ==
  ASSUME ServiceInv, ListInv,
         \A r \in Requests : stage'[r] \in {"begun", "locked"} /\ call'[r].op = "add_game" =>
           stage[r] \in {"begun", "locked"} /\ call'[r] = call[r],
         \A g \in Games : catalog[g] # "unknown" => catalog'[g] # "unknown",
         UNCHANGED rows
  PROVE  ListInv'
<1>1. ASSUME NEW r \in Requests, stage[r] \in {"begun", "locked"}, call[r].op = "add_game"
      PROVE  call[r].game \in Games
  BY <1>1, CallTypes DEF ServiceInv, CallFits, Resting
<1>2. \A f \in Festivals : rows[f] # Absent => rows[f].games \subseteq Games
  BY DEF ServiceInv, TypeOK, Festival
<1> QED BY <1>1, <1>2 DEF ListInv, CheckedGamesAreKnown, ListedGamesAreKnown

LEMMA ListStep == ServiceInv /\ ListInv /\ [Next]_vars => ListInv'
<1> SUFFICES ASSUME ServiceInv, ListInv, [Next]_vars PROVE ListInv'
  OBVIOUS
<1> USE DEF tables
<1>a. /\ stage \in [Requests -> Stages]
      /\ call \in [Requests -> Calls \cup {Null}]
      /\ catalog \in [Games -> Known]
  BY DEF ServiceInv, TypeOK
<1>1. ASSUME NEW r \in Requests, Receive(r) PROVE ListInv'
  BY <1>1, <1>a, ListKept DEF Receive
<1>2. ASSUME NEW r \in Requests, LookupAudience(r) PROVE ListInv'
  BY <1>2, <1>a, ListKept DEF LookupAudience
<1>3. ASSUME NEW r \in Requests, NEW how \in Resting, Rest(r, how),
             UNCHANGED <<tables, catalog>>
      PROVE  ListInv'
  BY <1>3, <1>a, ListKept DEF Rest, Resting
<1>4. ASSUME NEW r \in Requests, CreateFestival(r) PROVE ListInv'
  <2>1. CheckedGamesAreKnown'
    BY <1>4, <1>a DEF CreateFestival, ListInv, CheckedGamesAreKnown
  <2>2. Created(call[r].window, call[r].now).games = {}
    BY DEF Created
  <2>3. \A f \in Festivals : rows'[f] = rows[f] \/ rows'[f].games = {}
    BY <1>4, <2>2, CreateRows DEF ServiceInv, TypeOK
  <2> QED BY <1>4, <2>1, <2>3 DEF CreateFestival, ListInv, ListedGamesAreKnown
<1>5. ASSUME NEW r \in Requests, Begin(r) PROVE ListInv'
  BY <1>5, <1>a DEF Begin, ListInv, CheckedGamesAreKnown, ListedGamesAreKnown, ServiceInv, CallFits
<1>6. ASSUME NEW r \in Requests, CheckGame(r) PROVE ListInv'
  BY <1>6, <1>a DEF CheckGame, ListInv, CheckedGamesAreKnown, ListedGamesAreKnown
<1>7. ASSUME NEW r \in Requests, LockRow(r) PROVE ListInv'
  BY <1>7, <1>a, ListKept DEF LockRow
<1>8. ASSUME NEW r \in Requests, Write(r) PROVE ListInv'
  <2>1. PICK fest, events : fest \in Festival /\ stage[r] = "locked" /\ Commit(r, fest, events)
    BY <1>8, WriteCommits
  <2>2. CheckedGamesAreKnown'
    BY <2>1, <1>a DEF Commit, ListInv, CheckedGamesAreKnown
  <2>3. ASSUME NEW f \in Festivals, rows'[f] # Absent, NEW g \in rows'[f].games
        PROVE  catalog'[g] # "unknown"
    <3>1. CASE rows'[f] = rows[f]
      BY <2>1, <2>3, <3>1 DEF Commit, ListInv, ListedGamesAreKnown
    <3>2. CASE rows'[f] # rows[f]
      <4>1. rows[f] # Absent
        BY <1>8, <2>1, <3>2, CommitRows, LockedRow
      <4>2. g \in rows[f].games \/ (call[r].op = "add_game" /\ g = call[r].game)
        BY <1>8, <2>3, <3>2, CommitRows
      <4> QED BY <2>1, <4>1, <4>2
              DEF Commit, ListInv, ListedGamesAreKnown, CheckedGamesAreKnown
    <3> QED BY <3>1, <3>2
  <2> QED BY <2>2, <2>3 DEF ListInv, ListedGamesAreKnown
<1>9. ASSUME NEW g \in Games, GameEvent(g) PROVE ListInv'
  BY <1>9, <1>a, ListKept DEF GameEvent
<1>10. CASE Tick
  BY <1>10, ListKept DEF Tick
<1>11. CASE UNCHANGED vars
  BY <1>11, ListKept DEF vars
<1>12. ASSUME NEW r \in Requests,
              \/ LookupRaises(r) \/ RejectCreate(r) \/ RejectGame(r) \/ FestivalNotFound(r)
              \/ Refuse(r) \/ Detail(r) \/ Abort(r) \/ PoolTimeout(r)
       PROVE  ListInv'
  <2>1. PICK how \in Resting : Rest(r, how) /\ UNCHANGED <<tables, catalog>>
    BY <1>12 DEF LookupRaises, RejectCreate, RejectGame, FestivalNotFound, Refuse, Detail, Abort,
                 PoolTimeout, Resting
  <2> QED BY <1>3, <2>1
<1> QED BY <1>1, <1>2, <1>4, <1>5, <1>6, <1>7, <1>8, <1>9, <1>10, <1>11, <1>12 DEF Next

\* However old the catalog check is when the game is written, no festival lists
\* a game that the service has never heard of.
THEOREM ListedGamesKnown == Spec => []ListedGamesAreKnown
<1>1. Init => ListInv
  BY DEF Init, ListInv, CheckedGamesAreKnown, ListedGamesAreKnown
<1>2. ListInv => ListedGamesAreKnown
  BY DEF ListInv
<1> QED BY <1>1, <1>2, ListStep, ServiceInvariant, PTL DEF Spec

-----------------------------------------------------------------------------
(* Refinement *)

\* The domain as the abstract specification sees it.
LEMMA SameDomain ==
  ASSUME NEW fest, NEW w, NEW g, NEW now, NEW audience
  PROVE  /\ Aggregate!ValidWindow(w, now) <=> ValidWindow(w, now)
         /\ Aggregate!Created(w, now) = Created(w, now)
         /\ Aggregate!CreatedEvent(w) = CreatedEvent(w)
         /\ Aggregate!CanReschedule(fest, w, now) <=> CanReschedule(fest, w, now)
         /\ Aggregate!Rescheduled(fest, w) = Rescheduled(fest, w)
         /\ Aggregate!CanAddGame(fest, g) <=> CanAddGame(fest, g)
         /\ Aggregate!WithGame(fest, g) = WithGame(fest, g)
         /\ Aggregate!GameAddedEvent(g) = GameAddedEvent(g)
         /\ Aggregate!CanRemoveGame(fest, g) <=> CanRemoveGame(fest, g)
         /\ Aggregate!WithoutGame(fest, g) = WithoutGame(fest, g)
         /\ Aggregate!GameRemovedEvent(g) = GameRemovedEvent(g)
         /\ Aggregate!CanStart(fest) <=> CanStart(fest)
         /\ Aggregate!Started(fest, now) = Started(fest, now)
         /\ Aggregate!StartedEvent(fest, audience) = StartedEvent(fest, audience)
         /\ Aggregate!CanEnd(fest) <=> CanEnd(fest)
         /\ Aggregate!Ended(fest, now) = Ended(fest, now)
         /\ Aggregate!EndedEvent = EndedEvent
         /\ Aggregate!CanCancel(fest) <=> CanCancel(fest)
         /\ Aggregate!Cancelled(fest, now) = Cancelled(fest, now)
         /\ Aggregate!CancelledEvent = CancelledEvent
  BY Zenon
     DEF Aggregate!ValidWindow, ValidWindow, Aggregate!Created, Created, Aggregate!CreatedEvent,
         CreatedEvent, Aggregate!CanReschedule, CanReschedule, Aggregate!Rescheduled, Rescheduled,
         Aggregate!CanAddGame, CanAddGame, Aggregate!WithGame, WithGame,
         Aggregate!GameAddedEvent, GameAddedEvent, Aggregate!CanRemoveGame, CanRemoveGame,
         Aggregate!WithoutGame, WithoutGame, Aggregate!GameRemovedEvent, GameRemovedEvent,
         Aggregate!CanStart, CanStart, Aggregate!Started, Started, Aggregate!StartedEvent,
         StartedEvent, Aggregate!CanEnd, CanEnd, Aggregate!Ended, Ended, Aggregate!EndedEvent,
         EndedEvent, Aggregate!CanCancel, CanCancel, Aggregate!Cancelled, Cancelled,
         Aggregate!CancelledEvent, CancelledEvent, Aggregate!Editable, Editable

LEMMA WriteRefines ==
  ASSUME ServiceInv, NEW r \in Requests, Write(r)
  PROVE  Aggregate!Next
<1> DEFINE f == call[r].festival
<1>1. stage[r] = "locked"
  BY DEF Write, Reschedule, AddGame, RemoveGame, Start, End, Cancel, Holds
<1>2. /\ call[r] \in Calls /\ f \in Festivals /\ rows[f] # Absent
      /\ copy[r] = rows[f]
  BY <1>1, LockedRow
<1>3. CASE Reschedule(r)
  <2>1. Aggregate!Reschedule(f, call[r].window, call[r].now)
    BY <1>2, <1>3, SameDomain DEF Reschedule, Commit, Aggregate!Reschedule, Aggregate!Write
  <2>2. call[r].window \in Windows /\ call[r].now \in Time
    BY <1>2, <1>3, CallTypes DEF Reschedule, Holds
  <2> QED BY <1>2, <2>1, <2>2 DEF Aggregate!Next
<1>4. CASE AddGame(r)
  <2>1. Aggregate!AddGame(f, call[r].game)
    BY <1>2, <1>4, SameDomain DEF AddGame, Commit, Aggregate!AddGame, Aggregate!Write
  <2>2. call[r].game \in Games
    BY <1>2, <1>4, CallTypes DEF AddGame, Holds
  <2> QED BY <1>2, <2>1, <2>2 DEF Aggregate!Next
<1>5. CASE RemoveGame(r)
  <2>1. Aggregate!RemoveGame(f, call[r].game)
    BY <1>2, <1>5, SameDomain DEF RemoveGame, Commit, Aggregate!RemoveGame, Aggregate!Write
  <2>2. call[r].game \in Games
    BY <1>2, <1>5, CallTypes DEF RemoveGame, Holds
  <2> QED BY <1>2, <2>1, <2>2 DEF Aggregate!Next
<1>6. CASE Start(r)
  <2>1. Aggregate!Start(f, call[r].now, call[r].audience)
    BY <1>2, <1>6, SameDomain DEF Start, Commit, Aggregate!Start, Aggregate!Write
  <2>2. call[r].now \in Time /\ call[r].audience \in Audience
    BY <1>1, <1>2, <1>6, CallTypes DEF Start, Holds, ServiceInv, CallFits
  <2> QED BY <1>2, <2>1, <2>2 DEF Aggregate!Next, Aggregate!Audience, Audience
<1>7. CASE End(r)
  <2>1. Aggregate!End(f, call[r].now)
    BY <1>2, <1>7, SameDomain DEF End, Commit, Aggregate!End, Aggregate!Write
  <2>2. call[r].now \in Time
    BY <1>2, <1>7, CallTypes DEF End, Holds
  <2> QED BY <1>2, <2>1, <2>2 DEF Aggregate!Next
<1>8. CASE Cancel(r)
  <2>1. Aggregate!Cancel(f, call[r].now)
    BY <1>2, <1>8, SameDomain DEF Cancel, Commit, Aggregate!Cancel, Aggregate!Write
  <2>2. call[r].now \in Time
    BY <1>2, <1>8, CallTypes DEF Cancel, Holds
  <2> QED BY <1>2, <2>1, <2>2 DEF Aggregate!Next
<1> QED BY <1>3, <1>4, <1>5, <1>6, <1>7, <1>8 DEF Write

\* Seen from the tables, every interleaving of staged requests, refusals, aborts
\* and timeouts is a sequence of indivisible use cases.
THEOREM Refinement == Spec => ImplementsAggregate
<1>1. Init => Aggregate!Init
  BY DEF Init, Aggregate!Init
<1>2. ServiceInv /\ [Next]_vars => [Aggregate!Next]_(Aggregate!vars)
  <2> SUFFICES ASSUME ServiceInv, [Next]_vars
               PROVE  Aggregate!Next \/ UNCHANGED Aggregate!vars
    OBVIOUS
  <2>1. CASE UNCHANGED tables
    BY <2>1 DEF tables, Aggregate!vars
  <2>2. ASSUME NEW r \in Requests, CreateFestival(r)
        PROVE  Aggregate!Next
    <3>1. Aggregate!Create(call[r].festival, call[r].window, call[r].now)
      BY <2>2, CreateRows, SameDomain DEF CreateFestival, Aggregate!Create
    <3>2. call[r].festival \in Festivals /\ call[r].window \in Windows /\ call[r].now \in Time
      BY <2>2, CreateRows, CallTypes
    <3> QED BY <3>1, <3>2 DEF Aggregate!Next
  <2> QED BY <2>1, <2>2, WriteRefines, TablesStep
<1> QED BY <1>1, <1>2, ServiceInvariant, PTL DEF Spec, ImplementsAggregate, Aggregate!Spec
-----------------------------------------------------------------------------
(* What the aggregate promises *)

\* FestivalAggregate with its theorems.
Promised == INSTANCE FestivalAggregateProofs

LEMMA PromisedConstants ==
  /\ Time \subseteq Nat
  /\ Windows \subseteq [starts_at : Time, ends_at : Time]
  /\ Null \notin Time
  /\ Absent \notin Promised!Festival
  BY DomainAssumption, Zenon
     DEF Promised!Festival, Festival, Promised!Window, Window, Promised!States, States

\* Through either instance the aggregate is the same.
LEMMA SameNext == Aggregate!Next <=> Promised!Next
  BY Zenon
     DEF Aggregate!Next, Promised!Next, Aggregate!Create, Promised!Create,
         Aggregate!Reschedule, Promised!Reschedule, Aggregate!AddGame, Promised!AddGame,
         Aggregate!RemoveGame, Promised!RemoveGame, Aggregate!Start, Promised!Start,
         Aggregate!End, Promised!End, Aggregate!Cancel, Promised!Cancel,
         Aggregate!Write, Promised!Write, Aggregate!Audience, Promised!Audience,
         Aggregate!ValidWindow, Promised!ValidWindow, Aggregate!Created, Promised!Created,
         Aggregate!CreatedEvent, Promised!CreatedEvent,
         Aggregate!CanReschedule, Promised!CanReschedule,
         Aggregate!Rescheduled, Promised!Rescheduled,
         Aggregate!CanAddGame, Promised!CanAddGame, Aggregate!WithGame, Promised!WithGame,
         Aggregate!GameAddedEvent, Promised!GameAddedEvent,
         Aggregate!CanRemoveGame, Promised!CanRemoveGame,
         Aggregate!WithoutGame, Promised!WithoutGame,
         Aggregate!GameRemovedEvent, Promised!GameRemovedEvent,
         Aggregate!CanStart, Promised!CanStart, Aggregate!Started, Promised!Started,
         Aggregate!StartedEvent, Promised!StartedEvent,
         Aggregate!CanEnd, Promised!CanEnd, Aggregate!Ended, Promised!Ended,
         Aggregate!EndedEvent, Promised!EndedEvent,
         Aggregate!CanCancel, Promised!CanCancel, Aggregate!Cancelled, Promised!Cancelled,
         Aggregate!CancelledEvent, Promised!CancelledEvent,
         Aggregate!Editable, Promised!Editable

LEMMA SameSpec == Aggregate!Spec => Promised!Spec
<1>1. Aggregate!Init => Promised!Init
  BY DEF Aggregate!Init, Promised!Init
<1>2. [Aggregate!Next]_(Aggregate!vars) => [Promised!Next]_(Promised!vars)
  BY SameNext, Zenon DEF Aggregate!vars, Promised!vars
<1> QED BY <1>1, <1>2, PTL DEF Aggregate!Spec, Promised!Spec

LEMMA SamePromises ==
  /\ Aggregate!OutboxTellsRow <=> Promised!OutboxTellsRow
  /\ Aggregate!OutboxIsAStory <=> Promised!OutboxIsAStory
  /\ Aggregate!StartedStaysTrue <=> Promised!StartedStaysTrue
  BY Zenon
     DEF Aggregate!OutboxTellsRow, Promised!OutboxTellsRow,
         Aggregate!OutboxIsAStory, Promised!OutboxIsAStory,
         Aggregate!StartedStaysTrue, Promised!StartedStaysTrue,
         Aggregate!ToldState, Promised!ToldState, Aggregate!ToldGames, Promised!ToldGames,
         Aggregate!Told, Promised!Told,
         Aggregate!GameAddedEvent, Promised!GameAddedEvent,
         Aggregate!GameRemovedEvent, Promised!GameRemovedEvent

\* However the requests of the Admins interleave, and whichever of them are refused,
\* time out or are aborted, the events about a festival add up to its row.
THEOREM ServiceTells == Spec => []Aggregate!OutboxTellsRow
<1>1. Promised!Spec => []Promised!OutboxTellsRow
  BY Promised!OutboxTells, PromisedConstants
<1> QED BY <1>1, SameSpec, SamePromises, Refinement, PTL DEF ImplementsAggregate

\* So many Admins at once tell one story of each festival: it starts at most once, and
\* nothing follows its end, whatever they had read before another's write.
THEOREM ServiceStory == Spec => []Aggregate!OutboxIsAStory
<1>1. Promised!Spec => []Promised!OutboxIsAStory
  BY Promised!OutboxOrdered, PromisedConstants
<1> QED BY <1>1, SameSpec, SamePromises, Refinement, PTL DEF ImplementsAggregate

\* No request moves the goalposts on a festival that another has just started.
THEOREM ServiceStartedTrue == Spec => []Aggregate!StartedStaysTrue
<1>1. Promised!Spec => []Promised!StartedStaysTrue
  BY Promised!StartedTrue, PromisedConstants
<1> QED BY <1>1, SameSpec, SamePromises, Refinement, PTL DEF ImplementsAggregate

\* No step of any request takes a festival back, or changes one that is over.
THEOREM ServiceLifecycle == Spec => Aggregate!LifecycleOnlyForward
<1>1. Promised!Spec => Promised!LifecycleOnlyForward
  BY Promised!LifecycleForward, PromisedConstants
<1>2. [\A f \in Festivals : Promised!MovesForward(f)]_(Promised!vars) =>
        [\A f \in Festivals : Aggregate!MovesForward(f)]_(Aggregate!vars)
  BY Zenon DEF Aggregate!vars, Promised!vars, Aggregate!MovesForward, Promised!MovesForward
<1> QED BY <1>1, <1>2, SameSpec, Refinement, PTL
        DEF ImplementsAggregate, Promised!LifecycleOnlyForward, Aggregate!LifecycleOnlyForward
=============================================================================
