----------------------- MODULE FestivalAggregateProofs -----------------------
(***************************************************************************)
(* The properties of FestivalAggregate, for every set of festivals, games, *)
(* windows and instants.                                                   *)
(***************************************************************************)
EXTENDS FestivalAggregate, SequenceTheorems, TLAPS

-----------------------------------------------------------------------------
(* The domain's operators keep their types. *)

\* A window that passed _check_window satisfies the table's constraint.
LEMMA WindowType ==
  ASSUME NEW w \in Windows, NEW now \in Time, ValidWindow(w, now)
  PROVE  w \in Window
  BY DomainAssumption DEF ValidWindow, Window

LEMMA CreatedType ==
  ASSUME NEW w \in Windows, NEW now \in Time, ValidWindow(w, now)
  PROVE  /\ Created(w, now) \in Festival
         /\ CreatedEvent(w) \in Events
  BY WindowType DEF Created, Festival, States, CreatedEvent, Events

\* What every method but create makes of a festival, under its next version.
LEMMA UpdateTypes ==
  ASSUME NEW fest \in Festival
  PROVE  /\ \A w \in Window : [Rescheduled(fest, w) EXCEPT !.version = @ + 1] \in Festival
         /\ \A g \in Games : [WithGame(fest, g) EXCEPT !.version = @ + 1] \in Festival
         /\ \A g \in Games : [WithoutGame(fest, g) EXCEPT !.version = @ + 1] \in Festival
         /\ \A now \in Time : [Started(fest, now) EXCEPT !.version = @ + 1] \in Festival
         /\ \A now \in Time : [Ended(fest, now) EXCEPT !.version = @ + 1] \in Festival
         /\ \A now \in Time : [Cancelled(fest, now) EXCEPT !.version = @ + 1] \in Festival
<1>1. ASSUME NEW next \in Festival
      PROVE  [next EXCEPT !.version = @ + 1] \in Festival
  BY DEF Festival
<1>2. ASSUME NEW w \in Window PROVE Rescheduled(fest, w) \in Festival
  BY DEF Festival, Rescheduled
<1>3. ASSUME NEW g \in Games PROVE WithGame(fest, g) \in Festival
  BY DEF Festival, WithGame
<1>4. ASSUME NEW g \in Games PROVE WithoutGame(fest, g) \in Festival
  BY DEF Festival, WithoutGame
<1>5. ASSUME NEW now \in Time PROVE Started(fest, now) \in Festival
  BY DEF Festival, States, Started
<1>6. ASSUME NEW now \in Time PROVE Ended(fest, now) \in Festival
  BY DEF Festival, States, Ended
<1>7. ASSUME NEW now \in Time PROVE Cancelled(fest, now) \in Festival
  BY DEF Festival, States, Cancelled
<1> QED BY <1>1, <1>2, <1>3, <1>4, <1>5, <1>6, <1>7

LEMMA EventTypes ==
  ASSUME NEW fest \in Festival
  PROVE  /\ \A g \in Games : GameAddedEvent(g) \in Events /\ GameRemovedEvent(g) \in Events
         /\ \A audience \in Audience : StartedEvent(fest, audience) \in Events
         /\ EndedEvent \in Events
         /\ CancelledEvent \in Events
  BY DEF Festival, Events, GameAddedEvent, GameRemovedEvent, StartedEvent, EndedEvent,
         CancelledEvent

-----------------------------------------------------------------------------
(* An outbox that grows by one event. *)

\* t is s with e appended.
Extends(s, t, e) ==
  /\ t \in Seq(Events)
  /\ Len(t) = Len(s) + 1
  /\ t[Len(t)] = e
  /\ \A i \in 1 .. Len(s) : t[i] = s[i]

LEMMA AppendExtends ==
  ASSUME NEW s \in Seq(Events), NEW e \in Events
  PROVE  /\ Extends(s, Append(s, e), e)
         /\ Extends(s, s \o <<e>>, e)
         /\ s \o << >> = s
<1>1. Extends(s, Append(s, e), e)
  BY DEF Extends
<1>2. Extends(s, s \o <<e>>, e)
  <2>1. <<e>> \in Seq(Events) /\ Len(<<e>>) = 1 /\ <<e>>[1] = e
    OBVIOUS
  <2> QED BY <2>1, ConcatProperties DEF Extends
<1> QED BY <1>1, <1>2, ConcatEmptySeq

\* What was told by a prefix is told by it still.
LEMMA PrefixTold ==
  ASSUME NEW s \in Seq(Events), NEW t, NEW e, Extends(s, t, e), NEW n \in 0 .. Len(s)
  PROVE  /\ \A type : Told(t, n, type) <=> Told(s, n, type)
         /\ ToldGames(t, n) = ToldGames(s, n)
<1>1. \A i \in 1 .. n : t[i] = s[i]
  BY DEF Extends
<1> QED BY <1>1 DEF Told, ToldGames

\* What the appended event adds.
LEMMA LastTold ==
  ASSUME NEW s \in Seq(Events), NEW t, NEW e, Extends(s, t, e)
  PROVE  /\ \A type : Told(t, Len(t), type) <=> Told(s, Len(s), type) \/ e.type = type
         /\ ToldGames(t, Len(t)) =
              {g \in Games : \/ e = GameAddedEvent(g)
                             \/ g \in ToldGames(s, Len(s)) /\ e # GameRemovedEvent(g)}
<1>1. Len(s) \in Nat /\ Len(t) = Len(s) + 1 /\ t[Len(t)] = e
  BY DEF Extends
<1>2. \A i \in 1 .. Len(s) : t[i] = s[i]
  BY DEF Extends
<1>3. ASSUME NEW type
      PROVE  Told(t, Len(t), type) <=> Told(s, Len(s), type) \/ e.type = type
  BY <1>1, <1>2 DEF Told
<1>4. ASSUME NEW g \in Games
      PROVE  g \in ToldGames(t, Len(t)) <=>
               \/ e = GameAddedEvent(g)
               \/ g \in ToldGames(s, Len(s)) /\ e # GameRemovedEvent(g)
  <2>1. CASE e = GameAddedEvent(g)
    BY <1>1, <2>1 DEF ToldGames
  <2>2. CASE e # GameAddedEvent(g) /\ g \in ToldGames(s, Len(s))
    BY <1>1, <1>2, <2>2 DEF ToldGames
  <2>3. CASE e # GameAddedEvent(g) /\ g \notin ToldGames(s, Len(s))
    BY <1>1, <1>2, <2>3 DEF ToldGames
  <2> QED BY <2>1, <2>2, <2>3
<1> QED BY <1>3, <1>4 DEF ToldGames

-----------------------------------------------------------------------------
(* Type correctness *)

\* A write of one row and of nothing, or one event, keeps the tables' types.
LEMMA WriteType ==
  ASSUME TypeOK, NEW f \in Festivals, NEW fest,
         [fest EXCEPT !.version = @ + 1] \in Festival,
         NEW events, outbox[f] \o events \in Seq(Events),
         Write(f, fest, events)
  PROVE  TypeOK'
  BY DEF TypeOK, Write

LEMMA TypeStep == TypeOK /\ [Next]_vars => TypeOK'
<1> SUFFICES ASSUME TypeOK, [Next]_vars PROVE TypeOK'
  OBVIOUS
<1>a. ASSUME NEW f \in Festivals
      PROVE  /\ outbox[f] \o << >> \in Seq(Events)
             /\ \A e \in Events : outbox[f] \o <<e>> \in Seq(Events)
             /\ \A e \in Events : Append(outbox[f], e) \in Seq(Events)
  BY AppendExtends, ConcatEmptySeq DEF TypeOK, Extends
<1>b. ASSUME NEW f \in Festivals, rows[f] # Absent
      PROVE  rows[f] \in Festival /\ outbox[f] \in Seq(Events)
  BY <1>b DEF TypeOK
<1>1. ASSUME NEW f \in Festivals, NEW w \in Windows, NEW now \in Time, Create(f, w, now)
      PROVE  TypeOK'
  BY <1>a, <1>1, CreatedType DEF Create, TypeOK
<1>2. ASSUME NEW f \in Festivals, NEW w \in Windows, NEW now \in Time, Reschedule(f, w, now)
      PROVE  TypeOK'
  <2>1. w \in Window
    BY <1>2, WindowType DEF Reschedule, CanReschedule
  <2> QED BY <1>2, <1>a, <1>b, <2>1, UpdateTypes, WriteType DEF Reschedule
<1>3. ASSUME NEW f \in Festivals, NEW g \in Games, AddGame(f, g)
      PROVE  TypeOK'
  BY <1>3, <1>a, <1>b, UpdateTypes, EventTypes, WriteType DEF AddGame
<1>4. ASSUME NEW f \in Festivals, NEW g \in Games, RemoveGame(f, g)
      PROVE  TypeOK'
  BY <1>4, <1>a, <1>b, UpdateTypes, EventTypes, WriteType DEF RemoveGame
<1>5. ASSUME NEW f \in Festivals, NEW now \in Time, NEW audience \in Audience,
             Start(f, now, audience)
      PROVE  TypeOK'
  BY <1>5, <1>a, <1>b, UpdateTypes, EventTypes, WriteType DEF Start
<1>6. ASSUME NEW f \in Festivals, NEW now \in Time, End(f, now)
      PROVE  TypeOK'
  BY <1>6, <1>a, <1>b, UpdateTypes, EventTypes, WriteType DEF End
<1>7. ASSUME NEW f \in Festivals, NEW now \in Time, Cancel(f, now)
      PROVE  TypeOK'
  BY <1>7, <1>a, <1>b, UpdateTypes, EventTypes, WriteType DEF Cancel
<1>8. ASSUME UNCHANGED vars PROVE TypeOK'
  BY <1>8 DEF TypeOK, vars
<1> QED BY <1>1, <1>2, <1>3, <1>4, <1>5, <1>6, <1>7, <1>8 DEF Next

\* Every row the use cases write is a festival the table's constraints accept,
\* whatever the requests ask for.
THEOREM TypeCorrect == Spec => []TypeOK
<1>1. Init => TypeOK
  BY EmptySeq DEF Init, TypeOK
<1> QED BY <1>1, TypeStep, PTL DEF Spec

-----------------------------------------------------------------------------
(* The outbox tells the row. *)

\* The three invariants, of one festival with this row and this outbox.
Tells(row, s) ==
  /\ s # << >>
  /\ row.state = ToldState(s, Len(s))
  /\ row.games = ToldGames(s, Len(s))

InOrder(s) ==
  \A i \in 1 .. Len(s) :
    /\ s[i].type = "FestivalCreated" <=> i = 1
    /\ s[i].type = "FestivalStarted" => ~Told(s, i - 1, "FestivalStarted")
    /\ s[i].type = "FestivalEnded" => Told(s, i - 1, "FestivalStarted")
    /\ ~Told(s, i - 1, "FestivalEnded") /\ ~Told(s, i - 1, "FestivalCancelled")

StartTrue(row, s) ==
  \A i \in 1 .. Len(s) :
    s[i].type = "FestivalStarted" =>
      /\ s[i].window = row.window
      /\ s[i].games  = ToldGames(s, i - 1)
      /\ s[i].games  # {}

Story(row, s) ==
  IF row = Absent THEN s = << >> ELSE Tells(row, s) /\ InOrder(s) /\ StartTrue(row, s)

StoryInv ==
  /\ TypeOK
  /\ \A f \in Festivals : Story(rows[f], outbox[f])

\* How an event that is not the first relates the row before it to the row after.
Reports(row, e, new) ==
  /\ row.state \in Editable
  /\ new.window = row.window
  /\ new.games = {g \in Games : \/ e = GameAddedEvent(g)
                                \/ g \in row.games /\ e # GameRemovedEvent(g)}
  /\ \/ /\ e.type \in {"FestivalGameAdded", "FestivalGameRemoved"}
        /\ new.state = row.state
     \/ /\ e.type = "FestivalStarted"
        /\ row.state = "DRAFT" /\ new.state = "ACTIVE"
        /\ e.window = row.window
        /\ e.games = row.games /\ e.games # {}
     \/ /\ e.type = "FestivalEnded"
        /\ row.state = "ACTIVE" /\ new.state = "ENDED"
     \/ /\ e.type = "FestivalCancelled"
        /\ new.state = "CANCELLED"

\* A story stays one when an event is appended that reports the change of the row.
LEMMA StoryGrows ==
  ASSUME NEW s \in Seq(Events), NEW t, NEW e, Extends(s, t, e),
         NEW row, NEW new, Tells(row, s), InOrder(s), StartTrue(row, s),
         Reports(row, e, new)
  PROVE  Tells(new, t) /\ InOrder(t) /\ StartTrue(new, t)
<1>1. /\ Len(s) \in Nat \ {0} /\ Len(t) = Len(s) + 1 /\ t[Len(t)] = e
      /\ \A i \in 1 .. Len(s) : t[i] = s[i]
  BY EmptySeq DEF Extends, Tells
<1>2. \A i \in 1 .. Len(t) : i - 1 \in 0 .. Len(s)
  BY <1>1
<1>3. \A n \in 0 .. Len(s) :
        /\ \A type : Told(t, n, type) <=> Told(s, n, type)
        /\ ToldGames(t, n) = ToldGames(s, n)
  BY PrefixTold
<1>4. /\ \A type : Told(t, Len(t), type) <=> Told(s, Len(s), type) \/ e.type = type
      /\ ToldGames(t, Len(t)) =
           {g \in Games : \/ e = GameAddedEvent(g)
                          \/ g \in ToldGames(s, Len(s)) /\ e # GameRemovedEvent(g)}
  BY LastTold
<1>5. /\ row.state = "DRAFT" =>
           /\ ~Told(s, Len(s), "FestivalStarted")
           /\ ~Told(s, Len(s), "FestivalEnded")
           /\ ~Told(s, Len(s), "FestivalCancelled")
      /\ row.state = "ACTIVE" =>
           /\ Told(s, Len(s), "FestivalStarted")
           /\ ~Told(s, Len(s), "FestivalEnded")
           /\ ~Told(s, Len(s), "FestivalCancelled")
  BY DEF Tells, ToldState
<1>6. Tells(new, t)
  <2>1. t # << >>
    BY <1>1, EmptySeq DEF Extends
  <2>2. new.state = ToldState(t, Len(t))
    BY <1>4, <1>5 DEF Reports, ToldState, Editable
  <2>3. new.games = ToldGames(t, Len(t))
    BY <1>4 DEF Reports, Tells
  <2> QED BY <2>1, <2>2, <2>3 DEF Tells
<1>7. InOrder(t)
  <2> SUFFICES ASSUME NEW i \in 1 .. Len(t)
      PROVE /\ t[i].type = "FestivalCreated" <=> i = 1
            /\ t[i].type = "FestivalStarted" => ~Told(t, i - 1, "FestivalStarted")
            /\ t[i].type = "FestivalEnded" => Told(t, i - 1, "FestivalStarted")
            /\ ~Told(t, i - 1, "FestivalEnded") /\ ~Told(t, i - 1, "FestivalCancelled")
    BY DEF InOrder
  <2>1. \A type : Told(t, i - 1, type) <=> Told(s, i - 1, type)
    BY <1>2, <1>3
  <2>2. CASE i \in 1 .. Len(s)
    BY <1>1, <2>1, <2>2 DEF InOrder
  <2>3. CASE i = Len(t)
    <3>1. i - 1 = Len(s) /\ i # 1 /\ t[i] = e
      BY <1>1, <2>3
    <3>2. t[i].type # "FestivalCreated"
      BY <3>1 DEF Reports
    <3> QED BY <3>1, <3>2, <2>1, <1>5 DEF Reports, Editable
  <2> QED BY <1>1, <2>2, <2>3
<1>8. StartTrue(new, t)
  <2> SUFFICES ASSUME NEW i \in 1 .. Len(t), t[i].type = "FestivalStarted"
      PROVE /\ t[i].window = new.window
            /\ t[i].games  = ToldGames(t, i - 1)
            /\ t[i].games  # {}
    BY DEF StartTrue
  <2>1. ToldGames(t, i - 1) = ToldGames(s, i - 1)
    BY <1>2, <1>3
  <2>2. CASE i \in 1 .. Len(s)
    BY <1>1, <2>1, <2>2 DEF StartTrue, Reports
  <2>3. CASE i = Len(t)
    <3>1. i - 1 = Len(s) /\ t[i] = e
      BY <1>1, <2>3
    <3> QED BY <3>1, <2>1 DEF Reports, Tells
  <2> QED BY <1>1, <2>2, <2>3
<1> QED BY <1>6, <1>7, <1>8

\* A write of one festival that reports its change with one event.
LEMMA ReportedWrite ==
  ASSUME StoryInv, NEW f \in Festivals, rows[f] # Absent,
         NEW fest, NEW e \in Events, Reports(rows[f], e, [fest EXCEPT !.version = @ + 1]),
         [fest EXCEPT !.version = @ + 1] # Absent,
         Write(f, fest, <<e>>)
  PROVE  \A x \in Festivals : Story(rows'[x], outbox'[x])
<1> DEFINE new == [fest EXCEPT !.version = @ + 1]
<1>1. /\ rows   \in [Festivals -> Festival \cup {Absent}]
      /\ outbox \in [Festivals -> Seq(Events)]
  BY DEF StoryInv, TypeOK
<1>2. rows'[f] = new /\ outbox'[f] = outbox[f] \o <<e>>
  BY <1>1 DEF Write
<1>3. Extends(outbox[f], outbox'[f], e)
  BY <1>1, <1>2, AppendExtends
<1>4. Tells(rows[f], outbox[f]) /\ InOrder(outbox[f]) /\ StartTrue(rows[f], outbox[f])
  BY DEF StoryInv, Story
<1> HIDE DEF new
<1>5. Tells(new, outbox'[f]) /\ InOrder(outbox'[f]) /\ StartTrue(new, outbox'[f])
  BY <1>1, <1>3, <1>4, StoryGrows DEF new
<1>6. ASSUME NEW x \in Festivals, x # f
      PROVE  rows'[x] = rows[x] /\ outbox'[x] = outbox[x]
  BY <1>1, <1>6 DEF Write
<1> QED BY <1>2, <1>5, <1>6 DEF StoryInv, Story, new

LEMMA StoryStep == StoryInv /\ [Next]_vars => StoryInv'
<1> SUFFICES ASSUME StoryInv, [Next]_vars
             PROVE  \A x \in Festivals : Story(rows'[x], outbox'[x])
  BY TypeStep DEF StoryInv
<1>a. /\ rows   \in [Festivals -> Festival \cup {Absent}]
      /\ outbox \in [Festivals -> Seq(Events)]
      /\ \A x \in Festivals : Story(rows[x], outbox[x])
  BY DEF StoryInv, TypeOK
<1>b. Absent \notin Festival
  BY DomainAssumption
<1>c. ASSUME NEW f \in Festivals, rows[f] # Absent
      PROVE  rows[f] \in Festival
  BY <1>a, <1>c
<1>1. ASSUME NEW f \in Festivals, NEW w \in Windows, NEW now \in Time, Create(f, w, now)
      PROVE  \A x \in Festivals : Story(rows'[x], outbox'[x])
  <2> DEFINE s == Append(<< >>, CreatedEvent(w))
  <2>1. Created(w, now) \in Festival /\ CreatedEvent(w) \in Events
    BY <1>1, CreatedType DEF Create
  <2>2. rows'[f] = Created(w, now) /\ outbox'[f] = s
    BY <1>1, <1>a DEF Create, Story
  <2>3. /\ s # << >> /\ Len(s) = 1 /\ s[1].type = "FestivalCreated"
        /\ \A g \in Games : s[1] # GameAddedEvent(g)
    BY <2>1, EmptySeq, AppendExtends DEF Extends, CreatedEvent, GameAddedEvent
  <2> HIDE DEF s
  <2>4. Tells(Created(w, now), s)
    BY <2>3 DEF Tells, ToldState, ToldGames, Told, Created
  <2>5. InOrder(s) /\ StartTrue(Created(w, now), s)
    BY <2>3 DEF InOrder, StartTrue, Told
  <2>6. ASSUME NEW x \in Festivals, x # f
        PROVE  rows'[x] = rows[x] /\ outbox'[x] = outbox[x]
    BY <1>1, <1>a, <2>6 DEF Create
  <2> QED BY <1>a, <1>b, <2>1, <2>2, <2>4, <2>5, <2>6 DEF Story
<1>2. ASSUME NEW f \in Festivals, NEW w \in Windows, NEW now \in Time, Reschedule(f, w, now)
      PROVE  \A x \in Festivals : Story(rows'[x], outbox'[x])
  <2>1. rows[f] \in Festival /\ rows[f].state = "DRAFT" /\ rows[f] # Absent
    BY <1>2, <1>c DEF Reschedule, CanReschedule
  <2>2. /\ rows'[f].state = rows[f].state
        /\ rows'[f].games = rows[f].games
        /\ rows'[f] # Absent
    <3>1. rows'[f] = [Rescheduled(rows[f], w) EXCEPT !.version = @ + 1]
      BY <1>2, <1>a DEF Reschedule, Write
    <3>2. rows'[f] \in Festival
      BY <1>2, <2>1, <3>1, WindowType, UpdateTypes DEF Reschedule, CanReschedule
    <3> QED BY <2>1, <3>1, <3>2, <1>b DEF Rescheduled, Festival
  <2>3. outbox'[f] = outbox[f]
    BY <1>2, <1>a, ConcatEmptySeq DEF Reschedule, Write
  <2>4. Tells(rows[f], outbox[f]) /\ InOrder(outbox[f])
    BY <1>a, <2>1 DEF Story
  <2>5. ~Told(outbox[f], Len(outbox[f]), "FestivalStarted")
    BY <2>1, <2>4 DEF Tells, ToldState
  <2>6. StartTrue(rows'[f], outbox'[f])
    BY <2>3, <2>5 DEF StartTrue, Told
  <2>7. ASSUME NEW x \in Festivals, x # f
        PROVE  rows'[x] = rows[x] /\ outbox'[x] = outbox[x]
    BY <1>2, <1>a, <2>7 DEF Reschedule, Write
  <2> QED BY <1>a, <2>2, <2>3, <2>4, <2>6, <2>7 DEF Story, Tells
<1>3. ASSUME NEW f \in Festivals, NEW g \in Games, AddGame(f, g)
      PROVE  \A x \in Festivals : Story(rows'[x], outbox'[x])
  <2> DEFINE new == [WithGame(rows[f], g) EXCEPT !.version = @ + 1]
  <2>1. rows[f] \in Festival /\ rows[f] # Absent /\ CanAddGame(rows[f], g)
    BY <1>3, <1>c DEF AddGame
  <2>2. new \in Festival /\ GameAddedEvent(g) \in Events
    BY <2>1, UpdateTypes, EventTypes
  <2>3. Reports(rows[f], GameAddedEvent(g), new)
    BY <2>1 DEF Reports, CanAddGame, WithGame, GameAddedEvent, GameRemovedEvent, Festival
  <2> QED BY <1>3, <1>b, <2>1, <2>2, <2>3, ReportedWrite DEF AddGame
<1>4. ASSUME NEW f \in Festivals, NEW g \in Games, RemoveGame(f, g)
      PROVE  \A x \in Festivals : Story(rows'[x], outbox'[x])
  <2> DEFINE new == [WithoutGame(rows[f], g) EXCEPT !.version = @ + 1]
  <2>1. rows[f] \in Festival /\ rows[f] # Absent /\ CanRemoveGame(rows[f], g)
    BY <1>4, <1>c DEF RemoveGame
  <2>2. new \in Festival /\ GameRemovedEvent(g) \in Events
    BY <2>1, UpdateTypes, EventTypes
  <2>3. Reports(rows[f], GameRemovedEvent(g), new)
    BY <2>1 DEF Reports, CanRemoveGame, WithoutGame, GameAddedEvent, GameRemovedEvent, Festival
  <2> QED BY <1>4, <1>b, <2>1, <2>2, <2>3, ReportedWrite DEF RemoveGame
<1>5. ASSUME NEW f \in Festivals, NEW now \in Time, NEW audience \in Audience,
             Start(f, now, audience)
      PROVE  \A x \in Festivals : Story(rows'[x], outbox'[x])
  <2> DEFINE new == [Started(rows[f], now) EXCEPT !.version = @ + 1]
             e   == StartedEvent(rows[f], audience)
  <2>1. rows[f] \in Festival /\ rows[f] # Absent /\ CanStart(rows[f])
    BY <1>5, <1>c DEF Start
  <2>2. new \in Festival /\ e \in Events
    BY <2>1, UpdateTypes, EventTypes
  <2>3. Reports(rows[f], e, new)
    BY <2>1 DEF Reports, CanStart, Started, StartedEvent, GameAddedEvent, GameRemovedEvent,
                Festival, Editable
  <2> QED BY <1>5, <1>b, <2>1, <2>2, <2>3, ReportedWrite DEF Start
<1>6. ASSUME NEW f \in Festivals, NEW now \in Time, End(f, now)
      PROVE  \A x \in Festivals : Story(rows'[x], outbox'[x])
  <2> DEFINE new == [Ended(rows[f], now) EXCEPT !.version = @ + 1]
  <2>1. rows[f] \in Festival /\ rows[f] # Absent /\ CanEnd(rows[f])
    BY <1>6, <1>c DEF End
  <2>2. new \in Festival /\ EndedEvent \in Events
    BY <2>1, UpdateTypes, EventTypes
  <2>3. Reports(rows[f], EndedEvent, new)
    BY <2>1 DEF Reports, CanEnd, Ended, EndedEvent, GameAddedEvent, GameRemovedEvent,
                Festival, Editable
  <2> QED BY <1>6, <1>b, <2>1, <2>2, <2>3, ReportedWrite DEF End
<1>7. ASSUME NEW f \in Festivals, NEW now \in Time, Cancel(f, now)
      PROVE  \A x \in Festivals : Story(rows'[x], outbox'[x])
  <2> DEFINE new == [Cancelled(rows[f], now) EXCEPT !.version = @ + 1]
  <2>1. rows[f] \in Festival /\ rows[f] # Absent /\ CanCancel(rows[f])
    BY <1>7, <1>c DEF Cancel
  <2>2. new \in Festival /\ CancelledEvent \in Events
    BY <2>1, UpdateTypes, EventTypes
  <2>3. Reports(rows[f], CancelledEvent, new)
    BY <2>1 DEF Reports, CanCancel, Cancelled, CancelledEvent, GameAddedEvent,
                GameRemovedEvent, Festival, Editable
  <2> QED BY <1>7, <1>b, <2>1, <2>2, <2>3, ReportedWrite DEF Cancel
<1>8. ASSUME UNCHANGED vars
      PROVE  \A x \in Festivals : Story(rows'[x], outbox'[x])
  BY <1>8, <1>a DEF vars
<1> QED BY <1>1, <1>2, <1>3, <1>4, <1>5, <1>6, <1>7, <1>8 DEF Next

LEMMA StoryInvariant == Spec => []StoryInv
<1>1. Init => StoryInv
  <2>1. Init => TypeOK
    BY EmptySeq DEF Init, TypeOK
  <2>2. Init => \A f \in Festivals : Story(rows[f], outbox[f])
    BY DEF Init, Story
  <2> QED BY <2>1, <2>2 DEF StoryInv
<1> QED BY <1>1, StoryStep, PTL DEF Spec

\* The events enqueued about a festival add up to its row: nothing the service
\* writes goes unreported, and nothing is reported that was not written.
THEOREM OutboxTells == Spec => []OutboxTellsRow
<1>1. StoryInv => OutboxTellsRow
  BY DEF StoryInv, Story, Tells, OutboxTellsRow
<1> QED BY <1>1, StoryInvariant, PTL

\* A festival's events come in an order in which they can happen, each part of
\* the story told once.
THEOREM OutboxOrdered == Spec => []OutboxIsAStory
<1>1. StoryInv => OutboxIsAStory
  <2> SUFFICES ASSUME StoryInv, NEW f \in Festivals
      PROVE  InOrder(outbox[f])
    BY DEF OutboxIsAStory, InOrder
  <2>1. CASE rows[f] = Absent
    <3>1. outbox[f] = << >>
      BY <2>1 DEF StoryInv, Story
    <3>2. 1 .. Len(outbox[f]) = {}
      BY <3>1
    <3> QED BY <3>2 DEF InOrder
  <2>2. CASE rows[f] # Absent
    BY <2>2 DEF StoryInv, Story
  <2> QED BY <2>1, <2>2
<1> QED BY <1>1, StoryInvariant, PTL

\* The window and the games that FestivalStarted announced stay true.
THEOREM StartedTrue == Spec => []StartedStaysTrue
<1>1. StoryInv => StartedStaysTrue
  <2> SUFFICES ASSUME StoryInv, NEW f \in Festivals
      PROVE  StartTrue(rows[f], outbox[f])
    BY DEF StartedStaysTrue, StartTrue
  <2>1. CASE rows[f] = Absent
    <3>1. outbox[f] = << >>
      BY <2>1 DEF StoryInv, Story
    <3>2. 1 .. Len(outbox[f]) = {}
      BY <3>1
    <3> QED BY <3>2 DEF StartTrue
  <2>2. CASE rows[f] # Absent
    BY <2>2 DEF StoryInv, Story
  <2> QED BY <2>1, <2>2
<1> QED BY <1>1, StoryInvariant, PTL

-----------------------------------------------------------------------------
(* The lifecycle *)

\* No step, whatever is asked for and in whatever order, takes a festival back,
\* moves a running one, or changes one that is over.
THEOREM LifecycleForward == Spec => LifecycleOnlyForward
<1>1. TypeOK /\ [Next]_vars => \A f \in Festivals : MovesForward(f)
  <2> SUFFICES ASSUME TypeOK, [Next]_vars, NEW x \in Festivals, rows[x] # Absent
               PROVE  MovesForward(x)
    BY DEF MovesForward
  <2>a. /\ rows \in [Festivals -> Festival \cup {Absent}]
        /\ rows[x] \in Festival
        /\ Absent \notin Festival
    BY DomainAssumption DEF TypeOK
  <2>b. ASSUME NEW f \in Festivals, f # x, NEW fest, NEW events, Write(f, fest, events)
        PROVE  rows'[x] = rows[x]
    BY <2>a, <2>b DEF Write
  <2>c. ASSUME rows'[x] = rows[x] PROVE MovesForward(x)
    BY <2>a, <2>c DEF MovesForward, Festival
  <2>1. ASSUME NEW f \in Festivals, NEW w \in Windows, NEW now \in Time, Create(f, w, now)
        PROVE  MovesForward(x)
    <3>1. rows'[x] = rows[x]
      BY <2>1, <2>a DEF Create
    <3> QED BY <3>1, <2>c
  <2>2. ASSUME NEW f \in Festivals, NEW w \in Windows, NEW now \in Time, Reschedule(f, w, now)
        PROVE  MovesForward(x)
    <3>1. CASE f # x
      BY <3>1, <2>2, <2>b, <2>c DEF Reschedule
    <3>2. CASE f = x
      <4> DEFINE new == [Rescheduled(rows[x], w) EXCEPT !.version = @ + 1]
      <4>1. rows'[x] = new /\ CanReschedule(rows[x], w, now)
        BY <3>2, <2>2, <2>a DEF Reschedule, Write
      <4>2. new \in Festival
        BY <2>a, <4>1, WindowType, UpdateTypes DEF CanReschedule
      <4> QED BY <2>a, <4>1, <4>2 DEF CanReschedule, Rescheduled, Festival, Editable, MovesForward
    <3> QED BY <3>1, <3>2
  <2>3. ASSUME NEW f \in Festivals, NEW g \in Games, AddGame(f, g)
        PROVE  MovesForward(x)
    <3>1. CASE f # x
      BY <3>1, <2>3, <2>b, <2>c DEF AddGame
    <3>2. CASE f = x
      <4> DEFINE new == [WithGame(rows[x], g) EXCEPT !.version = @ + 1]
      <4>1. rows'[x] = new /\ CanAddGame(rows[x], g)
        BY <3>2, <2>3, <2>a DEF AddGame, Write
      <4>2. new \in Festival
        BY <2>a, <4>1, UpdateTypes
      <4> QED BY <2>a, <4>1, <4>2 DEF CanAddGame, WithGame, Festival, Editable, MovesForward
    <3> QED BY <3>1, <3>2
  <2>4. ASSUME NEW f \in Festivals, NEW g \in Games, RemoveGame(f, g)
        PROVE  MovesForward(x)
    <3>1. CASE f # x
      BY <3>1, <2>4, <2>b, <2>c DEF RemoveGame
    <3>2. CASE f = x
      <4> DEFINE new == [WithoutGame(rows[x], g) EXCEPT !.version = @ + 1]
      <4>1. rows'[x] = new /\ CanRemoveGame(rows[x], g)
        BY <3>2, <2>4, <2>a DEF RemoveGame, Write
      <4>2. new \in Festival
        BY <2>a, <4>1, UpdateTypes
      <4> QED BY <2>a, <4>1, <4>2 DEF CanRemoveGame, WithoutGame, Festival, Editable, MovesForward
    <3> QED BY <3>1, <3>2
  <2>5. ASSUME NEW f \in Festivals, NEW now \in Time, NEW audience \in Audience, Start(f, now, audience)
        PROVE  MovesForward(x)
    <3>1. CASE f # x
      BY <3>1, <2>5, <2>b, <2>c DEF Start
    <3>2. CASE f = x
      <4> DEFINE new == [Started(rows[x], now) EXCEPT !.version = @ + 1]
      <4>1. rows'[x] = new /\ CanStart(rows[x])
        BY <3>2, <2>5, <2>a DEF Start, Write
      <4>2. new \in Festival
        BY <2>a, <4>1, UpdateTypes
      <4> QED BY <2>a, <4>1, <4>2 DEF CanStart, Started, Festival, Editable, MovesForward
    <3> QED BY <3>1, <3>2
  <2>6. ASSUME NEW f \in Festivals, NEW now \in Time, End(f, now)
        PROVE  MovesForward(x)
    <3>1. CASE f # x
      BY <3>1, <2>6, <2>b, <2>c DEF End
    <3>2. CASE f = x
      <4> DEFINE new == [Ended(rows[x], now) EXCEPT !.version = @ + 1]
      <4>1. rows'[x] = new /\ CanEnd(rows[x])
        BY <3>2, <2>6, <2>a DEF End, Write
      <4>2. new \in Festival
        BY <2>a, <4>1, UpdateTypes
      <4> QED BY <2>a, <4>1, <4>2 DEF CanEnd, Ended, Festival, Editable, MovesForward
    <3> QED BY <3>1, <3>2
  <2>7. ASSUME NEW f \in Festivals, NEW now \in Time, Cancel(f, now)
        PROVE  MovesForward(x)
    <3>1. CASE f # x
      BY <3>1, <2>7, <2>b, <2>c DEF Cancel
    <3>2. CASE f = x
      <4> DEFINE new == [Cancelled(rows[x], now) EXCEPT !.version = @ + 1]
      <4>1. rows'[x] = new /\ CanCancel(rows[x])
        BY <3>2, <2>7, <2>a DEF Cancel, Write
      <4>2. new \in Festival
        BY <2>a, <4>1, UpdateTypes
      <4> QED BY <2>a, <4>1, <4>2 DEF CanCancel, Cancelled, Festival, Editable, MovesForward
    <3> QED BY <3>1, <3>2
  <2>8. ASSUME UNCHANGED vars PROVE MovesForward(x)
    BY <2>8, <2>c DEF vars
  <2> QED BY <2>1, <2>2, <2>3, <2>4, <2>5, <2>6, <2>7, <2>8 DEF Next
<1> QED BY <1>1, TypeCorrect, PTL DEF Spec, LifecycleOnlyForward
=============================================================================
