--------------------------- MODULE CatalogSyncProofs ---------------------------
(***************************************************************************)
(* Safety of the handlers, for any numbers of replicas, messages,          *)
(* festivals, games and promotions, any faults, and any use cases in       *)
(* between: the types of the read-models, and that a discount is announced *)
(* for a selected game only; that replicas which insert the same row       *)
(* neither lose a message nor bury it; and, as long as one replica at a    *)
(* time has a message in hand, that the read-models are what the log says  *)
(* and an approval is announced once.                                      *)
(***************************************************************************)
EXTENDS CatalogSync, SequenceTheorems, FiniteSetTheorems, WellFoundedInduction,
        TLAPS

Announced == [type : {"DiscountApplied"}, promotion : Promotions, game : Games]

\* What the tables of festivals and the outbox hold.
StoreType ==
  /\ rows   \in [Festivals -> Festival \cup {Absent}]
  /\ outbox \in [Festivals -> Seq(Events \cup Announced)]

\* One of the first n events about the festival told that the game is selected.
ToldSelected(f, g, n) == \E j \in 1 .. n : outbox[f][j] = GameAddedEvent(g)

\* A selected game has been told to be.
SelectedWasTold ==
  \A f \in Festivals : rows[f] # Absent =>
    \A g \in rows[f].games : ToldSelected(f, g, Len(outbox[f]))

\* A handler that runs has a message of the log in hand.
HandType ==
  /\ log       \in Seq(Messages)
  /\ committed \in 0 .. Len(log)
  /\ stage     \in [Replicas -> Consumer!Stages]
  /\ hand      \in [Replicas -> 0 .. Len(log)]
  /\ \A r \in Replicas : stage[r] \in {"handling", "burying", "raised", "settled"} => hand[r] # 0

\* What a handler has loaded is of the message it has in hand: a title is there to
\* be written, and the games of the festival it has seen had been told to be
\* selected when it saw them, and so they are still.
LoadFits(r) ==
  /\ loaded[r].step # "start" =>
       /\ stage[r] = "handling"
       /\ InHand(r) \in GameMessages \cup PromotionMessages
  /\ loaded[r].step = "game" /\ InHand(r).type = "GameUpdated" => InHand(r).title # Null
  /\ loaded[r].step \in {"festival", "promotion"} =>
       /\ InHand(r).festival \in Festivals
       /\ \A g \in loaded[r].games :
            ToldSelected(InHand(r).festival, g, Len(outbox[InHand(r).festival]))

SyncInv ==
  /\ TypeOK
  /\ StoreType
  /\ HandType
  /\ SelectedWasTold
  /\ \A r \in Replicas : LoadFits(r)
  /\ AnnouncedWasSelected

-----------------------------------------------------------------------------
(* An outbox that grows *)

\* t is s with e appended.
Extends(s, t, e) ==
  /\ t \in Seq(Events \cup Announced)
  /\ Len(t) = Len(s) + 1
  /\ t[Len(t)] = e
  /\ \A i \in 1 .. Len(s) : t[i] = s[i]

LEMMA AppendExtends ==
  ASSUME NEW s \in Seq(Events \cup Announced), NEW e \in Events \cup Announced
  PROVE  /\ Extends(s, Append(s, e), e)
         /\ Extends(s, s \o <<e>>, e)
         /\ s \o << >> = s
<1> DEFINE S == Events \cup Announced
<1>1. Extends(s, Append(s, e), e)
  <2>1. s \in Seq(S) /\ e \in S
    OBVIOUS
  <2> HIDE DEF S
  <2>2. /\ Append(s, e) \in Seq(S)
        /\ Len(Append(s, e)) = Len(s) + 1
        /\ Append(s, e)[Len(s) + 1] = e
        /\ \A i \in 1 .. Len(s) : Append(s, e)[i] = s[i]
    BY <2>1
  <2> QED BY <2>2 DEF Extends, S
<1>2. Extends(s, s \o <<e>>, e)
  <2>1. <<e>> \in Seq(Events \cup Announced) /\ Len(<<e>>) = 1 /\ <<e>>[1] = e
    OBVIOUS
  <2> QED BY <2>1, ConcatProperties DEF Extends
<1> QED BY <1>1, <1>2, ConcatEmptySeq

\* The outbox of f has grown by e, every other is what it was.
Tells(f, e) == \E t : Extends(outbox[f], t, e) /\ outbox' = [outbox EXCEPT ![f] = t]

\* The outboxes only grow.
Grows ==
  \A f \in Festivals :
    /\ Len(outbox[f]) <= Len(outbox'[f])
    /\ \A i \in 1 .. Len(outbox[f]) : outbox'[f][i] = outbox[f][i]

LEMMA TellsGrows ==
  ASSUME StoreType, NEW f \in Festivals, NEW e \in Events \cup Announced, Tells(f, e)
  PROVE  /\ outbox' \in [Festivals -> Seq(Events \cup Announced)]
         /\ Grows
         /\ Len(outbox'[f]) = Len(outbox[f]) + 1
         /\ outbox'[f][Len(outbox[f]) + 1] = e
         /\ \A h \in Festivals \ {f} : outbox'[h] = outbox[h]
<1>1. PICK t : Extends(outbox[f], t, e) /\ outbox' = [outbox EXCEPT ![f] = t]
  BY DEF Tells
<1>2. \A h \in Festivals : outbox[h] \in Seq(Events \cup Announced)
  BY DEF StoreType
<1>3. \A h \in Festivals : Len(outbox[h]) \in Nat
  BY <1>2, LenProperties
<1>4. outbox'[f] = t /\ \A h \in Festivals \ {f} : outbox'[h] = outbox[h]
  BY <1>1 DEF StoreType
<1> QED BY <1>1, <1>2, <1>3, <1>4 DEF Extends, Grows, StoreType

\* An event adds to the announcements of the promotion that it announces, if any.
LEMMA TellsAnnouncements ==
  ASSUME StoreType, NEW f \in Festivals, NEW e \in Events \cup Announced, Tells(f, e),
         NEW h \in Festivals, NEW p
  PROVE  Announcements(h, p)' =
           IF h = f /\ e.type = "DiscountApplied" /\ e.promotion = p
           THEN Announcements(h, p) \cup {Len(outbox[f]) + 1} ELSE Announcements(h, p)
<1>1. /\ outbox' \in [Festivals -> Seq(Events \cup Announced)]
      /\ Grows
      /\ Len(outbox'[f]) = Len(outbox[f]) + 1
      /\ outbox'[f][Len(outbox[f]) + 1] = e
      /\ \A k \in Festivals \ {f} : outbox'[k] = outbox[k]
  BY TellsGrows
<1>2. /\ Len(outbox[f]) \in Nat /\ DOMAIN outbox[f] = 1 .. Len(outbox[f])
      /\ DOMAIN outbox'[f] = 1 .. Len(outbox[f]) + 1
  BY <1>1, LenProperties DEF StoreType
<1>3. CASE h # f
  BY <1>1, <1>3 DEF Announcements
<1>4. CASE h = f
  <2> DEFINE n == Len(outbox[f]) + 1
  <2>1. \A i : i \in DOMAIN outbox'[f] <=> i \in DOMAIN outbox[f] \/ i = n
    BY <1>2
  <2>2. n \notin DOMAIN outbox[f] /\ \A i \in DOMAIN outbox[f] : outbox'[f][i] = outbox[f][i]
    BY <1>1, <1>2 DEF Grows
  <2>3. \A i : i \in Announcements(f, p)' <=>
          \/ i \in Announcements(f, p)
          \/ i = n /\ e.type = "DiscountApplied" /\ e.promotion = p
    BY <1>1, <2>1, <2>2 DEF Announcements
  <2> HIDE DEF n
  <2>4. CASE e.type = "DiscountApplied" /\ e.promotion = p
    <3>1. Announcements(f, p)' = Announcements(f, p) \cup {n}
      BY <2>3, <2>4
    <3> QED BY <1>4, <2>4, <3>1 DEF n
  <2>5. CASE ~(e.type = "DiscountApplied" /\ e.promotion = p)
    <3>1. Announcements(f, p)' = Announcements(f, p)
      BY <2>3, <2>5
    <3> QED BY <1>4, <2>5, <3>1
  <2> QED BY <2>4, <2>5
<1> QED BY <1>3, <1>4

\* Whoever was told that a game is selected remains told.
LEMMA ToldStays ==
  ASSUME StoreType, Grows, NEW f \in Festivals, NEW g, ToldSelected(f, g, Len(outbox[f]))
  PROVE  ToldSelected(f, g, Len(outbox[f]))'
<1>1. Len(outbox[f]) \in Nat
  BY LenProperties DEF StoreType
<1> QED BY <1>1 DEF ToldSelected, Grows

\* An event that announces no discount leaves every discount announced rightly.
LEMMA QuietTelling ==
  ASSUME StoreType, AnnouncedWasSelected,
         NEW f \in Festivals, NEW e \in Events \cup Announced, Tells(f, e),
         e.type = "DiscountApplied" => ToldSelected(f, e.game, Len(outbox[f]))
  PROVE  AnnouncedWasSelected'
<1> SUFFICES ASSUME NEW h \in Festivals, NEW p \in Promotions,
                    NEW i \in DOMAIN outbox'[h],
                    outbox'[h][i].type = "DiscountApplied",
                    outbox'[h][i].promotion = p
             PROVE  \E j \in 1 .. i - 1 : outbox'[h][j] = GameAddedEvent(outbox'[h][i].game)
  BY DEF AnnouncedWasSelected, Announcements
<1>1. Len(outbox[h]) \in Nat /\ DOMAIN outbox[h] = 1 .. Len(outbox[h])
  BY LenProperties DEF StoreType
<1>2. /\ outbox' \in [Festivals -> Seq(Events \cup Announced)]
      /\ Grows
      /\ Len(outbox'[f]) = Len(outbox[f]) + 1
      /\ outbox'[f][Len(outbox[f]) + 1] = e
      /\ \A k \in Festivals \ {f} : outbox'[k] = outbox[k]
  BY TellsGrows
<1>3. DOMAIN outbox'[h] = 1 .. Len(outbox'[h]) /\ Len(outbox'[h]) \in Nat
  BY <1>2, LenProperties
<1>4. CASE i \in 1 .. Len(outbox[h])
  <2>1. \A j \in 1 .. i : outbox'[h][j] = outbox[h][j]
    BY <1>1, <1>2, <1>4 DEF Grows
  <2>2. i \in Announcements(h, p)
    BY <1>1, <1>4, <2>1 DEF Announcements
  <2>3. \E j \in 1 .. i - 1 : outbox[h][j] = GameAddedEvent(outbox[h][i].game)
    BY <2>2 DEF AnnouncedWasSelected
  <2> QED BY <1>4, <2>1, <2>3
<1>5. CASE i \notin 1 .. Len(outbox[h])
  <2>1. h = f /\ i = Len(outbox[f]) + 1
    BY <1>1, <1>2, <1>3, <1>5
  <2>2. outbox'[h][i] = e
    BY <1>2, <2>1
  <2>3. PICK j \in 1 .. Len(outbox[f]) : outbox[f][j] = GameAddedEvent(e.game)
    BY <2>2 DEF ToldSelected
  <2> QED BY <1>1, <1>2, <2>1, <2>2, <2>3 DEF Grows
<1> QED BY <1>4, <1>5

-----------------------------------------------------------------------------
(* The use cases *)

\* No festival vanishes.
RowsStay == \A f \in Festivals : rows[f] # Absent => rows'[f] # Absent

\* No discount is announced.
AnnouncementsStay ==
  \A f \in Festivals, p \in Promotions : Announcements(f, p)' = Announcements(f, p)

\* One use case writes the row of f and tells so: whatever game the row now has, the
\* row had before, or the event adds.
LEMMA ReportedWrite ==
  ASSUME StoreType, SelectedWasTold, AnnouncedWasSelected,
         NEW f \in Festivals, NEW fest \in Festival, NEW e \in Events,
         e.type # "DiscountApplied",
         rows' = [rows EXCEPT ![f] = fest],
         \/ Tells(f, e)
         \/ outbox' = outbox /\ rows[f] # Absent /\ fest.games = rows[f].games,
         \A g \in fest.games :
           e = GameAddedEvent(g) \/ (rows[f] # Absent /\ g \in rows[f].games)
  PROVE  /\ StoreType'
         /\ SelectedWasTold'
         /\ AnnouncedWasSelected'
         /\ Grows
         /\ RowsStay
         /\ AnnouncementsStay
<1>0. /\ rows'[f] = fest /\ \A h \in Festivals \ {f} : rows'[h] = rows[h]
      /\ rows' \in [Festivals -> Festival \cup {Absent}]
  BY DEF StoreType
<1>r. RowsStay
  BY <1>0, DomainAssumption DEF RowsStay
<1>1. \A h \in Festivals : Len(outbox[h]) \in Nat
  BY LenProperties DEF StoreType
<1>2. CASE outbox' = outbox /\ rows[f] # Absent /\ fest.games = rows[f].games
  <2>1. Grows
    BY <1>1, <1>2 DEF Grows
  <2>2. StoreType' /\ AnnouncedWasSelected'
    BY <1>0, <1>2 DEF StoreType, AnnouncedWasSelected, Announcements
  <2>3. SelectedWasTold'
    BY <1>0, <1>2 DEF SelectedWasTold, ToldSelected
  <2>4. AnnouncementsStay
    BY <1>2 DEF AnnouncementsStay, Announcements
  <2> QED BY <1>r, <2>1, <2>2, <2>3, <2>4
<1>3. CASE Tells(f, e)
  <2>1. /\ outbox' \in [Festivals -> Seq(Events \cup Announced)]
        /\ Grows
        /\ Len(outbox'[f]) = Len(outbox[f]) + 1
        /\ outbox'[f][Len(outbox[f]) + 1] = e
    BY <1>3, TellsGrows
  <2>2. AnnouncedWasSelected'
    BY <1>3, QuietTelling
  <2>3. StoreType'
    BY <1>0, <2>1 DEF StoreType
  <2>4. ASSUME NEW h \in Festivals, rows'[h] # Absent, NEW g \in rows'[h].games
        PROVE  ToldSelected(h, g, Len(outbox[h]))'
    <3>1. CASE rows[h] # Absent /\ g \in rows[h].games
      <4>1. ToldSelected(h, g, Len(outbox[h]))
        BY <3>1 DEF SelectedWasTold
      <4> QED BY <2>1, <4>1, ToldStays
    <3>2. CASE ~(rows[h] # Absent /\ g \in rows[h].games)
      <4>1. h = f /\ e = GameAddedEvent(g)
        BY <1>0, <2>4, <3>2
      <4> QED BY <1>1, <2>1, <4>1 DEF ToldSelected
    <3> QED BY <3>1, <3>2
  <2>5. SelectedWasTold'
    BY <2>4 DEF SelectedWasTold
  <2>6. AnnouncementsStay
    BY <1>3, TellsAnnouncements DEF AnnouncementsStay
  <2> QED BY <1>r, <2>1, <2>2, <2>3, <2>5, <2>6
<1> QED BY <1>r, <1>2, <1>3

\* Every method makes a festival of a festival.
LEMMA UpdateTypes ==
  ASSUME NEW fest \in Festival
  PROVE  /\ \A w \in Window : [Rescheduled(fest, w) EXCEPT !.version = @ + 1] \in Festival
         /\ \A g \in Games : [WithGame(fest, g) EXCEPT !.version = @ + 1] \in Festival
         /\ \A g \in Games : [WithoutGame(fest, g) EXCEPT !.version = @ + 1] \in Festival
         /\ \A now \in Time : [Started(fest, now) EXCEPT !.version = @ + 1] \in Festival
         /\ \A now \in Time : [Ended(fest, now) EXCEPT !.version = @ + 1] \in Festival
         /\ \A now \in Time : [Cancelled(fest, now) EXCEPT !.version = @ + 1] \in Festival
<1>1. ASSUME NEW next \in Festival
      PROVE  [next EXCEPT !.version = @ + 1] \in Festival
  BY DEF Festival
<1>2. \A w \in Window : Rescheduled(fest, w) \in Festival
  BY DEF Festival, Rescheduled
<1>3. \A g \in Games : WithGame(fest, g) \in Festival /\ WithoutGame(fest, g) \in Festival
  BY DEF Festival, WithGame, WithoutGame
<1>4. \A now \in Time : /\ Started(fest, now) \in Festival
                        /\ Ended(fest, now) \in Festival
                        /\ Cancelled(fest, now) \in Festival
  BY DEF Festival, States, Started, Ended, Cancelled
<1> QED BY <1>1, <1>2, <1>3, <1>4

\* The operators of the domain are the same ones under both names.
LEMMA SameDomain ==
  ASSUME NEW fest, NEW w, NEW g, NEW now, NEW audience
  PROVE  /\ Aggregate!ValidWindow(w, now) <=> ValidWindow(w, now)
         /\ Aggregate!Created(w, now) = Created(w, now)
         /\ Aggregate!CreatedEvent(w) = CreatedEvent(w)
         /\ Aggregate!CanReschedule(fest, w, now) => ValidWindow(w, now)
         /\ Aggregate!Rescheduled(fest, w) = Rescheduled(fest, w)
         /\ Aggregate!WithGame(fest, g) = WithGame(fest, g)
         /\ Aggregate!GameAddedEvent(g) = GameAddedEvent(g)
         /\ Aggregate!WithoutGame(fest, g) = WithoutGame(fest, g)
         /\ Aggregate!GameRemovedEvent(g) = GameRemovedEvent(g)
         /\ Aggregate!Started(fest, now) = Started(fest, now)
         /\ Aggregate!StartedEvent(fest, audience) = StartedEvent(fest, audience)
         /\ Aggregate!Ended(fest, now) = Ended(fest, now)
         /\ Aggregate!EndedEvent = EndedEvent
         /\ Aggregate!Cancelled(fest, now) = Cancelled(fest, now)
         /\ Aggregate!CancelledEvent = CancelledEvent
         /\ Aggregate!Audience = Audience
  BY DEF Aggregate!ValidWindow, ValidWindow, Aggregate!Created, Created,
         Aggregate!CreatedEvent, CreatedEvent, Aggregate!CanReschedule,
         Aggregate!Rescheduled, Rescheduled, Aggregate!WithGame, WithGame,
         Aggregate!GameAddedEvent, GameAddedEvent, Aggregate!WithoutGame, WithoutGame,
         Aggregate!GameRemovedEvent, GameRemovedEvent, Aggregate!Started, Started,
         Aggregate!StartedEvent, StartedEvent, Aggregate!Ended, Ended,
         Aggregate!EndedEvent, EndedEvent, Aggregate!Cancelled, Cancelled,
         Aggregate!CancelledEvent, CancelledEvent, Aggregate!Audience, Audience

LEMMA UseCaseStep ==
  ASSUME StoreType, SelectedWasTold, AnnouncedWasSelected, Aggregate!Next
  PROVE  /\ StoreType'
         /\ SelectedWasTold'
         /\ AnnouncedWasSelected'
         /\ Grows
         /\ RowsStay
         /\ AnnouncementsStay
<1> DEFINE Goal == /\ StoreType' /\ SelectedWasTold' /\ AnnouncedWasSelected'
                   /\ Grows /\ RowsStay /\ AnnouncementsStay
<1>a. ASSUME NEW f \in Festivals, rows[f] # Absent
      PROVE  rows[f] \in Festival
  BY <1>a DEF StoreType
<1>b. ASSUME NEW f \in Festivals, NEW e \in Events,
             \/ outbox' = [outbox EXCEPT ![f] = @ \o <<e>>]
             \/ outbox' = [outbox EXCEPT ![f] = Append(@, e)]
      PROVE  Tells(f, e)
  BY <1>b, AppendExtends DEF Tells, StoreType
<1>c. ASSUME NEW f \in Festivals, outbox' = [outbox EXCEPT ![f] = @ \o << >>]
      PROVE  outbox' = outbox
  <2>1. outbox[f] \o << >> = outbox[f]
    BY ConcatEmptySeq DEF StoreType
  <2> QED BY <1>c, <2>1 DEF StoreType
<1>1. ASSUME NEW f \in Festivals, NEW w \in Windows, NEW now \in Time,
             Aggregate!Create(f, w, now)
      PROVE  Goal
  <2>1. w \in Window
    BY <1>1, SameDomain, DomainAssumption DEF Aggregate!Create, ValidWindow, Window
  <2>2. /\ Created(w, now) \in Festival /\ Created(w, now).games = {}
        /\ CreatedEvent(w) \in Events /\ CreatedEvent(w).type # "DiscountApplied"
    BY <2>1 DEF Created, Festival, States, CreatedEvent, Events
  <2>3. Tells(f, CreatedEvent(w)) /\ rows' = [rows EXCEPT ![f] = Created(w, now)]
    BY <1>1, <1>b, SameDomain, <2>2 DEF Aggregate!Create
  <2> QED BY <2>2, <2>3, ReportedWrite
<1>2. ASSUME NEW f \in Festivals, NEW w \in Windows, NEW now \in Time,
             Aggregate!Reschedule(f, w, now)
      PROVE  Goal
  <2> DEFINE fest == [Rescheduled(rows[f], w) EXCEPT !.version = @ + 1]
  <2>1. w \in Window /\ rows[f] # Absent /\ rows[f] \in Festival
    <3>1. rows[f] # Absent /\ ValidWindow(w, now)
      BY <1>2, SameDomain DEF Aggregate!Reschedule
    <3>2. w \in Window
      BY <3>1, DomainAssumption DEF ValidWindow, Window
    <3> QED BY <1>a, <3>1, <3>2
  <2>2. fest \in Festival /\ fest.games = rows[f].games
    BY <2>1, UpdateTypes DEF Rescheduled, Festival
  <2>3. outbox' = outbox /\ rows' = [rows EXCEPT ![f] = fest]
    <3>1. /\ rows' = [rows EXCEPT ![f] = fest]
          /\ outbox' = [outbox EXCEPT ![f] = @ \o << >>]
      BY <1>2, SameDomain DEF Aggregate!Reschedule, Aggregate!Write
    <3> QED BY <1>c, <3>1
  <2>4. EndedEvent \in Events /\ EndedEvent.type # "DiscountApplied"
    BY DEF EndedEvent, Events
  <2> HIDE DEF fest
  <2> QED BY <2>1, <2>2, <2>3, <2>4, ReportedWrite
<1>3. ASSUME NEW f \in Festivals, NEW g \in Games, Aggregate!AddGame(f, g)
      PROVE  Goal
  <2> DEFINE fest == [WithGame(rows[f], g) EXCEPT !.version = @ + 1]
  <2>1. rows[f] # Absent /\ rows[f] \in Festival
    BY <1>3, <1>a DEF Aggregate!AddGame
  <2>2. fest \in Festival /\ fest.games = rows[f].games \cup {g}
    BY <2>1, UpdateTypes DEF WithGame, Festival
  <2>3. GameAddedEvent(g) \in Events /\ GameAddedEvent(g).type # "DiscountApplied"
    BY DEF GameAddedEvent, Events
  <2>4. Tells(f, GameAddedEvent(g)) /\ rows' = [rows EXCEPT ![f] = fest]
    BY <1>3, <1>b, SameDomain, <2>3 DEF Aggregate!AddGame, Aggregate!Write
  <2> HIDE DEF fest
  <2> QED BY <2>1, <2>2, <2>3, <2>4, ReportedWrite
<1>4. ASSUME NEW f \in Festivals, NEW g \in Games, Aggregate!RemoveGame(f, g)
      PROVE  Goal
  <2> DEFINE fest == [WithoutGame(rows[f], g) EXCEPT !.version = @ + 1]
  <2>1. rows[f] # Absent /\ rows[f] \in Festival
    BY <1>4, <1>a DEF Aggregate!RemoveGame
  <2>2. fest \in Festival /\ fest.games = rows[f].games \ {g}
    BY <2>1, UpdateTypes DEF WithoutGame, Festival
  <2>3. GameRemovedEvent(g) \in Events /\ GameRemovedEvent(g).type # "DiscountApplied"
    BY DEF GameRemovedEvent, Events
  <2>4. Tells(f, GameRemovedEvent(g)) /\ rows' = [rows EXCEPT ![f] = fest]
    BY <1>4, <1>b, SameDomain, <2>3 DEF Aggregate!RemoveGame, Aggregate!Write
  <2> HIDE DEF fest
  <2> QED BY <2>1, <2>2, <2>3, <2>4, ReportedWrite
<1>5. ASSUME NEW f \in Festivals, NEW now \in Time, NEW audience \in Audience,
             Aggregate!Start(f, now, audience)
      PROVE  Goal
  <2> DEFINE fest == [Started(rows[f], now) EXCEPT !.version = @ + 1]
             e    == StartedEvent(rows[f], audience)
  <2>1. rows[f] # Absent /\ rows[f] \in Festival
    BY <1>5, <1>a DEF Aggregate!Start
  <2>2. fest \in Festival /\ fest.games = rows[f].games
    BY <2>1, UpdateTypes DEF Started, Festival
  <2>3. e \in Events /\ e.type # "DiscountApplied"
    BY <2>1 DEF StartedEvent, Events, Festival
  <2>4. Tells(f, e) /\ rows' = [rows EXCEPT ![f] = fest]
    BY <1>5, <1>b, SameDomain, <2>3 DEF Aggregate!Start, Aggregate!Write
  <2> HIDE DEF fest, e
  <2> QED BY <2>1, <2>2, <2>3, <2>4, ReportedWrite
<1>6. ASSUME NEW f \in Festivals, NEW now \in Time, Aggregate!End(f, now)
      PROVE  Goal
  <2> DEFINE fest == [Ended(rows[f], now) EXCEPT !.version = @ + 1]
  <2>1. rows[f] # Absent /\ rows[f] \in Festival
    BY <1>6, <1>a DEF Aggregate!End
  <2>2. fest \in Festival /\ fest.games = rows[f].games
    BY <2>1, UpdateTypes DEF Ended, Festival
  <2>3. EndedEvent \in Events /\ EndedEvent.type # "DiscountApplied"
    BY DEF EndedEvent, Events
  <2>4. Tells(f, EndedEvent) /\ rows' = [rows EXCEPT ![f] = fest]
    BY <1>6, <1>b, SameDomain, <2>3 DEF Aggregate!End, Aggregate!Write
  <2> HIDE DEF fest
  <2> QED BY <2>1, <2>2, <2>3, <2>4, ReportedWrite
<1>7. ASSUME NEW f \in Festivals, NEW now \in Time, Aggregate!Cancel(f, now)
      PROVE  Goal
  <2> DEFINE fest == [Cancelled(rows[f], now) EXCEPT !.version = @ + 1]
  <2>1. rows[f] # Absent /\ rows[f] \in Festival
    BY <1>7, <1>a DEF Aggregate!Cancel
  <2>2. fest \in Festival /\ fest.games = rows[f].games
    BY <2>1, UpdateTypes DEF Cancelled, Festival
  <2>3. CancelledEvent \in Events /\ CancelledEvent.type # "DiscountApplied"
    BY DEF CancelledEvent, Events
  <2>4. Tells(f, CancelledEvent) /\ rows' = [rows EXCEPT ![f] = fest]
    BY <1>7, <1>b, SameDomain, <2>3 DEF Aggregate!Cancel, Aggregate!Write
  <2> HIDE DEF fest
  <2> QED BY <2>1, <2>2, <2>3, <2>4, ReportedWrite
<1> HIDE DEF Goal
<1>8. Goal
  BY <1>1, <1>2, <1>3, <1>4, <1>5, <1>6, <1>7, SameDomain DEF Aggregate!Next
<1> QED BY <1>8 DEF Goal

-----------------------------------------------------------------------------
(* What a replica has in hand *)

\* Whatever the consumer of r does, the log and the other replicas' hands stay.
ConsumerStep(r) ==
  \/ Consumer!Join(r) \/ Consumer!Crash(r) \/ Consumer!Expire(r)
  \/ Consumer!Poll(r)
  \/ Consumer!Apply(r) \/ Consumer!HandlerRaises(r) \/ Consumer!HandlerRefuses(r)
  \/ Consumer!Raise(r) /\ stage[r] = "handling"
  \/ Consumer!DeadLetter(r) \/ Consumer!DeadLetterFails(r) \/ Consumer!GiveUp(r)
  \/ Consumer!Commit(r) \/ Consumer!CommitStale(r)

LEMMA ConsumerHand ==
  ASSUME HandType, NEW r \in Replicas, ConsumerStep(r)
  PROVE  /\ HandType'
         /\ log' = log
         /\ \A q \in Replicas \ {r} : stage'[q] = stage[q] /\ hand'[q] = hand[q]
<1>0. Len(log) \in Nat /\ DOMAIN log = 1 .. Len(log)
  BY LenProperties DEF HandType
<1>1. CASE Consumer!Join(r)
  BY <1>1 DEF HandType, Consumer!Join, Consumer!MoveTo, Consumer!Stages
<1>2. CASE Consumer!Crash(r)
  BY <1>0, <1>2 DEF HandType, Consumer!Crash, Consumer!MoveTo, Consumer!Stages
<1>3. CASE Consumer!Expire(r)
  BY <1>3 DEF HandType, Consumer!Expire, Consumer!MoveTo, Consumer!Stages
<1>4. CASE Consumer!Poll(r)
  <2>1. committed + 1 \in 1 .. Len(log)
    BY <1>0, <1>4 DEF HandType, Consumer!Poll
  <2>2. log[committed + 1] \in Messages
    BY <1>0, <2>1, ElementOfSeq DEF HandType
  <2>3. Consumer!Routed(log[committed + 1]) \in Consumer!Stages
    BY <2>2, SyncAssumption DEF Consumer!Routed, Consumer!Stages, Consumer!Kinds
  <2> QED BY <1>4, <2>1, <2>3 DEF HandType, Consumer!Poll, Consumer!MoveTo
<1>5. CASE Consumer!Apply(r)
  BY <1>5 DEF HandType, Consumer!Apply, Consumer!MoveTo, Consumer!Stages
<1>6. CASE Consumer!Raise(r) /\ stage[r] = "handling"
  BY <1>6 DEF HandType, Consumer!Raise, Consumer!MoveTo, Consumer!Stages
<1>7. CASE Consumer!HandlerRaises(r)
  BY <1>6, <1>7 DEF Consumer!HandlerRaises
<1>8. CASE Consumer!HandlerRefuses(r)
  BY <1>8 DEF HandType, Consumer!HandlerRefuses, Consumer!MoveTo, Consumer!Stages
<1>9. CASE Consumer!DeadLetter(r) \/ Consumer!DeadLetterFails(r) \/ Consumer!GiveUp(r)
  BY <1>9 DEF HandType, Consumer!DeadLetter, Consumer!DeadLetterFails, Consumer!GiveUp,
              Consumer!MoveTo, Consumer!Stages
<1>10. CASE Consumer!Commit(r)
  BY <1>0, <1>10 DEF HandType, Consumer!Commit, Consumer!Drop, Consumer!MoveTo, Consumer!Stages
<1>11. CASE Consumer!CommitStale(r)
  <2>1. PICK next \in {"polling", "stopped"} : stage' = [stage EXCEPT ![r] = next]
    BY <1>11 DEF Consumer!CommitStale, Consumer!MoveTo
  <2>2. /\ hand' = [hand EXCEPT ![r] = 0]
        /\ UNCHANGED <<log, committed>>
    BY <1>11 DEF Consumer!CommitStale, Consumer!Drop
  <2> QED BY <1>0, <2>1, <2>2 DEF HandType, Consumer!Stages
<1> QED BY <1>1, <1>2, <1>3, <1>4, <1>5, <1>6, <1>7, <1>8, <1>9, <1>10, <1>11 DEF ConsumerStep

LEMMA KafkaHand ==
  ASSUME HandType, (\E m \in Messages : Consumer!Publish(m)) \/ Consumer!Rebalance
  PROVE  /\ HandType'
         /\ stage' = stage /\ hand' = hand
         /\ \A n \in 1 .. Len(log) : log'[n] = log[n]
<1>0. Len(log) \in Nat
  BY LenProperties DEF HandType
<1>1. ASSUME NEW m \in Messages, Consumer!Publish(m)
      PROVE  /\ HandType'
             /\ stage' = stage /\ hand' = hand
             /\ \A n \in 1 .. Len(log) : log'[n] = log[n]
  <2>1. log \in Seq(Messages) /\ log' = Append(log, m)
    BY <1>1 DEF HandType, Consumer!Publish
  <2>2. /\ log' \in Seq(Messages)
        /\ Len(log') = Len(log) + 1
        /\ \A n \in 1 .. Len(log) : log'[n] = log[n]
    BY <2>1
  <2>3. UNCHANGED <<committed, stage, hand>>
    BY <1>1 DEF Consumer!Publish, Consumer!group
  <2> QED BY <1>0, <2>2, <2>3 DEF HandType
<1>2. CASE Consumer!Rebalance
  BY <1>2 DEF HandType, Consumer!Rebalance
<1> QED BY <1>1, <1>2

\* A handler that has loaded nothing has nothing to be wrong about.
LEMMA NothingFits ==
  ASSUME NEW r \in Replicas, loaded'[r] = Nothing
  PROVE  LoadFits(r)'
  BY DEF LoadFits, Nothing

\* The others' steps take nothing from what a handler has loaded.
LEMMA LoadStays ==
  ASSUME StoreType, HandType, Grows, NEW r \in Replicas, LoadFits(r),
         loaded'[r] = loaded[r], stage'[r] = stage[r], hand'[r] = hand[r],
         \A n \in 1 .. Len(log) : log'[n] = log[n]
  PROVE  LoadFits(r)'
<1>1. CASE loaded[r].step \in {"start"} \/ stage[r] # "handling"
  BY <1>1 DEF LoadFits
<1>2. CASE loaded[r].step # "start" /\ stage[r] = "handling"
  <2>1. hand[r] \in 1 .. Len(log)
    BY <1>2 DEF HandType
  <2>2. InHand(r)' = InHand(r)
    BY <2>1 DEF InHand
  <2>3. CASE loaded[r].step \in {"festival", "promotion"}
    <3>1. ASSUME NEW g \in loaded[r].games
          PROVE  ToldSelected(InHand(r).festival, g, Len(outbox[InHand(r).festival]))'
      <4>1. /\ InHand(r).festival \in Festivals
            /\ ToldSelected(InHand(r).festival, g, Len(outbox[InHand(r).festival]))
        BY <2>3, <3>1 DEF LoadFits
      <4>2. ASSUME NEW f \in Festivals, ToldSelected(f, g, Len(outbox[f]))
            PROVE  ToldSelected(f, g, Len(outbox[f]))'
        BY <4>2, ToldStays
      <4>3. PICK f \in Festivals : f = InHand(r).festival
        BY <4>1
      <4>4. ToldSelected(f, g, Len(outbox[f]))'
        BY <4>1, <4>2, <4>3
      <4> QED BY <2>2, <4>3, <4>4
    <3> QED BY <1>2, <2>2, <2>3, <3>1 DEF LoadFits
  <2>4. CASE loaded[r].step \notin {"festival", "promotion"}
    BY <1>2, <2>2, <2>4 DEF LoadFits
  <2> QED BY <2>3, <2>4
<1> QED BY <1>1, <1>2

-----------------------------------------------------------------------------
(* The steps of a handler *)

\* What CatalogSync's steps leave alone, for every replica but r.
LEMMA OthersFit ==
  ASSUME SyncInv, Grows, NEW r \in Replicas, NEW what,
         loaded' = [loaded EXCEPT ![r] = what],
         log' = log,
         \A q \in Replicas \ {r} : stage'[q] = stage[q] /\ hand'[q] = hand[q],
         LoadFits(r)'
  PROVE  \A q \in Replicas : LoadFits(q)'
<1>1. \A q \in Replicas \ {r} : loaded'[q] = loaded[q]
  BY DEF SyncInv, TypeOK
<1> QED BY <1>1, LoadStays DEF SyncInv

LEMMA Unchanged ==
  ASSUME SyncInv, outbox' = outbox
  PROVE  Grows
<1>1. \A f \in Festivals : Len(outbox[f]) \in Nat
  BY LenProperties DEF SyncInv, StoreType
<1> QED BY <1>1 DEF Grows

\* The rest of the invariant is about the tables.
LEMMA TablesStay ==
  ASSUME SyncInv, UNCHANGED festivals
  PROVE  StoreType' /\ SelectedWasTold' /\ AnnouncedWasSelected' /\ Grows
<1>1. rows' = rows /\ outbox' = outbox
  BY DEF festivals
<1>2. StoreType' /\ SelectedWasTold' /\ AnnouncedWasSelected'
  BY <1>1 DEF SyncInv, StoreType, SelectedWasTold, ToldSelected, AnnouncedWasSelected,
              Announcements
<1> QED BY <1>1, <1>2, Unchanged

\* A handler that is over, or run anew, has loaded nothing.
LEMMA DoneStep ==
  ASSUME SyncInv, NEW r \in Replicas, ConsumerStep(r),
         loaded' = [loaded EXCEPT ![r] = Nothing],
         UNCHANGED festivals,
         catalog' \in [Games -> Game \cup {Absent}],
         promotions' \in [Promotions -> PromotionStates \cup {Absent}]
  PROVE  SyncInv'
<1>1. /\ HandType'
      /\ log' = log
      /\ \A q \in Replicas \ {r} : stage'[q] = stage[q] /\ hand'[q] = hand[q]
  BY ConsumerHand DEF SyncInv
<1>2. loaded' \in [Replicas -> Loads] /\ loaded'[r] = Nothing
  BY DEF SyncInv, TypeOK, Nothing, Loads
<1>3. LoadFits(r)'
  BY <1>2, NothingFits
<1> QED BY <1>1, <1>2, <1>3, TablesStay, OthersFit DEF SyncInv, TypeOK

\* A handler that loads: only what it has loaded changes.
LEMMA LoadStep ==
  ASSUME SyncInv, NEW r \in Replicas, NEW what \in Loads,
         Load(r, what), LoadFits(r)'
  PROVE  SyncInv'
<1>1. /\ loaded' = [loaded EXCEPT ![r] = what]
      /\ UNCHANGED <<log, committed, stage, hand, catalog, promotions>>
      /\ UNCHANGED festivals
  BY DEF Load, models, consumer
<1>2. loaded' \in [Replicas -> Loads]
  BY <1>1 DEF SyncInv, TypeOK
<1>3. HandType'
  BY <1>1 DEF SyncInv, HandType
<1> QED BY <1>1, <1>2, <1>3, TablesStay, OthersFit DEF SyncInv, TypeOK

\* What a handler that runs has in hand.
LEMMA HandlesMessage ==
  ASSUME SyncInv, NEW r \in Replicas, NEW types, About(r, types)
  PROVE  /\ stage[r] = "handling"
         /\ InHand(r) \in Messages
         /\ InHand(r) \in GameMessages \cup PromotionMessages
         /\ InHand(r).type \in types
         /\ types = GameTypes => InHand(r) \in GameMessages
         /\ types = PromotionTypes => InHand(r) \in PromotionMessages
         /\ InHand(r) \in GameMessages /\ InHand(r).title = Null =>
              InHand(r).type = "GameUpdated"
<1>1. hand[r] \in 1 .. Len(log) /\ log \in Seq(Messages)
  BY DEF SyncInv, HandType, About
<1>2. InHand(r) \in Messages
  BY <1>1, ElementOfSeq DEF InHand
<1>3. InHand(r) \in GameMessages \cup PromotionMessages
  BY <1>2, SyncAssumption DEF About
<1>4. ~(\E type : type \in GameTypes /\ type \in PromotionTypes)
  BY DEF GameTypes, PromotionTypes
<1>5. InHand(r).type \in types
  BY DEF About
<1>6. types = GameTypes => InHand(r) \in GameMessages
  BY <1>3, <1>4, <1>5 DEF PromotionMessages
<1>7. types = PromotionTypes => InHand(r) \in PromotionMessages
  BY <1>3, <1>4, <1>5 DEF GameMessages
<1> QED BY <1>2, <1>3, <1>5, <1>6, <1>7, SyncAssumption DEF About

LEMMA SnapshotType ==
  ASSUME NEW m \in GameMessages, NEW existing \in Game \cup {Absent},
         m.type \in {"GamePublished", "GameUpdated"} => m.title # Null
  PROVE  Snapshot(m, existing) \in Game
<1> DEFINE title == IF m.type \in {"GamePublished", "GameUpdated"} THEN m.title
                    ELSE IF existing # Absent THEN existing.title ELSE ""
           published == CASE m.type \in {"GamePublished", "GameRelisted"} -> TRUE
                          [] m.type = "GameWithdrawn"                     -> FALSE
                          [] OTHER -> IF existing = Absent THEN FALSE ELSE existing.published
<1>1. existing # Absent => existing.title \in Titles /\ existing.published \in BOOLEAN
  BY DEF Game
<1>2. title \in Titles
  BY <1>1 DEF GameMessages, GameTypes, Titles
<1>3. published \in BOOLEAN
  BY <1>1 DEF GameMessages, GameTypes
<1>4. Snapshot(m, existing) = [title |-> title, published |-> published]
  BY DEF Snapshot
<1> HIDE DEF title, published
<1> QED BY <1>2, <1>3, <1>4 DEF Game

\* What an upsert writes is a row.
LEMMA SavedGame ==
  ASSUME SyncInv, NEW r \in Replicas, SaveGame(r)
  PROVE  UpsertedGame(InHand(r), loaded[r].row, catalog[InHand(r).game]) \in Game
<1> DEFINE m == InHand(r)
<1>0. m \in GameMessages /\ (m.title = Null => m.type = "GameUpdated")
  BY HandlesMessage DEF SaveGame
<1>1. /\ loaded[r] \in [step : {"game"}, row : Game \cup {Absent}]
      /\ m.type = "GameUpdated" => m.title # Null
  BY DEF SaveGame, SyncInv, TypeOK, Loads, LoadFits
<1>2. catalog[m.game] \in Game \cup {Absent}
  BY <1>0 DEF GameMessages, SyncInv, TypeOK
<1>3. Snapshot(m, loaded[r].row) \in Game
  BY <1>0, <1>1, SnapshotType
<1>4. UpsertedGame(m, loaded[r].row, catalog[m.game]) \in Game
  <2> DEFINE snapshot == Snapshot(m, loaded[r].row)
             row == catalog[m.game]
             was == IF loaded[r].row = Absent THEN row ELSE loaded[r].row
  <2>1. CASE row = Absent
    BY <1>3, <2>1 DEF UpsertedGame
  <2>2. CASE row # Absent
    <3>1. row \in Game /\ was \in Game /\ snapshot \in Game
      BY <1>1, <1>2, <1>3, <2>2
    <3>2. UpsertedGame(m, loaded[r].row, row) =
            [title     |-> Column(IF snapshot.title = "" THEN was.title ELSE snapshot.title,
                                  was.title, row.title),
             published |-> Column(snapshot.published, was.published, row.published)]
      BY <2>2 DEF UpsertedGame
    <3> HIDE DEF snapshot, row, was
    <3>3. [title     |-> Column(IF snapshot.title = "" THEN was.title ELSE snapshot.title,
                                was.title, row.title),
           published |-> Column(snapshot.published, was.published, row.published)] \in Game
      BY <3>1 DEF Column, Game
    <3> QED BY <3>2, <3>3 DEF row
  <2> QED BY <2>1, <2>2
<1> QED BY <1>4

LEMMA GameSteps ==
  ASSUME SyncInv, NEW r \in Replicas, LoadGame(r) \/ SaveGame(r)
  PROVE  SyncInv'
<1> DEFINE m == InHand(r)
<1>0. /\ stage[r] = "handling"
      /\ m \in GameMessages
      /\ m.title = Null => m.type = "GameUpdated"
  BY HandlesMessage DEF LoadGame, SaveGame
<1>1. CASE LoadGame(r)
  <2> DEFINE what == [step |-> "game", row |-> catalog[m.game]]
  <2>1. what \in Loads /\ Load(r, what)
    BY <1>0, <1>1 DEF LoadGame, Loads, GameMessages, SyncInv, TypeOK
  <2>2. /\ loaded'[r] = what
        /\ stage' = stage /\ InHand(r)' = InHand(r)
    BY <2>1 DEF Load, consumer, InHand, SyncInv, TypeOK
  <2>3. m.type = "GameUpdated" => m.title # Null
    BY <1>1 DEF LoadGame, Ignorable
  <2>4. LoadFits(r)'
    BY <1>0, <2>2, <2>3 DEF LoadFits
  <2> QED BY <2>1, <2>4, LoadStep
<1>2. CASE SaveGame(r)
  <2>1. /\ catalog' \in [Games -> Game \cup {Absent}]
        /\ promotions' \in [Promotions -> PromotionStates \cup {Absent}]
        /\ UNCHANGED festivals
    BY <1>0, <1>2, SavedGame DEF SaveGame, GameMessages, SyncInv, TypeOK
  <2>2. ConsumerStep(r) /\ loaded' = [loaded EXCEPT ![r] = Nothing]
    BY <1>2 DEF SaveGame, Done, ConsumerStep
  <2> QED BY <2>1, <2>2, DoneStep
<1> QED BY <1>1, <1>2

LEMMA PromotionLoads ==
  ASSUME SyncInv, NEW r \in Replicas, LoadFestival(r) \/ LoadPromotion(r)
  PROVE  SyncInv'
<1> DEFINE m == InHand(r)
<1>0. stage[r] = "handling" /\ m \in PromotionMessages
  BY HandlesMessage DEF LoadFestival, LoadPromotion
<1>1. CASE LoadFestival(r)
  <2> DEFINE what == [step |-> "festival", games |-> rows[m.festival].games]
  <2>1. m.festival \in Festivals /\ rows[m.festival] # Absent
    BY <1>0, <1>1 DEF LoadFestival, Ignorable, About, PromotionMessages
  <2>2. rows[m.festival].games \in SUBSET Games
    BY <2>1 DEF SyncInv, StoreType, Festival
  <2>3. what \in Loads /\ Load(r, what)
    BY <1>1, <2>2 DEF LoadFestival, Loads
  <2>4. /\ loaded'[r] = what
        /\ stage' = stage /\ InHand(r)' = InHand(r) /\ outbox' = outbox
    BY <2>3 DEF Load, festivals, consumer, InHand, SyncInv, TypeOK
  <2>5. \A g \in what.games : ToldSelected(m.festival, g, Len(outbox[m.festival]))
    BY <2>1 DEF SyncInv, SelectedWasTold
  <2>6. LoadFits(r)'
    BY <1>0, <2>1, <2>4, <2>5 DEF LoadFits, ToldSelected
  <2> QED BY <2>3, <2>6, LoadStep
<1>2. CASE LoadPromotion(r)
  <2> DEFINE what == [step |-> "promotion", games |-> loaded[r].games,
                      previous |-> promotions[m.promotion]]
  <2>1. /\ loaded[r] \in [step : {"festival"}, games : SUBSET Games]
        /\ m.festival \in Festivals
        /\ \A g \in loaded[r].games : ToldSelected(m.festival, g, Len(outbox[m.festival]))
    BY <1>2 DEF LoadPromotion, SyncInv, TypeOK, Loads, LoadFits
  <2>2. promotions[m.promotion] \in PromotionStates \cup {Absent}
    BY <1>0 DEF PromotionMessages, SyncInv, TypeOK
  <2>3. what \in Loads /\ Load(r, what)
    BY <1>2, <2>1, <2>2 DEF LoadPromotion, Loads
  <2>4. /\ loaded'[r] = what
        /\ stage' = stage /\ InHand(r)' = InHand(r) /\ outbox' = outbox
    BY <2>3 DEF Load, festivals, consumer, InHand, SyncInv, TypeOK
  <2>5. LoadFits(r)'
    BY <1>0, <2>1, <2>4 DEF LoadFits, ToldSelected
  <2> QED BY <2>3, <2>5, LoadStep
<1> QED BY <1>1, <1>2

\* The announcement names a game of the festival the handler has loaded.
LEMMA PromotionSave ==
  ASSUME SyncInv, NEW r \in Replicas, SavePromotion(r)
  PROVE  SyncInv'
<1> DEFINE m == InHand(r)
           f == m.festival
<1>0. stage[r] = "handling" /\ m \in PromotionMessages
  BY HandlesMessage DEF SavePromotion
<1>1. /\ loaded[r] \in [step : {"promotion"}, games : SUBSET Games,
                        previous : PromotionStates \cup {Absent}]
      /\ f \in Festivals
      /\ \A g \in loaded[r].games : ToldSelected(f, g, Len(outbox[f]))
  BY DEF SavePromotion, SyncInv, TypeOK, Loads, LoadFits
<1>2. promotions' \in [Promotions -> PromotionStates \cup {Absent}]
  <2>1. StateIn(m.type) \in PromotionStates
    BY <1>0 DEF StateIn, PromotionStates, PromotionMessages, PromotionTypes
  <2>2. m.promotion \in Promotions
    BY <1>0 DEF PromotionMessages
  <2> QED BY <2>1, <2>2 DEF SavePromotion, Column, SyncInv, TypeOK
<1>3. /\ ConsumerStep(r)
      /\ loaded' = [loaded EXCEPT ![r] = Nothing]
      /\ rows' = rows /\ catalog' = catalog
  BY DEF SavePromotion, Done, ConsumerStep
<1>4. CASE ~NewlyActive(m, loaded[r])
  <2>1. UNCHANGED festivals
    BY <1>3, <1>4 DEF SavePromotion, festivals
  <2> QED BY <1>2, <1>3, <2>1, DoneStep DEF SyncInv, TypeOK
<1>5. CASE NewlyActive(m, loaded[r])
  <2> DEFINE e == DiscountApplied(m)
  <2>1. e \in Announced /\ e.game = m.game
    BY <1>0 DEF DiscountApplied, Announced, PromotionMessages
  <2>2. ToldSelected(f, e.game, Len(outbox[f]))
    BY <1>1, <1>5, <2>1 DEF NewlyActive
  <2>3. Tells(f, e)
    <3>1. outbox' = [outbox EXCEPT ![f] = Append(@, e)]
      BY <1>5 DEF SavePromotion
    <3>2. Extends(outbox[f], Append(outbox[f], e), e)
      BY <1>1, <2>1, AppendExtends DEF SyncInv, StoreType
    <3> QED BY <3>1, <3>2 DEF Tells
  <2> HIDE DEF e, f
  <2>4. /\ outbox' \in [Festivals -> Seq(Events \cup Announced)]
        /\ Grows
    BY <1>1, <2>1, <2>3, TellsGrows DEF SyncInv
  <2>5. StoreType'
    BY <1>3, <2>4 DEF SyncInv, StoreType
  <2>6. AnnouncedWasSelected'
    BY <1>1, <2>1, <2>2, <2>3, QuietTelling DEF SyncInv
  <2>7. SelectedWasTold'
    <3>1. ASSUME NEW h \in Festivals, rows[h] # Absent, NEW g \in rows[h].games
          PROVE  ToldSelected(h, g, Len(outbox[h]))'
      <4>1. ToldSelected(h, g, Len(outbox[h]))
        BY <3>1 DEF SyncInv, SelectedWasTold
      <4> QED BY <2>4, <4>1, ToldStays DEF SyncInv
    <3> QED BY <1>3, <3>1 DEF SelectedWasTold
  <2>8. /\ HandType'
        /\ log' = log
        /\ \A q \in Replicas \ {r} : stage'[q] = stage[q] /\ hand'[q] = hand[q]
    BY <1>3, ConsumerHand DEF SyncInv
  <2>9. loaded' \in [Replicas -> Loads] /\ loaded'[r] = Nothing
    BY <1>3 DEF SyncInv, TypeOK, Nothing, Loads
  <2>10. \A q \in Replicas : LoadFits(q)'
    BY <1>3, <2>4, <2>8, <2>9, NothingFits, OthersFit
  <2> QED BY <1>2, <1>3, <2>5, <2>6, <2>7, <2>8, <2>9, <2>10 DEF SyncInv, TypeOK
<1> QED BY <1>4, <1>5

LEMMA InvStep == SyncInv /\ [Next]_vars => SyncInv'
<1> SUFFICES ASSUME SyncInv, [Next]_vars PROVE SyncInv'
  OBVIOUS
<1>1. ASSUME NEW r \in Replicas, Ignore(r)
      PROVE  SyncInv'
  <2>1. /\ ConsumerStep(r)
        /\ loaded' = [loaded EXCEPT ![r] = Nothing]
        /\ UNCHANGED festivals /\ catalog' = catalog /\ promotions' = promotions
    BY <1>1 DEF Ignore, Done, ConsumerStep, models
  <2> QED BY <2>1, DoneStep DEF SyncInv, TypeOK
<1>2. ASSUME NEW r \in Replicas, InsertCollides(r)
      PROVE  SyncInv'
  <2>1. /\ ConsumerStep(r)
        /\ loaded' = [loaded EXCEPT ![r] = Nothing]
        /\ UNCHANGED festivals /\ catalog' = catalog /\ promotions' = promotions
    BY <1>2 DEF InsertCollides, Overtaken, About, ConsumerStep, models
  <2> QED BY <2>1, DoneStep DEF SyncInv, TypeOK
<1>3. ASSUME NEW r \in Replicas, Consume(r)
      PROVE  SyncInv'
  <2>1. /\ ConsumerStep(r)
        /\ loaded' = [loaded EXCEPT ![r] = Nothing]
        /\ UNCHANGED festivals /\ catalog' = catalog /\ promotions' = promotions
    BY <1>3 DEF Consume, ConsumerStep, models
  <2> QED BY <2>1, DoneStep DEF SyncInv, TypeOK
<1>4. CASE Kafka
  <2>1. /\ HandType'
        /\ stage' = stage /\ hand' = hand
        /\ \A n \in 1 .. Len(log) : log'[n] = log[n]
    BY <1>4, KafkaHand DEF Kafka, SyncInv
  <2>2. UNCHANGED <<festivals, catalog, promotions, loaded>>
    BY <1>4 DEF Kafka, models
  <2>3. StoreType' /\ SelectedWasTold' /\ AnnouncedWasSelected' /\ Grows
    BY <2>2, TablesStay
  <2>4. \A r \in Replicas : LoadFits(r)'
    BY <2>1, <2>2, <2>3, LoadStays DEF SyncInv
  <2> QED BY <2>1, <2>2, <2>3, <2>4 DEF SyncInv, TypeOK
<1>5. CASE Admin
  <2>1. /\ StoreType' /\ SelectedWasTold' /\ AnnouncedWasSelected' /\ Grows
        /\ UNCHANGED <<catalog, promotions, loaded, log, committed, stage, hand>>
    BY <1>5, UseCaseStep DEF Admin, models, consumer, SyncInv
  <2>2. HandType'
    BY <2>1 DEF SyncInv, HandType
  <2>3. \A r \in Replicas : LoadFits(r)'
    BY <2>1, LoadStays DEF SyncInv
  <2> QED BY <2>1, <2>2, <2>3 DEF SyncInv, TypeOK
<1>6. CASE UNCHANGED vars
  <2>1. /\ UNCHANGED <<festivals, catalog, promotions, loaded, log, committed, stage, hand>>
    BY <1>6 DEF vars, models, consumer
  <2>2. StoreType' /\ SelectedWasTold' /\ AnnouncedWasSelected' /\ Grows
    BY <2>1, TablesStay
  <2>3. HandType'
    BY <2>1 DEF SyncInv, HandType
  <2>4. \A r \in Replicas : LoadFits(r)'
    BY <2>1, <2>2, LoadStays DEF SyncInv
  <2> QED BY <2>1, <2>2, <2>3, <2>4 DEF SyncInv, TypeOK
<1> QED BY <1>1, <1>2, <1>3, <1>4, <1>5, <1>6, GameSteps, PromotionLoads, PromotionSave DEF Next

LEMMA InvInit == Init => SyncInv
<1> SUFFICES ASSUME Init PROVE SyncInv
  OBVIOUS
<1>1. /\ rows = [f \in Festivals |-> Absent]
      /\ outbox = [f \in Festivals |-> << >>]
  BY DEF Init, Aggregate!Init
<1>2. StoreType /\ SelectedWasTold /\ AnnouncedWasSelected
  <2>1. << >> \in Seq(Events \cup Announced) /\ DOMAIN << >> = {}
    BY EmptySeq
  <2> QED BY <1>1, <2>1 DEF StoreType, SelectedWasTold, AnnouncedWasSelected, Announcements
<1>3. HandType
  BY DEF Init, Consumer!Init, HandType, Consumer!Stages
<1>4. TypeOK
  BY DEF Init, TypeOK, Nothing, Loads
<1>5. \A r \in Replicas : LoadFits(r)
  BY DEF Init, LoadFits, Nothing
<1> QED BY <1>2, <1>3, <1>4, <1>5 DEF SyncInv

-----------------------------------------------------------------------------
(* Theorems *)

LEMMA SyncInvariant == Spec => []SyncInv
  BY InvInit, InvStep, PTL DEF Spec

\* The read-models hold rows that their tables can hold, and no handler mistakes
\* what it has loaded for something else.
THEOREM TypeCorrect == Spec => []TypeOK
<1>1. SyncInv => TypeOK
  BY DEF SyncInv
<1> QED BY <1>1, SyncInvariant, PTL

\* However many replicas handle a promotion at once, and whatever the Admins do
\* meanwhile: a discount is announced only for a game that subscribers have been
\* told is part of the festival.
THEOREM AnnouncedSelected == Spec => []AnnouncedWasSelected
<1>1. SyncInv => AnnouncedWasSelected
  BY DEF SyncInv
<1> QED BY <1>1, SyncInvariant, PTL


-----------------------------------------------------------------------------
(* The read-models, while one message at a time is in hand *)

\* No two replicas have a message in hand: a rebalance never finds a handler that
\* still runs.
OneAtATime == \A r, q \in Replicas : hand[r] # 0 /\ hand[q] # 0 => r = q

\* A promotion belongs to one festival.
OneFestivalEach ==
  \A a, b \in Messages \cap PromotionMessages :
    a.promotion = b.promotion /\ a.festival # Null /\ b.festival # Null =>
      a.festival = b.festival

\* The loop's message is the next one of the group.
HandIsNext == \A r \in Replicas : hand[r] # 0 => hand[r] = committed + 1

\* What was applied is behind the group's offset, or next.
AppliedIsBehind ==
  /\ applied \in Seq(Nat)
  /\ \A n : Consumer!Handled(n) =>
       /\ n \in 1 .. Len(log)
       /\ n <= committed + 1
       /\ log[n] \in GameMessages \cup PromotionMessages

\* Nobody has written what the handler has loaded.
LoadIsCurrent ==
  \A r \in Replicas :
    /\ loaded[r].step = "game" => loaded[r].row = catalog[InHand(r).game]
    /\ loaded[r].step = "promotion" => loaded[r].previous = promotions[InHand(r).promotion]
    /\ loaded[r].step \in {"festival", "promotion"} =>
         InHand(r).festival # Null /\ rows[InHand(r).festival] # Absent

\* The festival of a promotion on file is known: no later message about the
\* promotion is ignored.
FestivalIsKnown ==
  \A p \in Promotions : promotions[p] # Absent =>
    \A m \in Messages \cap PromotionMessages :
      m.promotion = p /\ m.festival # Null => rows[m.festival] # Absent

\* There is a latest message, wherever there is any.
LatestIsThere ==
  /\ \A g \in Games :
       /\ Naming(g) # {} => Latest(Naming(g)) \in Naming(g)
       /\ Selling(g) # {} => Latest(Selling(g)) \in Selling(g)
  /\ \A p \in Promotions :
       /\ promotions[p] # Absent => Deciding(p) # {}
       /\ Deciding(p) # {} => Latest(Deciding(p)) \in Deciding(p)

RowsAreThere == \A g \in Games : catalog[g] = Absent <=> AppliedAbout(g) = {}

ModelInv ==
  /\ LatestIsThere
  /\ RowsAreThere
  /\ ReadModelsFollowLog

LogInv ==
  /\ SyncInv
  /\ HandIsNext
  /\ AppliedIsBehind
  /\ LoadIsCurrent
  /\ FestivalIsKnown
  /\ ModelInv

LEMMA LatestIs ==
  ASSUME NEW ns, NEW n \in ns, n \in Nat, \A k \in ns : k \in Nat /\ k <= n
  PROVE  Latest(ns) = n
<1>1. \A k \in ns : (\A i \in ns : i <= k) => k = n
  OBVIOUS
<1>2. \A k \in ns : k <= n
  OBVIOUS
<1> QED BY <1>1, <1>2 DEF Latest

\* Messages that arrive say nothing yet.
LEMMA ModelsStay ==
  ASSUME LogInv,
         HandType', \A n \in 1 .. Len(log) : log'[n] = log[n],
         Len(log) <= Len(log)',
         UNCHANGED <<applied, catalog, promotions>>
  PROVE  ModelInv'
<1>0. /\ DOMAIN log = 1 .. Len(log) /\ DOMAIN log' = 1 .. Len(log)'
      /\ Len(log) \in Nat /\ Len(log)' \in Nat
  BY LenProperties DEF LogInv, SyncInv, HandType
<1>1. \A n : Consumer!Handled(n)' <=> Consumer!Handled(n)
  BY DEF Consumer!Handled
<1>2. \A n : Consumer!Handled(n) => n \in DOMAIN log /\ n \in DOMAIN log' /\ log'[n] = log[n]
  BY <1>0 DEF LogInv, AppliedIsBehind
<1>3. \A g : AppliedAbout(g)' = AppliedAbout(g)
  BY <1>1, <1>2 DEF AppliedAbout
<1>4. \A g : \A n \in AppliedAbout(g) : log'[n] = log[n]
  BY <1>2 DEF AppliedAbout
<1>5. \A g : Naming(g)' = Naming(g) /\ Selling(g)' = Selling(g)
  BY <1>3, <1>4 DEF Naming, Selling
<1>6. \A p : Deciding(p)' = Deciding(p)
  BY <1>1, <1>2 DEF Deciding
<1>7. LatestIsThere'
  BY <1>5, <1>6 DEF LogInv, ModelInv, LatestIsThere, Latest
<1>8. RowsAreThere'
  BY <1>3 DEF LogInv, ModelInv, RowsAreThere
<1>9. ASSUME NEW g \in Games
      PROVE  SaidTitle(g)' = SaidTitle(g) /\ SaidPublished(g)' = SaidPublished(g)
  <2>1. Naming(g) # {} => log'[Latest(Naming(g))] = log[Latest(Naming(g))]
    BY <1>4 DEF LogInv, ModelInv, LatestIsThere, Naming
  <2>2. Selling(g) # {} => log'[Latest(Selling(g))] = log[Latest(Selling(g))]
    BY <1>4 DEF LogInv, ModelInv, LatestIsThere, Selling
  <2>3. /\ Naming(g)' = Naming(g) /\ Latest(Naming(g))' = Latest(Naming(g))
        /\ Selling(g)' = Selling(g) /\ Latest(Selling(g))' = Latest(Selling(g))
    BY <1>5 DEF Latest
  <2>4. SaidTitle(g)' = SaidTitle(g)
    BY <2>1, <2>3 DEF SaidTitle
  <2>5. SaidPublished(g)' = SaidPublished(g)
    BY Zenon, <2>2, <2>3 DEF SaidPublished
  <2> QED BY <2>4, <2>5
<1>10. ASSUME NEW p \in Promotions, promotions[p] # Absent
       PROVE  log'[Latest(Deciding(p))'] = log[Latest(Deciding(p))]
  <2>1. Latest(Deciding(p)) \in Deciding(p)
    BY <1>10 DEF LogInv, ModelInv, LatestIsThere
  <2> QED BY <1>2, <1>6, <2>1 DEF Deciding, Latest
<1>11. ReadModelsFollowLog'
  BY <1>3, <1>9, <1>10 DEF LogInv, ModelInv, ReadModelsFollowLog
<1> QED BY <1>7, <1>8, <1>11 DEF ModelInv

\* What a handler that returns adds to what has been applied.
LEMMA AppliedGrows ==
  ASSUME LogInv, NEW r \in Replicas, NEW types, About(r, types), Consumer!Apply(r)
  PROVE  LET n == hand[r] m == InHand(r) IN
         /\ log' = log /\ committed' = committed /\ hand' = hand
         /\ n \in 1 .. Len(log) /\ n = committed + 1 /\ log[n] = m
         /\ AppliedIsBehind'
         /\ \A k : Consumer!Handled(k) => k \in Nat /\ k <= n
         /\ \A g, k : k \in AppliedAbout(g)' <=>
              \/ k \in AppliedAbout(g)
              \/ k = n /\ m.type \in GameTypes /\ m.game = g /\ m.title # Null
         /\ \A p, k : k \in Deciding(p)' <=>
              \/ k \in Deciding(p)
              \/ k = n /\ m.type \in PromotionTypes /\ m.promotion = p /\ m.festival # Null
<1> DEFINE n == hand[r]
           m == InHand(r)
<1>0. /\ Len(log) \in Nat /\ DOMAIN log = 1 .. Len(log)
  BY LenProperties DEF LogInv, SyncInv, HandType
<1>1. /\ log' = log /\ committed' = committed /\ hand' = hand
      /\ applied' = Append(applied, n)
  BY DEF Consumer!Apply
<1>2. n \in 1 .. Len(log) /\ n = committed + 1 /\ log[n] = m
  BY DEF LogInv, SyncInv, HandType, HandIsNext, About, InHand
<1>3. m \in GameMessages \cup PromotionMessages
  BY HandlesMessage DEF LogInv
<1>4. applied' \in Seq(Nat) /\ \A k : Consumer!Handled(k)' <=> Consumer!Handled(k) \/ k = n
  <2>1. applied \in Seq(Nat) /\ n \in Nat
    BY <1>0, <1>2 DEF LogInv, AppliedIsBehind
  <2>2. /\ applied' \in Seq(Nat)
        /\ Len(applied') = Len(applied) + 1
        /\ \A i \in 1 .. Len(applied) : applied'[i] = applied[i]
        /\ applied'[Len(applied) + 1] = n
    BY <1>1, <2>1
  <2>3. /\ DOMAIN applied = 1 .. Len(applied) /\ DOMAIN applied' = 1 .. Len(applied')
        /\ Len(applied) \in Nat
    BY <2>1, <2>2, LenProperties
  <2> QED BY <2>2, <2>3 DEF Consumer!Handled
<1>5. \A k : Consumer!Handled(k) => k \in Nat /\ k <= n
  BY <1>0, <1>2 DEF LogInv, AppliedIsBehind
<1>6. AppliedIsBehind'
  BY <1>0, <1>1, <1>2, <1>3, <1>4 DEF LogInv, AppliedIsBehind
<1>7. \A g, k : k \in AppliedAbout(g)' <=>
         \/ k \in AppliedAbout(g)
         \/ k = n /\ m.type \in GameTypes /\ m.game = g /\ m.title # Null
  BY <1>0, <1>1, <1>2, <1>4 DEF AppliedAbout
<1>8. \A p, k : k \in Deciding(p)' <=>
         \/ k \in Deciding(p)
         \/ k = n /\ m.type \in PromotionTypes /\ m.promotion = p /\ m.festival # Null
  BY <1>0, <1>1, <1>2, <1>4 DEF Deciding
<1> QED BY <1>1, <1>2, <1>5, <1>6, <1>7, <1>8


\* The message in hand is about the game, and says so itself.
Says(r, g) == InHand(r).type \in GameTypes /\ InHand(r).game = g /\ InHand(r).title # Null
Names(r, g) ==
  Says(r, g) /\ InHand(r).type \in {"GamePublished", "GameUpdated"} /\ InHand(r).title # ""
Sells(r, g) == Says(r, g) /\ InHand(r).type # "GameUpdated"
Decides(r, p) ==
  InHand(r).type \in PromotionTypes /\ InHand(r).promotion = p /\ InHand(r).festival # Null

\* What the messages applied say, once the one in hand is.
LEMMA SaidAfter ==
  ASSUME LogInv, NEW r \in Replicas, NEW types, About(r, types), Consumer!Apply(r),
         NEW g \in Games
  PROVE  /\ Names(r, g) => SaidTitle(g)' = InHand(r).title
         /\ ~Names(r, g) => SaidTitle(g)' = SaidTitle(g)
         /\ Sells(r, g) => SaidPublished(g)' = (InHand(r).type # "GameWithdrawn")
         /\ ~Sells(r, g) => SaidPublished(g)' = SaidPublished(g)
         /\ AppliedAbout(g)' = {} <=> AppliedAbout(g) = {} /\ ~Says(r, g)
         /\ Naming(g)' # {} => Latest(Naming(g))' \in Naming(g)'
         /\ Selling(g)' # {} => Latest(Selling(g))' \in Selling(g)'
<1> DEFINE n == hand[r]
           m == InHand(r)
<1>1. /\ log' = log
      /\ n \in 1 .. Len(log) /\ log[n] = m
      /\ \A k : Consumer!Handled(k) => k \in Nat /\ k <= n
      /\ \A k : k \in AppliedAbout(g)' <=> k \in AppliedAbout(g) \/ (k = n /\ Says(r, g))
  BY AppliedGrows DEF Says
<1> HIDE DEF n, m
<1>2. n \in Nat
  BY <1>1, LenProperties DEF LogInv, SyncInv, HandType
<1>3. \A k : k \in Naming(g)' <=> k \in Naming(g) \/ (k = n /\ Names(r, g))
  BY <1>1 DEF Naming, Names, m
<1>4. \A k : k \in Selling(g)' <=> k \in Selling(g) \/ (k = n /\ Sells(r, g))
  BY <1>1 DEF Selling, Sells, m
<1>5. \A k \in AppliedAbout(g) : k \in Nat /\ k <= n
  BY <1>1 DEF AppliedAbout
<1>6. ASSUME Names(r, g)
      PROVE  /\ SaidTitle(g)' = m.title
             /\ Naming(g)' # {} => Latest(Naming(g))' \in Naming(g)'
  <2>1. n \in Naming(g)' /\ \A k \in Naming(g)' : k \in Nat /\ k <= n
    <3>1. n \in Naming(g)'
      BY <1>3, <1>6
    <3>2. \A k \in Naming(g) : k \in Nat /\ k <= n
      BY <1>5 DEF Naming
    <3> QED BY <1>2, <1>3, <3>1, <3>2
  <2>2. Latest(Naming(g)') = n
    BY <1>2, <2>1, LatestIs
  <2>3. Latest(Naming(g))' = n
    BY <2>2 DEF Latest
  <2> QED BY <1>1, <2>1, <2>3 DEF SaidTitle, m
<1>7. ASSUME ~Names(r, g)
      PROVE  /\ SaidTitle(g)' = SaidTitle(g)
             /\ Naming(g)' # {} => Latest(Naming(g))' \in Naming(g)'
  <2>1. Naming(g)' = Naming(g)
    BY <1>3, <1>7
  <2>2. Latest(Naming(g))' = Latest(Naming(g))
    BY <2>1 DEF Latest
  <2>3. SaidTitle(g)' = SaidTitle(g)
    BY <1>1, <2>1, <2>2 DEF SaidTitle
  <2>4. Naming(g)' # {} => Latest(Naming(g))' \in Naming(g)'
    BY <2>1, <2>2 DEF LogInv, ModelInv, LatestIsThere
  <2> QED BY <2>3, <2>4
<1>8. ASSUME Sells(r, g)
      PROVE  /\ SaidPublished(g)' = (m.type # "GameWithdrawn")
             /\ Selling(g)' # {} => Latest(Selling(g))' \in Selling(g)'
  <2>1. n \in Selling(g)' /\ \A k \in Selling(g)' : k \in Nat /\ k <= n
    BY <1>2, <1>4, <1>5, <1>8 DEF Selling
  <2>2. Latest(Selling(g)') = n
    BY <1>2, <2>1, LatestIs
  <2>3. Latest(Selling(g))' = n
    BY <2>2 DEF Latest
  <2>4. Selling(g)' # {} /\ log'[n].type = m.type
    BY <1>1, <2>1
  <2>5. SaidPublished(g)' = (m.type # "GameWithdrawn")
    BY Zenon, <2>3, <2>4 DEF SaidPublished
  <2> QED BY Zenon, <2>1, <2>3, <2>5
<1>9. ASSUME ~Sells(r, g)
      PROVE  /\ SaidPublished(g)' = SaidPublished(g)
             /\ Selling(g)' # {} => Latest(Selling(g))' \in Selling(g)'
  <2>1. Selling(g)' = Selling(g)
    BY <1>4, <1>9
  <2>2. Latest(Selling(g))' = Latest(Selling(g))
    BY <2>1 DEF Latest
  <2>3. SaidPublished(g)' = SaidPublished(g)
    BY Zenon, <1>1, <2>1, <2>2 DEF SaidPublished
  <2>4. Selling(g)' # {} => Latest(Selling(g))' \in Selling(g)'
    BY <2>1, <2>2 DEF LogInv, ModelInv, LatestIsThere
  <2> QED BY <2>3, <2>4
<1>10. AppliedAbout(g)' = {} <=> AppliedAbout(g) = {} /\ ~Says(r, g)
  BY <1>1
<1>11. /\ Names(r, g) => SaidTitle(g)' = InHand(r).title
       /\ ~Names(r, g) => SaidTitle(g)' = SaidTitle(g)
       /\ Naming(g)' # {} => Latest(Naming(g))' \in Naming(g)'
  BY <1>6, <1>7 DEF m
<1>12. /\ Sells(r, g) => SaidPublished(g)' = (InHand(r).type # "GameWithdrawn")
       /\ ~Sells(r, g) => SaidPublished(g)' = SaidPublished(g)
       /\ Selling(g)' # {} => Latest(Selling(g))' \in Selling(g)'
  BY <1>8, <1>9 DEF m
<1> QED BY <1>10, <1>11, <1>12

LEMMA DecidedAfter ==
  ASSUME LogInv, NEW r \in Replicas, NEW types, About(r, types), Consumer!Apply(r),
         NEW p \in Promotions
  PROVE  /\ Decides(r, p) => log'[Latest(Deciding(p))'] = InHand(r)
         /\ ~Decides(r, p) => log'[Latest(Deciding(p))'] = log[Latest(Deciding(p))]
         /\ Deciding(p)' = {} <=> Deciding(p) = {} /\ ~Decides(r, p)
         /\ Deciding(p)' # {} => Latest(Deciding(p))' \in Deciding(p)'
<1> DEFINE n == hand[r]
<1>1. /\ log' = log
      /\ n \in 1 .. Len(log) /\ log[n] = InHand(r)
      /\ \A k : Consumer!Handled(k) => k \in Nat /\ k <= n
      /\ \A k : k \in Deciding(p)' <=> k \in Deciding(p) \/ (k = n /\ Decides(r, p))
  BY AppliedGrows DEF Decides
<1> HIDE DEF n
<1>2. n \in Nat
  BY <1>1, LenProperties DEF LogInv, SyncInv, HandType
<1>3. \A k \in Deciding(p) : k \in Nat /\ k <= n
  BY <1>1 DEF Deciding
<1>4. CASE Decides(r, p)
  <2>1. n \in Deciding(p)' /\ \A k \in Deciding(p)' : k \in Nat /\ k <= n
    BY <1>1, <1>2, <1>3, <1>4
  <2>2. Latest(Deciding(p)') = n
    BY <1>2, <2>1, LatestIs
  <2>3. Latest(Deciding(p))' = n
    BY <2>2 DEF Latest
  <2> QED BY <1>1, <1>4, <2>1, <2>3
<1>5. CASE ~Decides(r, p)
  <2>1. Deciding(p)' = Deciding(p)
    BY <1>1, <1>5
  <2>2. Latest(Deciding(p))' = Latest(Deciding(p))
    BY <2>1 DEF Latest
  <2> QED BY <1>1, <1>5, <2>1, <2>2 DEF LogInv, ModelInv, LatestIsThere
<1> QED BY <1>4, <1>5

\* An upsert of what was loaded, where nobody has written meanwhile.
LEMMA UpsertedAfter ==
  ASSUME NEW m \in GameMessages, m.title # Null, NEW row \in Game \cup {Absent}
  PROVE  UpsertedGame(m, row, row) =
           [title     |-> IF m.type \in {"GamePublished", "GameUpdated"} /\ m.title # ""
                          THEN m.title ELSE IF row = Absent THEN "" ELSE row.title,
            published |-> IF m.type # "GameUpdated" THEN m.type # "GameWithdrawn"
                          ELSE IF row = Absent THEN FALSE ELSE row.published]
<1>0. m.type \in GameTypes
  BY DEF GameMessages
<1> DEFINE title == IF m.type \in {"GamePublished", "GameUpdated"} THEN m.title
                    ELSE IF row = Absent THEN "" ELSE row.title
           sold  == IF m.type # "GameUpdated" THEN m.type # "GameWithdrawn"
                    ELSE IF row = Absent THEN FALSE ELSE row.published
<1>1. Snapshot(m, row).title = title
  BY DEF Snapshot
<1>2. Snapshot(m, row).published = sold
  BY Zenon, <1>0 DEF Snapshot, GameTypes
<1>3. Snapshot(m, row) = [title |-> Snapshot(m, row).title, published |-> Snapshot(m, row).published]
  BY DEF Snapshot
<1>4. CASE row = Absent
  BY <1>1, <1>2, <1>3, <1>4 DEF UpsertedGame
<1>5. CASE row # Absent
  <2>1. UpsertedGame(m, row, row) =
          [title     |-> IF title = "" THEN row.title ELSE title,
           published |-> sold]
    BY <1>1, <1>2, <1>5 DEF UpsertedGame, Column
  <2> QED BY <1>5, <2>1
<1> QED BY <1>4, <1>5


\* The handlers that return: each leaves the read-models as the messages say.
LEMMA IgnoreModels ==
  ASSUME LogInv, NEW r \in Replicas, Ignore(r)
  PROVE  ModelInv'
<1> DEFINE m == InHand(r)
<1>1. /\ About(r, GameTypes \cup PromotionTypes) /\ Consumer!Apply(r)
      /\ catalog' = catalog /\ promotions' = promotions
      /\ Ignorable(m)
  BY DEF Ignore, Done, models
<1>2. m \in Messages /\ m \in GameMessages \cup PromotionMessages
  BY <1>1, HandlesMessage DEF LogInv
<1>3. ~(\E type : type \in GameTypes /\ type \in PromotionTypes)
  BY DEF GameTypes, PromotionTypes
<1>4. ASSUME NEW g \in Games
      PROVE  ~Says(r, g)
  BY <1>1, <1>3 DEF Ignorable, Says, GameTypes
<1>5. \A g \in Games : ~Names(r, g) /\ ~Sells(r, g)
  BY <1>4 DEF Names, Sells
<1>6. ASSUME NEW p \in Promotions, Decides(r, p)
      PROVE  promotions[p] = Absent
  <2>1. m \in PromotionMessages
    BY <1>2, <1>3, <1>6 DEF Decides, GameMessages
  <2>2. rows[m.festival] = Absent
    BY <1>1, <1>3, <1>6 DEF Ignorable, Decides, PromotionTypes
  <2> QED BY <1>2, <1>6, <2>1, <2>2 DEF LogInv, FestivalIsKnown, Decides
<1>7. LatestIsThere'
  BY <1>1, <1>5, <1>6, SaidAfter, DecidedAfter DEF LogInv, ModelInv, LatestIsThere
<1>8. RowsAreThere'
  BY <1>1, <1>4, SaidAfter DEF LogInv, ModelInv, RowsAreThere
<1>9. ASSUME NEW g \in Games
      PROVE  /\ SaidTitle(g)' = SaidTitle(g) /\ SaidPublished(g)' = SaidPublished(g)
             /\ AppliedAbout(g)' = {} <=> AppliedAbout(g) = {}
  BY <1>1, <1>4, <1>5, SaidAfter
<1>10. ASSUME NEW p \in Promotions, promotions[p] # Absent
       PROVE  log'[Latest(Deciding(p))'] = log[Latest(Deciding(p))]
  BY <1>1, <1>6, <1>10, DecidedAfter
<1>11. ReadModelsFollowLog'
  BY <1>1, <1>9, <1>10 DEF LogInv, ModelInv, ReadModelsFollowLog
<1> QED BY <1>7, <1>8, <1>11 DEF ModelInv

LEMMA GameModels ==
  ASSUME LogInv, NEW r \in Replicas, SaveGame(r)
  PROVE  ModelInv'
<1> DEFINE m == InHand(r)
<1>1. About(r, GameTypes) /\ Consumer!Apply(r) /\ promotions' = promotions
  BY DEF SaveGame, Done
<1>2. /\ m \in GameMessages
      /\ m.title # Null
  <2>1. m \in GameMessages /\ (m.title = Null => m.type = "GameUpdated")
    BY <1>1, HandlesMessage DEF LogInv
  <2>2. m.type = "GameUpdated" => m.title # Null
    BY DEF SaveGame, LogInv, SyncInv, LoadFits
  <2> QED BY <2>1, <2>2
<1>h. PICK h \in Games : h = m.game
  BY <1>2 DEF GameMessages
<1> DEFINE row == catalog[h]
<1>3. h \in Games /\ m.game = h /\ m.type \in GameTypes /\ row \in Game \cup {Absent}
  BY <1>2, <1>h DEF GameMessages, LogInv, SyncInv, TypeOK
<1>4. catalog' = [catalog EXCEPT ![h] = UpsertedGame(m, row, row)]
  BY <1>3 DEF SaveGame, LogInv, LoadIsCurrent
<1>5. Says(r, h) /\ \A g \in Games \ {h} : ~Says(r, g)
  BY <1>2, <1>3 DEF Says
<1>6. \A g \in Games \ {h} : ~Names(r, g) /\ ~Sells(r, g)
  BY <1>5 DEF Names, Sells
<1>7. \A p \in Promotions : ~Decides(r, p)
  BY <1>3 DEF Decides, GameTypes, PromotionTypes
<1>8. UpsertedGame(m, row, row) # Absent
  <2> DEFINE title == IF m.type \in {"GamePublished", "GameUpdated"} /\ m.title # ""
                      THEN m.title ELSE IF row = Absent THEN "" ELSE row.title
             sold  == IF m.type # "GameUpdated" THEN m.type # "GameWithdrawn"
                      ELSE IF row = Absent THEN FALSE ELSE row.published
  <2>1. UpsertedGame(m, row, row) = [title |-> title, published |-> sold]
    BY <1>2, <1>3, UpsertedAfter
  <2>2. title \in Titles
    BY <1>2, <1>3 DEF GameMessages, Game, Titles
  <2>3. sold \in BOOLEAN
    BY <1>3 DEF Game
  <2> HIDE DEF title, sold
  <2>4. UpsertedGame(m, row, row) \in Game
    BY <2>1, <2>2, <2>3 DEF Game
  <2> QED BY <2>4, SyncAssumption
<1>9. LatestIsThere'
  BY <1>1, <1>7, SaidAfter, DecidedAfter DEF LogInv, ModelInv, LatestIsThere
<1>10. RowsAreThere'
  BY <1>1, <1>3, <1>4, <1>5, <1>8, SaidAfter
     DEF LogInv, ModelInv, RowsAreThere, SyncInv, TypeOK
<1>11. catalog'[h] = [title |-> SaidTitle(h)', published |-> SaidPublished(h)']
  <2>0. row = Absent <=> AppliedAbout(h) = {}
    BY <1>3 DEF LogInv, ModelInv, RowsAreThere
  <2>1. row = Absent => SaidTitle(h) = "" /\ SaidPublished(h) = FALSE
    BY <2>0 DEF SaidTitle, SaidPublished, Naming, Selling
  <2>2. row # Absent => row.title = SaidTitle(h) /\ row.published = SaidPublished(h)
    <3>1. row # Absent => row = [title |-> SaidTitle(h), published |-> SaidPublished(h)]
      BY <1>3, <2>0 DEF LogInv, ModelInv, ReadModelsFollowLog
    <3> QED BY <3>1
  <2>3. SaidTitle(h)' = IF m.type \in {"GamePublished", "GameUpdated"} /\ m.title # ""
                        THEN m.title ELSE SaidTitle(h)
    BY <1>1, <1>3, <1>5, SaidAfter DEF Names
  <2>4. SaidPublished(h)' = IF m.type # "GameUpdated" THEN m.type # "GameWithdrawn"
                            ELSE SaidPublished(h)
    BY <1>1, <1>3, <1>5, SaidAfter DEF Sells
  <2>5. UpsertedGame(m, row, row) = [title |-> SaidTitle(h)', published |-> SaidPublished(h)']
    BY <1>2, <1>3, <2>1, <2>2, <2>3, <2>4, UpsertedAfter
  <2> QED BY <1>3, <1>4, <2>5 DEF LogInv, SyncInv, TypeOK
<1>12. ASSUME NEW g \in Games \ {h}
       PROVE  /\ SaidTitle(g)' = SaidTitle(g) /\ SaidPublished(g)' = SaidPublished(g)
              /\ AppliedAbout(g)' = {} <=> AppliedAbout(g) = {}
              /\ catalog'[g] = catalog[g]
  <2>1. catalog'[g] = catalog[g]
    BY <1>4 DEF LogInv, SyncInv, TypeOK
  <2>2. ~Says(r, g) /\ ~Names(r, g) /\ ~Sells(r, g)
    BY <1>5, <1>6
  <2> QED BY <1>1, <2>1, <2>2, SaidAfter
<1>13. AppliedAbout(h)' # {}
  BY <1>1, <1>3, <1>5, SaidAfter
<1>14. \A g \in Games : catalog'[g] = IF AppliedAbout(g)' = {} THEN Absent
                          ELSE [title |-> SaidTitle(g)', published |-> SaidPublished(g)']
  <2>1. ASSUME NEW g \in Games \ {h}
        PROVE  catalog'[g] = IF AppliedAbout(g)' = {} THEN Absent
                             ELSE [title |-> SaidTitle(g)', published |-> SaidPublished(g)']
    BY <1>12 DEF LogInv, ModelInv, ReadModelsFollowLog
  <2> QED BY <1>11, <1>13, <2>1
<1>15. \A p \in Promotions : log'[Latest(Deciding(p))'] = log[Latest(Deciding(p))]
  BY <1>1, <1>7, DecidedAfter
<1>16. ReadModelsFollowLog'
  BY <1>1, <1>14, <1>15 DEF LogInv, ModelInv, ReadModelsFollowLog
<1> QED BY <1>9, <1>10, <1>16 DEF ModelInv

LEMMA PromotionModels ==
  ASSUME OneFestivalEach, LogInv, NEW r \in Replicas, SavePromotion(r)
  PROVE  ModelInv' /\ FestivalIsKnown'
<1> DEFINE m == InHand(r)
<1>1. About(r, PromotionTypes) /\ Consumer!Apply(r) /\ catalog' = catalog /\ rows' = rows
  BY DEF SavePromotion, Done
<1>2. m \in Messages /\ m \in PromotionMessages
  BY <1>1, HandlesMessage DEF LogInv
<1>p. PICK p \in Promotions : p = m.promotion
  BY <1>2 DEF PromotionMessages
<1>3. /\ m.promotion = p /\ m.type \in PromotionTypes
      /\ m.festival # Null /\ rows[m.festival] # Absent
  BY <1>2, <1>p DEF PromotionMessages, SavePromotion, LogInv, LoadIsCurrent
<1>4. promotions' = [promotions EXCEPT ![p] = StateIn(m.type)]
  BY <1>3 DEF SavePromotion, LogInv, LoadIsCurrent, Column
<1>5. Decides(r, p) /\ \A q \in Promotions \ {p} : ~Decides(r, q)
  BY <1>3 DEF Decides
<1>6. \A g \in Games : ~Says(r, g) /\ ~Names(r, g) /\ ~Sells(r, g)
  BY <1>3 DEF Says, Names, Sells, GameTypes, PromotionTypes
<1>7. /\ promotions'[p] = StateIn(m.type)
      /\ \A q \in Promotions \ {p} : promotions'[q] = promotions[q]
  BY <1>3, <1>4 DEF LogInv, SyncInv, TypeOK
<1>8. LatestIsThere'
  BY <1>1, <1>3, <1>5, <1>7, SaidAfter, DecidedAfter DEF LogInv, ModelInv, LatestIsThere
<1>9. RowsAreThere'
  BY <1>1, <1>6, SaidAfter DEF LogInv, ModelInv, RowsAreThere
<1>10. ASSUME NEW g \in Games
       PROVE  /\ SaidTitle(g)' = SaidTitle(g) /\ SaidPublished(g)' = SaidPublished(g)
              /\ AppliedAbout(g)' = {} <=> AppliedAbout(g) = {}
  BY <1>1, <1>6, SaidAfter
<1>11. log'[Latest(Deciding(p))'] = m
  BY <1>1, <1>3, <1>5, DecidedAfter
<1>12. \A q \in Promotions \ {p} : log'[Latest(Deciding(q))'] = log[Latest(Deciding(q))]
  BY <1>1, <1>5, DecidedAfter
<1>13. ReadModelsFollowLog'
  BY <1>1, <1>7, <1>10, <1>11, <1>12 DEF LogInv, ModelInv, ReadModelsFollowLog
<1>14. FestivalIsKnown'
  <2>1. ASSUME NEW a \in Messages \cap PromotionMessages, a.promotion = p, a.festival # Null
        PROVE  rows[a.festival] # Absent
    BY <1>2, <1>3, <2>1 DEF OneFestivalEach
  <2> QED BY <1>1, <1>7, <2>1 DEF LogInv, FestivalIsKnown
<1> QED BY <1>8, <1>9, <1>13, <1>14 DEF ModelInv


\* The steps of the loop, where no other loop has anything in hand.
LEMMA LoopStep ==
  ASSUME SyncInv, HandIsNext, OneAtATime, NEW r \in Replicas, ConsumerStep(r)
  PROVE  HandIsNext' /\ committed \in Nat /\ committed' \in Nat /\ committed <= committed'
<1>0. Len(log) \in Nat /\ committed \in Nat /\ hand \in [Replicas -> 0 .. Len(log)]
  BY LenProperties DEF SyncInv, HandType
<1>1. CASE Consumer!Poll(r)
  BY <1>0, <1>1 DEF HandIsNext, Consumer!Poll
<1>2. CASE Consumer!Commit(r)
  <2>1. hand[r] # 0 /\ hand[r] = committed + 1
    BY <1>2 DEF SyncInv, HandType, HandIsNext, Consumer!Commit
  <2>2. \A q \in Replicas \ {r} : hand[q] = 0
    BY <2>1 DEF OneAtATime
  <2> QED BY <1>0, <1>2, <2>1, <2>2 DEF HandIsNext, Consumer!Commit, Consumer!Drop
<1>3. CASE Consumer!CommitStale(r) \/ Consumer!Crash(r)
  BY <1>0, <1>3 DEF HandIsNext, Consumer!CommitStale, Consumer!Drop, Consumer!Crash
<1>4. CASE ~(Consumer!Poll(r) \/ Consumer!Commit(r) \/ Consumer!CommitStale(r) \/ Consumer!Crash(r))
  <2>1. hand' = hand /\ committed' = committed
    BY <1>4 DEF ConsumerStep, Consumer!Join, Consumer!Expire, Consumer!Apply,
                Consumer!HandlerRaises, Consumer!HandlerRefuses, Consumer!Raise,
                Consumer!DeadLetter, Consumer!DeadLetterFails, Consumer!GiveUp
  <2> QED BY <1>0, <2>1 DEF HandIsNext
<1> QED BY <1>1, <1>2, <1>3, <1>4

\* What the handlers of the others have loaded is current still: no table has
\* changed, or none of them runs.
LEMMA OthersAreCurrent ==
  ASSUME SyncInv, LoadIsCurrent, OneAtATime, NEW r \in Replicas, NEW what,
         loaded' = [loaded EXCEPT ![r] = what],
         log' = log, rows' = rows,
         \A q \in Replicas \ {r} : hand'[q] = hand[q],
         \/ catalog' = catalog /\ promotions' = promotions
         \/ stage[r] = "handling",
         NEW q \in Replicas \ {r}
  PROVE  /\ loaded'[q].step = "game" => loaded'[q].row = catalog'[InHand(q)'.game]
         /\ loaded'[q].step = "promotion" =>
              loaded'[q].previous = promotions'[InHand(q)'.promotion]
         /\ loaded'[q].step \in {"festival", "promotion"} =>
              InHand(q)'.festival # Null /\ rows'[InHand(q)'.festival] # Absent
<1>1. loaded'[q] = loaded[q] /\ InHand(q)' = InHand(q)
  BY DEF SyncInv, TypeOK, InHand
<1>2. CASE catalog' = catalog /\ promotions' = promotions
  BY <1>1, <1>2 DEF LoadIsCurrent
<1>3. CASE stage[r] = "handling"
  <2>1. hand[q] = 0
    BY <1>3 DEF OneAtATime, SyncInv, HandType
  <2>2. loaded[q].step = "start"
    BY <2>1 DEF SyncInv, LoadFits, HandType
  <2> QED BY <1>1, <2>2
<1> QED BY <1>2, <1>3

LEMMA ResetIsCurrent ==
  ASSUME SyncInv, LoadIsCurrent, OneAtATime, NEW r \in Replicas,
         loaded' = [loaded EXCEPT ![r] = Nothing],
         ConsumerStep(r), rows' = rows,
         \/ catalog' = catalog /\ promotions' = promotions
         \/ stage[r] = "handling"
  PROVE  LoadIsCurrent'
<1>1. log' = log /\ \A q \in Replicas \ {r} : hand'[q] = hand[q]
  BY ConsumerHand DEF SyncInv
<1>2. loaded'[r].step = "start"
  BY DEF SyncInv, TypeOK, Nothing
<1> QED BY <1>1, <1>2, OthersAreCurrent DEF LoadIsCurrent

\* What a handler loads is current.
LEMMA LoadedIsCurrent ==
  ASSUME SyncInv, LoadIsCurrent, OneAtATime, NEW r \in Replicas,
         LoadGame(r) \/ LoadFestival(r) \/ LoadPromotion(r)
  PROVE  LoadIsCurrent'
<1>1. /\ UNCHANGED <<log, stage, hand>>
      /\ rows' = rows /\ catalog' = catalog /\ promotions' = promotions
      /\ InHand(r)' = InHand(r)
  BY DEF LoadGame, LoadFestival, LoadPromotion, Load, festivals, models, consumer, InHand
<1>2. PICK what : loaded' = [loaded EXCEPT ![r] = what]
  BY DEF LoadGame, LoadFestival, LoadPromotion, Load
<1>3. \A q \in Replicas \ {r} :
        /\ loaded'[q].step = "game" => loaded'[q].row = catalog'[InHand(q)'.game]
        /\ loaded'[q].step = "promotion" =>
             loaded'[q].previous = promotions'[InHand(q)'.promotion]
        /\ loaded'[q].step \in {"festival", "promotion"} =>
             InHand(q)'.festival # Null /\ rows'[InHand(q)'.festival] # Absent
  BY <1>1, <1>2, OthersAreCurrent
<1>4. CASE LoadGame(r)
  <2>1. loaded'[r] = [step |-> "game", row |-> catalog[InHand(r).game]]
    BY <1>4 DEF LoadGame, Load, SyncInv, TypeOK
  <2> QED BY <1>1, <1>3, <2>1 DEF LoadIsCurrent
<1>5. CASE LoadFestival(r)
  <2>1. /\ loaded'[r] = [step |-> "festival", games |-> rows[InHand(r).festival].games]
        /\ InHand(r).festival # Null /\ rows[InHand(r).festival] # Absent
    BY <1>5 DEF LoadFestival, About, Ignorable, Load, SyncInv, TypeOK
  <2> QED BY <1>1, <1>3, <2>1 DEF LoadIsCurrent
<1>6. CASE LoadPromotion(r)
  <2>1. /\ loaded'[r] = [step |-> "promotion", games |-> loaded[r].games,
                         previous |-> promotions[InHand(r).promotion]]
        /\ InHand(r).festival # Null /\ rows[InHand(r).festival] # Absent
    BY <1>6 DEF LoadPromotion, Load, SyncInv, TypeOK, LoadIsCurrent
  <2> QED BY <1>1, <1>3, <2>1 DEF LoadIsCurrent
<1> QED BY <1>4, <1>5, <1>6

\* Kafka, the Admins, and steps of nobody leave the handler and its tables alone.
LEMMA OutsideIsCurrent ==
  ASSUME SyncInv, LoadIsCurrent,
         UNCHANGED <<stage, hand, catalog, promotions, loaded>>,
         RowsStay,
         \A n \in 1 .. Len(log) : log'[n] = log[n]
  PROVE  LoadIsCurrent'
<1>1. Len(log) \in Nat
  BY LenProperties DEF SyncInv, HandType
<1>2. ASSUME NEW r \in Replicas, loaded[r].step # "start"
      PROVE  InHand(r)' = InHand(r)
  <2>1. hand[r] \in 1 .. Len(log)
    BY <1>1, <1>2 DEF SyncInv, LoadFits, HandType
  <2> QED BY <2>1 DEF InHand
<1>3. ASSUME NEW r \in Replicas, loaded[r].step \in {"festival", "promotion"}
      PROVE  rows'[InHand(r).festival] # Absent
  <2>1. /\ InHand(r).festival \in Festivals
        /\ rows[InHand(r).festival] # Absent
    BY <1>3 DEF SyncInv, LoadFits, LoadIsCurrent
  <2> QED BY <2>1 DEF RowsStay
<1> QED BY <1>2, <1>3 DEF LoadIsCurrent

\* What happens to the loops and the tables where no handler runs.
LEMMA OutsideMoves ==
  ASSUME SyncInv, Kafka \/ Admin \/ UNCHANGED vars
  PROVE  /\ UNCHANGED <<committed, stage, hand, applied, catalog, promotions, loaded>>
         /\ RowsStay /\ rows' \in [Festivals -> Festival \cup {Absent}]
         /\ \A n \in 1 .. Len(log) : log'[n] = log[n]
         /\ Len(log) <= Len(log)'
<1>0. /\ Len(log) \in Nat
      /\ rows \in [Festivals -> Festival \cup {Absent}]
  BY LenProperties DEF SyncInv, HandType, StoreType
<1>1. CASE Kafka
  <2>1. /\ \A n \in 1 .. Len(log) : log'[n] = log[n]
        /\ stage' = stage /\ hand' = hand
    BY <1>1, KafkaHand DEF Kafka, SyncInv
  <2>2. /\ Len(log) <= Len(log)'
        /\ committed' = committed /\ applied' = applied
    <3>1. CASE Consumer!Rebalance
      BY <1>0, <3>1 DEF Consumer!Rebalance
    <3>2. ASSUME NEW m \in Messages, Consumer!Publish(m)
          PROVE  /\ Len(log) <= Len(log)'
                 /\ committed' = committed /\ applied' = applied
      <4>1. log \in Seq(Messages) /\ log' = Append(log, m)
        BY <3>2 DEF Consumer!Publish, SyncInv, HandType
      <4>2. Len(log') = Len(log) + 1
        BY <4>1
      <4> QED BY <1>0, <3>2, <4>2 DEF Consumer!Publish, Consumer!group
    <3> QED BY <1>1, <3>1, <3>2 DEF Kafka
  <2>3. UNCHANGED <<rows, catalog, promotions, loaded>>
    BY <1>1 DEF Kafka, festivals, models
  <2> QED BY <1>0, <2>1, <2>2, <2>3 DEF RowsStay
<1>2. CASE Admin
  <2>1. /\ RowsStay /\ StoreType'
        /\ UNCHANGED <<catalog, promotions, loaded, log, committed, stage, hand, applied>>
    BY <1>2, UseCaseStep DEF Admin, models, consumer, SyncInv
  <2> QED BY <1>0, <2>1 DEF StoreType
<1>3. CASE UNCHANGED vars
  <2>1. UNCHANGED <<rows, catalog, promotions, loaded, log, committed, stage, hand, applied>>
    BY <1>3 DEF vars, festivals, models, consumer
  <2> QED BY <1>0, <2>1 DEF RowsStay
<1> QED BY <1>1, <1>2, <1>3

LEMMA CurrentStep == SyncInv /\ LoadIsCurrent /\ OneAtATime /\ [Next]_vars => LoadIsCurrent'
<1> SUFFICES ASSUME SyncInv, LoadIsCurrent, OneAtATime, [Next]_vars
             PROVE  LoadIsCurrent'
  OBVIOUS
<1>1. ASSUME NEW r \in Replicas, Consume(r) \/ InsertCollides(r)
      PROVE  LoadIsCurrent'
  <2>1. /\ ConsumerStep(r)
        /\ loaded' = [loaded EXCEPT ![r] = Nothing]
        /\ rows' = rows /\ catalog' = catalog /\ promotions' = promotions
    BY <1>1 DEF Consume, InsertCollides, Overtaken, About, ConsumerStep, models, festivals
  <2> QED BY <2>1, ResetIsCurrent
<1>2. ASSUME NEW r \in Replicas, Ignore(r) \/ SaveGame(r) \/ SavePromotion(r)
      PROVE  LoadIsCurrent'
  <2>1. /\ ConsumerStep(r)
        /\ stage[r] = "handling"
        /\ loaded' = [loaded EXCEPT ![r] = Nothing]
        /\ rows' = rows
    BY <1>2 DEF Ignore, SaveGame, SavePromotion, Done, festivals, About, ConsumerStep
  <2> QED BY <2>1, ResetIsCurrent
<1>3. CASE Kafka \/ Admin \/ UNCHANGED vars
  BY <1>3, OutsideMoves, OutsideIsCurrent
<1> QED BY <1>1, <1>2, <1>3, LoadedIsCurrent DEF Next

\* Whatever ends or repeats a handler's run.
LEMMA ResetStep ==
  ASSUME LogInv, SyncInv', LoadIsCurrent', OneAtATime, NEW r \in Replicas,
         Consume(r) \/ InsertCollides(r)
  PROVE  LogInv'
<1>1. /\ ConsumerStep(r)
      /\ loaded' = [loaded EXCEPT ![r] = Nothing]
      /\ rows' = rows /\ catalog' = catalog /\ promotions' = promotions
  BY DEF Consume, InsertCollides, Overtaken, About, ConsumerStep, models, festivals
<1>2. applied' = applied
  BY DEF Consume, InsertCollides, Consumer!Join, Consumer!Crash, Consumer!Expire,
         Consumer!Poll, Consumer!HandlerRaises, Consumer!HandlerRefuses, Consumer!Raise,
         Consumer!DeadLetter, Consumer!DeadLetterFails, Consumer!GiveUp, Consumer!Commit,
         Consumer!CommitStale
<1>3. HandType' /\ log' = log
  BY <1>1, ConsumerHand DEF LogInv, SyncInv
<1>4. HandIsNext' /\ committed \in Nat /\ committed' \in Nat /\ committed <= committed'
  BY <1>1, LoopStep DEF LogInv
<1>5. Len(log) \in Nat
  BY LenProperties DEF LogInv, SyncInv, HandType
<1>6. ModelInv'
  BY <1>1, <1>2, <1>3, <1>5, ModelsStay
<1>7. AppliedIsBehind'
  BY <1>2, <1>3, <1>4, <1>5 DEF LogInv, AppliedIsBehind, Consumer!Handled
<1>8. FestivalIsKnown'
  BY <1>1 DEF LogInv, FestivalIsKnown
<1> QED BY <1>4, <1>6, <1>7, <1>8 DEF LogInv

LEMMA ReturnStep ==
  ASSUME OneFestivalEach, LogInv, SyncInv', LoadIsCurrent', OneAtATime, NEW r \in Replicas,
         Ignore(r) \/ SaveGame(r) \/ SavePromotion(r)
  PROVE  LogInv'
<1>1. /\ \E types : About(r, types)
      /\ stage[r] = "handling"
      /\ Consumer!Apply(r)
      /\ loaded' = [loaded EXCEPT ![r] = Nothing]
      /\ rows' = rows
  BY DEF Ignore, SaveGame, SavePromotion, Done, festivals, About
<1>2. AppliedIsBehind'
  BY <1>1, AppliedGrows
<1>3. HandIsNext'
  BY <1>1, LoopStep DEF LogInv, ConsumerStep
<1>4. ModelInv'
  BY IgnoreModels, GameModels, PromotionModels
<1>5. FestivalIsKnown'
  <2>1. CASE Ignore(r) \/ SaveGame(r)
    BY <1>1, <2>1 DEF Ignore, SaveGame, models, LogInv, FestivalIsKnown
  <2>2. CASE SavePromotion(r)
    BY <2>2, PromotionModels
  <2> QED BY <2>1, <2>2
<1> QED BY <1>2, <1>3, <1>4, <1>5 DEF LogInv

\* Steps that write no read-model and take no message in hand.
LEMMA QuietLog ==
  ASSUME LogInv, SyncInv', LoadIsCurrent',
         UNCHANGED <<committed, hand, applied, catalog, promotions>>,
         RowsStay, rows' \in [Festivals -> Festival \cup {Absent}],
         \A n \in 1 .. Len(log) : log'[n] = log[n],
         Len(log) <= Len(log)'
  PROVE  LogInv'
<1>0. Len(log) \in Nat /\ Len(log)' \in Nat
  BY LenProperties DEF LogInv, SyncInv, HandType
<1>1. ModelInv'
  BY ModelsStay DEF SyncInv
<1>2. HandIsNext' /\ AppliedIsBehind'
  <2>1. \A n : Consumer!Handled(n)' <=> Consumer!Handled(n)
    BY DEF Consumer!Handled
  <2>2. \A n \in 1 .. Len(log) : n \in 1 .. Len(log)'
    BY <1>0
  <2>3. HandIsNext'
    BY DEF LogInv, HandIsNext
  <2> QED BY <2>1, <2>2, <2>3 DEF LogInv, AppliedIsBehind
<1>3. FestivalIsKnown'
  <2>1. ASSUME NEW m \in Messages \cap PromotionMessages, m.festival # Null,
               rows[m.festival] # Absent
        PROVE  rows'[m.festival] # Absent
    BY <2>1 DEF RowsStay, PromotionMessages
  <2> QED BY <2>1 DEF LogInv, FestivalIsKnown
<1> QED BY <1>1, <1>2, <1>3 DEF LogInv

LEMMA LogStep ==
  ASSUME OneFestivalEach
  PROVE  LogInv /\ OneAtATime /\ [Next]_vars => LogInv'
<1> SUFFICES ASSUME LogInv, OneAtATime, [Next]_vars PROVE LogInv'
  OBVIOUS
<1>1. SyncInv' /\ LoadIsCurrent'
  BY InvStep, CurrentStep DEF LogInv
<1>2. ASSUME NEW r \in Replicas,
             \/ Ignore(r) \/ SaveGame(r) \/ SavePromotion(r)
             \/ InsertCollides(r) \/ Consume(r)
      PROVE  LogInv'
  BY <1>1, <1>2, ResetStep, ReturnStep
<1>3. ASSUME NEW r \in Replicas, LoadGame(r) \/ LoadFestival(r) \/ LoadPromotion(r)
      PROVE  LogInv'
  <2>1. UNCHANGED <<log, committed, hand, applied, rows, catalog, promotions>>
    BY <1>3 DEF LoadGame, LoadFestival, LoadPromotion, Load, festivals, models, consumer
  <2>2. Len(log) \in Nat /\ rows \in [Festivals -> Festival \cup {Absent}]
    BY LenProperties DEF LogInv, SyncInv, HandType, StoreType
  <2> QED BY <1>1, <2>1, <2>2, QuietLog DEF RowsStay
<1>4. CASE Kafka \/ Admin \/ UNCHANGED vars
  BY <1>1, <1>4, OutsideMoves, QuietLog DEF LogInv
<1> QED BY <1>2, <1>3, <1>4 DEF Next

LEMMA LogInit == Init => LogInv
<1> SUFFICES ASSUME Init PROVE LogInv
  OBVIOUS
<1>1. /\ applied = << >> /\ log = << >> /\ hand = [r \in Replicas |-> 0]
      /\ catalog = [g \in Games |-> Absent]
      /\ promotions = [p \in Promotions |-> Absent]
      /\ loaded = [r \in Replicas |-> Nothing]
  BY DEF Init, Consumer!Init
<1>2. \A n : ~Consumer!Handled(n)
  BY <1>1, EmptySeq DEF Consumer!Handled
<1>3. \A g : AppliedAbout(g) = {}
  BY <1>2 DEF AppliedAbout
<1>4. \A g : Naming(g) = {} /\ Selling(g) = {}
  BY <1>3 DEF Naming, Selling
<1>5. \A p : Deciding(p) = {}
  BY <1>2 DEF Deciding
<1>6. ModelInv
  BY <1>1, <1>3, <1>4, <1>5 DEF ModelInv, LatestIsThere, RowsAreThere, ReadModelsFollowLog
<1>7. AppliedIsBehind /\ HandIsNext /\ LoadIsCurrent /\ FestivalIsKnown
  BY <1>1, <1>2, EmptySeq DEF AppliedIsBehind, HandIsNext, LoadIsCurrent, FestivalIsKnown, Nothing
<1> QED BY <1>6, <1>7, InvInit DEF LogInv

\* As long as one replica at a time has a message in hand, the read-models are what
\* the log says: a handler that runs again, on the same replica or on another, after
\* half a run or a whole one, leaves no trace, and no later message is mistaken for
\* an earlier one.  Catalog must not move a promotion from one festival to another.
THEOREM ReadModelsAreTheLog ==
  ASSUME OneFestivalEach
  PROVE  Spec /\ []OneAtATime => []ReadModelsFollowLog
<1>1. LogInv /\ OneAtATime /\ [Next]_vars => LogInv'
  BY LogStep
<1>2. LogInv => ReadModelsFollowLog
  BY DEF LogInv, ModelInv
<1> QED BY <1>1, <1>2, LogInit, PTL DEF Spec

-----------------------------------------------------------------------------
(* The loop the handlers run in *)

\* GameEventsConsumer with its theorems.
Loop == INSTANCE GameEventsConsumerProofs

LEMMA LoopConstants ==
  /\ \A m \in Messages : m.kind \in Loop!Kinds
  /\ MaxRetries \in Nat
  /\ Outages \subseteq {"crash", "rebalance", "database", "dead_letter"}
  /\ MaxLog \in Nat
  /\ MaxFaults \in Nat
  /\ Nobody \notin Replicas
BY SyncAssumption, LoopAssumption DEF Loop!Kinds, Consumer!Kinds

\* Through either instance the loop is the same.
LEMMA SameLoop ==
  /\ Consumer!Init <=> Loop!Init
  /\ [Consumer!Next]_(Consumer!vars) <=> [Loop!Next]_(Loop!vars)
  /\ \A r : Consumer!Raise(r) <=> Loop!Raise(r)
  /\ Consumer!NothingIsSkippedSilently <=> Loop!NothingIsSkippedSilently
BY Zenon
   DEF Consumer!Init, Loop!Init, Consumer!vars, Loop!vars, Consumer!group, Loop!group,
       Consumer!Next, Loop!Next, Consumer!Fault, Loop!Fault, Consumer!InHand, Loop!InHand,
       Consumer!MoveTo, Loop!MoveTo, Consumer!Members, Loop!Members,
       Consumer!Regroup, Loop!Regroup, Consumer!Publish, Loop!Publish,
       Consumer!Join, Loop!Join, Consumer!Rebalance, Loop!Rebalance,
       Consumer!Crash, Loop!Crash, Consumer!Expire, Loop!Expire,
       Consumer!Routed, Loop!Routed, Consumer!Poll, Loop!Poll, Consumer!Apply, Loop!Apply,
       Consumer!Raise, Loop!Raise, Consumer!HandlerRaises, Loop!HandlerRaises,
       Consumer!HandlerRefuses, Loop!HandlerRefuses, Consumer!DeadLetter, Loop!DeadLetter,
       Consumer!DeadLetterFails, Loop!DeadLetterFails, Consumer!GiveUp, Loop!GiveUp,
       Consumer!Drop, Loop!Drop, Consumer!Commit, Loop!Commit,
       Consumer!CommitStale, Loop!CommitStale,
       Consumer!NothingIsSkippedSilently, Loop!NothingIsSkippedSilently,
       Consumer!Settled, Loop!Settled, Consumer!Handled, Loop!Handled

\* What happens to the loops is a step of GameEventsConsumer, unless an INSERT
\* collides.
LEMMA LoopMoves ==
  ASSUME [Next]_vars, \A r \in Replicas : ~InsertCollides(r)
  PROVE  [Consumer!Next]_(Consumer!vars)
<1>1. ASSUME NEW r \in Replicas, Ignore(r) \/ SaveGame(r) \/ SavePromotion(r)
      PROVE  Consumer!Next
  BY <1>1, Zenon DEF Ignore, SaveGame, SavePromotion, Done, Consumer!Next
<1>2. ASSUME NEW r \in Replicas, Consume(r)
      PROVE  Consumer!Next
  BY <1>2, Zenon DEF Consume, Consumer!Next
<1>3. ASSUME Kafka
      PROVE  Consumer!Next
  BY <1>3, Zenon DEF Kafka, Consumer!Next
<1>4. ASSUME UNCHANGED consumer
      PROVE  UNCHANGED Consumer!vars
  BY <1>4 DEF consumer, Consumer!vars, Consumer!group
<1>5. CASE UNCHANGED vars \/ Admin
  BY <1>4, <1>5 DEF vars, Admin
<1>6. ASSUME NEW r \in Replicas, LoadGame(r) \/ LoadFestival(r) \/ LoadPromotion(r)
      PROVE  UNCHANGED Consumer!vars
  BY <1>4, <1>6 DEF LoadGame, LoadFestival, LoadPromotion, Load
<1> QED BY <1>1, <1>2, <1>3, <1>5, <1>6 DEF Next

\* A collision raises, and so the handler has another attempt, or its message is
\* buried.
LEMMA CollisionStep ==
  ASSUME Loop!ConsumerInv, NEW r \in Replicas, InsertCollides(r)
  PROVE  Loop!ConsumerInv'
<1>1. stage[r] = "handling" /\ Loop!Raise(r) /\ faults' = faults
  BY SameLoop DEF InsertCollides, Overtaken, About
<1>2. faults \in 0 .. MaxFaults
  BY DEF Loop!ConsumerInv, Loop!TypeOK
<1> QED BY <1>1, <1>2, Loop!RaiseInv, LoopConstants

LEMMA GroupStep == Loop!ConsumerInv /\ [Next]_vars => Loop!ConsumerInv'
<1> SUFFICES ASSUME Loop!ConsumerInv, [Next]_vars PROVE Loop!ConsumerInv'
  OBVIOUS
<1>1. CASE \E r \in Replicas : InsertCollides(r)
  BY <1>1, CollisionStep
<1>2. CASE \A r \in Replicas : ~InsertCollides(r)
  <2>1. [Consumer!Next]_(Consumer!vars)
    BY <1>2, LoopMoves
  <2>2. [Loop!Next]_(Loop!vars)
    BY <2>1, SameLoop
  <2>3. Loop!ConsumerInv /\ [Loop!Next]_(Loop!vars) => Loop!ConsumerInv'
    BY Loop!ConsumerStep, LoopConstants
  <2> QED BY <2>2, <2>3
<1> QED BY <1>1, <1>2

\* However the handlers of several replicas get in each other's way, the group moves
\* past no message about a game or a promotion that was not applied, dead-lettered, or
\* given up with a line in the log.
THEOREM NothingSkipped == Spec => []Consumer!NothingIsSkippedSilently
<1>1. Init => Loop!ConsumerInv
  BY SameLoop, Loop!ConsumerInit, LoopConstants DEF Init
<1>2. Loop!ConsumerInv => Consumer!NothingIsSkippedSilently
  BY SameLoop DEF Loop!ConsumerInv
<1> QED BY <1>1, <1>2, GroupStep, PTL DEF Spec
\* While one replica at a time has a message in hand, the handlers are what
\* GameEventsConsumer takes them for: they succeed, refuse, or raise because the
\* database fails or the message is poison, and never because of one another.
THEOREM HandlersAreTheConsumers == Spec /\ []OneAtATime => Consumer!Spec
<1>1. Init => SyncInv /\ LoadIsCurrent
  <2>1. Init => LoadIsCurrent
    BY DEF Init, LoadIsCurrent, Nothing
  <2> QED BY <2>1, InvInit
<1>2. SyncInv /\ LoadIsCurrent /\ OneAtATime /\ [Next]_vars => SyncInv' /\ LoadIsCurrent'
  BY InvStep, CurrentStep
<1>3. SyncInv /\ LoadIsCurrent /\ [Next]_vars => [Consumer!Next]_(Consumer!vars)
  <2>1. LoadIsCurrent => \A r \in Replicas : ~InsertCollides(r)
    BY DEF LoadIsCurrent, InsertCollides, Overtaken
  <2> QED BY <2>1, LoopMoves
<1>4. Init => Consumer!Init
  BY DEF Init
<1> QED BY <1>1, <1>2, <1>3, <1>4, PTL DEF Spec, Consumer!Spec

-----------------------------------------------------------------------------
(* What collisions cost *)

\* The row that the handler of r writes is there, and r has not missed it.
MetTheRow(r) ==
  /\ InHand(r).type \in GameTypes => catalog[InHand(r).game] # Absent
  /\ InHand(r).type \in PromotionTypes => promotions[InHand(r).promotion] # Absent
  /\ loaded[r].step = "game" => loaded[r].row # Absent
  /\ loaded[r].step = "promotion" => loaded[r].previous # Absent

\* Each attempt at a message about a game or a promotion has cost a fault, but for
\* one that may have collided.
AttemptsCost(r) ==
  InHand(r).kind = "known" =>
    /\ stage[r] = "handling" =>
         attempt[r] <= faults \/ (attempt[r] <= faults + 1 /\ MetTheRow(r))
    /\ stage[r] = "burying" => MaxRetries <= faults

CostInv ==
  /\ SyncInv
  /\ Loop!ConsumerInv
  /\ \A r \in Replicas : AttemptsCost(r)
  /\ CollisionsBuryNothing

\* A row once written is never deleted.
RowsKept ==
  /\ \A g \in Games : catalog[g] # Absent => catalog'[g] # Absent
  /\ \A p \in Promotions : promotions[p] # Absent => promotions'[p] # Absent

LEMMA KeepsRows ==
  ASSUME SyncInv, [Next]_vars
  PROVE  RowsKept
<1>1. ASSUME NEW r \in Replicas, SaveGame(r)
      PROVE  RowsKept
  <2>1. /\ InHand(r) \in GameMessages
        /\ UpsertedGame(InHand(r), loaded[r].row, catalog[InHand(r).game]) \in Game
    BY <1>1, SavedGame, HandlesMessage DEF SaveGame
  <2> QED BY <1>1, <2>1, SyncAssumption DEF SaveGame, RowsKept, SyncInv, TypeOK
<1>2. ASSUME NEW r \in Replicas, SavePromotion(r)
      PROVE  RowsKept
  <2> DEFINE m == InHand(r)
  <2>1. m \in PromotionMessages
    BY <1>2, HandlesMessage DEF SavePromotion
  <2>2. StateIn(m.type) \in PromotionStates
    BY <2>1 DEF StateIn, PromotionStates, PromotionMessages, PromotionTypes
  <2> QED BY <1>2, <2>2, SyncAssumption DEF SavePromotion, Column, RowsKept, SyncInv, TypeOK
<1>3. CASE UNCHANGED models
  BY <1>3 DEF RowsKept, models
<1>4. ASSUME NEW r \in Replicas,
             \/ Ignore(r) \/ LoadGame(r) \/ LoadFestival(r) \/ LoadPromotion(r)
             \/ InsertCollides(r) \/ Consume(r)
      PROVE  UNCHANGED models
  BY <1>4 DEF Ignore, LoadGame, LoadFestival, LoadPromotion, Load, InsertCollides, Consume
<1>5. Kafka \/ Admin \/ UNCHANGED vars => UNCHANGED models
  BY DEF Kafka, Admin, vars
<1> QED BY <1>1, <1>2, <1>3, <1>4, <1>5 DEF Next

\* What a handler that runs, or a loop about to bury it, has in hand stays in the log.
LEMMA MetStays ==
  ASSUME CostInv, NEW r \in Replicas, stage[r] = "handling", InHand(r).kind = "known",
         MetTheRow(r), RowsKept, InHand(r)' = InHand(r),
         \/ loaded'[r] = loaded[r]
         \/ loaded'[r].step = "start"
         \/ LoadGame(r) \/ LoadFestival(r) \/ LoadPromotion(r)
  PROVE  MetTheRow(r)'
<1> DEFINE m == InHand(r)
<1>1. /\ m.type \in GameTypes => m.game \in Games
      /\ m.type \in PromotionTypes => m.promotion \in Promotions
  <2>1. About(r, {m.type})
    BY DEF About
  <2>2. m \in GameMessages \cup PromotionMessages
    BY <2>1, HandlesMessage DEF CostInv
  <2> QED BY <2>2 DEF GameMessages, PromotionMessages, GameTypes, PromotionTypes
<1>2. /\ m.type \in GameTypes => catalog'[m.game] # Absent
      /\ m.type \in PromotionTypes => promotions'[m.promotion] # Absent
  BY <1>1 DEF MetTheRow, RowsKept
<1>3. CASE loaded'[r] = loaded[r] \/ loaded'[r].step = "start"
  BY <1>2, <1>3 DEF MetTheRow
<1>4. CASE LoadGame(r) \/ LoadFestival(r) \/ LoadPromotion(r)
  <2>1. \/ m.type \in GameTypes /\ loaded'[r] = [step |-> "game", row |-> catalog[m.game]]
        \/ loaded'[r] = [step |-> "festival", games |-> rows[m.festival].games]
        \/ /\ m.type \in PromotionTypes
           /\ loaded'[r] = [step |-> "promotion", games |-> loaded[r].games,
                            previous |-> promotions[m.promotion]]
    BY <1>4 DEF LoadGame, LoadFestival, LoadPromotion, Load, About, CostInv, SyncInv, TypeOK
  <2> QED BY <1>2, <2>1 DEF MetTheRow
<1> QED BY <1>3, <1>4

\* A loop that is not at work on its message's fate.
LEMMA CostStays ==
  ASSUME CostInv, NEW r \in Replicas, RowsKept,
         faults \in Nat, faults' \in Nat, faults <= faults',
         stage'[r] = stage[r], attempt'[r] = attempt[r],
         hand'[r] = hand[r], \A n \in 1 .. Len(log) : log'[n] = log[n],
         \/ loaded'[r] = loaded[r]
         \/ loaded'[r].step = "start"
         \/ LoadGame(r) \/ LoadFestival(r) \/ LoadPromotion(r)
  PROVE  AttemptsCost(r)'
<1> SUFFICES ASSUME stage[r] \in {"handling", "burying"}
             PROVE  AttemptsCost(r)'
  BY DEF AttemptsCost
<1>1. hand[r] \in 1 .. Len(log)
  BY LenProperties DEF CostInv, SyncInv, HandType
<1>2. InHand(r)' = InHand(r)
  BY <1>1 DEF InHand
<1>3. attempt[r] \in Nat /\ MaxRetries \in Nat
  BY LoopAssumption DEF CostInv, Loop!ConsumerInv, Loop!TypeOK
<1>4. InHand(r).kind = "known" /\ stage[r] = "handling" /\ MetTheRow(r) => MetTheRow(r)'
  BY <1>2, MetStays
<1> QED BY <1>2, <1>3, <1>4 DEF CostInv, AttemptsCost

LEMMA FaultsOnlyGrow ==
  ASSUME CostInv, [Next]_vars
  PROVE  faults \in Nat /\ faults' \in Nat /\ faults <= faults'
<1>1. CASE \E r \in Replicas : InsertCollides(r)
  BY <1>1, LoopAssumption DEF InsertCollides, CostInv, Loop!ConsumerInv, Loop!TypeOK
<1>2. CASE \A r \in Replicas : ~InsertCollides(r)
  <2>1. [Consumer!Next]_(Consumer!vars)
    BY <1>2, LoopMoves
  <2>2. [Loop!Next]_(Loop!vars)
    BY <2>1, SameLoop
  <2>3. Loop!ConsumerInv
    BY DEF CostInv
  <2> QED BY <2>2, <2>3, Loop!FaultsGrow, LoopConstants
<1> QED BY <1>1, <1>2

\* A handler that raises: another fault, or the one collision.
LEMMA RaiseCosts ==
  ASSUME CostInv, NEW r \in Replicas, RowsKept, stage[r] = "handling",
         Consumer!Raise(r), loaded'[r] = Nothing,
         \/ InHand(r).kind # "known" /\ faults' \in Nat
         \/ faults' = faults + 1
         \/ faults' = faults /\ ~MetTheRow(r) /\ MetTheRow(r)'
  PROVE  AttemptsCost(r)' /\ dlq' = dlq
<1>1. /\ attempt \in [Replicas -> 0 .. MaxRetries + 1] /\ attempt[r] \in Nat
      /\ MaxRetries \in Nat /\ faults \in Nat
      /\ stage \in [Replicas -> Loop!Stages]
  BY LoopAssumption DEF CostInv, Loop!ConsumerInv, Loop!TypeOK
<1>2. attempt'[r] = attempt[r] + 1
  BY <1>1 DEF Consumer!Raise
<1>3. stage'[r] = IF attempt'[r] > MaxRetries THEN "burying" ELSE "handling"
  BY <1>1 DEF Consumer!Raise, Consumer!MoveTo
<1>4. InHand(r)' = InHand(r) /\ dlq' = dlq
  BY DEF Consumer!Raise, InHand
<1>5. loaded'[r].step = "start"
  BY DEF Nothing
<1>6. InHand(r).kind = "known" /\ MetTheRow(r) => MetTheRow(r)'
  BY <1>4, <1>5, MetStays
<1>7. InHand(r).kind = "known" =>
        attempt[r] <= faults \/ (attempt[r] <= faults + 1 /\ MetTheRow(r))
  BY DEF CostInv, AttemptsCost
<1> QED BY <1>1, <1>2, <1>3, <1>4, <1>6, <1>7 DEF AttemptsCost

\* The loop's other steps: one that comes to a message has made no attempt at it, and
\* only a malformed message is to be buried untried.
LEMMA LoopCosts ==
  ASSUME CostInv, NEW r \in Replicas, RowsKept, loaded'[r] = Nothing,
         faults \in Nat, faults' \in Nat,
         \/ Consumer!Join(r) \/ Consumer!Crash(r) \/ Consumer!Expire(r)
         \/ Consumer!Poll(r)
         \/ Consumer!Apply(r) \/ Consumer!HandlerRaises(r) \/ Consumer!HandlerRefuses(r)
         \/ Consumer!DeadLetter(r) \/ Consumer!DeadLetterFails(r) \/ Consumer!GiveUp(r)
         \/ Consumer!Commit(r) \/ Consumer!CommitStale(r)
  PROVE  /\ AttemptsCost(r)'
         /\ dlq' = dlq \/ (dlq' = dlq \cup {hand[r]} /\ stage[r] = "burying")
<1>0. /\ attempt \in [Replicas -> 0 .. MaxRetries + 1] /\ MaxRetries \in Nat
      /\ stage \in [Replicas -> Loop!Stages]
      /\ hand \in [Replicas -> 0 .. Len(log)]
  BY LoopAssumption DEF CostInv, Loop!ConsumerInv, Loop!TypeOK
<1>1. ASSUME stage'[r] \notin {"handling", "burying"} PROVE AttemptsCost(r)'
  BY <1>1 DEF AttemptsCost
<1>2. CASE \/ Consumer!Join(r) \/ Consumer!Crash(r) \/ Consumer!Expire(r)
           \/ Consumer!Apply(r) \/ Consumer!DeadLetterFails(r) \/ Consumer!GiveUp(r)
           \/ Consumer!Commit(r)
  <2>1. stage'[r] \in {"polling", "down", "left", "settled", "raised"} /\ dlq' = dlq
    BY <1>0, <1>2 DEF Consumer!Join, Consumer!Crash, Consumer!Expire, Consumer!Apply,
                      Consumer!DeadLetterFails, Consumer!GiveUp, Consumer!Commit, Consumer!MoveTo
  <2> QED BY <1>1, <2>1
<1>3. CASE Consumer!CommitStale(r)
  <2>1. PICK next \in {"polling", "stopped"} : stage' = [stage EXCEPT ![r] = next]
    BY <1>3 DEF Consumer!CommitStale, Consumer!MoveTo
  <2>2. stage'[r] \in {"polling", "stopped"} /\ dlq' = dlq
    BY <1>0, <1>3, <2>1 DEF Consumer!CommitStale
  <2> QED BY <1>1, <2>2
<1>4. CASE Consumer!DeadLetter(r)
  <2>1. stage'[r] = "settled" /\ dlq' = dlq \cup {hand[r]} /\ stage[r] = "burying"
    BY <1>0, <1>4 DEF Consumer!DeadLetter, Consumer!MoveTo
  <2> QED BY <1>1, <2>1
<1>5. CASE Consumer!Poll(r)
  <2> DEFINE m == log[committed + 1]
  <2>1. hand'[r] = committed + 1 /\ attempt'[r] = 0 /\ log' = log /\ dlq' = dlq
        /\ stage'[r] = Consumer!Routed(m)
    BY <1>0, <1>5 DEF Consumer!Poll, Consumer!MoveTo
  <2>2. InHand(r)' = m
    BY <2>1 DEF InHand
  <2>3. m.kind = "known" => stage'[r] = "handling"
    BY <2>1 DEF Consumer!Routed
  <2> QED BY <2>1, <2>2, <2>3 DEF AttemptsCost
<1>6. CASE Consumer!HandlerRefuses(r)
  <2>1. InHand(r)' = InHand(r) /\ InHand(r).kind # "known" /\ dlq' = dlq
    BY <1>6 DEF Consumer!HandlerRefuses, Consumer!InHand, InHand
  <2> QED BY <2>1 DEF AttemptsCost
<1>7. CASE Consumer!HandlerRaises(r)
  <2>1. /\ stage[r] = "handling" /\ Consumer!Raise(r)
        /\ \/ InHand(r).kind # "known"
           \/ faults' = faults + 1
    BY <1>7 DEF Consumer!HandlerRaises, Consumer!Fault, Consumer!InHand, InHand
  <2> QED BY <2>1, RaiseCosts
<1> QED BY <1>2, <1>3, <1>4, <1>5, <1>6, <1>7

\* The first INSERT of the row has won, and so the row is there from now on.
LEMMA CollisionCosts ==
  ASSUME CostInv, NEW r \in Replicas, RowsKept, InsertCollides(r)
  PROVE  AttemptsCost(r)' /\ dlq' = dlq
<1> DEFINE m == InHand(r)
<1>1. /\ stage[r] = "handling" /\ Consumer!Raise(r) /\ faults' = faults
      /\ loaded'[r] = Nothing /\ catalog' = catalog /\ promotions' = promotions
      /\ m.type \in GameTypes \cup PromotionTypes
  BY DEF InsertCollides, Overtaken, About, models, CostInv, SyncInv, TypeOK
<1>2. ~MetTheRow(r)
  BY DEF InsertCollides, Overtaken, MetTheRow
<1>3. InHand(r)' = m
  BY <1>1 DEF Consumer!Raise, InHand
<1>4. MetTheRow(r)'
  <2>1. ~(m.type \in GameTypes /\ m.type \in PromotionTypes)
    BY DEF GameTypes, PromotionTypes
  <2>2. \/ m.type \in GameTypes /\ catalog[m.game] # Absent
        \/ m.type \in PromotionTypes /\ promotions[m.promotion] # Absent
    BY DEF InsertCollides, Overtaken, About
  <2>3. loaded'[r].step = "start"
    BY <1>1 DEF Nothing
  <2> QED BY <1>1, <1>3, <2>1, <2>2, <2>3 DEF MetTheRow
<1> QED BY <1>1, <1>2, <1>4, RaiseCosts

\* The other loops make no attempt meanwhile.
LEMMA OthersAttempts ==
  ASSUME CostInv, NEW r \in Replicas, ConsumerStep(r)
  PROVE  \A q \in Replicas \ {r} : attempt'[q] = attempt[q]
<1>0. attempt \in [Replicas -> 0 .. MaxRetries + 1]
  BY DEF CostInv, Loop!ConsumerInv, Loop!TypeOK
<1>1. CASE \/ Consumer!Crash(r) \/ Consumer!Poll(r)
           \/ Consumer!HandlerRaises(r) \/ Consumer!Raise(r)
           \/ Consumer!Commit(r) \/ Consumer!CommitStale(r)
  BY <1>0, <1>1 DEF Consumer!Crash, Consumer!Poll, Consumer!HandlerRaises, Consumer!Raise,
                    Consumer!Commit, Consumer!CommitStale, Consumer!Drop
<1>2. CASE \/ Consumer!Join(r) \/ Consumer!Expire(r) \/ Consumer!Apply(r)
           \/ Consumer!HandlerRefuses(r) \/ Consumer!DeadLetter(r)
           \/ Consumer!DeadLetterFails(r) \/ Consumer!GiveUp(r)
  BY <1>2 DEF Consumer!Join, Consumer!Expire, Consumer!Apply, Consumer!HandlerRefuses,
              Consumer!DeadLetter, Consumer!DeadLetterFails, Consumer!GiveUp
<1> QED BY <1>1, <1>2 DEF ConsumerStep

\* What is buried and what it cost, when the dead-letter topic stays as it is or takes
\* what a loop was about to bury.
LEMMA BuriedCosts ==
  ASSUME CostInv, faults \in Nat, faults' \in Nat, faults <= faults',
         \A n \in 1 .. Len(log) : log'[n] = log[n],
         \/ dlq' = dlq
         \/ \E r \in Replicas : dlq' = dlq \cup {hand[r]} /\ stage[r] = "burying"
  PROVE  CollisionsBuryNothing'
<1>1. dlq \subseteq 1 .. Len(log) /\ MaxRetries \in Nat
  BY LoopAssumption DEF CostInv, Loop!ConsumerInv, Loop!TypeOK
<1>2. ASSUME NEW r \in Replicas, stage[r] = "burying"
      PROVE  hand[r] \in 1 .. Len(log) /\ (log[hand[r]].kind = "known" => MaxRetries <= faults)
  <2>1. hand[r] \in 1 .. Len(log)
    BY <1>2, LenProperties DEF CostInv, SyncInv, HandType
  <2> QED BY <1>2, <2>1 DEF CostInv, AttemptsCost, InHand
<1>3. \A n \in dlq' : n \in 1 .. Len(log) /\ (log[n].kind = "known" => MaxRetries <= faults)
  <2>1. \A n \in dlq : n \in 1 .. Len(log) /\ (log[n].kind = "known" => MaxRetries <= faults)
    BY <1>1 DEF CostInv, CollisionsBuryNothing
  <2>2. CASE dlq' = dlq
    BY <2>1, <2>2
  <2>3. CASE \E r \in Replicas : dlq' = dlq \cup {hand[r]} /\ stage[r] = "burying"
    BY <1>2, <2>1, <2>3
  <2> QED BY <2>2, <2>3
<1>4. \A n \in dlq' : log'[n] = log[n]
  BY <1>3
<1> QED BY <1>1, <1>3, <1>4 DEF CollisionsBuryNothing

LEMMA CostStep ==
  ASSUME CostInv, [Next]_vars, Loop!ConsumerInv'
  PROVE  CostInv'
<1>0. SyncInv' /\ RowsKept
  BY InvStep, KeepsRows DEF CostInv
<1>a. faults \in Nat /\ faults' \in Nat /\ faults <= faults'
  BY FaultsOnlyGrow
<1>b. ASSUME NEW r \in Replicas, ConsumerStep(r), loaded' = [loaded EXCEPT ![r] = Nothing],
             AttemptsCost(r)',
             dlq' = dlq \/ (dlq' = dlq \cup {hand[r]} /\ stage[r] = "burying")
      PROVE  CostInv'
  <2>1. /\ log' = log
        /\ \A q \in Replicas \ {r} : /\ stage'[q] = stage[q] /\ hand'[q] = hand[q]
                                     /\ attempt'[q] = attempt[q]
                                     /\ loaded'[q] = loaded[q]
    BY <1>b, ConsumerHand, OthersAttempts DEF CostInv, SyncInv, TypeOK
  <2>2. \A q \in Replicas \ {r} : AttemptsCost(q)'
    BY <1>0, <1>a, <2>1, CostStays
  <2>3. CollisionsBuryNothing'
    BY <1>a, <1>b, <2>1, BuriedCosts
  <2> QED BY <1>0, <1>b, <2>2, <2>3 DEF CostInv
<1>1. ASSUME NEW r \in Replicas, Ignore(r) \/ SaveGame(r) \/ SavePromotion(r) \/ Consume(r)
      PROVE  CostInv'
  <2>1. /\ \/ Consumer!Join(r) \/ Consumer!Crash(r) \/ Consumer!Expire(r)
           \/ Consumer!Poll(r)
           \/ Consumer!Apply(r) \/ Consumer!HandlerRaises(r) \/ Consumer!HandlerRefuses(r)
           \/ Consumer!DeadLetter(r) \/ Consumer!DeadLetterFails(r) \/ Consumer!GiveUp(r)
           \/ Consumer!Commit(r) \/ Consumer!CommitStale(r)
        /\ loaded' = [loaded EXCEPT ![r] = Nothing]
    BY <1>1 DEF Ignore, SaveGame, SavePromotion, Done, Consume
  <2>2. loaded'[r] = Nothing
    BY <2>1 DEF CostInv, SyncInv, TypeOK
  <2>3. ConsumerStep(r)
    BY <2>1 DEF ConsumerStep
  <2> QED BY <1>0, <1>a, <1>b, <2>1, <2>2, <2>3, LoopCosts
<1>2. ASSUME NEW r \in Replicas, InsertCollides(r)
      PROVE  CostInv'
  <2>1. ConsumerStep(r) /\ loaded' = [loaded EXCEPT ![r] = Nothing]
    BY <1>2 DEF InsertCollides, Overtaken, About, ConsumerStep
  <2> QED BY <1>0, <1>2, <1>b, <2>1, CollisionCosts
<1>3. ASSUME NEW r \in Replicas, LoadGame(r) \/ LoadFestival(r) \/ LoadPromotion(r)
      PROVE  CostInv'
  <2>1. /\ UNCHANGED <<stage, attempt, hand, log, dlq>>
        /\ \A q \in Replicas \ {r} : loaded'[q] = loaded[q]
    BY <1>3 DEF LoadGame, LoadFestival, LoadPromotion, Load, consumer, CostInv, SyncInv, TypeOK
  <2>2. \A q \in Replicas : AttemptsCost(q)'
    BY <1>0, <1>3, <1>a, <2>1, CostStays
  <2>3. CollisionsBuryNothing'
    BY <1>a, <2>1, BuriedCosts
  <2> QED BY <1>0, <2>2, <2>3 DEF CostInv
<1>4. CASE Kafka \/ Admin \/ UNCHANGED vars
  <2>1. /\ UNCHANGED <<stage, hand, loaded>>
        /\ \A n \in 1 .. Len(log) : log'[n] = log[n]
    BY <1>4, OutsideMoves DEF CostInv
  <2>2. UNCHANGED <<attempt, dlq>>
    BY <1>4 DEF Kafka, Admin, vars, consumer, Consumer!Publish, Consumer!Rebalance, Consumer!group
  <2>3. \A q \in Replicas : AttemptsCost(q)'
    BY <1>0, <1>a, <2>1, <2>2, CostStays
  <2>4. CollisionsBuryNothing'
    BY <1>a, <2>1, <2>2, BuriedCosts
  <2> QED BY <1>0, <2>3, <2>4 DEF CostInv
<1> QED BY <1>1, <1>2, <1>3, <1>4 DEF Next

\* Two replicas that insert the same row get in each other's way once: of the attempts
\* at a message, a collision uses up one at most.  What is buried although its handler
\* would have succeeded has met at least max_retries failures of the database.
THEOREM CollisionsAreCheap == Spec => []CollisionsBuryNothing
<1>1. Init => CostInv
  <2> SUFFICES ASSUME Init PROVE CostInv
    OBVIOUS
  <2>1. Loop!ConsumerInv
    BY SameLoop, Loop!ConsumerInit, LoopConstants DEF Init
  <2>2. stage = [r \in Replicas |-> "down"] /\ dlq = {}
    BY DEF Init, Consumer!Init
  <2> QED BY <2>1, <2>2, InvInit DEF CostInv, AttemptsCost, CollisionsBuryNothing
<1>2. CostInv /\ [Next]_vars => CostInv'
  <2>1. Loop!ConsumerInv /\ [Next]_vars => Loop!ConsumerInv'
    BY GroupStep
  <2> QED BY <2>1, CostStep DEF CostInv
<1>3. CostInv => CollisionsBuryNothing
  BY DEF CostInv
<1> QED BY <1>1, <1>2, <1>3, PTL DEF Spec

-----------------------------------------------------------------------------
(* A discount is announced once *)

ApprovalsUpTo(f, p, n) == {k \in Approvals(f, p) : k <= n}

\* What is on file of p is the n-th message's, and has been announced no more often
\* than p had been approved by then.
DecidedBy(p, n) ==
  /\ promotions[p] = StateIn(log[n].type)
  /\ \A f \in Festivals :
       Cardinality(Announcements(f, p)) <= Cardinality(ApprovalsUpTo(f, p, n))

\* Nothing has been announced of a promotion that is not on file.
AnnouncedIsApproved ==
  \A p \in Promotions :
    \/ promotions[p] = Absent /\ \A f \in Festivals : Announcements(f, p) = {}
    \/ \E n \in Deciding(p) : DecidedBy(p, n)

LEMMA LeastNat ==
  ASSUME NEW S \in SUBSET Nat, NEW x \in S
  PROVE  \E a \in S : \A k \in S : a <= k
<1>1. PICK a \in S : \A k \in S : <<k, a>> \notin OpToRel(<, Nat)
  BY NatLessThanWellFounded, WFMin
<1>2. \A k \in S : ~(k < a)
  BY <1>1 DEF OpToRel
<1> QED BY <1>2

LEMMA FiniteApprovals ==
  ASSUME HandType, NEW f, NEW p, NEW n
  PROVE  /\ Approvals(f, p) \subseteq Nat
         /\ IsFiniteSet(Approvals(f, p))
         /\ IsFiniteSet(ApprovalsUpTo(f, p, n))
<1>1. Len(log) \in Nat /\ DOMAIN log = 1 .. Len(log)
  BY LenProperties DEF HandType
<1>2. /\ Approvals(f, p) \subseteq 1 .. Len(log)
      /\ ApprovalsUpTo(f, p, n) \subseteq 1 .. Len(log)
  BY <1>1 DEF Approvals, AboutPromotion, ApprovalsUpTo
<1>3. IsFiniteSet(1 .. Len(log))
  BY <1>1, FS_Interval
<1> QED BY <1>2, <1>3, FS_Subset

\* Between a message that does not approve the promotion, or none at all, and one
\* that does, there is one that approves it anew.
LEMMA NextApproval ==
  ASSUME HandType, NEW f, NEW p, NEW h \in AboutPromotion(f, p),
         log[h].type = "PromotionApproved",
         NEW b \in Nat, b < h,
         b = 0 \/ (b \in AboutPromotion(f, p) /\ log[b].type # "PromotionApproved")
  PROVE  \E a \in Approvals(f, p) : b < a /\ a <= h
<1> DEFINE S == {k \in AboutPromotion(f, p) :
                   log[k].type = "PromotionApproved" /\ b < k /\ k <= h}
<1>1. AboutPromotion(f, p) \subseteq Nat \ {0}
  BY LenProperties DEF HandType, AboutPromotion
<1>2. S \in SUBSET Nat /\ h \in S
  BY <1>1
<1>3. PICK a \in S : \A k \in S : a <= k
  BY <1>2, LeastNat
<1>4. ASSUME NEW k \in AboutPromotion(f, p), k < a, log[k].type = "PromotionApproved"
      PROVE  \E i \in AboutPromotion(f, p) : k < i /\ i < a /\ log[i].type # "PromotionApproved"
  <2>1. k <= b
    BY <1>1, <1>3, <1>4
  <2>2. b \in AboutPromotion(f, p) /\ log[b].type # "PromotionApproved" /\ k < b /\ b < a
    BY <1>1, <1>3, <1>4, <2>1
  <2> QED BY <2>2
<1>5. a \in Approvals(f, p)
  BY <1>3, <1>4 DEF Approvals
<1> QED BY <1>3, <1>5

\* A message that arrives makes no difference to the earlier ones.
LEMMA ApprovalsStay ==
  ASSUME HandType, HandType', \A n \in 1 .. Len(log) : log'[n] = log[n],
         Len(log) <= Len(log)', NEW f, NEW p, NEW n \in 1 .. Len(log)
  PROVE  ApprovalsUpTo(f, p, n)' = ApprovalsUpTo(f, p, n)
<1>0. /\ DOMAIN log = 1 .. Len(log) /\ DOMAIN log' = 1 .. Len(log)'
      /\ Len(log) \in Nat /\ Len(log)' \in Nat
  BY LenProperties DEF HandType
<1>1. \A k : k \in AboutPromotion(f, p) => k \in AboutPromotion(f, p)' /\ log'[k] = log[k]
  BY <1>0 DEF AboutPromotion
<1>2. \A k : k \in AboutPromotion(f, p)' /\ k <= n => k \in AboutPromotion(f, p)
  BY <1>0 DEF AboutPromotion
<1>3. AboutPromotion(f, p)' \subseteq Nat
  BY <1>0 DEF AboutPromotion
<1>4. ASSUME NEW k \in AboutPromotion(f, p), k <= n
      PROVE  k \in Approvals(f, p)' <=> k \in Approvals(f, p)
  <2>1. \A i : i < k /\ i \in AboutPromotion(f, p)' => i \in AboutPromotion(f, p)
    BY <1>2, <1>3, <1>4, <1>1
  <2>2. \A i, j : i \in AboutPromotion(f, p)' /\ j \in AboutPromotion(f, p)' /\ i < j /\ j < k => i < k
    BY <1>1, <1>3
  <2> QED BY <1>1, <2>1, <2>2 DEF Approvals
<1>5. \A k : k \in ApprovalsUpTo(f, p, n)' <=> k \in ApprovalsUpTo(f, p, n)
  BY <1>1, <1>2, <1>4 DEF ApprovalsUpTo, Approvals
<1> QED BY <1>5

\* A step that announces nothing and decides on nothing.
LEMMA QuietAnnouncing ==
  ASSUME LogInv, AnnouncedIsApproved,
         HandType', \A n \in 1 .. Len(log) : log'[n] = log[n],
         Len(log) <= Len(log)',
         promotions' = promotions,
         AnnouncementsStay,
         \A p \in Promotions : Deciding(p) \subseteq Deciding(p)'
  PROVE  AnnouncedIsApproved'
<1> SUFFICES ASSUME NEW p \in Promotions
             PROVE  \/ promotions'[p] = Absent /\ \A f \in Festivals : Announcements(f, p)' = {}
                    \/ \E n \in Deciding(p)' : DecidedBy(p, n)'
  BY DEF AnnouncedIsApproved
<1>1. CASE promotions[p] = Absent /\ \A f \in Festivals : Announcements(f, p) = {}
  BY <1>1 DEF AnnouncementsStay
<1>2. CASE \E n \in Deciding(p) : DecidedBy(p, n)
  <2>1. PICK n \in Deciding(p) : DecidedBy(p, n)
    BY <1>2
  <2>2. n \in 1 .. Len(log)
    BY <2>1 DEF Deciding, LogInv, AppliedIsBehind
  <2>3. \A f \in Festivals : ApprovalsUpTo(f, p, n)' = ApprovalsUpTo(f, p, n)
    BY <2>2, ApprovalsStay DEF LogInv, SyncInv
  <2>4. DecidedBy(p, n)'
    BY <2>1, <2>2, <2>3 DEF DecidedBy, AnnouncementsStay
  <2> QED BY <2>1, <2>4
<1> QED BY <1>1, <1>2 DEF AnnouncedIsApproved

\* The promotion goes on file: whatever was announced before, its approval is not.
LEMMA Announcing ==
  ASSUME OneFestivalEach, LogInv, AnnouncedIsApproved, NEW r \in Replicas, SavePromotion(r)
  PROVE  AnnouncedIsApproved'
<1> DEFINE m == InHand(r)
<1>1. /\ About(r, PromotionTypes) /\ Consumer!Apply(r)
      /\ loaded[r].step = "promotion"
  BY DEF SavePromotion, Done
<1>2. m \in Messages /\ m \in PromotionMessages
  BY <1>1, HandlesMessage DEF LogInv
<1>p. PICK p \in Promotions : p = m.promotion
  BY <1>2 DEF PromotionMessages
<1>f. PICK f \in Festivals : f = m.festival
  BY <1>1 DEF LogInv, SyncInv, LoadFits
<1>h. PICK h : h = hand[r]
  OBVIOUS
<1>3. /\ m.promotion = p /\ m.type \in PromotionTypes
      /\ m.festival = f /\ f # Null
      /\ loaded[r].previous = promotions[p]
  BY <1>1, <1>2, <1>p, <1>f DEF PromotionMessages, LogInv, LoadIsCurrent
<1>4. /\ log' = log
      /\ h \in 1 .. Len(log) /\ log[h] = m
      /\ \A k : Consumer!Handled(k) => k \in Nat /\ k <= h
      /\ \A q, k : k \in Deciding(q)' <=>
           \/ k \in Deciding(q)
           \/ k = h /\ m.type \in PromotionTypes /\ m.promotion = q /\ m.festival # Null
  BY <1>1, <1>h, AppliedGrows
<1>5. /\ h \in Nat /\ 0 < h
      /\ DOMAIN log = 1 .. Len(log)
      /\ h \in AboutPromotion(f, p)
  BY <1>3, <1>4, LenProperties DEF LogInv, SyncInv, HandType, AboutPromotion
<1>6. /\ promotions'[p] = StateIn(m.type)
      /\ \A q \in Promotions \ {p} : promotions'[q] = promotions[q]
  BY <1>3 DEF SavePromotion, Column, LogInv, SyncInv, TypeOK
<1>7. \A g, q, n : ApprovalsUpTo(g, q, n)' = ApprovalsUpTo(g, q, n)
  BY <1>4 DEF ApprovalsUpTo, Approvals, AboutPromotion
<1>8. ASSUME NEW g \in Festivals, NEW q \in Promotions
      PROVE  Announcements(g, q)' =
               IF g = f /\ q = p /\ NewlyActive(m, loaded[r])
               THEN Announcements(g, q) \cup {Len(outbox[f]) + 1} ELSE Announcements(g, q)
  <2>1. CASE ~NewlyActive(m, loaded[r])
    BY <2>1 DEF SavePromotion, Announcements
  <2>2. CASE NewlyActive(m, loaded[r])
    <3> DEFINE e == DiscountApplied(m)
    <3>1. e \in Announced /\ e.type = "DiscountApplied" /\ e.promotion = p
      BY <1>2, <1>3 DEF DiscountApplied, Announced, PromotionMessages
    <3>2. Extends(outbox[f], Append(outbox[f], e), e)
      BY <1>3, <3>1, AppendExtends DEF LogInv, SyncInv, StoreType
    <3>3. outbox' = [outbox EXCEPT ![f] = Append(outbox[f], e)]
      BY <1>f, <2>2 DEF SavePromotion
    <3> HIDE DEF e
    <3>4. Tells(f, e)
      BY <3>2, <3>3 DEF Tells
    <3> QED BY <1>3, <2>2, <3>1, <3>4, TellsAnnouncements DEF LogInv, SyncInv
  <2> QED BY <2>1, <2>2
<1>9. ASSUME NEW g \in Festivals, NEW q
      PROVE  IsFiniteSet(Announcements(g, q))
  <2>1. Len(outbox[g]) \in Nat /\ Announcements(g, q) \subseteq 1 .. Len(outbox[g])
    BY LenProperties DEF LogInv, SyncInv, StoreType, Announcements
  <2>2. IsFiniteSet(1 .. Len(outbox[g]))
    BY <2>1, FS_Interval
  <2> QED BY <2>1, <2>2, FS_Subset
<1> HIDE DEF m
\* What had been announced of p was approved at or before b, and what is on file
\* says what b said.
<1>10. PICK b \in 0 .. h :
         /\ \A g \in Festivals :
              Cardinality(Announcements(g, p)) <= Cardinality(ApprovalsUpTo(g, p, b))
         /\ promotions[p] # "ACTIVE" /\ m.type = "PromotionApproved" =>
              /\ b < h
              /\ b = 0 \/ (b \in AboutPromotion(f, p) /\ log[b].type # "PromotionApproved")
  <2>1. CASE promotions[p] = Absent /\ \A g \in Festivals : Announcements(g, p) = {}
    <3>1. ASSUME NEW g \in Festivals
          PROVE  Cardinality(Announcements(g, p)) <= Cardinality(ApprovalsUpTo(g, p, 0))
      <4>1. Cardinality(Announcements(g, p)) = 0
        BY <2>1, FS_EmptySet
      <4>2. Cardinality(ApprovalsUpTo(g, p, 0)) \in Nat
        BY FiniteApprovals, FS_CardinalityType DEF LogInv, SyncInv
      <4> QED BY <4>1, <4>2
    <3> QED BY <1>5, <3>1
  <2>2. CASE \E n \in Deciding(p) : DecidedBy(p, n)
    <3>1. PICK b \in Deciding(p) : DecidedBy(p, b)
      BY <2>2
    <3>2. b \in 1 .. Len(log) /\ b <= h /\ log[b] \in Messages
          /\ log[b].type \in PromotionTypes /\ log[b].promotion = p /\ log[b].festival # Null
          /\ log[b] \in GameMessages \cup PromotionMessages
      BY <1>4, <3>1, ElementOfSeq
         DEF Deciding, LogInv, AppliedIsBehind, SyncInv, HandType
    <3>3. log[b] \in PromotionMessages
      BY <3>2 DEF GameMessages, GameTypes, PromotionTypes
    <3>4. b \in AboutPromotion(f, p)
      BY <1>2, <1>3, <1>5, <3>2, <3>3 DEF OneFestivalEach, AboutPromotion
    <3>5. ASSUME promotions[p] # "ACTIVE"
          PROVE  log[b].type # "PromotionApproved"
      BY <3>1, <3>5 DEF DecidedBy, StateIn
    <3>6. m.type = "PromotionApproved" /\ log[b].type # "PromotionApproved" => b # h
      BY <1>4
    <3> QED BY <1>5, <3>1, <3>2, <3>4, <3>5, <3>6 DEF DecidedBy
  <2> QED BY <2>1, <2>2 DEF AnnouncedIsApproved
<1>11. ASSUME NEW g \in Festivals
       PROVE  Cardinality(Announcements(g, p)') <= Cardinality(ApprovalsUpTo(g, p, h))
  <2>1. /\ ApprovalsUpTo(g, p, b) \subseteq ApprovalsUpTo(g, p, h)
        /\ IsFiniteSet(ApprovalsUpTo(g, p, b)) /\ IsFiniteSet(ApprovalsUpTo(g, p, h))
        /\ IsFiniteSet(Announcements(g, p))
    <3>1. Approvals(g, p) \subseteq Nat
      BY FiniteApprovals DEF LogInv, SyncInv
    <3>2. ApprovalsUpTo(g, p, b) \subseteq ApprovalsUpTo(g, p, h)
      BY <1>5, <3>1 DEF ApprovalsUpTo
    <3> QED BY <1>9, <3>2, FiniteApprovals DEF LogInv, SyncInv
  <2>2. /\ Cardinality(Announcements(g, p)) <= Cardinality(ApprovalsUpTo(g, p, b))
        /\ Cardinality(ApprovalsUpTo(g, p, b)) \in Nat
        /\ Cardinality(ApprovalsUpTo(g, p, h)) \in Nat
        /\ Cardinality(Announcements(g, p)) \in Nat
    BY <1>10, <2>1, FS_CardinalityType
  <2>3. CASE ~(g = f /\ NewlyActive(m, loaded[r]))
    <3>1. Announcements(g, p)' = Announcements(g, p)
      BY <1>8, <2>3
    <3>2. Cardinality(ApprovalsUpTo(g, p, b)) <= Cardinality(ApprovalsUpTo(g, p, h))
      BY <2>1, FS_Subset
    <3> QED BY <2>2, <3>1, <3>2
  <2>4. CASE g = f /\ NewlyActive(m, loaded[r])
    <3>1. m.type = "PromotionApproved" /\ promotions[p] # "ACTIVE"
      BY <1>3, <2>4 DEF NewlyActive
    <3>2. PICK a \in Approvals(g, p) : b < a /\ a <= h
      BY <1>4, <1>5, <1>10, <2>4, <3>1, NextApproval DEF LogInv, SyncInv
    <3>3. /\ a \notin ApprovalsUpTo(g, p, b)
          /\ ApprovalsUpTo(g, p, b) \cup {a} \in SUBSET ApprovalsUpTo(g, p, h)
      <4>1. a \in Nat
        BY FiniteApprovals, <3>2 DEF LogInv, SyncInv
      <4> QED BY <2>1, <3>2, <4>1 DEF ApprovalsUpTo
    <3>4. Cardinality(ApprovalsUpTo(g, p, b) \cup {a}) = Cardinality(ApprovalsUpTo(g, p, b)) + 1
      BY <2>1, <3>3, FS_AddElement
    <3>5. Cardinality(ApprovalsUpTo(g, p, b) \cup {a}) <= Cardinality(ApprovalsUpTo(g, p, h))
      BY <2>1, <3>3, FS_Subset
    <3>6. Cardinality(Announcements(g, p)') <= Cardinality(Announcements(g, p)) + 1
      <4>1. Announcements(g, p)' = Announcements(g, p) \cup {Len(outbox[f]) + 1}
        BY <1>8, <2>4
      <4>2. PICK x : x = Len(outbox[f]) + 1
        OBVIOUS
      <4>3. Cardinality(Announcements(g, p) \cup {x}) =
              IF x \in Announcements(g, p) THEN Cardinality(Announcements(g, p))
              ELSE Cardinality(Announcements(g, p)) + 1
        BY <2>1, FS_AddElement
      <4> QED BY <2>2, <4>1, <4>2, <4>3
    <3>7. Cardinality(Announcements(g, p)') \in Nat
      <4>1. Announcements(g, p)' = Announcements(g, p) \cup {Len(outbox[f]) + 1}
        BY <1>8, <2>4
      <4> QED BY <2>1, <4>1, FS_AddElement, FS_CardinalityType
    <3> QED BY <2>2, <3>4, <3>5, <3>6, <3>7
  <2> QED BY <2>3, <2>4
<1>12. h \in Deciding(p)' /\ DecidedBy(p, h)'
  <2>1. h \in Deciding(p)'
    BY <1>3, <1>4
  <2>2. DecidedBy(p, h)'
    BY <1>4, <1>6, <1>7, <1>11 DEF DecidedBy
  <2> QED BY <2>1, <2>2
<1>13. ASSUME NEW q \in Promotions \ {p}
       PROVE  \/ promotions'[q] = Absent /\ \A g \in Festivals : Announcements(g, q)' = {}
              \/ \E n \in Deciding(q)' : DecidedBy(q, n)'
  <2>1. \A g \in Festivals : Announcements(g, q)' = Announcements(g, q)
    BY <1>8
  <2>2. Deciding(q)' = Deciding(q)
    BY <1>3, <1>4
  <2>3. \A n : DecidedBy(q, n) => DecidedBy(q, n)'
    BY <1>4, <1>6, <1>7, <2>1 DEF DecidedBy
  <2> QED BY <1>6, <2>1, <2>2, <2>3 DEF AnnouncedIsApproved
<1> QED BY <1>12, <1>13 DEF AnnouncedIsApproved

\* What has been decided stays decided, whatever arrives.
LEMMA DecidingStays ==
  ASSUME AppliedIsBehind, HandType, HandType', applied' = applied,
         \A n \in 1 .. Len(log) : log'[n] = log[n],
         Len(log) <= Len(log)', NEW p
  PROVE  Deciding(p) \subseteq Deciding(p)'
<1>1. /\ DOMAIN log = 1 .. Len(log) /\ DOMAIN log' = 1 .. Len(log)'
      /\ Len(log) \in Nat /\ Len(log)' \in Nat
  BY LenProperties DEF HandType
<1> QED BY <1>1 DEF Deciding, Consumer!Handled

\* The steps that put no promotion on file.
LEMMA OnceStep ==
  ASSUME OneFestivalEach
  PROVE  LogInv /\ LogInv' /\ AnnouncedIsApproved /\ [Next]_vars => AnnouncedIsApproved'
<1> SUFFICES ASSUME LogInv, LogInv', AnnouncedIsApproved, [Next]_vars
             PROVE  AnnouncedIsApproved'
  OBVIOUS
<1>0. /\ Len(log) \in Nat /\ HandType'
      /\ rows \in [Festivals -> Festival \cup {Absent}]
  BY LenProperties DEF LogInv, SyncInv, HandType, StoreType
<1>1. ASSUME UNCHANGED <<log, applied, promotions, outbox>>
      PROVE  AnnouncedIsApproved'
  <2>1. AnnouncementsStay /\ \A p \in Promotions : Deciding(p)' = Deciding(p)
    BY <1>1 DEF AnnouncementsStay, Announcements, Deciding, Consumer!Handled
  <2> QED BY <1>0, <1>1, <2>1, QuietAnnouncing
<1>2. ASSUME NEW r \in Replicas, Ignore(r) \/ SaveGame(r)
      PROVE  AnnouncedIsApproved'
  <2>1. /\ \E types : About(r, types)
        /\ Consumer!Apply(r)
        /\ promotions' = promotions /\ outbox' = outbox
    BY <1>2 DEF Ignore, SaveGame, Done, festivals, models
  <2>2. log' = log /\ \A p \in Promotions : Deciding(p) \subseteq Deciding(p)'
    BY <2>1, AppliedGrows
  <2>3. AnnouncementsStay
    BY <2>1 DEF AnnouncementsStay, Announcements
  <2> QED BY <1>0, <2>1, <2>2, <2>3, QuietAnnouncing
<1>3. ASSUME NEW r \in Replicas,
             LoadGame(r) \/ LoadFestival(r) \/ LoadPromotion(r)
      PROVE  AnnouncedIsApproved'
  BY <1>1, <1>3 DEF LoadGame, LoadFestival, LoadPromotion, Load, festivals, models, consumer
<1>4. ASSUME NEW r \in Replicas, InsertCollides(r) \/ Consume(r)
      PROVE  AnnouncedIsApproved'
  <2>1. log' = log /\ applied' = applied
    BY <1>4 DEF Consume, InsertCollides, Consumer!Join, Consumer!Crash, Consumer!Expire,
                Consumer!Poll, Consumer!HandlerRaises, Consumer!HandlerRefuses,
                Consumer!Raise, Consumer!DeadLetter, Consumer!DeadLetterFails,
                Consumer!GiveUp, Consumer!Commit, Consumer!CommitStale
  <2>2. promotions' = promotions /\ outbox' = outbox
    BY <1>4 DEF Consume, InsertCollides, festivals, models
  <2> QED BY <1>1, <2>1, <2>2
<1>5. ASSUME NEW r \in Replicas, SavePromotion(r)
      PROVE  AnnouncedIsApproved'
  BY <1>5, Announcing
<1>6. CASE Kafka
  <2>1. \A n \in 1 .. Len(log) : log'[n] = log[n]
    BY <1>6, KafkaHand DEF Kafka, LogInv, SyncInv
  <2>2. Len(log) <= Len(log)' /\ applied' = applied
    <3>1. CASE Consumer!Rebalance
      BY <1>0, <3>1 DEF Consumer!Rebalance
    <3>2. ASSUME NEW m \in Messages, Consumer!Publish(m)
          PROVE  Len(log) <= Len(log)' /\ applied' = applied
      <4>1. log \in Seq(Messages) /\ log' = Append(log, m)
        BY <3>2 DEF Consumer!Publish, LogInv, SyncInv, HandType
      <4>2. Len(log') = Len(log) + 1
        BY <4>1
      <4> QED BY <1>0, <3>2, <4>2 DEF Consumer!Publish, Consumer!group
    <3> QED BY <1>6, <3>1, <3>2 DEF Kafka
  <2>3. promotions' = promotions /\ AnnouncementsStay
    BY <1>6 DEF Kafka, festivals, models, AnnouncementsStay, Announcements
  <2>4. \A p \in Promotions : Deciding(p) \subseteq Deciding(p)'
    BY <1>0, <2>1, <2>2, DecidingStays DEF LogInv, SyncInv
  <2> QED BY <1>0, <2>1, <2>2, <2>3, <2>4, QuietAnnouncing
<1>7. CASE Admin
  <2>1. /\ AnnouncementsStay
        /\ UNCHANGED <<promotions, log, applied>>
    BY <1>7, UseCaseStep DEF Admin, models, consumer, LogInv, SyncInv
  <2>2. \A p \in Promotions : Deciding(p)' = Deciding(p)
    BY <2>1 DEF Deciding, Consumer!Handled
  <2> QED BY <1>0, <2>1, <2>2, QuietAnnouncing
<1>8. CASE UNCHANGED vars
  BY <1>1, <1>8 DEF vars, festivals, models, consumer
<1> QED BY <1>2, <1>3, <1>4, <1>5, <1>6, <1>7, <1>8 DEF Next

LEMMA OnceInit == Init => AnnouncedIsApproved
<1> SUFFICES ASSUME Init PROVE AnnouncedIsApproved
  OBVIOUS
<1>1. /\ promotions = [p \in Promotions |-> Absent]
      /\ outbox = [f \in Festivals |-> << >>]
  BY DEF Init, Aggregate!Init
<1>2. \A f \in Festivals, p \in Promotions : Announcements(f, p) = {}
  BY <1>1, EmptySeq DEF Announcements
<1> QED BY <1>1, <1>2 DEF AnnouncedIsApproved

LEMMA ApprovedOnce ==
  ASSUME LogInv, AnnouncedIsApproved
  PROVE  AnnouncedOncePerApproval
<1> SUFFICES ASSUME NEW f \in Festivals, NEW p \in Promotions
             PROVE  Cardinality(Announcements(f, p)) <= Cardinality(Approvals(f, p))
  BY DEF AnnouncedOncePerApproval
<1>1. /\ IsFiniteSet(Approvals(f, p))
      /\ Cardinality(Approvals(f, p)) \in Nat
  BY FiniteApprovals, FS_CardinalityType DEF LogInv, SyncInv
<1>2. CASE Announcements(f, p) = {}
  BY <1>1, <1>2, FS_EmptySet
<1>3. ASSUME NEW n \in Deciding(p), DecidedBy(p, n)
      PROVE  Cardinality(Announcements(f, p)) <= Cardinality(Approvals(f, p))
  <2>1. Cardinality(Announcements(f, p)) <= Cardinality(ApprovalsUpTo(f, p, n))
    BY <1>3 DEF DecidedBy
  <2>2. ApprovalsUpTo(f, p, n) \in SUBSET Approvals(f, p)
    BY DEF ApprovalsUpTo
  <2>3. Cardinality(ApprovalsUpTo(f, p, n)) <= Cardinality(Approvals(f, p))
    BY <1>1, <2>2, FS_Subset
  <2>4. Cardinality(ApprovalsUpTo(f, p, n)) \in Nat
    BY FiniteApprovals, FS_CardinalityType DEF LogInv, SyncInv
  <2>5. Cardinality(Announcements(f, p)) \in Nat
    <3>1. Len(outbox[f]) \in Nat /\ Announcements(f, p) \in SUBSET (1 .. Len(outbox[f]))
      BY LenProperties DEF LogInv, SyncInv, StoreType, Announcements
    <3>2. IsFiniteSet(1 .. Len(outbox[f]))
      BY <3>1, FS_Interval
    <3> QED BY <3>1, <3>2, FS_Subset, FS_CardinalityType
  <2> QED BY <1>1, <2>1, <2>3, <2>4, <2>5
<1> QED BY <1>2, <1>3 DEF AnnouncedIsApproved

\* "A duplicate PromotionApproved must not double-announce the same discount": as
\* long as one replica at a time has a message in hand, a discount is announced at
\* most once per approval, whatever is delivered, published, or run again, on the
\* same replica or on another, and whatever the Admins do to the festival in between.
THEOREM AnnouncedOnce ==
  ASSUME OneFestivalEach
  PROVE  Spec /\ []OneAtATime => []AnnouncedOncePerApproval
<1> DEFINE Inv == LogInv /\ AnnouncedIsApproved
<1>1. Inv /\ OneAtATime /\ [Next]_vars => Inv'
  BY LogStep, OnceStep
<1>2. Init => Inv
  BY LogInit, OnceInit
<1>3. Inv => AnnouncedOncePerApproval
  BY ApprovedOnce
<1> QED BY <1>1, <1>2, <1>3, PTL DEF Spec
=============================================================================
