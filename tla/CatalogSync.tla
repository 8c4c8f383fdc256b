----------------------------- MODULE CatalogSync -----------------------------
(***************************************************************************)
(* app/application/catalog_sync_service.py and the Handlers in front of it *)
(* (adapters/inbound/consumer.py): what the handlers of GameEventsConsumer *)
(* do to the read-models, while Admins change the festivals with the       *)
(* indivisible use cases of FestivalAggregate.                             *)
(*                                                                         *)
(* A handler runs in one transaction, at Postgres's READ COMMITTED: each   *)
(* statement sees what has been committed by then.  It loads rows without  *)
(* locking them, and writes and commits at the end.  SQLAlchemy sends an   *)
(* UPDATE for the columns that differ from what was loaded, and for no     *)
(* other.                                                                  *)
(*                                                                         *)
(* A message about a game is [kind, type, game, title], one about a        *)
(* promotion [kind, type, promotion, festival, game]; a title or a         *)
(* festival that the payload does not carry is Null.  Catalog's state of   *)
(* the promotion goes with the type.  Prices, dates and developers are     *)
(* left out.                                                               *)
(***************************************************************************)
EXTENDS FestivalDomain, FiniteSets

CONSTANTS
  Promotions,  \* promotion ids
  MaxVersion,  \* bound: the Admins leave a festival alone at this version
  \* of GameEventsConsumer
  Replicas, Messages, MaxRetries, Outages, MaxLog, MaxFaults, Nobody

VARIABLES
  \* of FestivalAggregate
  rows, outbox,
  \* of GameEventsConsumer
  log, committed, owner, stage, hand, stale, attempt, applied, dlq, given_up, faults,
  catalog,     \* catalog_games, by id
  promotions,  \* promotion_snapshots: the state on file, by id
  loaded       \* per replica, what its handler has loaded so far

Aggregate == INSTANCE FestivalAggregate
Consumer  == INSTANCE GameEventsConsumer

festivals == <<rows, outbox>>
models    == <<catalog, promotions>>
consumer  ==
  <<log, committed, owner, stage, hand, stale, attempt, applied, dlq, given_up, faults>>
vars      == <<festivals, models, consumer, loaded>>

GameTypes      == {"GamePublished", "GameWithdrawn", "GameRelisted", "GameUpdated"}
PromotionTypes ==
  {"PromotionProposed", "PromotionApproved", "PromotionRejected", "PromotionCancelled"}

StateIn(type) ==
  CASE type = "PromotionProposed"  -> "PENDING"
    [] type = "PromotionApproved"  -> "ACTIVE"
    [] type = "PromotionRejected"  -> "REJECTED"
    [] type = "PromotionCancelled" -> "CANCELLED"

PromotionStates == {"PENDING", "ACTIVE", "REJECTED", "CANCELLED"}

\* The title of a game that no event has named yet is "".
Titles == {"", "old", "new"}
Game   == [title : Titles, published : BOOLEAN]

GameMessages ==
  [kind : {"known"}, type : GameTypes, game : Games, title : Titles \cup {Null}]
PromotionMessages ==
  [kind : {"known"}, type : PromotionTypes, promotion : Promotions,
   festival : Festivals \cup {Null}, game : Games]

\* What has no handler, or a handler that fails, may look like anything.  Only for
\* GameUpdated is no title in the payload another thing than the title "".
ASSUME SyncAssumption ==
  /\ Absent \notin Game
  /\ Absent \notin PromotionStates
  /\ \A m \in Messages :
       /\ m.kind \in Consumer!Kinds
       /\ m.kind = "known" => m \in GameMessages \cup PromotionMessages
       /\ m \in GameMessages /\ m.title = Null => m.type = "GameUpdated"

\* The bounds, and what may go wrong, are those of GameEventsConsumer.
ASSUME LoopAssumption ==
  /\ MaxRetries \in Nat
  /\ Outages \subseteq {"crash", "rebalance", "database", "dead_letter"}
  /\ MaxLog \in Nat
  /\ MaxFaults \in Nat
  /\ Nobody \notin Replicas

\* The payload of DiscountApplied.
DiscountApplied(m) ==
  [type |-> "DiscountApplied", promotion |-> m.promotion, game |-> m.game]

\* What a handler has loaded: nothing yet; the row its get returned; for a
\* promotion the festival's games first, then the promotion on file.
Nothing == [step |-> "start"]

Loads ==
       [step : {"start"}]
  \cup [step : {"game"}, row : Game \cup {Absent}]
  \cup [step : {"festival"}, games : SUBSET Games]
  \cup [step : {"promotion"}, games : SUBSET Games, previous : PromotionStates \cup {Absent}]

Init ==
  /\ Aggregate!Init
  /\ Consumer!Init
  /\ catalog    = [g \in Games |-> Absent]
  /\ promotions = [p \in Promotions |-> Absent]
  /\ loaded     = [r \in Replicas |-> Nothing]

-----------------------------------------------------------------------------
(* Handlers *)

InHand(r) == log[hand[r]]

About(r, types) ==
  /\ stage[r] = "handling"
  /\ InHand(r).kind = "known"
  /\ InHand(r).type \in types

Load(r, what) ==
  /\ loaded' = [loaded EXCEPT ![r] = what]
  /\ UNCHANGED <<festivals, models, consumer>>

\* The handler returns, and with it the transaction commits.
Done(r) ==
  /\ Consumer!Apply(r)
  /\ loaded' = [loaded EXCEPT ![r] = Nothing]

\* What an upsert writes into a column: nothing, if the value is the one loaded.
Column(value, was, now) == IF value = was THEN now ELSE value

\* Nothing to record: no title, no festival, or none that this service knows.
Ignorable(m) ==
  \/ m.type = "GameUpdated" /\ m.title = Null
  \/ m.type \in PromotionTypes /\ (IF m.festival = Null THEN TRUE ELSE rows[m.festival] = Absent)

Ignore(r) ==
  /\ About(r, GameTypes \cup PromotionTypes)
  /\ loaded[r].step = "start"
  /\ Ignorable(InHand(r))
  /\ Done(r)
  /\ UNCHANGED <<festivals, models>>

\* The first get of the game's row: the handler's, or in game_published upsert's.
LoadGame(r) ==
  /\ About(r, GameTypes)
  /\ loaded[r].step = "start"
  /\ ~Ignorable(InHand(r))
  /\ Load(r, [step |-> "game", row |-> catalog[InHand(r).game]])

\* Mutant: a game nobody has named gets no title at all.
SnapshotUntitled(m, existing) ==
  [title     |-> IF m.type \in {"GamePublished", "GameUpdated"} THEN m.title
                 ELSE IF existing # Absent THEN existing.title ELSE Null,
   published |-> CASE m.type \in {"GamePublished", "GameRelisted"} -> TRUE
                   [] m.type = "GameWithdrawn"                     -> FALSE
                   [] OTHER -> IF existing = Absent THEN FALSE ELSE existing.published]

\* The snapshot each handler builds from the message and the row it has loaded.
Snapshot(m, existing) ==
  [title     |-> IF m.type \in {"GamePublished", "GameUpdated"} THEN m.title
                 ELSE IF existing # Absent THEN existing.title ELSE "",
   published |-> CASE m.type \in {"GamePublished", "GameRelisted"} -> TRUE
                   [] m.type = "GameWithdrawn"                     -> FALSE
                   [] OTHER -> IF existing = Absent THEN FALSE ELSE existing.published]

\* Mutant: the row becomes the snapshot, with a title or without.
UpsertedGameBlank(m, existing, row) == Snapshot(m, existing)

\* PostgresCatalogGameRepository.upsert: its own get finds the loaded row again,
\* or looks anew if there was none.
UpsertedGame(m, existing, row) ==
  LET snapshot == Snapshot(m, existing)
      was      == IF existing = Absent THEN row ELSE existing IN
  IF row = Absent THEN snapshot
  ELSE [title     |-> Column(IF snapshot.title = "" THEN was.title ELSE snapshot.title,
                             was.title, row.title),
        published |-> Column(snapshot.published, was.published, row.published)]

SaveGame(r) ==
  LET m == InHand(r) IN
  /\ About(r, GameTypes)
  /\ loaded[r].step = "game"
  /\ catalog' = [catalog EXCEPT ![m.game] = UpsertedGame(m, loaded[r].row, @)]
  /\ Done(r)
  /\ UNCHANGED <<festivals, promotions>>

\* _festivals.get: no lock, unlike in FestivalService.
LoadFestival(r) ==
  /\ About(r, PromotionTypes)
  /\ loaded[r].step = "start"
  /\ ~Ignorable(InHand(r))
  /\ Load(r, [step |-> "festival", games |-> rows[InHand(r).festival].games])

LoadPromotion(r) ==
  /\ About(r, PromotionTypes)
  /\ loaded[r].step = "festival"
  /\ Load(r, [step |-> "promotion", games |-> loaded[r].games,
              previous |-> promotions[InHand(r).promotion]])

\* Mutants: the promotion on file is not looked at; nor are the festival's games.
NewlyActiveAgain(m, seen) ==
  m.type = "PromotionApproved" /\ m.game \in seen.games
NewlyActiveAnywhere(m, seen) ==
  m.type = "PromotionApproved" /\ seen.previous # "ACTIVE"

NewlyActive(m, seen) ==
  /\ m.type = "PromotionApproved"
  /\ m.game \in seen.games
  /\ seen.previous # "ACTIVE"

\* upsert and enqueue.
SavePromotion(r) ==
  LET m == InHand(r) seen == loaded[r] IN
  /\ About(r, PromotionTypes)
  /\ seen.step = "promotion"
  /\ promotions' = [promotions EXCEPT ![m.promotion] =
       IF seen.previous = Absent THEN StateIn(m.type)
       ELSE Column(StateIn(m.type), seen.previous, @)]
  /\ outbox' = IF NewlyActive(m, seen)
               THEN [outbox EXCEPT ![m.festival] = Append(@, DiscountApplied(m))]
               ELSE outbox
  /\ Done(r)
  /\ UNCHANGED <<rows, catalog>>

\* The upsert has looked for the row before another replica inserted it.
Overtaken(r) ==
  LET m == InHand(r) IN
  \/ About(r, PromotionTypes) /\ loaded[r].step = "promotion"
     /\ loaded[r].previous = Absent /\ promotions[m.promotion] # Absent
  \/ About(r, GameTypes) /\ loaded[r].step = "game"
     /\ loaded[r].row = Absent /\ catalog[m.game] # Absent

\* Mutant: the handler that runs again goes on with what it had loaded.
InsertCollidesAgain(r) ==
  /\ Overtaken(r)
  /\ Consumer!Raise(r)
  /\ UNCHANGED <<festivals, models, loaded, faults>>

\* Its INSERT raises an IntegrityError, everything rolls back and the handler runs
\* again.
InsertCollides(r) ==
  /\ Overtaken(r)
  /\ Consumer!Raise(r)
  /\ loaded' = [loaded EXCEPT ![r] = Nothing]
  /\ UNCHANGED <<festivals, models, faults>>

-----------------------------------------------------------------------------
(* The rest of the consumer, and the Admins *)

\* Whatever ends or repeats a handler's run rolls its transaction back.
Consume(r) ==
  /\ \/ Consumer!Join(r) \/ Consumer!Crash(r) \/ Consumer!Expire(r)
     \/ Consumer!Poll(r)
     \/ Consumer!HandlerRaises(r) \/ Consumer!HandlerRefuses(r)
     \/ Consumer!DeadLetter(r) \/ Consumer!DeadLetterFails(r) \/ Consumer!GiveUp(r)
     \/ Consumer!Commit(r) \/ Consumer!CommitStale(r)
  /\ loaded' = [loaded EXCEPT ![r] = Nothing]
  /\ UNCHANGED <<festivals, models>>

Kafka ==
  /\ (\E m \in Messages : Consumer!Publish(m)) \/ Consumer!Rebalance
  /\ UNCHANGED <<festivals, models, loaded>>

\* The use cases, as FestivalService implements them (ImplementsAggregate); a game
\* they add is in the catalog, published or not any more (ListedGamesAreKnown).
Admin ==
  /\ \A f \in Festivals : rows[f] # Absent => rows[f].version < MaxVersion
  /\ Aggregate!Next
  /\ \A f \in Festivals : rows'[f] # Absent => \A g \in rows'[f].games : catalog[g] # Absent
  /\ UNCHANGED <<models, consumer, loaded>>

Next ==
  \/ \E r \in Replicas :
       \/ Ignore(r)
       \/ LoadGame(r) \/ SaveGame(r)
       \/ LoadFestival(r) \/ LoadPromotion(r) \/ SavePromotion(r)
       \/ InsertCollides(r)
       \/ Consume(r)
  \/ Kafka
  \/ Admin

Spec == Init /\ [][Next]_vars

-----------------------------------------------------------------------------
(* Properties *)

\* The read-models hold rows the tables can hold, none of whose columns is NULL, and
\* the handlers what they can load.
TypeOK ==
  /\ catalog    \in [Games -> Game \cup {Absent}]
  /\ promotions \in [Promotions -> PromotionStates \cup {Absent}]
  /\ loaded     \in [Replicas -> Loads]

Announcements(f, p) ==
  {i \in DOMAIN outbox[f] : outbox[f][i].type = "DiscountApplied" /\ outbox[f][i].promotion = p}

\* The messages about p and f, and those of them that approve p anew: the one
\* before does not approve it already.
AboutPromotion(f, p) ==
  {n \in DOMAIN log : log[n].type \in PromotionTypes /\ log[n].promotion = p /\ log[n].festival = f}

Approvals(f, p) ==
  LET about == AboutPromotion(f, p)
      Approved(n) == log[n].type = "PromotionApproved" IN
  {n \in about :
     /\ Approved(n)
     /\ \A k \in about : k < n /\ Approved(k) =>
          \E i \in about : k < i /\ i < n /\ ~Approved(i)}

\* "Kafka delivers at least once.  A duplicate PromotionApproved must not double-
\* announce the same discount": neither a redelivery after a crash or a failed
\* commit nor a second copy in the log announces an approval again.
AnnouncedOncePerApproval ==
  \A f \in Festivals, p \in Promotions :
    Cardinality(Announcements(f, p)) <= Cardinality(Approvals(f, p))

\* A discount is announced only for a game that has been selected, and been told
\* to be, before; "a stray promotion naming this festival_id" is not.
AnnouncedWasSelected ==
  \A f \in Festivals, p \in Promotions : \A i \in Announcements(f, p) :
    \E j \in 1 .. i - 1 : outbox[f][j] = GameAddedEvent(outbox[f][i].game)

\* The messages that have been applied: about a game; those of them that name it;
\* those that put it on sale or take it off; and those that decide on a promotion.
AppliedAbout(g) ==
  {n \in DOMAIN log : Consumer!Handled(n) /\ log[n].type \in GameTypes /\ log[n].game = g /\ log[n].title # Null}
Naming(g) ==
  {n \in AppliedAbout(g) : log[n].type \in {"GamePublished", "GameUpdated"} /\ log[n].title # ""}
Selling(g) == {n \in AppliedAbout(g) : log[n].type # "GameUpdated"}
Deciding(p) ==
  {n \in DOMAIN log : Consumer!Handled(n) /\ log[n].type \in PromotionTypes /\ log[n].promotion = p /\ log[n].festival # Null}

\* The last of them in the order of the log.
Latest(ns) == CHOOSE n \in ns : \A k \in ns : k <= n

SaidTitle(g)     == IF Naming(g) = {} THEN "" ELSE log[Latest(Naming(g))].title
SaidPublished(g) == IF Selling(g) = {} THEN FALSE ELSE log[Latest(Selling(g))].type # "GameWithdrawn"

\* Each read-model row is what the latest message about it says, and the title of
\* a game the latest that any message gave it: handlers that run again after a
\* crash or a failure, half-done ones included, leave no trace.
ReadModelsFollowLog ==
  /\ \A g \in Games :
       catalog[g] = IF AppliedAbout(g) = {} THEN Absent
                    ELSE [title |-> SaidTitle(g), published |-> SaidPublished(g)]
  /\ \A p \in Promotions : promotions[p] # Absent =>
       promotions[p] = StateIn(log[Latest(Deciding(p))].type)

\* Two replicas that insert the same row get in each other's way once: of the
\* attempts at a message, a collision uses up one at most.  What is buried although
\* its handler would have succeeded alone has met as many faults as there are retries.
CollisionsBuryNothing == \A n \in dlq : log[n].kind = "known" => MaxRetries <= faults
=============================================================================
