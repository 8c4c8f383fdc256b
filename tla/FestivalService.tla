--------------------------- MODULE FestivalService ---------------------------
(***************************************************************************)
(* app/application/festival_service.py over the tables and transactions of *)
(* app/adapters/outbound/repositories.py and app/platform/db.py: requests  *)
(* of several Admins, on several replicas, run the use cases at once.      *)
(*                                                                         *)
(* A request goes through these stages.                                    *)
(*   received   the handler runs, no connection is held                    *)
(*   prepared   (start only) the audience is known                         *)
(*   begun      a transaction is open                                      *)
(*   locked     it holds the festival's row lock and its copy of the row   *)
(*   committed  the change and its event are durable, the answer is not    *)
(*              read yet                                                   *)
(* and rests when it is answered: ok, refused (4xx) or failed (5xx, or the *)
(* replica died and nobody answered).  A client may send anything again.   *)
(***************************************************************************)
EXTENDS FestivalDomain, FiniteSets

CONSTANTS
  Requests,          \* the request slots of all replicas
  PoolSize,          \* connections: db_pool_size + max_overflow, all replicas
  DirectoryAnswers,  \* what auth-profile-service may answer
  MaxVersion         \* bound: no call for a festival at this version

Answers == {"ids", "timeout", "unreachable", "refused", "not_a_list", "not_json", "no_token"}

\* What a client asks, with the `now` its handler took and the audience a start
\* has looked up so far.
Calls ==
       [op : {"create", "reschedule"}, festival : Festivals, window : Windows, now : Time]
  \cup [op : {"add_game", "remove_game"}, festival : Festivals, game : Games]
  \cup [op : {"start"}, festival : Festivals, now : Time, audience : Audience \cup {Null}]
  \cup [op : {"end", "cancel"}, festival : Festivals, now : Time]

ASSUME ServiceAssumption ==
  /\ PoolSize \in Nat \ {0}
  /\ DirectoryAnswers \subseteq Answers
  /\ Null \notin Requests
  /\ Null \notin Calls
  /\ Null \notin Audience

VARIABLES
  rows,     \* festivals and festival_games: one record, or Absent, per id
  outbox,   \* per festival, the events enqueued about it, oldest first
  catalog,  \* catalog_games: what the service knows of each game
  clock,    \* SystemClock.now()
  lock,     \* per festival, the request whose transaction holds its row lock
  stage,    \* how far each request is
  call,     \* what each request asks, and the `now` it took on arrival
  copy      \* the Festival a request has loaded under the lock

tables == <<rows, outbox>>
vars   == <<rows, outbox, catalog, clock, lock, stage, call, copy>>

Resting == {"idle", "ok", "refused", "failed"}
Stages  == Resting \cup {"received", "prepared", "begun", "locked", "committed"}
Known   == {"unknown", "withdrawn", "published"}

-----------------------------------------------------------------------------
Init ==
  /\ rows    = [f \in Festivals |-> Absent]
  /\ outbox  = [f \in Festivals |-> << >>]
  /\ catalog = [g \in Games |-> "unknown"]
  /\ clock \in Time
  /\ lock    = [f \in Festivals |-> Null]
  /\ stage   = [r \in Requests |-> "idle"]
  /\ call    = [r \in Requests |-> Null]
  /\ copy    = [r \in Requests |-> Null]

\* The connections in use: a transaction keeps one from its first statement on.
InUse    == {r \in Requests : stage[r] \in {"begun", "locked"}}
PoolFree == Cardinality(InUse) < PoolSize

\* A transaction that ends, either way, gives up its row lock; a request that
\* rests keeps nothing.
Unlock(r) == lock' = [f \in Festivals |-> IF lock[f] = r THEN Null ELSE lock[f]]

Rest(r, how) ==
  /\ stage' = [stage EXCEPT ![r] = how]
  /\ call'  = [call EXCEPT ![r] = Null]
  /\ copy'  = [copy EXCEPT ![r] = Null]

-----------------------------------------------------------------------------
(* Arrival *)

\* uuid4: an id nobody has seen.
Fresh(f) == rows[f] = Absent /\ \A r \in Requests : call[r] = Null \/ call[r].festival # f

Arrivals ==
  {c \in Calls :
     /\ c.op = "create" => Fresh(c.festival)
     /\ rows[c.festival] # Absent => rows[c.festival].version < MaxVersion
     /\ "now" \in DOMAIN c => c.now = clock
     /\ "audience" \in DOMAIN c => c.audience = Null}

Receive(r) ==
  /\ stage[r] \in Resting
  /\ \E c \in Arrivals : call' = [call EXCEPT ![r] = c]
  /\ stage' = [stage EXCEPT ![r] = "received"]
  /\ UNCHANGED <<tables, catalog, clock, lock, copy>>

-----------------------------------------------------------------------------
(* start asks for its audience before it opens a transaction. *)

\* active_user_ids: what the lookup returns for an answer it copes with.
AudienceFor(answer) == IF answer = "ids" THEN "active_users" ELSE "nobody"

\* jwt.encode with an algorithm the shared secret does not fit, and
\* response.json() on a body that is not JSON, raise something the lookup does
\* not catch.
Raises == {"no_token", "not_json"}

LookupAudience(r) ==
  /\ stage[r] = "received"
  /\ call[r].op = "start"
  /\ \E answer \in DirectoryAnswers \ Raises :
       call' = [call EXCEPT ![r] = [@ EXCEPT !.audience = AudienceFor(answer)]]
  /\ stage' = [stage EXCEPT ![r] = "prepared"]
  /\ UNCHANGED <<tables, catalog, clock, lock, copy>>

LookupRaises(r) ==
  /\ stage[r] = "received"
  /\ call[r].op = "start"
  /\ DirectoryAnswers \cap Raises # {}
  /\ Rest(r, "failed")
  /\ UNCHANGED <<tables, catalog, clock, lock>>

-----------------------------------------------------------------------------
(* create: checked before the transaction, which only inserts. *)

CreateFestival(r) ==
  LET c == call[r] f == c.festival IN
  /\ stage[r] = "received"
  /\ c.op = "create"
  /\ ValidWindow(c.window, c.now)
  /\ PoolFree
  /\ rows'   = [rows EXCEPT ![f] = Created(c.window, c.now)]
  /\ outbox' = [outbox EXCEPT ![f] = Append(@, CreatedEvent(c.window))]
  /\ stage'  = [stage EXCEPT ![r] = "committed"]
  /\ UNCHANGED <<catalog, clock, lock, call, copy>>

RejectCreate(r) ==
  /\ stage[r] = "received"
  /\ call[r].op = "create"
  /\ ~ValidWindow(call[r].window, call[r].now)
  /\ Rest(r, "refused")
  /\ UNCHANGED <<tables, catalog, clock, lock>>

-----------------------------------------------------------------------------
(* The other use cases: open a transaction, lock the row, change it, save. *)

Begin(r) ==
  /\ \/ stage[r] = "received" /\ call[r].op \in {"reschedule", "remove_game", "end", "cancel"}
     \/ stage[r] = "prepared"
  /\ PoolFree
  /\ stage' = [stage EXCEPT ![r] = "begun"]
  /\ UNCHANGED <<tables, catalog, clock, lock, call, copy>>

\* Mutant: add_game refuses a game it knows to be withdrawn, and no other.
CheckGameWithdrawn(r) ==
  /\ stage[r] = "received"
  /\ call[r].op = "add_game"
  /\ PoolFree
  /\ catalog[call[r].game] # "withdrawn"
  /\ stage' = [stage EXCEPT ![r] = "begun"]
  /\ UNCHANGED <<tables, catalog, clock, lock, call, copy>>

\* add_game reads the catalog first, without a lock on anything.
CheckGame(r) ==
  /\ stage[r] = "received"
  /\ call[r].op = "add_game"
  /\ PoolFree
  /\ catalog[call[r].game] = "published"
  /\ stage' = [stage EXCEPT ![r] = "begun"]
  /\ UNCHANGED <<tables, catalog, clock, lock, call, copy>>

RejectGame(r) ==
  /\ stage[r] = "received"
  /\ call[r].op = "add_game"
  /\ PoolFree
  /\ catalog[call[r].game] # "published"
  /\ Rest(r, "refused")
  /\ UNCHANGED <<tables, catalog, clock, lock>>

\* Mutant: get instead of get_for_update, so two requests load the same version.
LockRowPlain(r) ==
  LET f == call[r].festival IN
  /\ stage[r] = "begun"
  /\ rows[f] # Absent
  /\ lock'  = [lock EXCEPT ![f] = r]
  /\ copy'  = [copy EXCEPT ![r] = rows[f]]
  /\ stage' = [stage EXCEPT ![r] = "locked"]
  /\ UNCHANGED <<tables, catalog, clock, call>>

\* get_for_update: waits for the row lock, then reads the row and its games.
LockRow(r) ==
  LET f == call[r].festival IN
  /\ stage[r] = "begun"
  /\ rows[f] # Absent
  /\ lock[f] = Null
  /\ lock'  = [lock EXCEPT ![f] = r]
  /\ copy'  = [copy EXCEPT ![r] = rows[f]]
  /\ stage' = [stage EXCEPT ![r] = "locked"]
  /\ UNCHANGED <<tables, catalog, clock, call>>

FestivalNotFound(r) ==
  /\ stage[r] = "begun"
  /\ rows[call[r].festival] = Absent
  /\ Rest(r, "refused")
  /\ UNCHANGED <<tables, catalog, clock, lock>>

\* Mutant: the answer is read within the transaction, in a session of its own, so
\* that a second connection is waited for with the row locked.
CommitReadsBack(r, fest, events) ==
  LET f == call[r].festival IN
  /\ PoolFree
  /\ rows'   = [rows EXCEPT ![f] = [fest EXCEPT !.version = @ + 1]]
  /\ outbox' = [outbox EXCEPT ![f] = @ \o events]
  /\ stage'  = [stage EXCEPT ![r] = "committed"]
  /\ copy'   = [copy EXCEPT ![r] = Null]
  /\ Unlock(r)
  /\ UNCHANGED <<catalog, clock, call>>

\* save and enqueue, then the commit that ends the transaction.  save compares
\* the version it loaded with the row of the same session, which is the object
\* it was loaded from: nothing but the lock stands between two writers.
Commit(r, fest, events) ==
  LET f == call[r].festival IN
  /\ rows'   = [rows EXCEPT ![f] = [fest EXCEPT !.version = @ + 1]]
  /\ outbox' = [outbox EXCEPT ![f] = @ \o events]
  /\ stage'  = [stage EXCEPT ![r] = "committed"]
  /\ copy'   = [copy EXCEPT ![r] = Null]
  /\ Unlock(r)
  /\ UNCHANGED <<catalog, clock, call>>

Holds(r, op) == stage[r] = "locked" /\ call[r].op = op

\* Mutant: reschedule checks the window and forgets the state.
RescheduleRunning(r) ==
  /\ Holds(r, "reschedule")
  /\ ValidWindow(call[r].window, call[r].now)
  /\ Commit(r, Rescheduled(copy[r], call[r].window), << >>)

Reschedule(r) ==
  /\ Holds(r, "reschedule")
  /\ CanReschedule(copy[r], call[r].window, call[r].now)
  /\ Commit(r, Rescheduled(copy[r], call[r].window), << >>)

AddGame(r) ==
  /\ Holds(r, "add_game")
  /\ CanAddGame(copy[r], call[r].game)
  /\ Commit(r, WithGame(copy[r], call[r].game), <<GameAddedEvent(call[r].game)>>)

RemoveGame(r) ==
  /\ Holds(r, "remove_game")
  /\ CanRemoveGame(copy[r], call[r].game)
  /\ Commit(r, WithoutGame(copy[r], call[r].game), <<GameRemovedEvent(call[r].game)>>)

Start(r) ==
  /\ Holds(r, "start")
  /\ CanStart(copy[r])
  /\ Commit(r, Started(copy[r], call[r].now), <<StartedEvent(copy[r], call[r].audience)>>)

End(r) ==
  /\ Holds(r, "end")
  /\ CanEnd(copy[r])
  /\ Commit(r, Ended(copy[r], call[r].now), <<EndedEvent>>)

Cancel(r) ==
  /\ Holds(r, "cancel")
  /\ CanCancel(copy[r])
  /\ Commit(r, Cancelled(copy[r], call[r].now), <<CancelledEvent>>)

\* The aggregate's method raises: the transaction rolls back.
Allowed(c, fest) ==
  CASE c.op = "reschedule"  -> CanReschedule(fest, c.window, c.now)
    [] c.op = "add_game"    -> CanAddGame(fest, c.game)
    [] c.op = "remove_game" -> CanRemoveGame(fest, c.game)
    [] c.op = "start"       -> CanStart(fest)
    [] c.op = "end"         -> CanEnd(fest)
    [] c.op = "cancel"      -> CanCancel(fest)

Refuse(r) ==
  /\ stage[r] = "locked"
  /\ ~Allowed(call[r], copy[r])
  /\ Rest(r, "refused")
  /\ Unlock(r)
  /\ UNCHANGED <<tables, catalog, clock>>

\* _detail: the answer is read in a session of its own, after the commit.
Detail(r) ==
  /\ stage[r] = "committed"
  /\ PoolFree
  /\ Rest(r, IF rows[call[r].festival] = Absent THEN "refused" ELSE "ok")
  /\ UNCHANGED <<tables, catalog, clock, lock>>

-----------------------------------------------------------------------------
(* What goes wrong, and what the rest of the world does. *)

\* Postgres drops the connection, or the replica dies: an open transaction rolls
\* back; a change that is committed stays, and its client does not learn of it.
Abort(r) ==
  /\ stage[r] \in {"begun", "locked", "committed"}
  /\ Rest(r, "failed")
  /\ Unlock(r)
  /\ UNCHANGED <<tables, catalog, clock>>

\* QueuePool gives up on a request that waits for a connection.
WaitsForConnection(r) ==
  \/ stage[r] \in {"prepared", "committed"}
  \/ /\ stage[r] = "received"
     /\ call[r].op # "start"
     /\ call[r].op = "create" => ValidWindow(call[r].window, call[r].now)

PoolTimeout(r) ==
  /\ WaitsForConnection(r)
  /\ ~PoolFree
  /\ Rest(r, "failed")
  /\ UNCHANGED <<tables, catalog, clock, lock>>

\* CatalogSyncService records what game-events say of a game.
GameEvent(g) ==
  /\ \E known \in {"published", "withdrawn"} :
       catalog[g] # known /\ catalog' = [catalog EXCEPT ![g] = known]
  /\ UNCHANGED <<tables, clock, lock, stage, call, copy>>

Tick ==
  /\ clock + 1 \in Time
  /\ clock' = clock + 1
  /\ UNCHANGED <<tables, catalog, lock, stage, call, copy>>

Write(r) ==
  \/ Reschedule(r) \/ AddGame(r) \/ RemoveGame(r) \/ Start(r) \/ End(r) \/ Cancel(r)

Next ==
  \/ \E r \in Requests :
       \/ Receive(r)
       \/ LookupAudience(r) \/ LookupRaises(r)
       \/ CreateFestival(r) \/ RejectCreate(r)
       \/ Begin(r) \/ CheckGame(r) \/ RejectGame(r)
       \/ LockRow(r) \/ FestivalNotFound(r)
       \/ Write(r) \/ Refuse(r)
       \/ Detail(r)
       \/ Abort(r) \/ PoolTimeout(r)
  \/ \E g \in Games : GameEvent(g)
  \/ Tick

Spec == Init /\ [][Next]_vars

\* What takes a request one stage further.
Proceed(r) ==
  \/ LookupAudience(r) \/ LookupRaises(r)
  \/ CreateFestival(r) \/ RejectCreate(r)
  \/ Begin(r) \/ CheckGame(r) \/ RejectGame(r)
  \/ LockRow(r) \/ FestivalNotFound(r)
  \/ Write(r) \/ Refuse(r)
  \/ Detail(r)

\* A handler that can go on does: asyncio runs what is ready, httpx times out,
\* and both Postgres's lock queue and QueuePool serve whoever waits in turn,
\* hence strong fairness where others can come between.  Nothing makes a client
\* call, a game event arrive, or anything break, a pool's timeout included.
Fairness == \A r \in Requests : SF_vars(Proceed(r))

FairSpec == Spec /\ Fairness

-----------------------------------------------------------------------------
(* Properties *)

\* Every table and every request stays well formed.  rows' Window is the check
\* constraint of the festivals table: no INSERT or UPDATE the service sends may
\* be refused by it.
TypeOK ==
  /\ rows    \in [Festivals -> Festival \cup {Absent}]
  /\ outbox  \in [Festivals -> Seq(Events)]
  /\ catalog \in [Games -> Known]
  /\ clock   \in Time
  /\ lock    \in [Festivals -> Requests \cup {Null}]
  /\ stage   \in [Requests -> Stages]
  /\ call    \in [Requests -> Calls \cup {Null}]
  /\ copy    \in [Requests -> Festival \cup {Null}]

\* The transaction that is about to write holds the row lock, and what it loaded
\* is still what the table holds: no read-modify-write of the row or its games
\* is lost, and save's version check has nothing left to catch.
LockedCopyIsCurrent ==
  /\ \A r \in Requests : stage[r] = "locked" =>
       /\ lock[call[r].festival] = r
       /\ copy[r] = rows[call[r].festival]
       /\ copy[r] # Absent
  /\ \A f \in Festivals : lock[f] # Null =>
       stage[lock[f]] = "locked" /\ call[lock[f]].festival = f

\* models.py: "two admins acting on the same festival at once cannot both write
\* the same version".
WritesNextVersion(f) ==
  rows[f] # Absent /\ rows'[f] # rows[f] => rows'[f].version = rows[f].version + 1

VersionsAreWrittenOnce == [][\A f \in Festivals : WritesNextVersion(f)]_vars

\* The check of the catalog is made before the row lock and is old when the game
\* is written, yet a festival never lists a game the read-model has no row for.
ListedGamesAreKnown ==
  \A f \in Festivals : rows[f] # Absent => \A g \in rows[f].games : catalog[g] # "unknown"

\* Every interleaving of the staged requests is, seen from the tables, a
\* sequence of indivisible use cases.
Aggregate == INSTANCE FestivalAggregate WITH rows <- rows, outbox <- outbox

ImplementsAggregate == Aggregate!Spec

\* No request waits forever for a row lock or a connection, not even where the
\* pool's timeout never comes to help.  Transactions that wait for the lock may
\* hold every connection there is, while others wait for one: the lock's owner
\* needs no second connection to finish.
EveryRequestAnswered ==
  \A r \in Requests : stage[r] \notin Resting ~> stage[r] \in Resting
=============================================================================
