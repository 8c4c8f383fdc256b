# A verification development for festival-service

TLA+ models of festival-service, TLC configurations that model-check them on
small instances, and TLAPS proofs for every size of instance. Paths are relative
to the repository, which is under `src/` here (`app/...` is `src/app/...`).

The service lets Admins run *festivals*: a festival is created as a DRAFT, gets
games from the catalog, is started (which announces it to an audience), and is
ended or cancelled. It runs as several replicas. Each replica has HTTP handlers,
one outbox Dispatcher and one Kafka consumer, on one Postgres database.

## 1. Inventory

| component | code | state | operations |
|---|---|---|---|
| Festival aggregate | `app/domain/festival.py` | state, games, window, time stamps, version | create, reschedule, add_game, remove_game, start, end, cancel |
| Use cases | `app/application/festival_service.py` | none of its own: what a handler has read before it writes | the same seven, plus get and list |
| Tables and locks | `app/adapters/outbound/repositories.py`, `models.py` | `festivals`, `festival_games`, row locks | add, get, get_for_update, save, list |
| Unit of work, pool | `app/platform/db.py` | open transactions, pooled connections | begin, read, commit, rollback |
| User directory client | `app/adapters/outbound/auth_profile.py` | none | active_user_ids |
| Catalog sync | `app/application/catalog_sync_service.py`, `app/adapters/inbound/consumer.py` | `catalog_games`, `promotion_snapshots` | one handler per event type, upsert |
| Kafka consumer | `app/platform/kafka.py` | the message in hand, its attempts, the group's offset | start, stop, loop, retry, dead-letter, commit |
| Outbox | `app/platform/outbox.py` | `outbox_messages`, the batch a Dispatcher holds | enqueue, drain_once, backlog |
| Producer, envelope | `app/platform/kafka.py`, `events.py` | none | send, encode, decode, partition_key |
| Cache | `app/platform/cache.py` | in Redis: pages of the list and details, each with a TTL | get_or_set; nothing drops a page |
| REST edge, authentication | `app/adapters/inbound/rest`, `app/platform/http.py`, `auth.py`, `errors.py` | none | reject input, verify the token, ask for a role, answer with a status |
| Migrations | `app/platform/migrate.py` | `schema_migrations`, an advisory lock | run |
| Lifespan | `app/bootstrap.py` | what a replica has started | migrate, start the parts in order, serve, stop them in reverse |
| Money, health, logging, configuration | `app/platform/*` | none | compute, report, format |

How they interact:

- A handler calls a use case. The use case opens a unit of work, takes the
  festival's row lock (`SELECT ... FOR UPDATE`), calls the aggregate, saves, and
  enqueues an event **in the same transaction**. The answer is read back in a
  session of its own, after the commit.
- `start` calls auth-profile-service over HTTP *before* its transaction, `add_game`
  reads `catalog_games` in its transaction but before the row lock.
- Dispatchers move committed outbox rows to the topic `festival-events`, keyed by
  festival.
- The consumer reads `game-events` and calls catalog sync, which writes the
  read-models and may enqueue `DiscountApplied`. It reads festivals without a lock.
- Reads go through the cache, list and detail alike. Writes go past it, and drop
  nothing from it.
- A replica boots in this order: migrate, producer, topics, Dispatcher, consumer,
  serve. It stops the consumer first and the producer last.

What is hard, and what makes each part correct:

| part | hard behaviour | correct means |
|---|---|---|
| Use cases, tables | several writers of one row; save's version check compares a row with the object it was loaded from, so the row lock carries everything; reads before the lock; client retries; the pool | no lost update; the tables only ever see indivisible use cases; row and event agree; every request ends |
| Aggregate | long sequences of legal calls | the events about a festival are a story that adds up to its row |
| Outbox | several Dispatchers, crashes between send and commit, lost acknowledgements, outages | nothing uncommitted is sent; everything committed that has an attempt left is sent; twice only after a fault; order per festival |
| Consumer | crashes, rebalances in mid-handler, failing handlers, failing dead-letter topic | no offset passes an unsettled message; every message is settled in the end |
| Catalog sync | redelivery, unlocked read-modify-write, Admins in between | read-models are what the log says; one announcement per approval, of a selected game |
| Edge, cache | a page computed before a write and stored after it; Redis failing between any two steps; a 404 that must not be remembered; tokens that are signed and still not enough | pages have a bounded age and catch up; a refused write has committed nothing |
| Migrations | replicas that start together, of different releases; a death between two files | each file once, in order, recorded exactly if executed |
| Lifespan | a start that fails half-way; stop while others boot | no part without what it relies on; every replica comes to serve |

`PROJECT.json` lists each hazard at its line.

## 2. Modules

Data is reduced to what the properties tell apart. The names, descriptions,
titles of selected games, prices and developer ids are left out; control is not.

**`FestivalDomain`** has no variables: the guard and the effect of each method of
`Festival`, and the events. The map of selected games is the set of its keys.

**`FestivalAggregate`** (extends it) is the abstract specification: every use case
is one indivisible change of `rows` and `outbox`, refused ones change nothing.

**`FestivalService`** (extends `FestivalDomain`) is the code's own granularity.
One request is at one `stage`: `received`, `prepared` (start has its audience),
`begun` (transaction open), `locked` (row lock held, `copy` is the loaded
aggregate), `committed` (answer not read yet), and then a resting stage.

| action | code |
|---|---|
| `Receive` | a route calls a use case, which takes `now` from the clock |
| `LookupAudience`, `LookupRaises` | `_audience`, `active_user_ids` |
| `CreateFestival`, `RejectCreate` | `create` |
| `Begin`, `CheckGame`, `RejectGame` | the transaction opens; `add_game` reads the catalog in it |
| `LockRow`, `FestivalNotFound` | `_load`, `get_for_update` |
| `Reschedule` ... `Cancel` | the aggregate's method, `save`, `enqueue`, commit |
| `Refuse` | the method raises, the transaction rolls back |
| `Detail` | `_detail` in a new session |
| `Abort`, `PoolTimeout` | connection or process lost; QueuePool gives up |
| `GameEvent`, `Tick` | the environment: catalog events, time |

The inserts, updates and the commit of one transaction are one step, because
nobody sees them before the commit. A connection counts as used from the first
statement to the end of the transaction.

**`OutboxDispatcher`**: `outbox_messages` by id. An id is taken at the flush, the
row is visible at the commit, so ids become visible out of order. Writers of
festival events hold the festival's row lock and so follow each other;
`DiscountApplied` is written under no lock. `Claim` is the `FOR UPDATE SKIP LOCKED`
select, `Send`, `SendFails` and `AckLost` are the outcomes of one `producer.send`,
`Finish` the commit, `Crash` a batch that is rolled back. Sleeping between
drains has no counterpart: nothing depends on when a Dispatcher claims.

**`GameEventsConsumer`**: `game-events` with one partition, as the service's configuration
creates it, and a loop per replica. `Poll` fetches and routes a message; `Apply`,
`HandlerRaises` and `HandlerRefuses` are the outcomes of a handler's run;
`DeadLetter`, `DeadLetterFails`, `GiveUp`, `Commit` follow the code; `given_up` is the
log lines of `_loop`'s `except`. The group and its
coordinator are external: `Join`, `Expire`, `Crash` and `Rebalance` assign the
partition anew while messages stay in hand. A commit of a message that came under
an assignment that is over commits nothing, or raises `CommitFailedError`, which
ends the loop (`CommitStale`). Back-off delays are left out, since any amount of
other steps may come between two attempts.

**`CatalogSync`** composes `FestivalAggregate` (the Admins, indivisible, which is
what `ImplementsAggregate` justifies) and `GameEventsConsumer` (the real consumer)
by INSTANCE, and refines the consumer's `Apply` into the handlers: `LoadGame`,
`SaveGame`, `LoadFestival`, `LoadPromotion`, `SavePromotion`, `Ignore`, with one
database statement per step, at READ COMMITTED. SQLAlchemy's two relevant habits
are modelled: a second `get` of a row the session has loaded returns the loaded
object, and an UPDATE names only columns that differ from what was loaded
(`Column`). `InsertCollides` is the primary key that two inserts of one row meet.

The messages the assumption `SyncAssumption` admits are those the
handlers take: only `GameUpdated` tells no title from the title `""`.

**`AtLeastOnceChannel`** is what an outbox promises: a message is accepted, delivered
any number of times, and settled, by being confirmed (only if it was delivered) or
abandoned; a settled message is not delivered again. `OutboxDispatcher` maps to it
with `accepted` the committed rows, `delivered` the topic, `confirmed` the rows
marked published and `abandoned` the rows at MAX_ATTEMPTS. A send is a `Deliver`, the
commit of a batch is a `Settle` of many messages at once, a crash is a stutter.

**`RestApi`** is the edge with the cache. The requests of all replicas share one
database and one Redis. Of the database the number of committed changes is kept, the
first of which creates the festival whose detail is asked for: what a page shows is one
such number, and `since` is how long ago that stopped being the truth.

| action | code |
|---|---|
| `Arrive`, `RejectInput` | a request; query parameters and JSON are checked before any dependency runs |
| `Hit`, `Miss`, `CacheReadFails` | the GET of `get_or_set`, and its `except` |
| `Compute`, `ComputeOnly`, `FindsNothing` | the page from the database, or the 404 it raises |
| `Store`, `StoreFails` | the SET with its expiry, and its `except` |
| `Hangs` | a GET or a SET that does not end |
| `Admit`, `TurnAway` | `current_principal`, `verify`, `require(ADMIN)` |
| `Refuse`, `Write`, `Reply` | the use case refuses, or commits; the answer is read back |
| `Breaks` | what is no `AppError` becomes a 500 |
| `Evict`, `Tick` | Redis loses a page; time |

A kind of token stands for each way `verify` can go. A page read in several
statements counts as old as the first. Left out are the paging of the list, the views,
metrics and correlation ids. With the cache disabled in the configuration a read goes
the way of `CacheReadFails`.

**`Migrations`**: file *n* of a release is version *n*, and a content stands for its
checksum. `LooksForTable`, `CreateTable` and `CreateCollides` are the `CREATE TABLE IF NOT
EXISTS` that `run` sends *before* it takes the lock, which in Postgres is a look and
an insert into the catalog; `Lock` ... `Unlock` are the rest; `Dies` is the process
and with it the session and its lock. `MaxFiles` is 3, the files in `migrations/`.

**`Lifespan`** extends `Migrations` with the parts a replica starts after them and with
their shutdown. `StartFails` is an exception out of the producer's or the consumer's
start or out of `ensure_topics`: nothing catches it, and the process ends with whatever was
started. Kafka is enabled and migrations are run, as deployed.

`MC...` modules give the constants small values where a configuration cannot write
them; the runs of `OutboxDispatcher` and of `RestApi` need none. Definitions marked *Mutant* are
deliberate faults, kept beside the definition they alter, to show that each
property can fail.

## 3. Runs

| run | question | bounds |
|---|---|---|
| `FestivalAggregate_story` | do the events of a festival tell one true story? | 1 festival, 3 games, 3 windows (one empty), 3 instants, version < 7 |
| `FestivalService_concurrent` | do concurrent requests stay serialisable, with the catalog changing, clocks moving and requests dying? | 2 requests, 1 festival, 2 games, 3 windows, 3 instants, calls while version < 2 |
| `FestivalService_liveness` | is every request answered? | 3 requests for 1 festival on **two** connections, 1 game, 1 window, calls while version < 1 |
| `OutboxDispatcher_replicas` | is the outbox an at-least-once channel, in order, and does it drain? | 2 replicas, 3 rows of one key, batches of 2, MAX_ATTEMPTS 2, 1 fault |
| `GameEventsConsumer_group` | is every message settled, and none skipped? | 2 replicas, 2 messages of any kind, MaxRetries 1, 3 faults |
| `CatalogSync_replicas` | and when two replicas handle the same message at once? | 2 replicas, 2 messages of 5, version < 2, MaxRetries 1, 1 fault |
| `CatalogSync_log` | are the read-models and announcements what the log says? | 1 replica, 3 messages of 10, version < 2, MaxRetries 1, 1 fault |
| `RestApi_cache` | how old may a page be, and is the caller told the truth? | 2 requests, the detail, tokens of an Admin and a refresh token, TTL 2, a fill of 1, 2 changes |
| `Lifespan_replicas` | do replicas that boot, collide and die come to serve on the right schema? | 2 replicas, each of any of 3 releases (one that adds a file, one that edits one), 2 faults |

What they show: all properties listed for them in `PROJECT.json` hold.

- `OutboxTellsRow`, `OutboxIsAStory`, `StartedStaysTrue`, `LifecycleOnlyForward`:
  a consumer of `festival-events` that applies what it is told knows the row, and
  what `FestivalStarted` announced stays true.
- `LockedCopyIsCurrent`, `VersionsAreWrittenOnce`: the row lock alone prevents lost
  updates, and the version check in `save` is never what does.
- `ListedGamesAreKnown`: the unlocked catalog read may be stale, never baseless.
- `ImplementsAggregate`: the staged service refines `FestivalAggregate`, so what is
  shown of the latter holds for the service.
- `EveryRequestAnswered`: waits for locks and connections cannot form a circle, though
  requests that wait for the row lock hold every connection meanwhile. The pool's timeout is
  not needed for it.
- `BatchesAreDisjoint`, `OnlyCommittedIsSent`, `PublishedWasSent`,
  `DuplicatesNeedFaults`, `OvertakenOnlyIfHeld`: the promises of the outbox that do hold.
- `QueueDrains`: while the broker is up and nothing more goes wrong, a committed row that has
  one attempt left is published. That is as much of `health.py:5-6`, events that "drain later",
  as the code keeps: the row whose attempts an outage has used up is lost (see below).
- `ImplementsChannel`: table, Dispatchers and topic refine `AtLeastOnceChannel`.
- `NothingIsSkippedSilently`, `BuriedForAReason`, `EveryMessageIsDealtWith`: those of
  the consumer. The last excepts the case that every replica's loop has stopped.
- `ReadModelsFollowLog`, `AnnouncedOncePerApproval`: those of catalog sync, as long as
  one replica at a time has a message in hand. `AnnouncedWasSelected` holds without
  that condition, and so does `CollisionsBuryNothing`: of two replicas that insert one row
  the loser fails an attempt, and finds the row at the next.
- `AnswersAreRecent`, `CatchesUp`, `CreatedIsFound`: a page shown was true less than
  TTL + MaxFill ticks ago, what Redis holds is right once the writes have stopped for that
  long, and a festival that is there is found although its detail was asked for before.
- `OnlyHungRedisIsWaitedFor`: a Redis that raises costs nobody the answer, however often and
  wherever; only a read whose Redis command does not end waits for ever.
- `RefusalsChangeNothing`: a 4xx answer means that nothing was committed, whatever
  input, token and use case were.
- `AppliedOnceInOrder`, `OwnerIsCurrent`, `RunsOnItsSchema`: the advisory lock alone
  keeps a file from being run twice, and a replica whose release disagrees with the
  database about a file starts nothing.
- `ProducerOutlivesItsUsers`, `EveryReplicaServes`: the order of start and stop, and
  that collisions and deaths only cost another attempt.

Why the bounds are enough. Requests on different festivals share only the pool and
the catalog, so one festival with two requests has every conflict of writers. A circle of
lock and pool takes three: with two connections one request can own the lock, another wait
for it on the last connection, and a third wait for a connection. Version < 2 lets a
created festival be written twice by overlapping requests, and the story run
covers long histories without concurrency, which the refinement and the proofs
make sufficient. Three outbox rows give two batches, one of them with two rows, and
a row behind both. Two attempts instead of ten and one retry instead of three keep
both sides of each limit in reach. Three messages are the shortest log in which an
approval is withdrawn and given again; one fault there is one redelivery after
half a handler or after a whole one. Entries of the cache share nothing but the
changes, so one page suffices; the detail is taken since it may be missing as well.
Of the tokens, all that are not an Admin's end before the use case; a refresh token is the
one nearest to passing. Two changes make a page wrong that was right, TTL 2 lets it
outlive a tick, and two requests are two fills that pass each other. Two files with
a third or an edited one are the releases that differ in a way `run` can notice, and
two faults kill each replica once.

`CHECK_DEADLOCK FALSE` stands where a run ends on its bound, or on nothing left to
do: the aggregate at its version bound or with its festival over, an empty
outbox with no ids left, a log at its length with all messages settled. The
FestivalService runs check for deadlock, which says little there (the catalog may
always change): that nobody waits forever is
`EveryRequestAnswered`.

Fairness. `FestivalService`: a handler that can run does (asyncio), the lookup has
a timeout, Postgres serves a row lock's queue in order and QueuePool its own; for
the waits that other requests can interrupt, that order is what strong fairness
stands for (`Proceed`, one step of a request, whichever is its next). `OutboxDispatcher`:
`_loop` drains again after anything drain_once raises, and an outage ends. `RestApi`: the event loop runs what is ready, and time passes; a
Redis command need not end, since the client is built without a timeout (`Hangs`). `Lifespan`: a
process that ended is started again, and Postgres grants an advisory lock to those
who wait in turn, hence strong fairness of `Lock`; no replica has to stop.
`GameEventsConsumer`: the loop runs on, the deployment restarts a process that died, the coordinator expels a member that does not poll.
Nothing is assumed of clients, writers, other services or faults, and nothing
restarts a consumer loop that an exception has ended, since nothing in the code does.

### Where the code does not do what the repository says

| run | the repository | the code |
|---|---|---|
| `OutboxDispatcher_order` | events.py:51-57, the key preserves order | with SKIP LOCKED a second Dispatcher sends a festival's later event first |
| `GameEventsConsumer_dead_letter` | kafka.py:97-98, commit only after success or dead-letter | if the dead-letter send fails, the offset is committed all the same |
| `CatalogSync_twice` | tests/test_catalog_sync_service.py:158-159 "must not double-announce" | two replicas that have the message in hand around a rebalance both announce |

For each of the three a theorem of section 4 says when the repository is right:
`OneDispatcherKeepsOrder`, `CommittedAfterSettling` and `AnnouncedOnce`.

The models have more, which no run reports.

Festivals and promotions:

- README.md:78 says of `add_game` that the game "must exist and be published", but the
  catalog is read before the wait for the row lock, and a game withdrawn in between is
  added.
- `ports.py:76` says that the directory "must never block a festival from starting", but a
  body that is not JSON, or a token that cannot be signed, raises past the lookup's
  `except` (`LookupRaises`).
- `auth_profile.py:7-8` says that the festival has started when the directory is asked,
  and `start` asks first.
- An approval that arrives after the festival's end is announced, although README.md:81
  says that discounts stop applying, and so is one whose game is removed between the
  handler's load and its commit.

Messages:

- `health.py:5` says that events "queue in the outbox and drain later", but a row that
  has failed MAX_ATTEMPTS times is never selected again (`outbox.py:121`), and `backlog`
  no longer counts it. An outage that outlasts the attempts is enough, so README.md:39-40's
  "at-least-once delivery" has the same exception. `ImplementsChannel` has such rows as
  `abandoned`, which for good they are.
- Bytes that are not UTF-8 pass `Envelope.decode`'s `except` and are given up, not
  dead-lettered (the kind `not_utf8`).
- After a rebalance an older fact may be written over a newer one.
- A promotion that moved to a festival this service does not know would be ignored, and its
  row would keep the old state; the proof about the read-models excludes it
  (`OneFestivalEach`).

Edge and start:

- README.md:124 and `cache.py:3-4` bound the age of a page by the TTL, but the TTL starts
  when the page is stored, so the time between its read from the database and the store comes
  on top (`MaxFill`). README.md:120 has only the listing cached, `festivals.py:54` the detail too.
- `cache.py:11` falls "straight back" to the database, and `bootstrap.py:130-131` has reads
  "slower, never unavailable", but a Redis that hangs is waited for, as the client made at
  `bootstrap.py:66` has no timeout (`Hangs`).
- A window without a time zone is answered 500 (`Breaks`).
- `migrate.py:7-8` says "they all try, one wins, the rest wait", but on an empty database
  two replicas may both create `schema_migrations` before they come to the lock, and one of
  them dies and is started again (`CreateCollides`).
- The health report asks nothing about a consumer loop that has ended.

## 4. Proofs

For any sets of festivals, games, windows, instants and requests, any pool and any
answers of the directory, under `DomainAssumption` and `ServiceAssumption` (instants
are naturals; `Null`, `Absent` and requests are distinct from what they must not be
taken for).

`FestivalAggregateProofs`

- `TypeCorrect`: each update yields a `Festival`, each enqueue extends a sequence of
  `Events`. In particular the window's check constraint never refuses a write.
- `OutboxTells`, `OutboxOrdered`, `StartedTrue`: none of them is inductive. That a
  repeated start is impossible follows from the row, so the invariant must tie the
  row to the *whole* outbox, and every prefix to what comes after it. `StoryInv` does:
  what has been told decides the state and the games, the order of the events is right,
  and what FestivalStarted said is the row's window. `PrefixTold` and `LastTold` say
  how the folds over a prefix change when one event is appended, `StoryGrows` extends the
  story by an event that fits, and `ReportedWrite` applies it to a use case.
- `LifecycleForward`: from the guards of each action and type correctness.

`FestivalServiceProofs`

- `ServiceInv` = `TypeOK` and `CallFits` and `FreshIds` and `LockedCopyIsCurrent`.
  `LockedCopyIsCurrent` needs `CallFits` (a request beyond its first stage has the
  call that its stage implies) and `FreshIds` (no two creates share an id, and the
  id of a create has no row), without which an insert could replace a locked row.
- `TypeCorrect`, `LockDiscipline`; `NoLostUpdate` follows from the lock discipline:
  what is written is the loaded copy with its version raised, and the copy is current.
- `ListedGamesKnown` adds `CheckedGamesAreKnown`: the game of an `add_game` past its
  check has a catalog row, and rows of the catalog never vanish.
- `Refinement`: with `rows` and `outbox` as themselves, each committing step is the
  action of the same name of `FestivalAggregate`, and every other step stutters.

- `ServiceTells`, `ServiceStory`, `ServiceStartedTrue`, `ServiceLifecycle`: what is proved
  of `FestivalAggregate` holds of the service. They take the theorems of
  `FestivalAggregateProofs` through an INSTANCE (`Promised`) over the service's own tables,
  after `Refinement`; nothing is proved twice.

`OutboxDispatcherProofs`, for any numbers of Dispatchers, rows, attempts and faults
(`DispatcherAssumption`)

- `OutboxInv` = `TypeOK` and `BatchesAreDisjoint` and `OnlyCommittedIsSent` and
  `PublishedWasSent` and `SentIsOnTopic`. Disjoint batches of rows still fit to be sent
  are what keeps attempts below their limit and what makes the rows sent committed
  ones. `PublishedWasSent` needs `SentIsOnTopic`: what a replica is about to mark
  published is already on the topic.
- `TypeCorrect`, `DisjointBatches`, `CommittedOnly`, `AtLeastOnce` are its parts.

`GameEventsConsumerProofs`, for any numbers of replicas, messages, retries and faults
(`ConsumerAssumption`)

- `ConsumerInv` = `TypeOK` and `AttemptsLeft` and `HandIsNext` and `SettledHand` and
  `NothingIsSkippedSilently`. A commit moves the offset to the message in hand, so
  nothing is skipped because that message is the very next one (`HandIsNext`: what came
  under the assignment that still holds is the owner's, at the offset) and is over
  (`SettledHand`). `OverStays` says that whatever is over stays so, and `QuietStep`
  that only a commit puts a promise at risk. `AttemptsLeft` bounds the retries.
- `TypeCorrect`, `NothingSkipped` follow.

- `BurialsHaveAReason` adds `HeldForAReason`: the failed attempts at a message whose handler
  would have succeeded are no more than the faults so far.
- `CommittedAfterSettling`: `CommittedWasSettled`, which the run `GameEventsConsumer_dead_letter`
  refutes, holds if the dead-letter topic never fails and every message is UTF-8.
  `GivenUpForAReason`: only those two ways lead into `given_up`.

`OutboxDeliveryProofs` rests on `OutboxInv`

- `OutboxImplementsChannel`: every action is a step of `AtLeastOnceChannel` or a
  stutter. A commit settles what it publishes and what has used up its attempts, and
  `BatchesAreDisjoint` and `PublishedWasSent` make both parts legal.
- `DuplicatesAreFaults`: the copies of a row are at most the faults, plus one if the row is
  published or some batch is about to mark it so (`CopiesAreExplained`).
  `CopiesAppend` says how a copy is counted when the topic grows.
- `OvertakenOnlyWhileHeld`: while no fault has happened, a row in a batch has every earlier
  unsent row of its festival in a batch too (`EarlierIsHeld`), since the writers of a festival
  commit in order (`WriteOrder`) and a batch takes the oldest rows it can lock.
- `OneDispatcherKeepsOrder`: `KeyingKeepsOrder`, which the run `OutboxDispatcher_order` refutes,
  holds while the broker is up and one Dispatcher at a time has a batch. Crashes and lost
  acknowledgements are allowed: they send rows again, in order. `OrderInv`: a row that was
  tried is on the topic, and the earlier rows of its festival are there or ahead of it in the
  same batch. An outage has to be excluded, since a batch goes on with the next row after one
  that failed.

`CatalogSyncProofs`, under `SyncAssumption` and `LoopAssumption`, with the Admins' use cases and the consumer's
steps taken from the modules they come from

- `SyncInv` = `TypeOK`, the types of the other modules' tables, `SelectedWasTold` (the
  games of a festival have each been announced by a `GameAdded` event), `LoadFits` (so have the
  games a handler has loaded, and its load belongs to the message in hand), and
  `AnnouncedWasSelected`. Outboxes only grow, so what was told stays so while a handler
  holds a copy that is no longer true.
- `TypeCorrect`, `AnnouncedSelected` follow, for any number of replicas.
- `ReadModelsAreTheLog` and `AnnouncedOnce` hold for any number of replicas in every behaviour
  in which one of them at a time has a message in hand (`OneAtATime`): a rebalance never finds
  a handler that still runs. Without that both are false; the run `CatalogSync_twice` shows it
  of the second. `LogInv` adds that the message in hand is the group's next (`HandIsNext`),
  that what was applied is behind it (`AppliedIsBehind`), and that nobody has written what the
  handler has loaded (`LoadIsCurrent`). Then an upsert makes the message the latest that names
  a game, or sells it, and a message applied again was the latest already. `FestivalIsKnown`
  rests on the assumption `OneFestivalEach`: Catalog moves no promotion.
- `AnnouncedOnce` counts: of the approvals up to the last message applied about a promotion
  there are at least as many as announcements (`AnnouncedIsApproved`). Who announces has found
  the promotion not ACTIVE, so by `LogInv` the latest message about it approves nothing, and
  the one in hand is an approval that was not counted yet (`NextApproval`).
- `NothingSkipped`, `CollisionsAreCheap` need no such condition. The lemmas of
  `GameEventsConsumerProofs` come through an INSTANCE (`Loop`): every step of `CatalogSync` is
  one of the consumer (`LoopMoves`), but for `InsertCollides`, which raises without a fault
  (`CollisionStep`). So the consumer's own `BuriedForAReason` is off by one here, and
  `CollisionsBuryNothing` says by how much: the attempts at a message exceed the faults by one
  at most, and only once its row is there for the next attempt to find (`AttemptsCost`,
  `MetTheRow`), as rows are never deleted (`KeepsRows`).
- `HandlersAreTheConsumers`: with one message in hand at a time nothing collides, as
  `LoadIsCurrent` is inductive by itself (`CurrentStep`), and the whole implements
  `GameEventsConsumer`.

`RestApiProofs`, for any requests, tokens, TTL and number of changes (`RestAssumption`)

- `Inv` ties each stage to its request (`Shape`), keeps the current version from ageing
  (`Ages`), and dates what is under way: a computed page is no staler than its fill is old
  (`Fills`), and the staleness of a stored one and the life it has left make up no more than
  TTL + MaxFill (`Stored`).
- `CreatedFestivalsAreFound`, `RefusedWritesChangeNothing`, `AnswersStayRecent`.

`LifespanProofs`, for any replicas, contents and releases (`MigrationsAssumption`)

- `LifespanInv` = `TypeOK` and `MigrationInv` and `LifeInv`. `MigrationInv`: the lock's owner is
  the one replica at the stages that own it, the rows and the executed files are the same and have no
  gap, and a replica that applies files has read a table that still is what it was, up to
  the files it has added itself. `NextIsNew`: the file it comes to, if not recorded, is just
  the one after all recorded ones. `LifeInv`: which parts run at each step of a life.
- `FilesApplyOnceInOrder`, `OwnersStayCurrent`, `ReplicasRunOnTheirSchema`,
  `ProducersOutliveTheirUsers`.

Every safety property that a passing run checks is thus the conclusion of a theorem, two of
them under the conditions above, which their runs meet by having one replica. Only
model-checked is liveness, since the prover does not reason about ENABLED and thus not about
fairness: `EveryRequestAnswered`, `OnlyHungRedisIsWaitedFor`, `QueueDrains`,
`EveryMessageIsDealtWith`, `CatchesUp`, `EveryReplicaServes`.

## 5. Not modelled

- Money: a shared value type. This service stores and shows prices, and calls neither its
  arithmetic nor `allocate`.
- The health report: a pure function of three probes that nothing in the service reads.
- The nesting of `begin` in `read` and the reverse: no use case of this service nests them.
- What follows when the connection of a Redis command that hangs is reset at last: the read would
  go on with a page older than any bound.
- What the brokers answer to `ensure_topics` without an exception: the code does not look at it
  either, and `EnsureTopics` takes the topics to be there.
- Views, metrics, correlation ids, logging, the wording of problem documents, the building of
  objects from the configuration: they keep no state that a use case depends on.
- `find_by_game` (unused), `backlog`, the statements and paging of `get` and `list`: they
  change nothing. That their answers are cached is `RestApi`.
- That a detail of an id `list:...` would share its key with a page of the list: ids that
  were created are UUIDs.
- A migration file inserted before existing ones, which `run` would execute out of order: files are
  numbered, and releases that follow each other add at the end.
- Kafka disabled, migrations switched off: no part is started then that others wait for.
- Kafka, Postgres, Redis, SQLAlchemy and aiokafka are modelled from their use here.

## 6. Plan

Order: what carries the most risk first.

1. *(done)* `FestivalDomain`, `FestivalAggregate`, `FestivalService`; refinement; proofs.
2. *(done)* `OutboxDispatcher`, `GameEventsConsumer`, `CatalogSync`, with proofs of their
   safety; `AtLeastOnceChannel` and the refinement.
3. *(done)* `RestApi` with the cache and the edge; `Migrations` and `Lifespan`; proofs.
4. *(done)* The exact conditions of the three disagreements: `AnnouncedOnce`,
   `CommittedAfterSettling`, `OneDispatcherKeepsOrder`.
5. *(done)* The modules' theorems carried over to what is built of them: the aggregate's to
   the service, the consumer's to catalog sync.
6. An end-to-end composition: `FestivalAggregate` as the writer of `AtLeastOnceChannel`, and
   what a consumer of the topic that drops duplicates knows of a festival.
