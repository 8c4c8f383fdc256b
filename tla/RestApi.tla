------------------------------- MODULE RestApi -------------------------------
(***************************************************************************)
(* The HTTP edge: app/adapters/inbound/rest, app/platform/http.py, auth.py *)
(* and errors.py, with the read-through cache of app/platform/cache.py in  *)
(* front of the reads.                                                     *)
(*                                                                         *)
(* The replicas share one database and one Redis and keep nothing of their *)
(* own, so the requests of all of them interleave here.  Of the database   *)
(* only the number of changes committed so far is kept: a page shows what  *)
(* the database was after one of them.  Change 1 creates the festival that *)
(* the page "detail" is about; a page read in several statements counts as *)
(* old as the first of them.  The use cases behind a write are those of    *)
(* FestivalService; here a write is one step that commits or is refused.   *)
(***************************************************************************)
EXTENDS Integers

CONSTANTS
  Requests,   \* the request slots of all replicas
  Pages,      \* cache keys: pages of the list, and the festival's detail
  Tokens,     \* what a caller may send as its bearer token
  TTL,        \* cache_ttl_seconds, in ticks
  MaxFill,    \* bound: ticks between a page's read from the database and Redis storing it
  MaxWrites   \* bound: changes ever committed

ASSUME RestAssumption ==
  /\ Pages \subseteq {"list", "detail"}
  /\ TTL \in Nat \ {0}
  /\ MaxFill \in Nat
  /\ MaxWrites \in Nat

\* One kind of token per way verify can go.
TokenKinds == {"missing", "expired", "invalid", "refresh", "untyped",
               "no_subject", "unknown_role", "not_admin", "admin"}

ASSUME TokenAssumption == Tokens \subseteq TokenKinds

\* change stands for the routes that act on a festival that exists.
Reads  == [page : Pages]
Writes == [op : {"create", "change"}, token : Tokens]

IsRead(ask) == "page" \in DOMAIN ask

Empty   == [shows |-> -1, left |-> 0]
Entries == [shows : 0 .. MaxWrites, left : 1 .. TTL]

\* _HTTP_STATUS.
HttpStatus ==
  [INVALID_ARGUMENT |-> 400, UNAUTHENTICATED |-> 401, PERMISSION_DENIED |-> 403,
   NOT_FOUND |-> 404, ALREADY_EXISTS |-> 409, CONFLICT |-> 409,
   FAILED_PRECONDITION |-> 422, RESOURCE_EXHAUSTED |-> 429, UNAVAILABLE |-> 503,
   INTERNAL |-> 500]

Statuses == {HttpStatus[code] : code \in DOMAIN HttpStatus} \cup {0, 200, 201}

Stages == {"answered", "arrived",
           "missed", "bypass", "computed",     \* a read: get_or_set
           "hanging",                          \* a read, in a GET or SET without an end
           "admitted", "committed"}            \* a write

VARIABLES
  db,      \* how many changes are committed
  since,   \* per version before db, the ticks since the next one replaced it
  entry,   \* Redis: what is stored under each key, and the ticks it has left
  stage,   \* how far each request is
  ask,     \* what each request asks
  saw,     \* whether the festival existed when the request arrived
  value,   \* the version a read has computed or was answered with
  age,     \* the ticks since a read computed what it is storing
  wrote,   \* whether a write has committed
  status   \* the answer: 0 while there is none

world   == <<db, since, entry>>
request == <<stage, ask, saw, value, age, wrote, status>>
vars    == <<db, since, entry, stage, ask, saw, value, age, wrote, status>>

Versions == 0 .. MaxWrites

\* Ages beyond this are all the same.
Horizon == TTL + MaxFill + 1

Init ==
  /\ db     = 0
  /\ since  = [n \in Versions |-> 0]
  /\ entry  = [p \in Pages |-> Empty]
  /\ stage  = [r \in Requests |-> "answered"]
  /\ ask    \in [Requests -> Reads]
  /\ saw    = [r \in Requests |-> FALSE]
  /\ value  = [r \in Requests |-> 0]
  /\ age    = [r \in Requests |-> 0]
  /\ wrote  = [r \in Requests |-> FALSE]
  /\ status = [r \in Requests |-> 0]

-----------------------------------------------------------------------------
(* The edge *)

Arrive(r) ==
  /\ stage[r] = "answered"
  /\ \E a \in Reads \cup Writes : ask' = [ask EXCEPT ![r] = a]
  /\ stage'  = [stage EXCEPT ![r] = "arrived"]
  /\ saw'    = [saw EXCEPT ![r] = db > 0]
  /\ value'  = [value EXCEPT ![r] = 0]
  /\ wrote'  = [wrote EXCEPT ![r] = FALSE]
  /\ status' = [status EXCEPT ![r] = 0]
  /\ UNCHANGED <<world, age>>

Answer(r, code) ==
  /\ stage'  = [stage EXCEPT ![r] = "answered"]
  /\ age'    = [age EXCEPT ![r] = 0]
  /\ status' = [status EXCEPT ![r] = code]

\* A problem document: nothing but the status is decided here.
Problem(r, code) ==
  /\ Answer(r, HttpStatus[code])
  /\ UNCHANGED <<world, ask, saw, value, wrote>>

\* limit, offset or state of the list, or a body that is not JSON: found before
\* any dependency runs, so before the caller is asked who it is.
RejectInput(r) ==
  /\ stage[r] = "arrived"
  /\ ask[r] # [page |-> "detail"]
  /\ Problem(r, "INVALID_ARGUMENT")

\* Whatever the database raises is no AppError.
Breaks(r) ==
  /\ stage[r] \in {"missed", "bypass", "admitted", "committed"}
  /\ Problem(r, "INTERNAL")

-----------------------------------------------------------------------------
(* Reads: get_or_set, and the page it computes *)

\* Mutant: a hit puts the entry's time to live back to its start.
HitRenews(r) ==
  LET p == ask[r].page IN
  /\ stage[r] = "arrived"
  /\ IsRead(ask[r])
  /\ entry[p] # Empty
  /\ value' = [value EXCEPT ![r] = entry[p].shows]
  /\ Answer(r, 200)
  /\ entry' = [entry EXCEPT ![p].left = TTL]
  /\ UNCHANGED <<db, since, ask, saw, wrote>>

Hit(r) ==
  LET p == ask[r].page IN
  /\ stage[r] = "arrived"
  /\ IsRead(ask[r])
  /\ entry[p] # Empty
  /\ value' = [value EXCEPT ![r] = entry[p].shows]
  /\ Answer(r, 200)
  /\ UNCHANGED <<world, ask, saw, wrote>>

Goes(r, where) ==
  /\ stage' = [stage EXCEPT ![r] = where]
  /\ UNCHANGED <<world, ask, saw, value, age, wrote, status>>

Miss(r) ==
  /\ stage[r] = "arrived"
  /\ IsRead(ask[r])
  /\ entry[ask[r].page] = Empty
  /\ Goes(r, "missed")

\* Redis raises: the answer is computed and not stored.
CacheReadFails(r) ==
  /\ stage[r] = "arrived"
  /\ IsRead(ask[r])
  /\ Goes(r, "bypass")

\* Redis does not answer, and the client was built without a timeout: the caller
\* waits, in the GET or in the SET.  What follows a reset of its connection, later
\* than any bound, is left out.
Hangs(r) ==
  /\ stage[r] \in {"arrived", "computed"}
  /\ IsRead(ask[r])
  /\ Goes(r, "hanging")

\* The list of no festivals is a page, the detail of none is not.
Exists(page) == page = "detail" => db > 0

\* Mutant: a page that does not exist is remembered like any other.
ComputeAnything(r) ==
  /\ stage[r] = "missed"
  /\ value' = [value EXCEPT ![r] = db]
  /\ stage' = [stage EXCEPT ![r] = "computed"]
  /\ UNCHANGED <<world, ask, saw, age, wrote, status>>

Compute(r) ==
  /\ stage[r] = "missed"
  /\ Exists(ask[r].page)
  /\ value' = [value EXCEPT ![r] = db]
  /\ stage' = [stage EXCEPT ![r] = "computed"]
  /\ UNCHANGED <<world, ask, saw, age, wrote, status>>

ComputeOnly(r) ==
  /\ stage[r] = "bypass"
  /\ Exists(ask[r].page)
  /\ value' = [value EXCEPT ![r] = db]
  /\ Answer(r, 200)
  /\ UNCHANGED <<world, ask, saw, wrote>>

FindsNothing(r) ==
  /\ stage[r] \in {"missed", "bypass"}
  /\ ~Exists(ask[r].page)
  /\ Problem(r, "NOT_FOUND")

Store(r) ==
  /\ stage[r] = "computed"
  /\ entry' = [entry EXCEPT ![ask[r].page] = [shows |-> value[r], left |-> TTL]]
  /\ Answer(r, 200)
  /\ UNCHANGED <<db, since, ask, saw, value, wrote>>

\* Mutant: a value that Redis does not take is computed and sent again.
StoreRetries(r) ==
  /\ stage[r] = "computed"
  /\ stage' = [stage EXCEPT ![r] = "missed"]
  /\ age'   = [age EXCEPT ![r] = 0]
  /\ UNCHANGED <<world, ask, saw, value, wrote, status>>

\* The value is answered all the same.
StoreFails(r) ==
  /\ stage[r] = "computed"
  /\ Answer(r, 200)
  /\ UNCHANGED <<world, ask, saw, value, wrote>>

-----------------------------------------------------------------------------
(* Writes: who calls, then what is asked, then the use case *)

\* Mutant: every token the auth service signed will do.
VerdictUntyped(token) ==
  IF token \in {"missing", "expired", "invalid", "no_subject", "unknown_role"}
  THEN "UNAUTHENTICATED"
  ELSE IF token = "not_admin" THEN "PERMISSION_DENIED" ELSE "admit"

\* current_principal, verify, then require(Role.ADMIN).
Verdict(token) ==
  CASE token = "admin"     -> "admit"
    [] token = "not_admin" -> "PERMISSION_DENIED"
    [] OTHER               -> "UNAUTHENTICATED"

Admit(r) ==
  /\ stage[r] = "arrived"
  /\ ~IsRead(ask[r])
  /\ Verdict(ask[r].token) = "admit"
  /\ Goes(r, "admitted")

TurnAway(r) ==
  /\ stage[r] = "arrived"
  /\ ~IsRead(ask[r])
  /\ Verdict(ask[r].token) # "admit"
  /\ Problem(r, Verdict(ask[r].token))

\* A body that is JSON and not the request, a window that is none, a festival
\* or game that is not there, a state that forbids the change.
Refusals(op) ==
  IF op = "create" THEN {"INVALID_ARGUMENT"}
  ELSE {"INVALID_ARGUMENT", "NOT_FOUND", "ALREADY_EXISTS", "CONFLICT", "FAILED_PRECONDITION"}

Refuse(r) ==
  /\ stage[r] = "admitted"
  /\ \E code \in Refusals(ask[r].op) : Problem(r, code)

\* The use case commits.  No page is dropped from Redis.
Write(r) ==
  /\ stage[r] = "admitted"
  /\ db < MaxWrites
  /\ ask[r].op = "change" => db > 0
  /\ db'    = db + 1
  /\ wrote' = [wrote EXCEPT ![r] = TRUE]
  /\ stage' = [stage EXCEPT ![r] = "committed"]
  /\ UNCHANGED <<since, entry, ask, saw, value, age, status>>

\* _detail reads what the change made of the festival, past the cache.  To add a
\* game is to create something, too.
Success(op) == IF op = "create" THEN {201} ELSE {200, 201}

Reply(r) ==
  /\ stage[r] = "committed"
  /\ \E code \in Success(ask[r].op) : Answer(r, code)
  /\ UNCHANGED <<world, ask, saw, value, wrote>>

-----------------------------------------------------------------------------
(* Redis and time *)

\* A restart, or memory running short.
Evict(p) ==
  /\ entry[p] # Empty
  /\ entry' = [entry EXCEPT ![p] = Empty]
  /\ UNCHANGED <<db, since, request>>

\* Mutants: SET without EX; an entry outlives its last tick.
RemainsForever(e) == e
RemainsAtZero(e)  == IF e.left > 0 THEN [e EXCEPT !.left = @ - 1] ELSE Empty

Remains(e) == IF e.left > 1 THEN [e EXCEPT !.left = @ - 1] ELSE Empty

Tick ==
  /\ \A r \in Requests : stage[r] = "computed" => age[r] < MaxFill
  /\ since' = [n \in Versions |->
                 IF n < db /\ since[n] < Horizon THEN since[n] + 1 ELSE since[n]]
  /\ entry' = [p \in Pages |-> Remains(entry[p])]
  /\ age'   = [r \in Requests |-> IF stage[r] = "computed" THEN age[r] + 1 ELSE age[r]]
  /\ UNCHANGED <<db, stage, ask, saw, value, wrote, status>>

Read(r) ==
  \/ Hit(r) \/ Miss(r) \/ CacheReadFails(r) \/ Hangs(r)
  \/ Compute(r) \/ ComputeOnly(r) \/ FindsNothing(r)
  \/ Store(r) \/ StoreFails(r)

Change(r) == Admit(r) \/ TurnAway(r) \/ Refuse(r) \/ Write(r) \/ Reply(r)

Next ==
  \/ \E r \in Requests : Arrive(r) \/ RejectInput(r) \/ Breaks(r) \/ Read(r) \/ Change(r)
  \/ \E p \in Pages : Evict(p)
  \/ Tick

Spec == Init /\ [][Next]_vars

\* The event loop runs what is ready, and time passes.  Nothing obliges a Redis
\* command to end: hanging is one of the ways a read may go.
Fairness ==
  /\ \A r \in Requests : WF_vars(Read(r)) /\ WF_vars(Change(r))
  /\ WF_vars(Tick)

FairSpec == Spec /\ Fairness

-----------------------------------------------------------------------------
(* Properties *)

\* The requests, the cache and the ages keep their types.
TypeOK ==
  /\ db     \in Versions
  /\ since  \in [Versions -> 0 .. Horizon]
  /\ entry  \in [Pages -> Entries \cup {Empty}]
  /\ stage  \in [Requests -> Stages]
  /\ ask    \in [Requests -> Reads \cup Writes]
  /\ saw    \in [Requests -> BOOLEAN]
  /\ value  \in [Requests -> Versions]
  /\ age    \in [Requests -> 0 .. MaxFill]
  /\ wrote  \in [Requests -> BOOLEAN]
  /\ status \in [Requests -> Statuses]

\* A version that was true less than `ticks` ago.
Recent(n, ticks) == n = db \/ since[n] < ticks

\* cache.py: "a stale catalogue page for up to ttl seconds".  A page read just
\* before a write may be stored just after it, so the ttl counts from the store:
\* what a client is shown was true less than TTL + MaxFill ago, whichever
\* replicas, fills and evictions it passed through.
AnswersAreRecent ==
  [][\A r \in Requests :
       status[r] = 0 /\ status'[r] = 200 /\ IsRead(ask[r]) =>
         Recent(value'[r], TTL + MaxFill)]_vars

\* A festival that exists when the request for it arrives is found, and not
\* because nothing is remembered: an earlier 404 is not, every other answer is.
CreatedIsFound ==
  \A r \in Requests :
    ask[r] = [page |-> "detail"] /\ saw[r] =>
      status[r] # 404 /\ (status[r] = 200 => value[r] > 0)

\* A client told 4xx may correct its request and send it again: nothing of the
\* first was committed, and nothing ever is but for an ADMIN's access token.
RefusalsChangeNothing ==
  \A r \in Requests : wrote[r] => ask[r].token = "admin" /\ status[r] \in {0, 200, 201, 500}

\* Once the writes stop, every page Redis holds is the current one, though no
\* write ever drops a page and fills of old pages may still be under way.
CatchesUp == <>[](\A p \in Pages : entry[p] = Empty \/ entry[p].shows = db)

\* cache.py: "a Redis outage falls straight back to computing the answer".  It does
\* when Redis raises, at whichever command and however often; one that hangs is
\* waited for, and nothing else is: no write, and no read between its commands.
OnlyHungRedisIsWaitedFor ==
  \A r \in Requests :
    stage[r] = "arrived" ~> stage[r] = "answered" \/ (IsRead(ask[r]) /\ stage[r] = "hanging")
=============================================================================
