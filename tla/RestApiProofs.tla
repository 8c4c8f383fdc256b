---------------------------- MODULE RestApiProofs ----------------------------
(***************************************************************************)
(* What RestApi.tla promises, for every set of requests, any time to live, *)
(* any bound on a fill and any number of writes.                           *)
(***************************************************************************)
EXTENDS RestApi, TLAPS

\* A read may be recognised by its fields.
LEMMA KindOfAsk ==
  /\ \A a \in Reads  : IsRead(a) /\ a.page \in Pages /\ a = [page |-> a.page]
  /\ \A a \in Writes : ~IsRead(a) /\ a.token \in Tokens /\ a.op \in {"create", "change"}
BY DEF Reads, Writes, IsRead

\* An entry is never mistaken for none.
LEMMA EntryFields ==
  \A e \in Entries : e # Empty /\ e.shows \in Versions /\ e.left \in 1 .. TTL
BY RestAssumption DEF Entries, Empty, Versions

-----------------------------------------------------------------------------
(* Type correctness *)

LEMMA TypeInit == Init => TypeOK
BY RestAssumption DEF Init, TypeOK, Versions, Horizon, Entries, Stages, Statuses

LEMMA TypeProblem ==
  ASSUME TypeOK, NEW r \in Requests, NEW code \in DOMAIN HttpStatus, Problem(r, code)
  PROVE  TypeOK'
<1>1. HttpStatus[code] \in Statuses
  BY DEF Statuses
<1> QED BY <1>1, RestAssumption DEF TypeOK, Problem, Answer, world, Stages

LEMMA TypeArrive ==
  ASSUME TypeOK, NEW r \in Requests, Arrive(r) PROVE TypeOK'
<1>1. ask' \in [Requests -> Reads \cup Writes]
  BY DEF Arrive, TypeOK
<1> QED BY <1>1, RestAssumption DEF TypeOK, Arrive, world, Stages, Statuses, Versions

LEMMA TypeRead ==
  ASSUME TypeOK, NEW r \in Requests, Read(r) PROVE TypeOK'
<1>0. 200 \in Statuses
  BY DEF Statuses
<1>1. IsRead(ask[r]) => ask[r].page \in Pages
  BY KindOfAsk DEF TypeOK
<1>2. CASE Hit(r)
  <2>1. entry[ask[r].page].shows \in Versions
    BY <1>1, <1>2, EntryFields DEF Hit, TypeOK
  <2> QED BY <1>0, <1>2, <2>1, RestAssumption DEF TypeOK, Hit, Answer, world, Stages
<1>3. CASE Miss(r) \/ CacheReadFails(r) \/ Hangs(r)
  BY <1>3 DEF TypeOK, Miss, CacheReadFails, Hangs, Goes, world, Stages
<1>4. CASE Compute(r)
  BY <1>4 DEF TypeOK, Compute, world, Stages
<1>5. CASE ComputeOnly(r)
  BY <1>0, <1>5, RestAssumption DEF TypeOK, ComputeOnly, Answer, world, Stages
<1>6. CASE FindsNothing(r)
  <2>1. "NOT_FOUND" \in DOMAIN HttpStatus BY DEF HttpStatus
  <2> QED BY <1>6, <2>1, TypeProblem DEF FindsNothing
<1>7. CASE Store(r)
  <2>1. [shows |-> value[r], left |-> TTL] \in Entries
    BY RestAssumption DEF TypeOK, Entries, Versions
  <2>2. entry' \in [Pages -> Entries \cup {Empty}]
    BY <1>7, <2>1 DEF TypeOK, Store
  <2> QED BY <1>0, <1>7, <2>2, RestAssumption DEF TypeOK, Store, Answer, Stages
<1>8. CASE StoreFails(r)
  BY <1>0, <1>8, RestAssumption DEF TypeOK, StoreFails, Answer, world, Stages
<1> QED BY <1>2, <1>3, <1>4, <1>5, <1>6, <1>7, <1>8 DEF Read

LEMMA TypeChange ==
  ASSUME TypeOK, NEW r \in Requests, Change(r) PROVE TypeOK'
<1>1. {"UNAUTHENTICATED", "PERMISSION_DENIED", "INVALID_ARGUMENT", "NOT_FOUND", "ALREADY_EXISTS",
       "CONFLICT", "FAILED_PRECONDITION"} \subseteq DOMAIN HttpStatus
  BY DEF HttpStatus
<1>2. CASE Admit(r)
  BY <1>2 DEF TypeOK, Admit, Goes, world, Stages
<1>3. CASE TurnAway(r)
  <2>1. Verdict(ask[r].token) \in {"UNAUTHENTICATED", "PERMISSION_DENIED"}
    BY <1>3 DEF TurnAway, Verdict
  <2> QED BY <1>1, <1>3, <2>1, TypeProblem DEF TurnAway
<1>4. CASE Refuse(r)
  BY <1>1, <1>4, TypeProblem DEF Refuse, Refusals
<1>5. CASE Write(r)
  BY <1>5, RestAssumption DEF TypeOK, Write, Versions, Stages
<1>6. CASE Reply(r)
  <2>1. Success(ask[r].op) \subseteq Statuses
    BY DEF Success, Statuses
  <2> QED BY <1>6, <2>1, RestAssumption DEF TypeOK, Reply, Answer, world, Stages
<1> QED BY <1>2, <1>3, <1>4, <1>5, <1>6 DEF Change

LEMMA TypeTick == TypeOK /\ Tick => TypeOK'
<1> SUFFICES ASSUME TypeOK, Tick PROVE TypeOK'
  OBVIOUS
<1>1. since' \in [Versions -> 0 .. Horizon]
  <2>1. \A n \in Versions : since'[n] \in 0 .. Horizon
    BY RestAssumption DEF TypeOK, Tick, Versions, Horizon
  <2> QED BY <2>1 DEF Tick
<1>2. \A p \in Pages : Remains(entry[p]) \in Entries \cup {Empty}
  <2> TAKE p \in Pages
  <2>1. CASE entry[p] = Empty
    BY <2>1 DEF Remains, Empty
  <2>2. CASE entry[p] \in Entries
    BY <2>2, RestAssumption DEF Remains, Entries
  <2> QED BY <2>1, <2>2 DEF TypeOK
<1>3. age' \in [Requests -> 0 .. MaxFill]
  BY RestAssumption DEF TypeOK, Tick
<1> QED BY <1>1, <1>2, <1>3 DEF TypeOK, Tick

LEMMA TypeNext == TypeOK /\ [Next]_vars => TypeOK'
<1> SUFFICES ASSUME TypeOK, [Next]_vars PROVE TypeOK'
  OBVIOUS
<1>1. {"INVALID_ARGUMENT", "INTERNAL"} \subseteq DOMAIN HttpStatus
  BY DEF HttpStatus
<1>2. ASSUME NEW r \in Requests,
             Arrive(r) \/ RejectInput(r) \/ Breaks(r) \/ Read(r) \/ Change(r)
      PROVE  TypeOK'
  BY <1>1, <1>2, TypeArrive, TypeProblem, TypeRead, TypeChange DEF RejectInput, Breaks
<1>3. ASSUME NEW p \in Pages, Evict(p) PROVE TypeOK'
  BY <1>3 DEF Evict, TypeOK, request
<1>4. CASE UNCHANGED vars
  BY <1>4 DEF TypeOK, vars
<1> QED BY <1>2, <1>3, <1>4, TypeTick DEF Next

\* The requests, the cache and the ages keep their types.
THEOREM TypeCorrect == Spec => []TypeOK
BY TypeInit, TypeNext, PTL DEF Spec

-----------------------------------------------------------------------------
(* The inductive invariant *)

\* What a request is, at each stage.
Shape ==
  \A r \in Requests :
    /\ stage[r] \in {"missed", "bypass", "computed"} => IsRead(ask[r])
    /\ stage[r] \in {"admitted", "committed"} => ~IsRead(ask[r]) /\ ask[r].token = "admin"
    /\ status[r] # 0 => stage[r] = "answered"
    /\ wrote[r] => ~IsRead(ask[r]) /\ stage[r] \in {"committed", "answered"}
    /\ saw[r] => db > 0

\* The database's own version is not superseded yet.
Ages == \A n \in Versions : n >= db => since[n] = 0

\* What a fill is about to store is no older than the fill.
FillIsDated(r) ==
  /\ value[r] <= db
  /\ value[r] < db => since[value[r]] <= age[r]
  /\ ask[r].page = "detail" => value[r] > 0

Fills == \A r \in Requests : stage[r] = "computed" => FillIsDated(r)

\* The age of an entry and the life it has left make up no more than a fill and
\* a time to live.
EntryIsDated(p) ==
  LET e == entry[p] IN
  /\ e.shows <= db
  /\ e.shows < db => since[e.shows] + e.left <= TTL + MaxFill
  /\ p = "detail" => e.shows > 0

Stored == \A p \in Pages : entry[p] # Empty => EntryIsDated(p)

Inv == TypeOK /\ Shape /\ Ages /\ Fills /\ Stored /\ CreatedIsFound /\ RefusalsChangeNothing

LEMMA InvInit == Init => Inv
<1> SUFFICES ASSUME Init PROVE Inv
  OBVIOUS
<1>1. TypeOK
  BY TypeInit
<1>2. \A r \in Requests : stage[r] = "answered" /\ status[r] = 0 /\ ~saw[r] /\ ~wrote[r]
  BY DEF Init
<1>3. Ages /\ Stored
  BY DEF Init, Ages, Stored
<1> QED BY <1>1, <1>2, <1>3 DEF Inv, Shape, Fills, CreatedIsFound, RefusalsChangeNothing

OthersKept(r) ==
  \A q \in Requests \ {r} :
    /\ stage'[q] = stage[q] /\ ask'[q] = ask[q] /\ saw'[q] = saw[q]
    /\ value'[q] = value[q] /\ age'[q] = age[q] /\ wrote'[q] = wrote[q]
    /\ status'[q] = status[q]

\* Most steps of a request leave the database and the cache alone: what is left
\* to show is about that request.
LEMMA RequestStep ==
  ASSUME Inv, TypeOK', NEW r \in Requests, UNCHANGED world,
         OthersKept(r),
         stage'[r] \in {"missed", "bypass", "computed"} => IsRead(ask'[r]),
         stage'[r] \in {"admitted", "committed"} => ~IsRead(ask'[r]) /\ ask'[r].token = "admin",
         status'[r] # 0 => stage'[r] = "answered",
         wrote'[r] => /\ ~IsRead(ask'[r])
                      /\ stage'[r] \in {"committed", "answered"}
                      /\ ask'[r].token = "admin"
                      /\ status'[r] \in {0, 200, 201, 500},
         saw'[r] => db > 0,
         stage'[r] = "computed" => FillIsDated(r)',
         ask'[r] = [page |-> "detail"] /\ saw'[r] =>
           status'[r] # 404 /\ (status'[r] = 200 => value'[r] > 0)
  PROVE  Inv'
<1>1. Ages' /\ Stored'
  BY DEF Inv, Ages, Stored, EntryIsDated, world
<1>2. Shape'
  BY DEF Inv, Shape, world, OthersKept
<1>3. Fills'
  BY DEF Inv, Fills, FillIsDated, world, OthersKept
<1>4. CreatedIsFound' /\ RefusalsChangeNothing'
  BY DEF Inv, CreatedIsFound, RefusalsChangeNothing, OthersKept
<1> QED BY <1>1, <1>2, <1>3, <1>4 DEF Inv

LEMMA InvProblem ==
  ASSUME Inv, TypeOK', NEW r \in Requests, NEW code \in DOMAIN HttpStatus, Problem(r, code),
         wrote[r] => code = "INTERNAL",
         ask[r] = [page |-> "detail"] /\ saw[r] => code # "NOT_FOUND"
  PROVE  Inv'
<1>1. /\ stage'[r] = "answered"
      /\ status'[r] = HttpStatus[code]
      /\ ask'[r] = ask[r] /\ saw'[r] = saw[r] /\ wrote'[r] = wrote[r] /\ value'[r] = value[r]
  BY DEF Problem, Answer, Inv, TypeOK
<1>2. status'[r] # 200 /\ (code = "INTERNAL" => status'[r] = 500)
  BY <1>1 DEF HttpStatus
<1>3. code # "NOT_FOUND" => status'[r] # 404
  BY <1>1 DEF HttpStatus
<1>4. OthersKept(r)
  BY DEF OthersKept, Problem, Answer, Inv, TypeOK
<1>5. UNCHANGED world
  BY DEF Problem
<1>6. wrote[r] => ~IsRead(ask[r]) /\ ask[r].token = "admin"
  BY DEF Inv, Shape, RefusalsChangeNothing
<1>7. saw[r] => db > 0
  BY DEF Inv, Shape
<1> QED BY <1>1, <1>2, <1>3, <1>4, <1>5, <1>6, <1>7, RequestStep

LEMMA InvArrive ==
  ASSUME Inv, TypeOK', NEW r \in Requests, Arrive(r) PROVE Inv'
<1>1. /\ stage'[r] = "arrived"
      /\ status'[r] = 0
      /\ ~wrote'[r]
      /\ saw'[r] => db > 0
  BY DEF Arrive, Inv, TypeOK
<1>2. OthersKept(r)
  BY DEF OthersKept, Arrive, Inv, TypeOK
<1>3. UNCHANGED world
  BY DEF Arrive
<1> QED BY <1>1, <1>2, <1>3, RequestStep

LEMMA InvRead ==
  ASSUME Inv, TypeOK', NEW r \in Requests, Read(r) PROVE Inv'
<1>0. /\ ask[r] \in Reads => ask[r].page \in Pages
      /\ IsRead(ask[r]) <=> ask[r] \in Reads
      /\ ask[r] = [page |-> "detail"] => ask[r].page = "detail"
  BY KindOfAsk DEF Inv, TypeOK
<1>1. saw[r] => db > 0
  BY DEF Inv, Shape
<1>2. CASE Hit(r)
  <2>1. entry[ask[r].page] # Empty /\ ask[r].page \in Pages
    BY <1>0, <1>2 DEF Hit
  <2>2. ask[r].page = "detail" => entry[ask[r].page].shows > 0
    BY <2>1 DEF Inv, Stored, EntryIsDated
  <2>3. /\ stage'[r] = "answered" /\ status'[r] = 200 /\ value'[r] = entry[ask[r].page].shows
        /\ ask'[r] = ask[r] /\ saw'[r] = saw[r] /\ wrote'[r] = wrote[r]
        /\ stage[r] = "arrived" /\ UNCHANGED world
    BY <1>2 DEF Hit, Answer, Inv, TypeOK
  <2>4. OthersKept(r)
    BY <1>2 DEF OthersKept, Hit, Answer, Inv, TypeOK
  <2>5. ~wrote[r]
    BY <2>3 DEF Inv, Shape
  <2> QED BY <1>0, <1>1, <2>2, <2>3, <2>4, <2>5, RequestStep
<1>3. CASE Miss(r) \/ CacheReadFails(r) \/ Hangs(r)
  <2>1. /\ stage'[r] \in {"missed", "bypass", "hanging"} /\ status'[r] = status[r]
        /\ ask'[r] = ask[r] /\ saw'[r] = saw[r] /\ wrote'[r] = wrote[r]
        /\ stage[r] \in {"arrived", "computed"} /\ IsRead(ask[r]) /\ UNCHANGED world
    BY <1>3 DEF Miss, CacheReadFails, Hangs, Goes, Inv, TypeOK
  <2>2. OthersKept(r)
    BY <1>3 DEF OthersKept, Miss, CacheReadFails, Hangs, Goes, Inv, TypeOK
  <2>3. ~wrote[r] /\ status[r] = 0
    BY <2>1 DEF Inv, Shape
  <2> QED BY <1>1, <2>1, <2>2, <2>3, RequestStep
<1>4. CASE Compute(r)
  <2>1. /\ stage'[r] = "computed" /\ status'[r] = status[r] /\ value'[r] = db
        /\ ask'[r] = ask[r] /\ saw'[r] = saw[r] /\ wrote'[r] = wrote[r] /\ age'[r] = age[r]
        /\ stage[r] = "missed" /\ Exists(ask[r].page) /\ UNCHANGED world
    BY <1>4 DEF Compute, Inv, TypeOK
  <2>2. OthersKept(r)
    BY <1>4 DEF OthersKept, Compute, Inv, TypeOK
  <2>3. IsRead(ask[r]) /\ ~wrote[r] /\ status[r] = 0
    BY <2>1 DEF Inv, Shape
  <2>4. FillIsDated(r)'
    BY <2>1, RestAssumption DEF FillIsDated, Exists, Inv, TypeOK, Versions, world
  <2> QED BY <1>1, <2>1, <2>2, <2>3, <2>4, RequestStep
<1>5. CASE ComputeOnly(r)
  <2>1. /\ stage'[r] = "answered" /\ status'[r] = 200 /\ value'[r] = db
        /\ ask'[r] = ask[r] /\ saw'[r] = saw[r] /\ wrote'[r] = wrote[r]
        /\ stage[r] = "bypass" /\ UNCHANGED world
    BY <1>5 DEF ComputeOnly, Answer, Inv, TypeOK
  <2>2. OthersKept(r)
    BY <1>5 DEF OthersKept, ComputeOnly, Answer, Inv, TypeOK
  <2>3. ~wrote[r]
    BY <2>1 DEF Inv, Shape
  <2> QED BY <1>1, <2>1, <2>2, <2>3, RequestStep
<1>6. CASE FindsNothing(r)
  <2>1. "NOT_FOUND" \in DOMAIN HttpStatus
    BY DEF HttpStatus
  <2>2. ~saw[r] /\ ~wrote[r]
    BY <1>1, <1>6 DEF FindsNothing, Exists, Inv, Shape, TypeOK, Versions
  <2> QED BY <1>6, <2>1, <2>2, InvProblem DEF FindsNothing
<1>7. CASE Store(r)
  <2> DEFINE p == ask[r].page
  <2>1. IsRead(ask[r]) /\ p \in Pages /\ ~wrote[r] /\ FillIsDated(r)
    BY <1>0, <1>7 DEF Store, Inv, Shape, Fills
  <2>2. /\ stage'[r] = "answered" /\ status'[r] = 200
        /\ UNCHANGED <<db, since, ask, saw, value, wrote>>
    BY <1>7 DEF Store, Answer, Inv, TypeOK
  <2>3. \A q \in Requests \ {r} :
          stage'[q] = stage[q] /\ age'[q] = age[q] /\ status'[q] = status[q]
    BY <1>7 DEF Store, Answer, Inv, TypeOK
  <2>4. /\ entry'[p] = [shows |-> value[r], left |-> TTL]
        /\ \A q \in Pages \ {p} : entry'[q] = entry[q]
    BY <1>7, <2>1 DEF Store, Inv, TypeOK
  <2>5. age[r] \in 0 .. MaxFill /\ value[r] \in Versions /\ since \in [Versions -> 0 .. Horizon]
    BY DEF Inv, TypeOK
  <2>6. EntryIsDated(p)'
    BY <2>1, <2>2, <2>4, <2>5, RestAssumption DEF EntryIsDated, FillIsDated, Versions, Horizon
  <2>7. Stored'
    BY <2>2, <2>4, <2>6 DEF Inv, Stored, EntryIsDated
  <2>8. Shape' /\ Ages' /\ Fills'
    BY <2>1, <2>2, <2>3 DEF Inv, Shape, Ages, Fills, FillIsDated
  <2>9. CreatedIsFound' /\ RefusalsChangeNothing'
    BY <1>0, <2>1, <2>2, <2>3 DEF Inv, CreatedIsFound, RefusalsChangeNothing, FillIsDated
  <2> QED BY <2>7, <2>8, <2>9 DEF Inv
<1>8. CASE StoreFails(r)
  <2>1. /\ stage'[r] = "answered" /\ status'[r] = 200 /\ value'[r] = value[r]
        /\ ask'[r] = ask[r] /\ saw'[r] = saw[r] /\ wrote'[r] = wrote[r]
        /\ stage[r] = "computed" /\ UNCHANGED world
    BY <1>8 DEF StoreFails, Answer, Inv, TypeOK
  <2>2. OthersKept(r)
    BY <1>8 DEF OthersKept, StoreFails, Answer, Inv, TypeOK
  <2>3. ~wrote[r] /\ FillIsDated(r)
    BY <2>1 DEF Inv, Shape, Fills
  <2> QED BY <1>0, <1>1, <2>1, <2>2, <2>3, RequestStep DEF FillIsDated
<1> QED BY <1>2, <1>3, <1>4, <1>5, <1>6, <1>7, <1>8 DEF Read

LEMMA InvChange ==
  ASSUME Inv, TypeOK', NEW r \in Requests, Change(r) PROVE Inv'
<1>1. saw[r] => db > 0
  BY DEF Inv, Shape
<1>2. CASE Admit(r)
  <2>1. /\ stage'[r] = "admitted" /\ status'[r] = status[r]
        /\ ask'[r] = ask[r] /\ saw'[r] = saw[r] /\ wrote'[r] = wrote[r]
        /\ stage[r] = "arrived" /\ ~IsRead(ask[r]) /\ UNCHANGED world
    BY <1>2 DEF Admit, Goes, Inv, TypeOK
  <2>2. OthersKept(r)
    BY <1>2 DEF OthersKept, Admit, Goes, Inv, TypeOK
  <2>3. ask[r].token = "admin"
    BY <1>2 DEF Admit, Verdict
  <2>4. ~wrote[r] /\ status[r] = 0
    BY <2>1 DEF Inv, Shape
  <2> QED BY <1>1, <2>1, <2>2, <2>3, <2>4, RequestStep
<1>3. CASE TurnAway(r)
  <2>1. Verdict(ask[r].token) \in DOMAIN HttpStatus \ {"NOT_FOUND"}
    BY <1>3 DEF TurnAway, Verdict, HttpStatus
  <2>2. ~wrote[r]
    BY <1>3 DEF TurnAway, Inv, Shape
  <2> QED BY <1>3, <2>1, <2>2, InvProblem DEF TurnAway
<1>4. CASE Refuse(r)
  <2>1. Refusals(ask[r].op) \subseteq DOMAIN HttpStatus
    BY DEF Refusals, HttpStatus
  <2>2. ~wrote[r] /\ ~IsRead(ask[r])
    BY <1>4 DEF Refuse, Inv, Shape
  <2>3. ask[r] # [page |-> "detail"]
    BY <2>2 DEF IsRead
  <2> QED BY <1>4, <2>1, <2>2, <2>3, InvProblem DEF Refuse
<1>5. CASE Write(r)
  <2>1. /\ db' = db + 1 /\ UNCHANGED <<since, entry, ask, saw, value, age, status>>
        /\ stage[r] = "admitted" /\ stage'[r] = "committed" /\ wrote'[r]
        /\ \A q \in Requests \ {r} : stage'[q] = stage[q] /\ wrote'[q] = wrote[q]
    BY <1>5 DEF Write, Inv, TypeOK
  <2>2. /\ db \in Versions /\ since \in [Versions -> 0 .. Horizon]
        /\ \A q \in Requests : value[q] \in Versions /\ age[q] \in 0 .. MaxFill
        /\ \A p \in Pages : entry[p] # Empty => entry[p].shows \in Versions /\ entry[p].left \in 1 .. TTL
    BY EntryFields DEF Inv, TypeOK
  <2>3. \A n \in Versions : n >= db => since[n] = 0
    BY DEF Inv, Ages
  <2>4. Ages'
    BY <2>1, <2>2, <2>3, RestAssumption DEF Ages, Versions
  <2>5. Stored'
    <3> SUFFICES ASSUME NEW p \in Pages, entry[p] # Empty PROVE EntryIsDated(p)'
      BY <2>1 DEF Stored
    <3>1. EntryIsDated(p)
      BY DEF Inv, Stored
    <3> QED BY <2>1, <2>2, <2>3, <3>1, RestAssumption DEF EntryIsDated, Versions, Horizon
  <2>6. Fills'
    <3> SUFFICES ASSUME NEW q \in Requests, stage'[q] = "computed" PROVE FillIsDated(q)'
      BY DEF Fills
    <3>1. FillIsDated(q)
      BY <2>1 DEF Inv, Fills
    <3> QED BY <2>1, <2>2, <2>3, <3>1, RestAssumption DEF FillIsDated, Versions, Horizon
  <2>7. Shape'
    <3> SUFFICES ASSUME NEW q \in Requests
                 PROVE  /\ stage'[q] \in {"missed", "bypass", "computed"} => IsRead(ask[q])
                        /\ stage'[q] \in {"admitted", "committed"} =>
                             ~IsRead(ask[q]) /\ ask[q].token = "admin"
                        /\ status[q] # 0 => stage'[q] = "answered"
                        /\ wrote'[q] => ~IsRead(ask[q]) /\ stage'[q] \in {"committed", "answered"}
                        /\ saw[q] => db + 1 > 0
      BY <2>1 DEF Shape
    <3>1. db + 1 > 0
      BY <2>2, RestAssumption DEF Versions
    <3>2. CASE q = r
      BY <2>1, <3>1, <3>2 DEF Inv, Shape
    <3>3. CASE q # r
      BY <2>1, <3>1, <3>3 DEF Inv, Shape
    <3> QED BY <3>2, <3>3
  <2>8. CreatedIsFound'
    BY <2>1 DEF Inv, CreatedIsFound
  <2>9. status[r] = 0 /\ ask[r].token = "admin"
    BY <2>1 DEF Inv, Shape
  <2>10. RefusalsChangeNothing'
    BY <2>1, <2>9 DEF Inv, RefusalsChangeNothing
  <2> QED BY <2>4, <2>5, <2>6, <2>7, <2>8, <2>10 DEF Inv
<1>6. CASE Reply(r)
  <2>1. /\ stage'[r] = "answered" /\ status'[r] \in {200, 201}
        /\ ask'[r] = ask[r] /\ saw'[r] = saw[r] /\ wrote'[r] = wrote[r]
        /\ stage[r] = "committed" /\ UNCHANGED world
    BY <1>6 DEF Reply, Success, Answer, Inv, TypeOK
  <2>2. OthersKept(r)
    BY <1>6 DEF OthersKept, Reply, Answer, Inv, TypeOK
  <2>3. ~IsRead(ask[r]) /\ ask[r].token = "admin"
    BY <2>1 DEF Inv, Shape
  <2>4. ask[r] # [page |-> "detail"]
    BY <2>3 DEF IsRead
  <2> QED BY <1>1, <2>1, <2>2, <2>3, <2>4, RequestStep
<1> QED BY <1>2, <1>3, <1>4, <1>5, <1>6 DEF Change

LEMMA InvTick ==
  ASSUME Inv, TypeOK', Tick PROVE Inv'
<1>1. /\ UNCHANGED <<db, stage, ask, saw, value, wrote, status>>
      /\ \A n \in Versions :
           since'[n] = IF n < db /\ since[n] < Horizon THEN since[n] + 1 ELSE since[n]
      /\ \A p \in Pages : entry'[p] = Remains(entry[p])
      /\ \A r \in Requests : stage[r] = "computed" => age'[r] = age[r] + 1 /\ age[r] < MaxFill
  BY DEF Tick, Inv, TypeOK
<1>2. /\ db \in Versions /\ since \in [Versions -> 0 .. Horizon]
      /\ \A q \in Requests : value[q] \in Versions /\ age[q] \in 0 .. MaxFill
  BY DEF Inv, TypeOK
<1>3. Ages'
  BY <1>1, <1>2, RestAssumption DEF Ages, Inv, Versions, Horizon
<1>4. Fills'
  <2> SUFFICES ASSUME NEW q \in Requests, stage'[q] = "computed" PROVE FillIsDated(q)'
    BY DEF Fills
  <2>1. FillIsDated(q)
    BY <1>1 DEF Inv, Fills
  <2>2. /\ value[q] < db => since[value[q]] <= age[q]
        /\ age[q] < MaxFill /\ age'[q] = age[q] + 1 /\ value[q] \in Versions /\ value'[q] = value[q]
    BY <1>1, <1>2, <2>1 DEF FillIsDated
  <2>3. value[q] < db => since'[value[q]] = since[value[q]] + 1
    BY <1>1, <1>2, <2>2, RestAssumption DEF Versions, Horizon
  <2>4. value'[q] < db' => since'[value'[q]] <= age'[q]
    BY <1>1, <1>2, <2>2, <2>3, RestAssumption DEF Versions
  <2> QED BY <1>1, <2>1, <2>4 DEF FillIsDated
<1>5. Stored'
  <2> SUFFICES ASSUME NEW p \in Pages, entry'[p] # Empty PROVE EntryIsDated(p)'
    BY DEF Stored
  <2>1. entry[p] # Empty /\ entry[p] \in Entries /\ entry[p].left > 1
    BY <1>1 DEF Remains, Empty, Inv, TypeOK
  <2>2. /\ entry'[p].shows = entry[p].shows /\ entry'[p].left = entry[p].left - 1
        /\ entry[p].shows \in Versions /\ entry[p].left \in 1 .. TTL
    BY <1>1, <2>1, EntryFields DEF Remains, Entries
  <2>3. EntryIsDated(p)
    BY <2>1 DEF Inv, Stored
  <2> DEFINE n == entry[p].shows
  <2>4. n < db => since[n] + entry[p].left <= TTL + MaxFill
    BY <2>3 DEF EntryIsDated
  <2>5. n < db => since[n] < Horizon
    BY <1>2, <2>2, <2>4, RestAssumption DEF Versions, Horizon
  <2>6. n < db => since'[n] = since[n] + 1
    BY <1>1, <2>2, <2>5
  <2>7. n < db => since'[n] + (entry[p].left - 1) <= TTL + MaxFill
    <3>1. since[n] \in Int /\ entry[p].left \in Int /\ TTL \in Int /\ MaxFill \in Int
      BY <1>2, <2>2, RestAssumption
    <3> QED BY <2>4, <2>6, <3>1
  <2> QED BY <1>1, <2>2, <2>3, <2>7 DEF EntryIsDated
<1>6. Shape' /\ CreatedIsFound' /\ RefusalsChangeNothing'
  BY <1>1 DEF Inv, Shape, CreatedIsFound, RefusalsChangeNothing
<1> QED BY <1>3, <1>4, <1>5, <1>6 DEF Inv

LEMMA InvNext == Inv /\ [Next]_vars => Inv'
<1> SUFFICES ASSUME Inv, [Next]_vars PROVE Inv'
  OBVIOUS
<1>1. TypeOK'
  BY TypeNext DEF Inv
<1>2. ASSUME NEW r \in Requests, RejectInput(r) \/ Breaks(r) PROVE Inv'
  <2>1. {"INVALID_ARGUMENT", "INTERNAL"} \subseteq DOMAIN HttpStatus
    BY DEF HttpStatus
  <2>2. stage[r] = "arrived" => ~wrote[r]
    BY DEF Inv, Shape
  <2> QED BY <1>1, <1>2, <2>1, <2>2, InvProblem DEF RejectInput, Breaks
<1>3. ASSUME NEW p \in Pages, Evict(p) PROVE Inv'
  BY <1>1, <1>3 DEF Evict, request, Inv, TypeOK, Shape, Ages, Fills, FillIsDated, Stored,
       EntryIsDated, CreatedIsFound, RefusalsChangeNothing
<1>4. CASE UNCHANGED vars
  BY <1>1, <1>4 DEF vars, Inv, Shape, Ages, Fills, FillIsDated, Stored, EntryIsDated,
       CreatedIsFound, RefusalsChangeNothing
<1> QED BY <1>1, <1>2, <1>3, <1>4, InvArrive, InvRead, InvChange, InvTick DEF Next

THEOREM InvCorrect == Spec => []Inv
BY InvInit, InvNext, PTL DEF Spec

\* A festival that exists when the request for it arrives is found.
THEOREM CreatedFestivalsAreFound == Spec => []CreatedIsFound
BY InvCorrect, PTL DEF Inv

\* What is refused has changed nothing, and only an ADMIN changes anything.
THEOREM RefusedWritesChangeNothing == Spec => []RefusalsChangeNothing
BY InvCorrect, PTL DEF Inv

-----------------------------------------------------------------------------
(* How old an answer may be *)

\* An answer, and what it shows, is given by a step of the request itself.
LEMMA RecentAnswer ==
  ASSUME Inv, NEW r \in Requests, Read(r), status'[r] = 200
  PROVE  Recent(value'[r], TTL + MaxFill) \/ status[r] = 200
<1>0. /\ IsRead(ask[r]) => ask[r].page \in Pages
      /\ since \in [Versions -> 0 .. Horizon] /\ db \in Versions
      /\ value[r] \in Versions /\ age[r] \in 0 .. MaxFill
  BY KindOfAsk DEF Inv, TypeOK
<1>1. CASE Hit(r)
  <2> DEFINE e == entry[ask[r].page]
  <2>1. value'[r] = e.shows /\ EntryIsDated(ask[r].page) /\ e \in Entries
    BY <1>0, <1>1 DEF Hit, Inv, TypeOK, Stored
  <2>2. e.shows \in Versions /\ e.left \in 1 .. TTL
    BY <2>1, EntryFields
  <2>3. e.shows <= db /\ (e.shows < db => since[e.shows] + e.left <= TTL + MaxFill)
    BY <2>1 DEF EntryIsDated
  <2>4. e.shows < db => since[e.shows] < TTL + MaxFill
    <3>1. /\ since[e.shows] \in Int /\ e.left \in Int /\ e.left >= 1
          /\ TTL \in Int /\ MaxFill \in Int
      BY <1>0, <2>2, RestAssumption
    <3> QED BY <2>3, <3>1
  <2>5. e.shows = db \/ e.shows < db
    BY <1>0, <2>2, <2>3, RestAssumption DEF Versions
  <2> QED BY <2>1, <2>4, <2>5 DEF Recent
<1>2. CASE ComputeOnly(r)
  BY <1>2 DEF ComputeOnly, Inv, TypeOK, Recent
<1>3. CASE Store(r) \/ StoreFails(r)
  <2>1. value'[r] = value[r] /\ FillIsDated(r)
    BY <1>3 DEF Store, StoreFails, Inv, Fills
  <2> QED BY <1>0, <2>1, RestAssumption DEF FillIsDated, Recent, Versions, Horizon
<1>4. CASE FindsNothing(r)
  <2>1. status'[r] = 404
    BY <1>4 DEF FindsNothing, Problem, Answer, HttpStatus, Inv, TypeOK
  <2> QED BY <2>1
<1>5. CASE Miss(r) \/ CacheReadFails(r) \/ Hangs(r) \/ Compute(r)
  BY <1>5 DEF Miss, CacheReadFails, Hangs, Compute, Goes
<1> QED BY <1>1, <1>2, <1>3, <1>4, <1>5 DEF Read

LEMMA RecentStep ==
  ASSUME Inv, [Next]_vars, NEW r \in Requests,
         status[r] = 0, status'[r] = 200, IsRead(ask[r])
  PROVE  Recent(value'[r], TTL + MaxFill)
<1>1. ASSUME NEW q \in Requests, Read(q) PROVE q = r
  BY <1>1 DEF Read, Hit, Miss, CacheReadFails, Hangs, Compute, ComputeOnly, FindsNothing, Store,
       StoreFails, Goes, Problem, Answer, Inv, TypeOK
<1>2. ASSUME NEW q \in Requests, NEW code \in DOMAIN HttpStatus, Problem(q, code) PROVE FALSE
  <2>1. HttpStatus[code] # 200
    BY DEF HttpStatus
  <2> QED BY <1>2, <2>1 DEF Problem, Answer, Inv, TypeOK
<1>3. ASSUME NEW q \in Requests, Change(q) PROVE FALSE
  <2>1. Admit(q) \/ Write(q) \/ Reply(q) \/ \E code \in DOMAIN HttpStatus : Problem(q, code)
    <3>1. {"UNAUTHENTICATED", "PERMISSION_DENIED", "INVALID_ARGUMENT", "NOT_FOUND",
           "ALREADY_EXISTS", "CONFLICT", "FAILED_PRECONDITION"} \subseteq DOMAIN HttpStatus
      BY DEF HttpStatus
    <3> QED BY <1>3, <3>1 DEF Change, TurnAway, Verdict, Refuse, Refusals
  <2>2. Reply(q) => q # r
    BY DEF Reply, Inv, Shape
  <2> QED BY <1>2, <2>1, <2>2 DEF Admit, Write, Reply, Goes, Answer, Inv, TypeOK
<1>4. ASSUME NEW q \in Requests, Arrive(q) \/ RejectInput(q) \/ Breaks(q) PROVE FALSE
  <2>1. {"INVALID_ARGUMENT", "INTERNAL"} \subseteq DOMAIN HttpStatus
    BY DEF HttpStatus
  <2>2. ~Arrive(q)
    BY DEF Arrive, Inv, TypeOK
  <2> QED BY <1>2, <1>4, <2>1, <2>2 DEF RejectInput, Breaks
<1>5. ~UNCHANGED vars /\ ~Tick /\ \A p \in Pages : ~Evict(p)
  BY DEF vars, Tick, Evict, request
<1>6. Read(r)
  BY <1>1, <1>3, <1>4, <1>5 DEF Next
<1> QED BY <1>6, RecentAnswer

\* What a read is answered with was true less than TTL + MaxFill ago.
THEOREM AnswersStayRecent == Spec => AnswersAreRecent
<1>1. Inv /\ [Next]_vars =>
        [\A r \in Requests :
           status[r] = 0 /\ status'[r] = 200 /\ IsRead(ask[r]) =>
             Recent(value'[r], TTL + MaxFill)]_vars
  BY RecentStep
<1> QED BY <1>1, InvCorrect, PTL DEF Spec, AnswersAreRecent
=============================================================================
