-------------------------- MODULE RepositoryProofs --------------------------
(***************************************************************************)
(* Theorems about Repository, for every set of bodies, changes and         *)
(* selections that its assumptions allow, and for as many rows: what the   *)
(* operators of STLRepository compute, the invariant of the rows, and what *)
(* each request does to them.                                              *)
(***************************************************************************)
EXTENDS Repository, ListProofs

-----------------------------------------------------------------------------
(* Position, and the query a read leaves behind. *)

LEMMA LeastIs ==
    ASSUME NEW S \in SUBSET Nat, S # {}
    PROVE  Min(S) \in S /\ \A n \in S : Min(S) <= n
BY Least DEF Min

(* Position is 0 for a key nobody has, and otherwise where it is first. *)
LEMMA PositionIs ==
    ASSUME NEW list, NEW key, Len(list) \in Nat
    PROVE  /\ Position(list, key) \in 0 .. Len(list)
           /\ Position(list, key) = 0 =>
                 \A i \in 1 .. Len(list) : Key(list[i]) # Lower(key)
           /\ Position(list, key) # 0 =>
                 /\ Key(list[Position(list, key)]) = Lower(key)
                 /\ \A i \in 1 .. Len(list) :
                       Key(list[i]) = Lower(key) => Position(list, key) <= i
<1> DEFINE I == {i \in 1 .. Len(list) : Key(list[i]) = Lower(key)}
<1>1. Position(list, key) = IF I # {} THEN Min(I) ELSE 0
  BY DEF Position, SelectInSeq
<1>2. I \in SUBSET Nat
  OBVIOUS
<1>3. I # {} => Min(I) \in I /\ \A n \in I : Min(I) <= n
  BY <1>2, LeastIs
<1> QED BY <1>1, <1>3

(* A query has a result and an error. *)
IsQuery(q) == {"resultset", "error"} \subseteq DOMAIN q

MissesKey(q) == \E i \in DOMAIN q.keys : Position(rows, q.keys[i]) = 0

Passes(row, q) == PassesExclusive(row, q.exclusive) /\ PassesInclusive(row, q.inclusive)

Found(q) ==
    IF q.keys = << >> THEN rows
    ELSE [i \in DOMAIN q.keys |-> rows[Position(rows, q.keys[i])]]

Passing(q) == Kept(Found(q), {i \in DOMAIN Found(q) : Passes(Found(q)[i], q)})

Paged(q) == Page(Passing(q), q)

Results(q) == Fields(Paged(q) \o Related(Paged(q), q.include), q.fields)

LEMMA ReadIs ==
    ASSUME NEW q, IsQuery(q)
    PROVE  /\ MissesKey(q) => /\ Read(q) = [q EXCEPT !.error = 40004]
                              /\ Read(q).error = 40004
                              /\ Read(q).resultset = q.resultset
           /\ ~ MissesKey(q) => /\ Read(q) = [q EXCEPT !.resultset = Results(q)]
                                /\ Read(q).error = q.error
                                /\ Read(q).resultset = Results(q)
<1> DEFINE failed == [q EXCEPT !.error = 40004]
           answered == [q EXCEPT !.resultset = Results(q)]
<1>1. MissesKey(q) => Read(q) = failed
  BY DEF Read, MissesKey
<1>2. failed.error = 40004 /\ failed.resultset = q.resultset
  BY DEF IsQuery
<1>3. ~ MissesKey(q) => Read(q) = answered
  BY DEF Read, MissesKey, Results, Paged, Passing, Found, Passes
<1>4. answered.error = q.error /\ answered.resultset = Results(q)
  BY DEF IsQuery
<1> HIDE DEF failed, answered
<1>5. MissesKey(q) => Read(q).error = 40004 /\ Read(q).resultset = q.resultset
  BY <1>1, <1>2
<1>6. ~ MissesKey(q) => Read(q).error = q.error /\ Read(q).resultset = Results(q)
  BY <1>3, <1>4
<1> QED BY <1>1, <1>3, <1>5, <1>6 DEF failed, answered

LEMMA ReadFails ==
    ASSUME NEW q, IsQuery(q), MissesKey(q)
    PROVE  Read(q).error = 40004 /\ Read(q).resultset = q.resultset
BY ReadIs

LEMMA ReadSucceeds ==
    ASSUME NEW q, IsQuery(q), ~ MissesKey(q)
    PROVE  Read(q).error = q.error /\ Read(q).resultset = Results(q)
BY ReadIs

LEMMA QueriesAre ==
    ASSUME NEW selection, NEW type
    PROVE  /\ IsQuery(QueryOf(selection, type))
           /\ QueryOf(selection, type).error = 0
           /\ QueryOf(selection, type).resultset = << >>
           /\ IsQuery(UpdateQuery(selection, type))
           /\ UpdateQuery(selection, type).error = 0
           /\ UpdateQuery(selection, type).resultset = << >>
<1>1. /\ IsQuery(QueryOf(selection, type))
      /\ QueryOf(selection, type).error = 0
      /\ QueryOf(selection, type).resultset = << >>
  BY DEF QueryOf, IsQuery
<1> DEFINE q == QueryOf(selection, type)
<1> HIDE DEF q
<1>2. UpdateQuery(selection, type) = [q EXCEPT !.include = IF type = "queue" THEN "" ELSE type]
  BY DEF UpdateQuery, q
<1>3. /\ IsQuery(UpdateQuery(selection, type))
      /\ UpdateQuery(selection, type).error = q.error
      /\ UpdateQuery(selection, type).resultset = q.resultset
  BY <1>1, <1>2 DEF IsQuery, q
<1> QED BY <1>1, <1>3 DEF q

-----------------------------------------------------------------------------
(* What Update and Destroy define by recursion: there are functions of the  *)
(* kind, over lists of any length.                                          *)

Untouched == [list |-> rows, defined |-> TRUE]

Erase(store, result) ==
    LET at == FoundFor(store.list, result)
    IN  IF at = 0 THEN [store EXCEPT !.defined = FALSE]
        ELSE [store EXCEPT !.list = RemoveAt(@, at)]

ErasedUpTo(results, m, f) ==
    f = [n \in 0 .. m |->
            IF n = 0 THEN Untouched
            ELSE Erase(f[n - 1], results[n])]

LEMMA ErasedExists ==
    ASSUME NEW results, NEW m \in Nat
    PROVE  \E f : ErasedUpTo(results, m, f)
<1> DEFINE S == {n \in Nat : \E f : ErasedUpTo(results, n, f)}
<1>1. 0 \in S
  <2>1. ErasedUpTo(results, 0, [k \in 0 .. 0 |-> Untouched])
    BY DEF ErasedUpTo
  <2> QED BY <2>1
<1>2. ASSUME NEW n \in Nat, n \in S PROVE n + 1 \in S
  <2>1. PICK f : ErasedUpTo(results, n, f)
    BY <1>2
  <2> DEFINE next == Erase(f[n], results[n + 1])
             g == [k \in 0 .. n + 1 |-> IF k = n + 1 THEN next ELSE f[k]]
  <2>2. \A k \in 0 .. n : f[k] = IF k = 0 THEN Untouched
                                 ELSE Erase(f[k - 1], results[k])
    BY <2>1 DEF ErasedUpTo
  <2>3. /\ \A k \in 0 .. n : g[k] = f[k]
        /\ g[n + 1] = next
        /\ g = [k \in 0 .. n + 1 |-> g[k]]
    OBVIOUS
  <2> HIDE DEF next, g
  <2>4. ASSUME NEW k \in 0 .. n + 1
        PROVE  g[k] = IF k = 0 THEN Untouched
                      ELSE Erase(g[k - 1], results[k])
    <3>1. CASE k = n + 1
      <4>1. g[k - 1] = f[n]
        BY <3>1, <2>3
      <4> QED BY <3>1, <4>1, <2>3 DEF next
    <3>2. CASE k # n + 1
      <4>1. k \in 0 .. n /\ (k # 0 => k - 1 \in 0 .. n)
        BY <3>2
      <4> QED BY <4>1, <2>2, <2>3
    <3> QED BY <3>1, <3>2
  <2>5. ErasedUpTo(results, n + 1, g)
    BY <2>3, <2>4 DEF ErasedUpTo
  <2> QED BY <2>5
<1> HIDE DEF S
<1>3. Nat \subseteq S
  BY <1>1, <1>2, Induction
<1> QED BY <1>3 DEF S

(* f[n] is the store after the first n results have been erased. *)
Erases(results, f) ==
    /\ f[0] = Untouched
    /\ \A n \in 1 .. Len(results) : f[n] = Erase(f[n - 1], results[n])

LEMMA DestroyIs ==
    ASSUME NEW q, Len(Read(q).resultset) \in Nat
    PROVE  \E f : /\ Erases(Read(q).resultset, f)
                  /\ Destroy(q).query = Read(q)
                  /\ Destroy(q).store = f[IF Read(q).error # 0 THEN 0
                                          ELSE Len(Read(q).resultset)]
<1> DEFINE results == Read(q).resultset
<1>1. PICK f : ErasedUpTo(results, Len(results), f)
  BY ErasedExists
<1>2. PICK g :
        /\ ErasedUpTo(results, Len(results), g)
        /\ Destroy(q) = [store |-> g[IF Read(q).error # 0 THEN 0 ELSE Len(results)],
                         query |-> Read(q)]
  BY <1>1 DEF Destroy, ErasedUpTo, Erase, Untouched
<1>l. Len(results) \in Nat
  OBVIOUS
<1>5. Destroy(q).query = Read(q)
      /\ Destroy(q).store = g[IF Read(q).error # 0 THEN 0 ELSE Len(results)]
  BY <1>2
<1> HIDE DEF results
<1>3. \A n \in 0 .. Len(results) : g[n] = IF n = 0 THEN Untouched
                                         ELSE Erase(g[n - 1], results[n])
  BY <1>2 DEF ErasedUpTo
<1>4. Erases(results, g)
  <2>1. g[0] = Untouched
    BY <1>l, <1>3
  <2>2. ASSUME NEW n \in 1 .. Len(results) PROVE g[n] = Erase(g[n - 1], results[n])
    <3>1. n \in 0 .. Len(results) /\ n # 0
      OBVIOUS
    <3> QED BY <1>3, <3>1
  <2> QED BY <2>1, <2>2 DEF Erases
<1> QED BY <1>4, <1>5 DEF results

(* Writing a result back. *)
Write(list, result) ==
    [list EXCEPT ![Position(list, result["key"][1])] = result]

WrittenUpTo(results, m, f) ==
    f = [n \in 0 .. m |-> IF n = 0 THEN rows ELSE Write(f[n - 1], results[n])]

LEMMA WrittenExists ==
    ASSUME NEW results, NEW m \in Nat
    PROVE  \E f : WrittenUpTo(results, m, f)
<1> DEFINE S == {n \in Nat : \E f : WrittenUpTo(results, n, f)}
<1>1. 0 \in S
  <2>1. WrittenUpTo(results, 0, [k \in 0 .. 0 |-> rows])
    BY DEF WrittenUpTo
  <2> QED BY <2>1
<1>2. ASSUME NEW n \in Nat, n \in S PROVE n + 1 \in S
  <2>1. PICK f : WrittenUpTo(results, n, f)
    BY <1>2
  <2> DEFINE next == Write(f[n], results[n + 1])
             g == [k \in 0 .. n + 1 |-> IF k = n + 1 THEN next ELSE f[k]]
  <2>2. \A k \in 0 .. n : f[k] = IF k = 0 THEN rows ELSE Write(f[k - 1], results[k])
    BY <2>1 DEF WrittenUpTo
  <2>3. /\ \A k \in 0 .. n : g[k] = f[k]
        /\ g[n + 1] = next
        /\ g = [k \in 0 .. n + 1 |-> g[k]]
    OBVIOUS
  <2> HIDE DEF next, g
  <2>4. ASSUME NEW k \in 0 .. n + 1
        PROVE  g[k] = IF k = 0 THEN rows ELSE Write(g[k - 1], results[k])
    <3>1. CASE k = n + 1
      <4>1. g[k - 1] = f[n]
        BY <3>1, <2>3
      <4> QED BY <3>1, <4>1, <2>3 DEF next
    <3>2. CASE k # n + 1
      <4>1. k \in 0 .. n /\ (k # 0 => k - 1 \in 0 .. n)
        BY <3>2
      <4> QED BY <4>1, <2>2, <2>3
    <3> QED BY <3>1, <3>2
  <2>5. WrittenUpTo(results, n + 1, g)
    BY <2>3, <2>4 DEF WrittenUpTo
  <2> QED BY <2>5
<1> HIDE DEF S
<1>3. Nat \subseteq S
  BY <1>1, <1>2, Induction
<1> QED BY <1>3 DEF S

(* f[n] is the list after the first n results have been written. *)
Writes(results, f) ==
    /\ f[0] = rows
    /\ \A n \in 1 .. Len(results) : f[n] = Write(f[n - 1], results[n])

Unfielded(q) == Read([q EXCEPT !.fields = {}])

ChangedResults(change, q) ==
    [i \in DOMAIN Unfielded(q).resultset |-> Changed(Unfielded(q).resultset[i], change)]

SomeApplied(change, q) ==
    \E i \in DOMAIN ChangedResults(change, q) : Applied(Unfielded(q).resultset[i], change)

LEMMA UpdateFails ==
    ASSUME NEW change, NEW q, Unfielded(q).error # 0
    PROVE  Update(change, q) =
               [list |-> rows, query |-> [q EXCEPT !.error = Unfielded(q).error]]
BY DEF Update, Unfielded

LEMMA UpdateIs ==
    ASSUME NEW change, NEW q, Unfielded(q).error = 0,
           Len(Unfielded(q).resultset) \in Nat,
           DOMAIN Unfielded(q).resultset = 1 .. Len(Unfielded(q).resultset)
    PROVE  \E f : /\ Writes(ChangedResults(change, q), f)
                  /\ Update(change, q).list = f[Len(ChangedResults(change, q))]
                  /\ Update(change, q).query =
                        [q EXCEPT !.resultset = IF SomeApplied(change, q)
                                                THEN Fields(ChangedResults(change, q), q.fields)
                                                ELSE << >>]
<1> DEFINE results == ChangedResults(change, q)
<1>0. DOMAIN results = 1 .. Len(results) /\ Len(results) \in Nat
  BY DEF ChangedResults
<1>1. PICK f : WrittenUpTo(results, Len(results), f)
  BY <1>0, WrittenExists
<1> DEFINE query == [q EXCEPT !.resultset = IF SomeApplied(change, q)
                                            THEN Fields(results, q.fields) ELSE << >>]
<1>2. PICK g :
        /\ WrittenUpTo(results, Len(results), g)
        /\ Update(change, q) = [list |-> g[Len(results)], query |-> query]
  BY <1>1 DEF Update, WrittenUpTo, Write, Unfielded, ChangedResults, SomeApplied
<1> HIDE DEF query, results
<1>3. \A n \in 0 .. Len(results) : g[n] = IF n = 0 THEN rows ELSE Write(g[n - 1], results[n])
  BY <1>2 DEF WrittenUpTo
<1>4. Writes(results, g)
  BY <1>0, <1>3 DEF Writes
<1>5. Update(change, q).list = g[Len(results)] /\ Update(change, q).query = query
  BY <1>2
<1> QED BY <1>4, <1>5 DEF query, results

LEMMA UpdateAnswers ==
    ASSUME NEW change, NEW q, Unfielded(q).error = 0
    PROVE  Update(change, q).query =
              [q EXCEPT !.resultset = IF SomeApplied(change, q)
                                      THEN Fields(ChangedResults(change, q), q.fields)
                                      ELSE << >>]
BY DEF Update, Unfielded, ChangedResults, SomeApplied

LEMMA UnfieldedIs ==
    ASSUME NEW q, IsQuery(q), q.error = 0
    PROVE  /\ IsQuery([q EXCEPT !.fields = {}])
           /\ [q EXCEPT !.fields = {}].error = 0
           /\ [q EXCEPT !.fields = {}].resultset = q.resultset
           /\ Unfielded(q).error \in {0, 40004}
           /\ Unfielded(q).error # 0 <=> MissesKey([q EXCEPT !.fields = {}])
<1> DEFINE r == [q EXCEPT !.fields = {}]
<1>1. IsQuery(r) /\ r.error = 0 /\ r.resultset = q.resultset
  BY DEF IsQuery
<1>2. Unfielded(q) = Read(r)
  BY DEF Unfielded
<1> HIDE DEF r
<1>3. Read(r).error \in {0, 40004} /\ (Read(r).error # 0 <=> MissesKey(r))
  BY <1>1, ReadIs
<1> QED BY <1>1, <1>2, <1>3 DEF r

-----------------------------------------------------------------------------
(* A request that is refused leaves no trace (stl_repository.cpp:69-86,      *)
(* 168-171, 234-243).                                                        *)

LEMMA RefusedPost ==
    ASSUME NEW type, NEW selection, NEW values, Post(type, selection, values),
           answer'.code \in {400, 404, 409, 500}
    PROVE  rows' = rows
<1> DEFINE initialised == [i \in DOMAIN values |-> Initialised(values[i], type)]
           q == QueryOf(selection, type)
           created == Create(initialised, q)
<1>q. IsQuery(q) /\ q.error = 0
  BY QueriesAre
<1> HIDE DEF q, initialised
<1>1. CASE rows' = created.list
           /\ answer'.code = IF created.query.error # 0 THEN Status(created.query.error) ELSE 201
  <2>1. CASE \E i \in DOMAIN initialised : Position(rows, initialised[i]["key"][1]) # 0
    BY <1>1, <2>1 DEF Create
  <2>2. CASE ~ \E i \in DOMAIN initialised : Position(rows, initialised[i]["key"][1]) # 0
    <3>1. created.query = [q EXCEPT !.resultset = Fields(initialised, q.fields)]
      BY <2>2 DEF Create
    <3>2. created.query.error = 0
      BY <1>q, <3>1 DEF IsQuery
    <3> QED BY <1>1, <3>2
  <2> QED BY <2>1, <2>2
<1>2. rows' = rows \/ (/\ rows' = created.list
                       /\ answer'.code = IF created.query.error # 0
                                         THEN Status(created.query.error) ELSE 201)
  BY DEF Post, Reply, created, initialised, q
<1> QED BY <1>1, <1>2

LEMMA RefusedPut ==
    ASSUME NEW type, NEW selection, NEW changes, Put(type, selection, changes),
           answer'.code \in {400, 404, 409, 500}
    PROVE  rows' = rows
<1> DEFINE change == Last(changes)
           typed == [p \in DOMAIN change \cup {"type"} |->
                        IF p = "type" THEN << type >> ELSE change[p]]
           q == UpdateQuery(selection, type)
           updated == Update(typed, q)
<1>q. IsQuery(q) /\ q.error = 0
  BY QueriesAre
<1> HIDE DEF q, typed
<1>1. CASE rows' = updated.list
           /\ answer'.code = IF updated.query.error # 0 THEN Status(updated.query.error)
                             ELSE IF updated.query.resultset = << >> THEN 204 ELSE 200
  <2>1. CASE Unfielded(q).error # 0
    BY <1>1, <2>1, UpdateFails
  <2>2. CASE Unfielded(q).error = 0
    <3> DEFINE shown == IF SomeApplied(typed, q)
                        THEN Fields(ChangedResults(typed, q), q.fields) ELSE << >>
    <3>0. updated.query = [q EXCEPT !.resultset = shown]
      BY <2>2, UpdateAnswers
    <3> HIDE DEF shown
    <3>1. updated.query.error = 0
      BY <1>q, <3>0 DEF IsQuery
    <3> QED BY <1>1, <3>1
  <2> QED BY <2>1, <2>2
<1>2. rows' = rows \/ (/\ rows' = updated.list
                       /\ answer'.code = IF updated.query.error # 0
                                         THEN Status(updated.query.error)
                                         ELSE IF updated.query.resultset = << >>
                                              THEN 204 ELSE 200)
  BY DEF Put, Reply, Lost, Undefined, updated, typed, q
<1> QED BY <1>1, <1>2

LEMMA RefusedDelete ==
    ASSUME NEW type, NEW selection, Delete(type, selection),
           answer'.code \in {400, 404, 409, 500}
    PROVE  rows' = rows
<1> DEFINE q == QueryOf(selection, type)
           destroyed == Destroy(q)
<1>q. IsQuery(q) /\ q.error = 0 /\ q.resultset = << >>
  BY QueriesAre
<1>1. /\ destroyed.store.defined
      /\ answer'.code = IF destroyed.query.error # 0 THEN 404 ELSE 204
      /\ rows' = destroyed.store.list
  BY DEF Delete, Reply, Lost, Undefined
<1> HIDE DEF q
<1>2. destroyed.query = Read(q)
  BY DEF Destroy
<1> HIDE DEF destroyed
<1>3. Read(q).error # 0
  BY <1>1, <1>2
<1>4. Read(q).resultset = << >>
  BY <1>q, <1>3, ReadIs
<1>5. Len(Read(q).resultset) \in Nat
  BY <1>4
<1>6. PICK f : Erases(Read(q).resultset, f) /\ Destroy(q).store = f[0]
  BY <1>3, <1>5, DestroyIs
<1>7. Destroy(q).store = Untouched
  BY <1>6 DEF Erases
<1>8. destroyed.store.defined /\ destroyed.store.list = rows
  BY <1>7 DEF Untouched, destroyed
<1> QED BY <1>1, <1>8

(* A request that is refused leaves no trace, for however many resources it  *)
(* was (stl_repository.cpp:69-86, 168-171, 234-243).                         *)
THEOREM RefusedRequestsChangeNothing == Spec => RefusedChangesNothing
<1>1. ASSUME [Next]_vars
      PROVE  [answer'.code \in {400, 404, 409, 500} => rows' = rows]_vars
  <2> SUFFICES ASSUME Next, answer'.code \in {400, 404, 409, 500} PROVE rows' = rows
    BY <1>1
  <2>1. CASE Answered
    BY <2>1 DEF Answered
  <2>2. CASE Request
    <3>1. PICK selection \in Selections :
             \/ \E type \in Types :
                   \/ Get(type, selection)
                   \/ \E body \in Bodies : body.type = type /\ Post(type, selection, body.values)
                   \/ \E changes \in Changes : Put(type, selection, changes)
                   \/ Delete(type, selection)
             \/ Publish(selection)
      BY <2>2 DEF Request
    <3>2. CASE Publish(selection)
      BY <3>2 DEF Publish, Lost, Reply, Undefined
    <3>3. ASSUME NEW type \in Types, Get(type, selection) PROVE rows' = rows
      BY <3>3 DEF Get
    <3>4. ASSUME NEW type \in Types, NEW body \in Bodies, Post(type, selection, body.values)
          PROVE  rows' = rows
      BY <3>4, RefusedPost
    <3>5. ASSUME NEW type \in Types, NEW change \in Changes, Put(type, selection, change)
          PROVE  rows' = rows
      BY <3>5, RefusedPut
    <3>6. ASSUME NEW type \in Types, Delete(type, selection) PROVE rows' = rows
      BY <3>6, RefusedDelete
    <3> QED BY <3>1, <3>2, <3>3, <3>4, <3>5, <3>6
  <2> QED BY <2>1, <2>2 DEF Next
<1> QED BY <1>1, PTL DEF Spec, RefusedChangesNothing

-----------------------------------------------------------------------------
(* What a DELETE leaves is a part of the rows. *)

LEMMA FoundForIs ==
    ASSUME NEW list, NEW result, Len(list) \in Nat
    PROVE  FoundFor(list, result) \in 0 .. Len(list)
<1>1. \A key : Position(list, key) \in 0 .. Len(list)
  BY PositionIs
<1> QED BY <1>1 DEF FoundFor

Store(list, defined) == [list |-> list, defined |-> defined]

LEMMA StoreIs ==
    ASSUME NEW list, NEW defined
    PROVE  Store(list, defined).list = list /\ Store(list, defined).defined = defined
BY DEF Store

LEMMA StoreWith ==
    ASSUME NEW list, NEW defined, NEW other
    PROVE  /\ [Store(list, defined) EXCEPT !.defined = other] = Store(list, other)
           /\ [Store(list, defined) EXCEPT !.list = other] = Store(other, defined)
BY DEF Store

LEMMA EraseIs ==
    ASSUME NEW list, NEW defined \in BOOLEAN, NEW result
    PROVE  Erase(Store(list, defined), result) =
              IF FoundFor(list, result) = 0 THEN Store(list, FALSE)
              ELSE Store(RemoveAt(list, FoundFor(list, result)), defined)
<1> DEFINE at == FoundFor(list, result)
<1>1. FoundFor(Store(list, defined).list, result) = at
  BY StoreIs
<1> HIDE DEF at
<1>2. CASE at = 0
  <2>1. [Store(list, defined) EXCEPT !.defined = FALSE] = Store(list, FALSE)
    <3>1. \A other : [Store(list, defined) EXCEPT !.defined = other] = Store(list, other)
      BY StoreWith
    <3> QED BY <3>1, Zenon
  <2> QED BY <1>1, <1>2, <2>1 DEF Erase, at
<1>3. CASE at # 0
  <2>1. [Store(list, defined) EXCEPT !.list = RemoveAt(@, at)] = Store(RemoveAt(list, at), defined)
    BY StoreIs, StoreWith
  <2> QED BY <1>1, <1>3, <2>1 DEF Erase, at
<1> QED BY <1>2, <1>3

LEMMA WholeIsPart ==
    ASSUME NEW S, NEW list \in Seq(S)
    PROVE  IsPart(list, list, [i \in 1 .. Len(list) |-> i])
BY DEF IsPart

(* Some of the rows, in their order. *)
SomeRows(list) == list \in Seq(Range(rows)) /\ \E from : IsPart(rows, list, from)

LEMMA ErasedIs ==
    ASSUME rows \in Seq(Range(rows)), NEW results, Len(results) \in Nat,
           NEW f, Erases(results, f), NEW n \in 0 .. Len(results)
    PROVE  \E list : \E defined \in BOOLEAN : f[n] = Store(list, defined) /\ SomeRows(list)
<1> DEFINE T == {k \in Nat : k <= Len(results) =>
                    \E list : \E defined \in BOOLEAN :
                        f[k] = Store(list, defined) /\ SomeRows(list)}
<1>1. 0 \in T
  <2>1. f[0] = Store(rows, TRUE)
    BY DEF Erases, Untouched, Store
  <2>2. SomeRows(rows)
    BY WholeIsPart DEF SomeRows
  <2> QED BY <2>1, <2>2
<1>2. ASSUME NEW k \in Nat, k \in T PROVE k + 1 \in T
  <2> SUFFICES ASSUME k + 1 <= Len(results)
               PROVE  \E list : \E defined \in BOOLEAN :
                          f[k + 1] = Store(list, defined) /\ SomeRows(list)
    OBVIOUS
  <2>0. PICK list : \E defined \in BOOLEAN : f[k] = Store(list, defined) /\ SomeRows(list)
    BY <1>2
  <2>1. PICK defined \in BOOLEAN : f[k] = Store(list, defined) /\ SomeRows(list)
    BY <2>0
  <2> DEFINE at == FoundFor(list, results[k + 1])
  <2>2. k + 1 \in 1 .. Len(results) /\ k + 1 - 1 = k
    OBVIOUS
  <2>3. f[k + 1] = Erase(f[k], results[k + 1])
    BY <2>2 DEF Erases
  <2>4. f[k + 1] = IF at = 0 THEN Store(list, FALSE) ELSE Store(RemoveAt(list, at), defined)
    <3>1. f[k + 1] = Erase(Store(list, defined), results[k + 1])
      BY <2>1, <2>3
    <3> QED BY <3>1, EraseIs, Zenon
  <2>5. CASE at = 0
    BY <2>1, <2>4, <2>5
  <2>6. CASE at # 0
    <3>1. list \in Seq(Range(rows)) /\ Len(list) \in Nat
      BY <2>1 DEF SomeRows
    <3>2. at \in 1 .. Len(list)
      BY <2>6, <3>1, FoundForIs
    <3> HIDE DEF at
    <3>3. PICK from : IsPart(rows, list, from)
      BY <2>1 DEF SomeRows
    <3>4. \E h : IsPart(rows, RemoveAt(list, at), h)
      BY <3>1, <3>2, <3>3, RemovalIsPart
    <3>5. RemoveAt(list, at) \in Seq(Range(rows))
      BY <3>1, <3>2, RemoveAtIs
    <3>6. SomeRows(RemoveAt(list, at))
      BY <3>4, <3>5 DEF SomeRows
    <3> QED BY <2>4, <2>6, <3>6
  <2> QED BY <2>5, <2>6
<1> HIDE DEF T
<1>3. n \in T
  BY <1>1, <1>2, Induction
<1> QED BY <1>3 DEF T

-----------------------------------------------------------------------------
(* What a PUT leaves has the keys of the rows in the same places: a row is   *)
(* as it was, or is a result with its key.                                   *)

IsWritten(list, results, n) ==
    /\ list \in [1 .. Len(rows) -> Range(rows) \cup Range(results)]
    /\ \A i \in 1 .. Len(rows) :
          \/ list[i] = rows[i]
          \/ \E m \in 1 .. n : list[i] = results[m] /\ Key(results[m]) = Key(rows[i])

LEMMA WriteIs ==
    ASSUME rows \in Seq(Range(rows)), NEW T, NEW results \in Seq(T),
           NEW n \in Nat, n + 1 <= Len(results), NEW list, IsWritten(list, results, n)
    PROVE  IsWritten(Write(list, results[n + 1]), results, n + 1)
<1> DEFINE result == results[n + 1]
           at == Position(list, result["key"][1])
           next == Write(list, result)
           L == Len(rows)
<1>1. /\ list \in [1 .. L -> Range(rows) \cup Range(results)]
      /\ \A i \in 1 .. L :
            \/ list[i] = rows[i]
            \/ \E m \in 1 .. n : list[i] = results[m] /\ Key(results[m]) = Key(rows[i])
  BY DEF IsWritten
<1>2. L \in Nat /\ Len(list) = L /\ n + 1 \in 1 .. Len(results)
  <2>1. L \in Nat
    OBVIOUS
  <2>2. n + 1 \in 1 .. Len(results)
    OBVIOUS
  <2>3. Len(list) = L
    BY <1>1, <2>1
  <2> QED BY <2>1, <2>2, <2>3
<1>3. result \in Range(results)
  BY <1>2, RangeHas
<1>4. /\ at \in 0 .. L
      /\ at # 0 => Key(list[at]) = Lower(result["key"][1])
  BY <1>2, PositionIs
<1>5. next = [list EXCEPT ![at] = result]
  BY DEF Write
<1>6. at # 0 => Key(list[at]) = Key(result)
  BY <1>4 DEF Key
<1> HIDE DEF result, at, next, L
<1>7. next \in [1 .. L -> Range(rows) \cup Range(results)]
  BY <1>1, <1>3, <1>5
<1>8. ASSUME NEW i \in 1 .. L
      PROVE  \/ next[i] = rows[i]
             \/ \E m \in 1 .. n + 1 : next[i] = results[m] /\ Key(results[m]) = Key(rows[i])
  <2>1. CASE i = at
    <3>1. next[i] = result /\ Key(list[i]) = Key(result)
      BY <1>1, <1>4, <1>5, <1>6, <2>1
    <3>2. Key(list[i]) = Key(rows[i])
      BY <1>1
    <3>3. next[i] = results[n + 1] /\ Key(results[n + 1]) = Key(rows[i]) /\ n + 1 \in 1 .. n + 1
      BY <3>1, <3>2 DEF result
    <3> QED BY <3>3
  <2>2. CASE i # at
    <3>1. next[i] = list[i]
      BY <1>1, <1>5, <2>2
    <3>2. \A m \in 1 .. n : m \in 1 .. n + 1
      OBVIOUS
    <3> QED BY <1>1, <3>1, <3>2
  <2> QED BY <2>1, <2>2
<1>9. IsWritten(next, results, n + 1)
  BY <1>7, <1>8 DEF IsWritten, L
<1> QED BY <1>9 DEF next, result

LEMMA WrittenIs ==
    ASSUME rows \in Seq(Range(rows)), NEW T, NEW results \in Seq(T),
           NEW f, Writes(results, f), NEW n \in 0 .. Len(results)
    PROVE  IsWritten(f[n], results, n)
<1> DEFINE U == {k \in Nat : k <= Len(results) => IsWritten(f[k], results, k)}
<1>0. Len(results) \in Nat
  OBVIOUS
<1>1. 0 \in U
  <2>1. f[0] = rows
    BY DEF Writes
  <2>2. rows \in [1 .. Len(rows) -> Range(rows) \cup Range(results)]
    OBVIOUS
  <2>3. IsWritten(rows, results, 0)
    BY <2>2 DEF IsWritten
  <2> QED BY <2>1, <2>3
<1>2. ASSUME NEW k \in Nat, k \in U PROVE k + 1 \in U
  <2> SUFFICES ASSUME k + 1 <= Len(results) PROVE IsWritten(f[k + 1], results, k + 1)
    OBVIOUS
  <2>1. IsWritten(f[k], results, k)
    BY <1>0, <1>2
  <2>2. k + 1 \in 1 .. Len(results) /\ k + 1 - 1 = k
    BY <1>0
  <2>3. f[k + 1] = Write(f[k], results[k + 1])
    BY <2>2 DEF Writes
  <2> QED BY <2>1, <2>3, WriteIs
<1> HIDE DEF U
<1>3. n \in U
  BY <1>0, <1>1, <1>2, Induction
<1> QED BY <1>0, <1>3 DEF U

-----------------------------------------------------------------------------
(* What a read finds. *)

LEMMA FoundIs ==
    ASSUME rows \in Seq(Range(rows)), NEW q, Len(q.keys) \in Nat,
           DOMAIN q.keys = 1 .. Len(q.keys), ~ MissesKey(q)
    PROVE  /\ Found(q) \in Seq(Range(rows))
           /\ q.keys # << >> =>
                 /\ Len(Found(q)) = Len(q.keys)
                 /\ \A i \in 1 .. Len(q.keys) :
                       /\ Position(rows, q.keys[i]) \in 1 .. Len(rows)
                       /\ Found(q)[i] = rows[Position(rows, q.keys[i])]
                       /\ Key(Found(q)[i]) = Lower(q.keys[i])
<1>1. CASE q.keys = << >>
  BY <1>1 DEF Found
<1>2. CASE q.keys # << >>
  <2> DEFINE n == Len(q.keys)
             found == [i \in 1 .. n |-> rows[Position(rows, q.keys[i])]]
  <2>1. Found(q) = found
    BY <1>2 DEF Found
  <2>2. ASSUME NEW i \in 1 .. n
        PROVE  /\ Position(rows, q.keys[i]) \in 1 .. Len(rows)
               /\ rows[Position(rows, q.keys[i])] \in Range(rows)
               /\ Key(rows[Position(rows, q.keys[i])]) = Lower(q.keys[i])
    <3>1. Position(rows, q.keys[i]) # 0
      BY DEF MissesKey
    <3>2. Position(rows, q.keys[i]) \in 0 .. Len(rows)
          /\ Key(rows[Position(rows, q.keys[i])]) = Lower(q.keys[i])
      BY <3>1, PositionIs, SeqDomain
    <3>3. Position(rows, q.keys[i]) \in 1 .. Len(rows)
      BY <3>1, <3>2
    <3> QED BY <3>2, <3>3, RangeHas
  <2>3. found \in [1 .. n -> Range(rows)]
    BY <2>2
  <2>4. \A i \in 1 .. n : found[i] = rows[Position(rows, q.keys[i])]
    OBVIOUS
  <2>n. n \in Nat
    OBVIOUS
  <2> HIDE DEF found, n
  <2>5. found \in Seq(Range(rows)) /\ Len(found) = n
    BY <2>3, <2>n
  <2> QED BY <2>1, <2>2, <2>4, <2>5 DEF n
<1> QED BY <1>1, <1>2

LEMMA PassingIs ==
    ASSUME NEW q, Found(q) \in Seq(Range(rows))
    PROVE  /\ Passing(q) \in Seq(Range(rows))
           /\ \E from : Selects(Found(q), {i \in DOMAIN Found(q) : Passes(Found(q)[i], q)},
                                Len(Found(q)), Passing(q), from)
BY KeptSelects DEF Passing

LEMMA PageIs ==
    ASSUME NEW S, NEW list \in Seq(S), NEW q, q.index \in Nat, q.limit \in Nat
    PROVE  /\ Page(list, q) \in Seq(S)
           /\ Len(Page(list, q)) =
                 IF q.index < Len(list)
                 THEN IF q.limit > Len(list) - q.index THEN Len(list) - q.index ELSE q.limit
                 ELSE 0
           /\ \A i \in 1 .. Len(Page(list, q)) :
                 q.index + i \in 1 .. Len(list) /\ Page(list, q)[i] = list[q.index + i]
<1> DEFINE last == IF q.limit > Len(list) - q.index THEN Len(list) ELSE q.index + q.limit
           part == SubSeq(list, q.index + 1, last)
<1>0. Len(list) \in Nat
  OBVIOUS
<1>1. CASE q.index < Len(list) /\ q.limit # 0
  <2>1. Page(list, q) = part
    BY <1>1 DEF Page
  <2>2. last \in Nat /\ last <= Len(list) /\ last > q.index
    BY <1>0, <1>1
  <2>l. last - q.index = IF q.limit > Len(list) - q.index THEN Len(list) - q.index ELSE q.limit
    BY <1>0
  <2> HIDE DEF last
  <2>3. /\ part \in Seq(S) /\ Len(part) = last - q.index
        /\ \A i \in 1 .. last - q.index : part[i] = list[q.index + i]
    <3>1. part \in Seq(S)
      BY <1>0, <2>2
    <3>2. Len(part) = last - q.index
      BY <1>0, <2>2
    <3>3. \A i \in 1 .. last - q.index : part[i] = list[q.index + 1 + i - 1]
      BY <1>0, <2>2
    <3>4. \A i \in 1 .. last - q.index : q.index + 1 + i - 1 = q.index + i
      BY <2>2
    <3> QED BY <3>1, <3>2, <3>3, <3>4
  <2>4. \A i \in 1 .. last - q.index : q.index + i \in 1 .. Len(list)
    BY <1>0, <2>2
  <2> HIDE DEF part
  <2> QED BY <1>1, <2>1, <2>3, <2>4, <2>l
<1>2. CASE ~ (q.index < Len(list) /\ q.limit # 0)
  <2>1. Page(list, q) = << >>
    BY <1>2 DEF Page
  <2>2. q.index < Len(list) => q.limit = 0 /\ ~ (q.limit > Len(list) - q.index)
    BY <1>0, <1>2
  <2> QED BY <2>1, <2>2
<1> QED BY <1>1, <1>2

(* A row names one of these queues. *)
NamesOneOf(row, list) ==
    \E j \in 1 .. Len(list) : \E name \in Range(Values(row, "queues")) :
        Lower(name) = Key(list[j])

IsRelated(row, list, relationship) ==
    relationship # "" /\ Type(row) = relationship /\ NamesOneOf(row, list)

LEMMA RelatedIs ==
    ASSUME rows \in Seq(Range(rows)), NEW S, NEW list \in Seq(S), NEW relationship
    PROVE  /\ Related(list, relationship) \in Seq(Range(rows))
           /\ \A n \in 1 .. Len(Related(list, relationship)) :
                 IsRelated(Related(list, relationship)[n], list, relationship)
<1>1. CASE relationship = ""
  <2>1. Related(list, relationship) = << >>
    BY <1>1 DEF Related
  <2>2. << >> \in Seq(Range(rows)) /\ Len(<< >>) = 0
    OBVIOUS
  <2> QED BY <2>1, <2>2
<1>2. CASE relationship # ""
  <2> DEFINE places(i) == {j \in DOMAIN list :
                              \E name \in Range(Values(rows[i], "queues")) :
                                  Lower(name) = Key(list[j])}
             naming(i) == Kept(list, places(i))
             copies(i) == IF Type(rows[i]) # relationship THEN << >>
                          ELSE [j \in DOMAIN naming(i) |-> rows[i]]
             blocks == [i \in DOMAIN rows |-> copies(i)]
  <2>1. Related(list, relationship) = FlattenSeq(blocks)
    BY <1>2 DEF Related
  <2>2. ASSUME NEW i \in 1 .. Len(rows)
        PROVE  /\ copies(i) \in Seq(Range(rows))
               /\ \A j \in 1 .. Len(copies(i)) :
                     /\ copies(i)[j] = rows[i]
                     /\ Type(rows[i]) = relationship
                     /\ NamesOneOf(rows[i], list)
    <3>1. CASE Type(rows[i]) # relationship
      BY <3>1
    <3>2. CASE Type(rows[i]) = relationship
      <4> DEFINE kept == naming(i)
                 n == Len(kept)
                 copy == [j \in 1 .. n |-> rows[i]]
      <4>1. kept \in Seq(S)
        BY KeptSelects
      <4>2. PICK from : Selects(list, places(i), Len(list), kept, from)
        BY KeptSelects
      <4>3. n \in Nat /\ DOMAIN kept = 1 .. n
        BY <4>1, SeqDomain
      <4>4. copies(i) = copy
        BY <3>2, <4>3
      <4>5. rows[i] \in Range(rows)
        BY RangeHas
      <4>6. copy \in Seq(Range(rows)) /\ Len(copy) = n /\ \A j \in 1 .. n : copy[j] = rows[i]
        <5> HIDE DEF n
        <5> QED BY <4>3, <4>5
      <4>7. ASSUME NEW j \in 1 .. n PROVE NamesOneOf(rows[i], list)
        <5>1. from[j] \in places(i)
          BY <4>2, <4>7 DEF Selects
        <5>2. DOMAIN list = 1 .. Len(list)
          BY SeqDomain
        <5> QED BY <5>1, <5>2 DEF NamesOneOf
      <4> HIDE DEF copy, n
      <4> QED BY <3>2, <4>4, <4>6, <4>7
    <3> QED BY <3>1, <3>2
  <2>3. DOMAIN rows = 1 .. Len(rows) /\ Len(rows) \in Nat
    BY SeqDomain
  <2> HIDE DEF copies
  <2>4. blocks \in [1 .. Len(rows) -> Seq(Range(rows))]
        /\ \A i \in 1 .. Len(rows) : blocks[i] = copies(i)
    BY <2>2, <2>3
  <2> HIDE DEF blocks
  <2>5. blocks \in Seq(Seq(Range(rows))) /\ Len(blocks) = Len(rows)
    BY <2>3, <2>4
  <2>6. FlattenSeq(blocks) \in Seq(Range(rows))
    BY <2>5, FlattenBlocks
  <2>7. PICK off : Blocks(blocks, Len(blocks), FlattenSeq(blocks), off)
    BY <2>5, FlattenBlocks
  <2>8. ASSUME NEW n \in 1 .. Len(FlattenSeq(blocks))
        PROVE  IsRelated(FlattenSeq(blocks)[n], list, relationship)
    <3>1. PICK i \in 1 .. Len(blocks) : \E j \in 1 .. Len(blocks[i]) : n = off[i] + j
      BY <2>7 DEF Blocks
    <3>2. PICK j \in 1 .. Len(blocks[i]) : n = off[i] + j
      BY <3>1
    <3>3. FlattenSeq(blocks)[off[i] + j] = blocks[i][j]
      BY <2>7 DEF Blocks
    <3>4. i \in 1 .. Len(rows) /\ blocks[i] = copies(i)
      BY <2>4, <2>5
    <3>5. j \in 1 .. Len(copies(i)) /\ FlattenSeq(blocks)[n] = copies(i)[j]
      BY <3>2, <3>3, <3>4
    <3> QED BY <1>2, <2>2, <3>4, <3>5 DEF IsRelated
  <2> QED BY <2>1, <2>6, <2>8
<1> QED BY <1>1, <1>2

Cut(row, fields) == [p \in DOMAIN row \cap fields |-> row[p]]

(* What Fields shows of a list: from says of which element. *)
Shows(list, fields, shown, from) ==
    /\ from \in [1 .. Len(shown) -> 1 .. Len(list)]
    /\ \A i, j \in 1 .. Len(shown) : i < j => from[i] < from[j]
    /\ \A i \in 1 .. Len(shown) :
          shown[i] = Cut(list[from[i]], fields) /\ DOMAIN list[from[i]] \cap fields # {}
    /\ \A n \in 1 .. Len(list) :
          DOMAIN list[n] \cap fields # {} => \E i \in 1 .. Len(shown) : from[i] = n

LEMMA FieldsShow ==
    ASSUME NEW S, NEW list \in Seq(S), NEW fields, fields # {}
    PROVE  /\ \E T : Fields(list, fields) \in Seq(T)
           /\ Len(Fields(list, fields)) \in Nat
           /\ DOMAIN Fields(list, fields) = 1 .. Len(Fields(list, fields))
           /\ \E from : Shows(list, fields, Fields(list, fields), from)
<1> DEFINE cut == [i \in DOMAIN list |-> [p \in DOMAIN list[i] \cap fields |-> list[i][p]]]
           places == {i \in DOMAIN cut : DOMAIN cut[i] # {}}
           shown == Kept(cut, places)
<1>1. Fields(list, fields) = shown
  BY DEF Fields
<1>2. Len(list) \in Nat /\ DOMAIN list = 1 .. Len(list)
  BY SeqDomain
<1>3. \A i \in 1 .. Len(list) :
         cut[i] = Cut(list[i], fields) /\ DOMAIN cut[i] = DOMAIN list[i] \cap fields
  BY <1>2 DEF Cut
<1>4. DOMAIN cut = 1 .. Len(list) /\ cut = [i \in 1 .. Len(list) |-> cut[i]]
  BY <1>2
<1> HIDE DEF cut
<1>5. cut \in Seq(Range(cut)) /\ Len(cut) = Len(list)
  BY <1>2, <1>4, FunctionIsList
<1>6. places = {i \in 1 .. Len(list) : DOMAIN list[i] \cap fields # {}}
  BY <1>3, <1>4
<1> HIDE DEF places
<1>7. shown \in Seq(Range(cut))
  BY <1>5, KeptSelects
<1>8. PICK from : Selects(cut, places, Len(cut), shown, from)
  BY <1>5, KeptSelects
<1>9. Len(shown) \in Nat /\ DOMAIN shown = 1 .. Len(shown)
  BY <1>7, SeqDomain
<1> HIDE DEF shown
<1>10. /\ from \in [1 .. Len(shown) -> 1 .. Len(list)]
       /\ \A i, j \in 1 .. Len(shown) : i < j => from[i] < from[j]
       /\ \A i \in 1 .. Len(shown) : from[i] \in places /\ shown[i] = cut[from[i]]
       /\ \A n \in 1 .. Len(list) : n \in places => \E i \in 1 .. Len(shown) : from[i] = n
  BY <1>5, <1>8 DEF Selects
<1>11. \A i \in 1 .. Len(shown) :
          shown[i] = Cut(list[from[i]], fields) /\ DOMAIN list[from[i]] \cap fields # {}
  BY <1>3, <1>6, <1>10
<1>12. \A n \in 1 .. Len(list) :
          DOMAIN list[n] \cap fields # {} => \E i \in 1 .. Len(shown) : from[i] = n
  BY <1>6, <1>10
<1>13. Shows(list, fields, shown, from)
  BY <1>10, <1>11, <1>12 DEF Shows
<1> QED BY <1>1, <1>7, <1>9, <1>13

LEMMA FieldsNotEmpty ==
    ASSUME NEW S, NEW list \in Seq(S), NEW fields,
           \A i \in 1 .. Len(list) : DOMAIN list[i] # {}
    PROVE  /\ Len(Fields(list, fields)) \in Nat
           /\ DOMAIN Fields(list, fields) = 1 .. Len(Fields(list, fields))
           /\ \A i \in 1 .. Len(Fields(list, fields)) : DOMAIN Fields(list, fields)[i] # {}
<1>1. CASE fields = {}
  <2>1. Fields(list, fields) = list
    BY <1>1 DEF Fields
  <2> QED BY <2>1, SeqDomain
<1>2. CASE fields # {}
  <2> DEFINE shown == Fields(list, fields)
  <2>1. Len(shown) \in Nat /\ DOMAIN shown = 1 .. Len(shown)
    BY <1>2, FieldsShow
  <2>2. PICK from : Shows(list, fields, shown, from)
    BY <1>2, FieldsShow
  <2> HIDE DEF shown
  <2>3. ASSUME NEW i \in 1 .. Len(shown) PROVE DOMAIN shown[i] # {}
    BY <2>2 DEF Shows, Cut
  <2> QED BY <2>1, <2>3 DEF shown
<1> QED BY <1>1, <1>2

(* A query that can be read: where it has keys it has a list of them. *)
IsReadable(q) ==
    /\ IsQuery(q)
    /\ Len(q.keys) \in Nat /\ DOMAIN q.keys = 1 .. Len(q.keys)
    /\ q.index \in Nat /\ q.limit \in Nat

LEMMA PagedAre ==
    ASSUME rows \in Seq(Range(rows)), NEW q, IsReadable(q), ~ MissesKey(q)
    PROVE  /\ Paged(q) \in Seq(Range(rows))
           /\ \E from \in [1 .. Len(Paged(q)) -> 1 .. Len(Found(q))] :
                 /\ \A i, j \in 1 .. Len(Paged(q)) : i < j => from[i] < from[j]
                 /\ \A i \in 1 .. Len(Paged(q)) :
                       Paged(q)[i] = Found(q)[from[i]] /\ Passes(Paged(q)[i], q)
<1>1. Found(q) \in Seq(Range(rows))
  BY FoundIs DEF IsReadable
<1>2. Passing(q) \in Seq(Range(rows))
  BY <1>1, PassingIs
<1>3. PICK from : Selects(Found(q), {i \in DOMAIN Found(q) : Passes(Found(q)[i], q)},
                          Len(Found(q)), Passing(q), from)
  BY <1>1, PassingIs
<1> DEFINE L == Len(Passing(q))
           P == Len(Paged(q))
<1>4. /\ from \in [1 .. L -> 1 .. Len(Found(q))]
      /\ \A i, j \in 1 .. L : i < j => from[i] < from[j]
      /\ \A i \in 1 .. L : Passing(q)[i] = Found(q)[from[i]]
      /\ \A i \in 1 .. L : Passes(Found(q)[from[i]], q)
  BY <1>3 DEF Selects
<1>5. /\ Paged(q) \in Seq(Range(rows))
      /\ \A i \in 1 .. P : q.index + i \in 1 .. L /\ Paged(q)[i] = Passing(q)[q.index + i]
  BY <1>2, PageIs DEF Paged, IsReadable
<1>6. P \in Nat /\ q.index \in Nat /\ L \in Nat /\ Len(Found(q)) \in Nat
  BY <1>1, <1>2, <1>5, SeqDomain DEF IsReadable
<1> DEFINE h == [i \in 1 .. P |-> from[q.index + i]]
<1>7. h \in [1 .. P -> 1 .. Len(Found(q))]
  BY <1>4, <1>5
<1>8. ASSUME NEW i \in 1 .. P, NEW j \in 1 .. P, i < j PROVE h[i] < h[j]
  <2>1. q.index + i < q.index + j
    BY <1>6, <1>8
  <2>2. q.index + i \in 1 .. L /\ q.index + j \in 1 .. L
    BY <1>5
  <2> QED BY <1>4, <2>1, <2>2
<1>9. \A i \in 1 .. P : Paged(q)[i] = Found(q)[h[i]] /\ Passes(Paged(q)[i], q)
  BY <1>4, <1>5
<1> QED BY <1>5, <1>7, <1>8, <1>9

Shown(q) == Paged(q) \o Related(Paged(q), q.include)

(* A row that a query shows: it passes, or it names one that does. *)
IsShown(row, q) ==
    /\ row \in Range(rows)
    /\ \/ \E j \in 1 .. Len(Found(q)) : row = Found(q)[j] /\ Passes(row, q)
       \/ IsRelated(row, Paged(q), q.include)

LEMMA ShownAre ==
    ASSUME rows \in Seq(Range(rows)), NEW q, IsReadable(q), ~ MissesKey(q)
    PROVE  /\ Shown(q) \in Seq(Range(rows))
           /\ \A i \in 1 .. Len(Shown(q)) : IsShown(Shown(q)[i], q)
<1> DEFINE a == Paged(q)
           b == Related(Paged(q), q.include)
<1>1. a \in Seq(Range(rows))
  BY PagedAre
<1>2. PICK from \in [1 .. Len(a) -> 1 .. Len(Found(q))] :
         \A i \in 1 .. Len(a) : a[i] = Found(q)[from[i]] /\ Passes(a[i], q)
  BY PagedAre
<1>3. \A i \in 1 .. Len(a) : IsShown(a[i], q)
  BY <1>1, <1>2, RangeHas DEF IsShown
<1>4. b \in Seq(Range(rows))
  BY <1>1, RelatedIs
<1>5. \A n \in 1 .. Len(b) : IsRelated(b[n], a, q.include)
  BY <1>1, RelatedIs
<1>6. \A n \in 1 .. Len(b) : IsShown(b[n], q)
  BY <1>4, <1>5, RangeHas DEF IsShown
<1> HIDE DEF a, b
<1>7. a \o b \in Seq(Range(rows))
  BY <1>1, <1>4
<1>8. ASSUME NEW i \in 1 .. Len(a \o b)
      PROVE  (\E n \in 1 .. Len(a) : (a \o b)[i] = a[n]) \/ (\E n \in 1 .. Len(b) : (a \o b)[i] = b[n])
  <2>1. i \in 1 .. Len(a) + Len(b)
    BY <1>1, <1>4, Joined
  <2> QED BY <1>1, <1>4, <2>1, Joined
<1>9. \A i \in 1 .. Len(a \o b) : IsShown((a \o b)[i], q)
  BY <1>3, <1>6, <1>8
<1> QED BY <1>7, <1>9 DEF Shown, a, b

LEMMA ResultsNotEmpty ==
    ASSUME rows \in Seq(Range(rows)), \A row \in Range(rows) : DOMAIN row # {},
           NEW q, IsReadable(q), ~ MissesKey(q)
    PROVE  /\ Len(Results(q)) \in Nat
           /\ DOMAIN Results(q) = 1 .. Len(Results(q))
           /\ \A i \in 1 .. Len(Results(q)) : DOMAIN Results(q)[i] # {}
<1>1. Shown(q) \in Seq(Range(rows))
  BY ShownAre
<1>2. \A i \in 1 .. Len(Shown(q)) : DOMAIN Shown(q)[i] # {}
  BY <1>1, RangeHas
<1>3. Results(q) = Fields(Shown(q), q.fields)
  BY DEF Results, Shown
<1> QED BY <1>1, <1>2, <1>3, FieldsNotEmpty

(* The queries of the handlers can be read. *)
LEMMA SelectionIs ==
    ASSUME NEW selection \in Selections
    PROVE  /\ Len(selection.keys) \in Nat /\ DOMAIN selection.keys = 1 .. Len(selection.keys)
           /\ selection.index \in Nat /\ selection.limit \in Nat
BY SelectionsAssumption

LEMMA QueryIsReadable ==
    ASSUME NEW selection, NEW type,
           Len(selection.keys) \in Nat, DOMAIN selection.keys = 1 .. Len(selection.keys),
           selection.index \in Nat, selection.limit \in Nat
    PROVE  /\ IsReadable(QueryOf(selection, type))
           /\ IsReadable(UpdateQuery(selection, type))
           /\ IsReadable([UpdateQuery(selection, type) EXCEPT !.fields = {}])
           /\ Len(QueryOf(selection, type).keys) = Len(selection.keys)
           /\ \A i \in 1 .. Len(selection.keys) :
                 QueryOf(selection, type).keys[i] = Lower(selection.keys[i])
<1> DEFINE q == QueryOf(selection, type)
           n == Len(selection.keys)
<1>1. q.keys = [i \in 1 .. n |-> Lower(selection.keys[i])]
      /\ q.index = selection.index /\ q.limit = selection.limit
  BY DEF QueryOf
<1>2. IsQuery(q) /\ IsQuery(UpdateQuery(selection, type))
  BY QueriesAre
<1>3. DOMAIN q.keys = 1 .. n /\ Len(q.keys) = n /\ \A i \in 1 .. n : q.keys[i] = Lower(selection.keys[i])
  <2>1. DOMAIN q.keys = 1 .. n /\ \A i \in 1 .. n : q.keys[i] = Lower(selection.keys[i])
    BY <1>1
  <2>2. q.keys = [i \in 1 .. n |-> q.keys[i]]
    BY <1>1
  <2> HIDE DEF q, n
  <2>3. n \in Nat
    BY DEF n
  <2>4. Len(q.keys) = n
    BY <2>1, <2>2, <2>3, FunctionIsList
  <2> QED BY <2>1, <2>4
<1> DEFINE u == UpdateQuery(selection, type)
           v == [u EXCEPT !.fields = {}]
<1>4. IsReadable(q)
  BY <1>1, <1>2, <1>3 DEF IsReadable
<1>6. u.keys = q.keys /\ u.index = q.index /\ u.limit = q.limit
  BY DEF UpdateQuery, QueryOf
<1> HIDE DEF q, u
<1>7. IsReadable(u)
  BY <1>2, <1>4, <1>6 DEF IsReadable, u
<1>8. v.keys = u.keys /\ v.index = u.index /\ v.limit = u.limit /\ IsQuery(v)
  BY <1>2 DEF IsQuery, u
<1> HIDE DEF v
<1>9. IsReadable(v)
  BY <1>7, <1>8 DEF IsReadable
<1> QED BY <1>3, <1>4, <1>7, <1>9 DEF q, n, u, v

-----------------------------------------------------------------------------
(* The shape of a row. *)

IsRow(row) ==
    /\ IsMultimap(row)
    /\ {"key", "type"} \subseteq DOMAIN row
    /\ row["type"] \in {<< type >> : type \in Types}

LEMMA MultimapHas ==
    ASSUME NEW row, IsMultimap(row), NEW p \in DOMAIN row
    PROVE  /\ row[p] \in Seq(Range(row[p])) /\ row[p] # << >>
           /\ Len(row[p]) \in Nat /\ Len(row[p]) >= 1
BY DEF IsMultimap

(* A list of values that has one at least. *)
IsValues(list) == list \in Seq(Range(list)) /\ list # << >>

LEMMA Single ==
    ASSUME NEW x
    PROVE  IsValues(<< x >>) /\ Len(<< x >>) = 1 /\ << x >>[1] = x
<1>1. << x >> \in Seq({x}) /\ << x >> # << >> /\ Len(<< x >>) = 1 /\ << x >>[1] = x
  OBVIOUS
<1> QED BY <1>1, ListInRange DEF IsValues

LEMMA IsMultimapIf ==
    ASSUME NEW D, NEW row, row = [p \in D |-> row[p]], \A p \in D : IsValues(row[p])
    PROVE  IsMultimap(row)
BY DEF IsMultimap, IsValues

LEMMA FirstReplaced ==
    ASSUME NEW list, IsValues(list), NEW x
    PROVE  /\ IsValues([list EXCEPT ![1] = x])
           /\ Len([list EXCEPT ![1] = x]) = Len(list)
           /\ [list EXCEPT ![1] = x][1] = x
<1> DEFINE next == [list EXCEPT ![1] = x]
           n == Len(list)
           S == Range(list) \cup {x}
<1>1. n \in Nat /\ n >= 1 /\ list \in [1 .. n -> Range(list)]
  BY DEF IsValues
<1>2. next \in [1 .. n -> S] /\ next[1] = x
  BY <1>1
<1> HIDE DEF next, n, S
<1>3. next \in Seq(S) /\ Len(next) = n
  BY <1>1, <1>2
<1>4. next # << >>
  BY <1>1, <1>3
<1>5. IsValues(next)
  BY <1>3, <1>4, ListInRange DEF IsValues
<1> QED BY <1>2, <1>3, <1>5 DEF next, n

(* The change of a PUT, with the type that the handler adds. *)
Typed(change, type) ==
    [p \in DOMAIN change \cup {"type"} |-> IF p = "type" THEN << type >> ELSE change[p]]

LEMMA TypedIs ==
    ASSUME NEW change, IsMultimap(change), NEW type \in Types
    PROVE  /\ IsMultimap(Typed(change, type))
           /\ DOMAIN Typed(change, type) = DOMAIN change \cup {"type"}
           /\ Typed(change, type)["type"] = << type >>
           /\ \A p \in DOMAIN change : p # "type" => Typed(change, type)[p] = change[p]
<1> DEFINE typed == Typed(change, type)
           D == DOMAIN change \cup {"type"}
<1>1. typed = [p \in D |-> IF p = "type" THEN << type >> ELSE change[p]]
  BY DEF Typed
<1> HIDE DEF typed
<1>3. /\ DOMAIN typed = D /\ typed["type"] = << type >>
      /\ \A p \in DOMAIN change : p # "type" => typed[p] = change[p]
      /\ typed = [p \in D |-> typed[p]]
  BY <1>1
<1>4. ASSUME NEW p \in D PROVE IsValues(typed[p])
  <2>1. CASE p = "type"
    BY <1>3, <2>1, Single
  <2>2. CASE p # "type"
    <3>1. p \in DOMAIN change /\ typed[p] = change[p]
      BY <1>3, <2>2
    <3> QED BY <3>1, MultimapHas DEF IsValues
  <2> QED BY <2>1, <2>2
<1>5. IsMultimap(typed)
  <2> HIDE DEF D
  <2> QED BY <1>3, <1>4, IsMultimapIf
<1> QED BY <1>3, <1>5 DEF typed

LEMMA ChangedIs ==
    ASSUME NEW row, IsRow(row), NEW change, IsMultimap(change), "key" \notin DOMAIN change,
           NEW type \in Types
    PROVE  /\ IsRow(Changed(row, Typed(change, type)))
           /\ Changed(row, Typed(change, type))["key"] = row["key"]
           /\ \A p \in DOMAIN row : Len(Changed(row, Typed(change, type))[p]) = Len(row[p])
           /\ \A p \in DOMAIN row :
                 /\ p \in DOMAIN Changed(row, Typed(change, type))
                 /\ p \notin DOMAIN Typed(change, type) =>
                       Changed(row, Typed(change, type))[p] = row[p]
                 /\ p \in DOMAIN Typed(change, type) =>
                       Changed(row, Typed(change, type))[p][1] = Last(Typed(change, type)[p])
           /\ Changed(row, Typed(change, type))["type"] = << type >>
<1> DEFINE typed == Typed(change, type)
           next == Changed(row, typed)
           D == DOMAIN row \cup DOMAIN typed
<1>1. /\ IsMultimap(typed) /\ DOMAIN typed = DOMAIN change \cup {"type"}
      /\ typed["type"] = << type >>
  BY TypedIs
<1>2. /\ IsMultimap(row) /\ "key" \in DOMAIN row /\ "type" \in DOMAIN row
      /\ row["type"] \in {<< t >> : t \in Types}
  BY DEF IsRow
<1>3. next = [p \in D |->
                 IF p \notin DOMAIN typed THEN row[p]
                 ELSE IF p \notin DOMAIN row THEN << Last(typed[p]) >>
                 ELSE [row[p] EXCEPT ![1] = Last(typed[p])]]
  BY DEF Changed
<1> HIDE DEF typed, next
<1>4. /\ DOMAIN next = D /\ next = [p \in D |-> next[p]]
      /\ \A p \in D : p \notin DOMAIN typed => next[p] = row[p]
      /\ \A p \in D : p \in DOMAIN typed /\ p \notin DOMAIN row => next[p] = << Last(typed[p]) >>
      /\ \A p \in D : p \in DOMAIN typed /\ p \in DOMAIN row =>
            next[p] = [row[p] EXCEPT ![1] = Last(typed[p])]
  BY <1>3
<1>5. ASSUME NEW p \in D
      PROVE  IsValues(next[p])
  <2>1. CASE p \notin DOMAIN typed
    BY <1>2, <1>4, <2>1, MultimapHas DEF IsValues
  <2>2. CASE p \in DOMAIN typed /\ p \notin DOMAIN row
    <3>2. next[p] = << Last(typed[p]) >>
      BY <1>4, <2>2
    <3> QED BY <3>2, Single
  <2>3. CASE p \in DOMAIN typed /\ p \in DOMAIN row
    <3>1. IsValues(row[p])
      BY <1>2, <2>3, MultimapHas DEF IsValues
    <3>2. next[p] = [row[p] EXCEPT ![1] = Last(typed[p])]
      BY <1>4, <2>3
    <3> QED BY <3>1, <3>2, FirstReplaced
  <2> QED BY <2>1, <2>2, <2>3
<1>6. IsMultimap(next)
  <2> HIDE DEF D
  <2> QED BY <1>4, <1>5, IsMultimapIf
<1>7. next["key"] = row["key"]
  BY <1>1, <1>2, <1>4
<1>8. ASSUME NEW p \in DOMAIN row, p \in DOMAIN typed PROVE next[p][1] = Last(typed[p])
  <2>1. IsValues(row[p])
    BY <1>2, MultimapHas DEF IsValues
  <2>2. next[p] = [row[p] EXCEPT ![1] = Last(typed[p])]
    BY <1>4, <1>8
  <2> QED BY <2>1, <2>2, FirstReplaced
<1>l. ASSUME NEW p \in DOMAIN row PROVE Len(next[p]) = Len(row[p])
  <2>1. IsValues(row[p])
    BY <1>2, MultimapHas DEF IsValues
  <2>2. next[p] = row[p] \/ next[p] = [row[p] EXCEPT ![1] = Last(typed[p])]
    BY <1>4
  <2> QED BY <2>1, <2>2, FirstReplaced
<1>9. next["type"] = << type >>
  <2>1. PICK t \in Types : row["type"] = << t >>
    BY <1>2
  <2>2. next["type"] = [<< t >> EXCEPT ![1] = Last(<< type >>)]
    BY <1>1, <1>2, <1>4, <2>1
  <2>3. Last(<< type >>) = type
    BY DEF Last
  <2> QED BY <2>2, <2>3
<1>10. IsRow(next)
  BY <1>2, <1>4, <1>6, <1>7, <1>9 DEF IsRow
<1> QED BY <1>4, <1>7, <1>8, <1>9, <1>10, <1>l DEF next, typed

LEMMA InitialisedIs ==
    ASSUME NEW value, IsMultimap(value), "key" \in DOMAIN value,
           NEW type \in Types, ~ Refused(value, type)
    PROVE  /\ IsRow(Initialised(value, type))
           /\ Initialised(value, type)["key"] = value["key"]
           /\ Initialised(value, type)["type"] = << type >>
           /\ \A p \in DOMAIN value : /\ p \in DOMAIN Initialised(value, type)
                                      /\ Initialised(value, type)[p] = value[p]
           /\ type = "queue" =>
                 \A p \in Limits \ DOMAIN value :
                    /\ p \in DOMAIN Initialised(value, type)
                    /\ Initialised(value, type)[p] = << Default >>
           /\ Complete(Initialised(value, type))
<1> DEFINE added == IF type = "queue" THEN Limits \cup {"type"} ELSE {"state", "type"}
           D == DOMAIN value \cup added
           next == Initialised(value, type)
<1>1. next = [p \in D |-> IF p \in DOMAIN value THEN value[p]
                          ELSE CASE p = "type" -> << type >>
                                 [] p = "state" -> << "reachable" >>
                                 [] OTHER -> << Default >>]
  BY DEF Initialised
<1>2. "type" \notin DOMAIN value
  BY DEF Refused, has_reserved_create_fields
<1>3. "type" \in D /\ "key" \in D /\ (type = "queue" => Limits \subseteq D)
  OBVIOUS
<1> HIDE DEF next, added
<1>0. /\ DOMAIN next = D /\ next = [p \in D |-> next[p]]
      /\ \A p \in DOMAIN value : next[p] = value[p]
      /\ next["type"] = << type >>
  BY <1>1, <1>2, <1>3
<1>5. ASSUME NEW p \in D, p \notin DOMAIN value
      PROVE  \E x : next[p] = << x >>
  <2>1. CASE p = "type"
    BY <1>0, <2>1
  <2>2. CASE p # "type" /\ p = "state"
    BY <1>1, <1>5, <2>2
  <2>3. CASE p # "type" /\ p # "state"
    BY <1>1, <1>5, <2>3
  <2> QED BY <2>1, <2>2, <2>3
<1>6. ASSUME NEW p \in D PROVE IsValues(next[p])
  <2>1. CASE p \in DOMAIN value
    <3>1. next[p] = value[p]
      BY <1>0, <2>1
    <3> QED BY <2>1, <3>1, MultimapHas DEF IsValues
  <2>2. CASE p \notin DOMAIN value
    BY <1>5, <2>2, Single
  <2> QED BY <2>1, <2>2
<1>7. IsMultimap(next)
  <2> HIDE DEF D
  <2> QED BY <1>0, <1>6, IsMultimapIf
<1>8. IsRow(next)
  BY <1>3, <1>0, <1>7 DEF IsRow
<1>9. ASSUME type = "queue", NEW p \in Limits \ DOMAIN value
      PROVE  p \in DOMAIN next /\ next[p] = << Default >>
  <2>1. p \in D /\ p # "type" /\ p # "state"
    BY <1>3, <1>9 DEF Limits
  <2> QED BY <1>1, <2>1
<1>10. Complete(next)
  <2>1. Type(next) = type
    BY <1>0 DEF Type
  <2>2. CASE type = "queue"
    BY <1>0, <1>3, <2>1, <2>2 DEF Complete
  <2>3. CASE type = "subscription"
    <3>1. "endpoint" \in DOMAIN value /\ "state" \notin DOMAIN value
      BY <2>3 DEF Refused, has_invalid_create_fields
    <3>2. "state" \in D
      BY <2>3 DEF added
    <3>3. Len(next["state"]) = 1
      BY <1>5, <3>1, <3>2, Single
    <3>4. "endpoint" \in DOMAIN next /\ "state" \in DOMAIN next /\ type # "queue"
      BY <1>0, <2>3, <3>1, <3>2
    <3> QED BY <2>1, <3>3, <3>4 DEF Complete
  <2> QED BY <2>2, <2>3 DEF Types
<1> QED BY <1>0, <1>8, <1>9, <1>10 DEF next

-----------------------------------------------------------------------------
(* The inductive invariant, of any list that is to be the rows. *)

RowsInv(list) ==
    /\ list \in Seq(Range(list)) /\ Len(list) <= MaxRows
    /\ \A i \in 1 .. Len(list) : IsRow(list[i]) /\ Complete(list[i])

NoEmptyRow(list) == \A row \in Range(list) : DOMAIN row # {}

Inv == RowsInv(rows) /\ (answer # NoAnswer => NoEmptyRow(answer.body))

LEMMA InvIs == Inv <=> TypeOK
<1>1. ASSUME rows \in Seq(Range(rows))
      PROVE  /\ DOMAIN rows = 1 .. Len(rows)
             /\ (\A row \in Range(rows) : IsRow(row) /\ Complete(row)) <=>
                   \A i \in 1 .. Len(rows) : IsRow(rows[i]) /\ Complete(rows[i])
  <2>1. DOMAIN rows = 1 .. Len(rows)
    BY <1>1, SeqDomain
  <2>2. \A i \in 1 .. Len(rows) : rows[i] \in Range(rows)
    BY <1>1, RangeHas
  <2>3. \A x \in Range(rows) : \E i \in 1 .. Len(rows) : x = rows[i]
    BY <1>1, RangeFrom
  <2> QED BY <2>1, <2>2, <2>3
<1>2. RowsInv(rows) <=>
         /\ rows \in Seq(Range(rows)) /\ Len(rows) <= MaxRows
         /\ \A row \in Range(rows) : IsRow(row) /\ Complete(row)
  BY <1>1 DEF RowsInv
<1>3. TypeOK <=>
         /\ rows \in Seq(Range(rows)) /\ Len(rows) <= MaxRows
         /\ \A row \in Range(rows) : IsRow(row) /\ Complete(row)
         /\ answer # NoAnswer => NoEmptyRow(answer.body)
  BY DEF TypeOK, IsRow, NoEmptyRow
<1> QED BY <1>2, <1>3 DEF Inv

LEMMA RowHas ==
    ASSUME RowsInv(rows), NEW row \in Range(rows)
    PROVE  IsRow(row) /\ Complete(row) /\ DOMAIN row # {} /\ "key" \in DOMAIN row
BY RangeFrom DEF RowsInv, IsRow

LEMMA SameKeySameRow ==
    ASSUME RowsInv(rows), KeysDiffer(rows), NEW row \in Range(rows),
           NEW i \in 1 .. Len(rows), Key(row) = Key(rows[i])
    PROVE  row = rows[i]
<1>1. PICK j \in 1 .. Len(rows) : row = rows[j]
  BY RangeFrom DEF RowsInv
<1>2. DOMAIN rows = 1 .. Len(rows)
  BY SeqDomain DEF RowsInv
<1> QED BY <1>1, <1>2 DEF KeysDiffer

(* The change and the query of a PUT, and the query it reads with. *)
IsChange(change) == IsMultimap(change) /\ "key" \notin DOMAIN change

IsPut(q, r) ==
    /\ IsQuery(q) /\ q.error = 0
    /\ r = [q EXCEPT !.fields = {}] /\ r.fields = {}
    /\ IsReadable(r) /\ ~ MissesKey(r)

(* What a PUT makes of the rows that its query shows. *)
LEMMA ChangedResultsAre ==
    ASSUME RowsInv(rows), NEW change, IsChange(change), NEW type \in Types,
           NEW q, NEW r, IsPut(q, r)
    PROVE  /\ Unfielded(q).error = 0
           /\ Unfielded(q).resultset = Shown(r)
           /\ Shown(r) \in Seq(Range(rows))
           /\ \A i \in 1 .. Len(Shown(r)) :
                 /\ IsShown(Shown(r)[i], r)
                 /\ ChangedResults(Typed(change, type), q)[i] =
                       Changed(Shown(r)[i], Typed(change, type))
                 /\ IsRow(ChangedResults(Typed(change, type), q)[i])
           /\ ChangedResults(Typed(change, type), q)
                 \in Seq(Range(ChangedResults(Typed(change, type), q)))
           /\ Len(ChangedResults(Typed(change, type), q)) = Len(Shown(r))
<1> DEFINE typed == Typed(change, type)
           shown == Shown(r)
           results == ChangedResults(typed, q)
<1>p. /\ IsQuery(q) /\ q.error = 0
      /\ r = [q EXCEPT !.fields = {}] /\ r.fields = {}
      /\ IsReadable(r) /\ ~ MissesKey(r)
  BY DEF IsPut
<1>1. rows \in Seq(Range(rows))
  BY DEF RowsInv
<1>2. shown \in Seq(Range(rows)) /\ \A i \in 1 .. Len(shown) : IsShown(shown[i], r)
  BY <1>1, <1>p, ShownAre
<1>3. Unfielded(q).resultset = shown /\ Unfielded(q).error = 0
  <2>1. Unfielded(q) = Read(r)
    BY <1>p DEF Unfielded
  <2>q. IsQuery(r)
    BY <1>p DEF IsReadable
  <2>2. Read(r).resultset = Results(r) /\ Read(r).error = r.error
    BY <1>p, <2>q, ReadSucceeds
  <2>3. Results(r) = shown
    <3>1. Results(r) = Fields(shown, r.fields)
      BY DEF Results, Shown
    <3> HIDE DEF shown
    <3> QED BY <1>p, <3>1 DEF Fields
  <2>4. r.error = 0
    BY <1>p DEF IsQuery
  <2> QED BY <2>1, <2>2, <2>3, <2>4
<1>4. Len(shown) \in Nat /\ DOMAIN shown = 1 .. Len(shown)
  BY <1>2, SeqDomain
<1> HIDE DEF shown, typed
<1>5. /\ DOMAIN results = 1 .. Len(shown)
      /\ results = [i \in 1 .. Len(shown) |-> results[i]]
      /\ \A i \in 1 .. Len(shown) : results[i] = Changed(shown[i], typed)
  BY <1>3, <1>4 DEF ChangedResults
<1> HIDE DEF results
<1>6. results \in Seq(Range(results)) /\ Len(results) = Len(shown)
  BY <1>4, <1>5, FunctionIsList
<1>7. ASSUME NEW i \in 1 .. Len(shown) PROVE IsRow(results[i])
  <2>1. IsRow(shown[i])
    BY <1>2, RangeHas, RowHas
  <2>2. IsRow(Changed(shown[i], typed))
    BY <2>1, ChangedIs DEF typed, IsChange
  <2> QED BY <1>5, <2>2
<1> QED BY <1>2, <1>3, <1>5, <1>6, <1>7 DEF results, shown, typed

(* A row that a PUT has written over the one at a place, whose key it has:   *)
(* a row that its query shows, as it was changed.                            *)
IsMeant(q, r, m, row) ==
    /\ m \in DOMAIN Unfielded(q).resultset
    /\ Unfielded(q).resultset[m] \in Range(rows)
    /\ IsShown(Unfielded(q).resultset[m], r)
    /\ Key(Unfielded(q).resultset[m]) = Key(row)

(* A PUT leaves the list as it is but for rows whose key is that of a row    *)
(* that its query shows.                                                     *)
LEMMA UpdateWrites ==
    ASSUME RowsInv(rows), NEW change, IsChange(change), NEW type \in Types,
           NEW q, NEW r, IsPut(q, r)
    PROVE  /\ DOMAIN Update(Typed(change, type), q).list = 1 .. Len(rows)
           /\ Update(Typed(change, type), q).list =
                 [i \in 1 .. Len(rows) |-> Update(Typed(change, type), q).list[i]]
           /\ \A i \in 1 .. Len(rows) :
                 \/ Update(Typed(change, type), q).list[i] = rows[i]
                 \/ \E m : /\ IsMeant(q, r, m, rows[i])
                           /\ Update(Typed(change, type), q).list[i] =
                                 Changed(Unfielded(q).resultset[m], Typed(change, type))
<1> DEFINE typed == Typed(change, type)
           shown == Shown(r)
           results == ChangedResults(typed, q)
           list == Update(typed, q).list
<1>1. rows \in Seq(Range(rows))
  BY DEF RowsInv
<1>2. shown \in Seq(Range(rows)) /\ \A i \in 1 .. Len(shown) : IsShown(shown[i], r)
  BY ChangedResultsAre
<1>3. Unfielded(q).resultset = shown /\ Unfielded(q).error = 0
  BY ChangedResultsAre
<1>4. Len(shown) \in Nat /\ DOMAIN shown = 1 .. Len(shown)
  BY <1>2, SeqDomain
<1>5. \A i \in 1 .. Len(shown) : results[i] = Changed(shown[i], typed)
  BY ChangedResultsAre
<1>7. results \in Seq(Range(results)) /\ Len(results) = Len(shown)
  BY ChangedResultsAre
<1> HIDE DEF shown, typed
<1>6. PICK f : Writes(results, f) /\ list = f[Len(results)]
  BY <1>3, <1>4, UpdateIs
<1> HIDE DEF results, list
<1>8. IsWritten(list, results, Len(results))
  <2>1. Len(results) \in 0 .. Len(results)
    BY <1>4, <1>7
  <2> QED BY <1>1, <1>6, <1>7, <2>1, WrittenIs
<1>9. ASSUME NEW m \in 1 .. Len(results), NEW row, Key(results[m]) = Key(row)
      PROVE  IsMeant(q, r, m, row) /\ results[m] = Changed(Unfielded(q).resultset[m], typed)
  <2>1. m \in 1 .. Len(shown) /\ shown[m] \in Range(rows)
    BY <1>2, <1>7, RangeHas
  <2>2. IsRow(shown[m])
    BY <2>1, RowHas
  <2>3. Changed(shown[m], typed)["key"] = shown[m]["key"]
    BY <2>2, ChangedIs DEF typed, IsChange
  <2>4. Key(results[m]) = Key(shown[m])
    BY <1>5, <2>1, <2>3 DEF Key
  <2> QED BY <1>2, <1>3, <1>4, <1>5, <1>9, <2>1, <2>4 DEF IsMeant
<1>10. ASSUME NEW i \in 1 .. Len(rows)
       PROVE  \/ list[i] = rows[i]
              \/ \E m : /\ IsMeant(q, r, m, rows[i])
                        /\ list[i] = Changed(Unfielded(q).resultset[m], typed)
  <2>1. CASE list[i] = rows[i]
    BY <2>1
  <2>2. CASE list[i] # rows[i]
    <3>1. PICK m \in 1 .. Len(results) : list[i] = results[m] /\ Key(results[m]) = Key(rows[i])
      BY <1>8, <2>2 DEF IsWritten
    <3> QED BY <1>9, <3>1
  <2> QED BY <2>1, <2>2
<1>11. DOMAIN list = 1 .. Len(rows) /\ list = [i \in 1 .. Len(rows) |-> list[i]]
  BY <1>8 DEF IsWritten
<1> QED BY <1>10, <1>11 DEF list, typed

(* Of rows with different keys, it is the rows shown that are changed, in    *)
(* their places.                                                             *)
LEMMA UpdateChanges ==
    ASSUME RowsInv(rows), KeysDiffer(rows), NEW change, IsChange(change), NEW type \in Types,
           NEW q, NEW r, IsPut(q, r)
    PROVE  /\ DOMAIN Update(Typed(change, type), q).list = 1 .. Len(rows)
           /\ Update(Typed(change, type), q).list =
                 [i \in 1 .. Len(rows) |-> Update(Typed(change, type), q).list[i]]
           /\ \A i \in 1 .. Len(rows) :
                 \/ Update(Typed(change, type), q).list[i] = rows[i]
                 \/ /\ Update(Typed(change, type), q).list[i] = Changed(rows[i], Typed(change, type))
                    /\ IsShown(rows[i], r)
                    /\ \E m \in DOMAIN Unfielded(q).resultset : Unfielded(q).resultset[m] = rows[i]
<1> DEFINE typed == Typed(change, type)
           list == Update(typed, q).list
           read == Unfielded(q).resultset
<1>1. /\ DOMAIN list = 1 .. Len(rows)
      /\ list = [i \in 1 .. Len(rows) |-> list[i]]
      /\ \A i \in 1 .. Len(rows) :
            \/ list[i] = rows[i]
            \/ \E m : IsMeant(q, r, m, rows[i]) /\ list[i] = Changed(read[m], typed)
  BY UpdateWrites
<1> HIDE DEF list, typed
<1>2. ASSUME NEW i \in 1 .. Len(rows), NEW m, IsMeant(q, r, m, rows[i])
      PROVE  read[m] = rows[i] /\ IsShown(rows[i], r) /\ m \in DOMAIN read
  BY <1>2, SameKeySameRow DEF IsMeant
<1> HIDE DEF read
<1>3. ASSUME NEW i \in 1 .. Len(rows)
      PROVE  \/ list[i] = rows[i]
             \/ /\ list[i] = Changed(rows[i], typed)
                /\ IsShown(rows[i], r)
                /\ \E m \in DOMAIN read : read[m] = rows[i]
  BY <1>1, <1>2
<1> QED BY <1>1, <1>3 DEF list, typed, read

(* A list with rows of the same keys, in the same places. *)
LEMMA SameKeysInv ==
    ASSUME RowsInv(rows), NEW list, DOMAIN list = 1 .. Len(rows),
           list = [i \in 1 .. Len(rows) |-> list[i]],
           \A i \in 1 .. Len(rows) :
              IsRow(list[i]) /\ Complete(list[i]) /\ Key(list[i]) = Key(rows[i])
    PROVE  RowsInv(list) /\ Len(list) = Len(rows)
<1>1. Len(rows) \in Nat
  BY SeqDomain DEF RowsInv
<1>2. list \in Seq(Range(list)) /\ Len(list) = Len(rows)
  BY <1>1, FunctionIsList
<1> QED BY <1>2 DEF RowsInv

(* Some of the rows. *)
LEMMA PartInv ==
    ASSUME RowsInv(rows), NEW list, SomeRows(list)
    PROVE  RowsInv(list)
<1>1. PICK from : IsPart(rows, list, from)
  BY DEF SomeRows
<1> DEFINE n == Len(list)
<1>2. list \in Seq(Range(list)) /\ n \in Nat
  BY ListInRange, SeqDomain DEF SomeRows
<1>3. Len(rows) \in Nat /\ Len(rows) <= MaxRows
  BY SeqDomain DEF RowsInv
<1>4. /\ from \in [1 .. n -> 1 .. Len(rows)]
      /\ \A i, j \in 1 .. n : i < j => from[i] < from[j]
      /\ \A i \in 1 .. n : list[i] = rows[from[i]]
  BY <1>1 DEF IsPart
<1> HIDE DEF n
<1>5. \A i \in 1 .. n : IsRow(list[i]) /\ Complete(list[i])
  BY <1>4 DEF RowsInv
<1>6. n <= Len(rows)
  BY <1>2, <1>3, <1>4, Increasing
<1> QED BY <1>2, <1>3, <1>5, <1>6, DefaultsAssumption DEF RowsInv, n

-----------------------------------------------------------------------------
(* Every request keeps the invariant. *)

LEMMA ReadBody ==
    ASSUME RowsInv(rows), NEW q, IsReadable(q), q.resultset = << >>
    PROVE  /\ NoEmptyRow(Read(q).resultset)
           /\ Len(Read(q).resultset) \in Nat
           /\ DOMAIN Read(q).resultset = 1 .. Len(Read(q).resultset)
<1>q. IsQuery(q)
  BY DEF IsReadable
<1>1. CASE MissesKey(q)
  <2>1. Read(q).resultset = << >>
    BY <1>q, <1>1, ReadFails
  <2> QED BY <2>1 DEF NoEmptyRow, Range
<1>2. CASE ~ MissesKey(q)
  <2>1. Read(q).resultset = Results(q)
    BY <1>q, <1>2, ReadSucceeds
  <2>2. rows \in Seq(Range(rows)) /\ \A row \in Range(rows) : DOMAIN row # {}
    BY RowHas DEF RowsInv
  <2>3. /\ Len(Results(q)) \in Nat
        /\ DOMAIN Results(q) = 1 .. Len(Results(q))
        /\ \A i \in 1 .. Len(Results(q)) : DOMAIN Results(q)[i] # {}
    BY <1>2, <2>2, ResultsNotEmpty
  <2> QED BY <2>1, <2>3 DEF NoEmptyRow, Range
<1> QED BY <1>1, <1>2

LEMMA GetInv ==
    ASSUME RowsInv(rows), NEW selection \in Selections, NEW type \in Types,
           Get(type, selection)
    PROVE  RowsInv(rows') /\ NoEmptyRow(answer'.body)
<1>1. IsReadable(QueryOf(selection, type)) /\ QueryOf(selection, type).resultset = << >>
  BY SelectionIs, QueryIsReadable, QueriesAre
<1>2. NoEmptyRow(Read(QueryOf(selection, type)).resultset)
  BY <1>1, ReadBody
<1>3. rows' = rows /\ answer'.body = Read(QueryOf(selection, type)).resultset
  BY DEF Get, Reply
<1> QED BY <1>2, <1>3

(* The rows that a body is turned into. *)
LEMMA CreatedAre ==
    ASSUME NEW body \in Bodies, NEW type \in Types,
           \A i \in DOMAIN body.values : ~ Refused(body.values[i], type),
           NEW list, list = [i \in DOMAIN body.values |-> Initialised(body.values[i], type)]
    PROVE  /\ list \in Seq(Range(list)) /\ Len(list) = Len(body.values)
           /\ Len(list) \in Nat /\ DOMAIN body.values = 1 .. Len(list)
           /\ \A i \in 1 .. Len(list) :
                 /\ list[i] = Initialised(body.values[i], type)
                 /\ IsRow(list[i]) /\ Complete(list[i]) /\ DOMAIN list[i] # {}
                 /\ Key(list[i]) = Lower(body.values[i]["key"][1])
<1> DEFINE n == Len(body.values)
<1>1. n \in Nat /\ DOMAIN body.values = 1 .. n
  <2>1. body.values \in Seq(Range(body.values))
    BY BodiesAssumption
  <2> QED BY <2>1, SeqDomain
<1>2. /\ DOMAIN list = 1 .. n /\ list = [i \in 1 .. n |-> list[i]]
      /\ \A i \in 1 .. n : list[i] = Initialised(body.values[i], type)
  BY <1>1
<1>3. list \in Seq(Range(list)) /\ Len(list) = n
  BY <1>1, <1>2, FunctionIsList
<1>4. ASSUME NEW i \in 1 .. n
      PROVE  /\ IsRow(list[i]) /\ Complete(list[i]) /\ DOMAIN list[i] # {}
             /\ Key(list[i]) = Lower(body.values[i]["key"][1])
  <2>1. IsMultimap(body.values[i]) /\ "key" \in DOMAIN body.values[i]
    <3>1. body.values[i] \in Range(body.values)
      BY <1>1, BodiesAssumption, RangeHas
    <3> QED BY <3>1, BodiesAssumption
  <2>2. IsRow(list[i]) /\ Complete(list[i]) /\ list[i]["key"] = body.values[i]["key"]
    BY <1>1, <1>2, <2>1, InitialisedIs
  <2> QED BY <2>2 DEF Key, IsRow
<1> QED BY <1>1, <1>2, <1>3, <1>4

LEMMA CreateInv ==
    ASSUME RowsInv(rows), NEW body \in Bodies, NEW type \in Types,
           Len(rows) + Len(body.values) <= MaxRows,
           \A i \in DOMAIN body.values : ~ Refused(body.values[i], type),
           NEW list, list = [i \in DOMAIN body.values |-> Initialised(body.values[i], type)]
    PROVE  RowsInv(rows \o list)
<1> DEFINE n == Len(list)
           L == Len(rows)
<1>3. list \in Seq(Range(list)) /\ n \in Nat /\ n = Len(body.values) /\ DOMAIN list = 1 .. n
  BY CreatedAre, SeqDomain
<1>4. \A i \in 1 .. n : IsRow(list[i]) /\ Complete(list[i])
  BY CreatedAre
<1>6. L \in Nat /\ rows \in Seq(Range(rows))
  BY SeqDomain DEF RowsInv
<1> DEFINE all == rows \o list
           S == Range(rows) \cup Range(list)
<1>8. rows \in Seq(S) /\ list \in Seq(S)
  <2>1. Range(rows) \subseteq S /\ Range(list) \subseteq S
    OBVIOUS
  <2> HIDE DEF S
  <2> QED BY <1>3, <1>6, <2>1, SeqWider
<1> HIDE DEF n, L, S
<1>9. all \in Seq(S)
  BY <1>8
<1>10. Len(all) = L + n
  BY <1>3, <1>6 DEF L
<1>11. ASSUME NEW i \in 1 .. L + n
       PROVE  \/ i \in 1 .. L /\ all[i] = rows[i]
              \/ i - L \in 1 .. n /\ all[i] = list[i - L]
  BY <1>3, <1>8, Joined DEF L
<1> HIDE DEF all
<1>12. \A j \in 1 .. L : IsRow(rows[j]) /\ Complete(rows[j])
  BY DEF RowsInv, L
<1>13. \A i \in 1 .. L + n : IsRow(all[i]) /\ Complete(all[i])
  BY <1>4, <1>11, <1>12
<1>15. all \in Seq(Range(all))
  BY <1>9, ListInRange
<1> QED BY <1>3, <1>10, <1>13, <1>15 DEF RowsInv, all, L, n

LEMMA EmptyBody == NoEmptyRow(<< >>)
BY DEF NoEmptyRow, Range

LEMMA NoRowsInv == RowsInv(<< >>)
BY DefaultsAssumption DEF RowsInv, Range

LEMMA PostInv ==
    ASSUME RowsInv(rows), NEW selection, NEW type \in Types,
           NEW body \in Bodies, Post(type, selection, body.values)
    PROVE  RowsInv(rows') /\ NoEmptyRow(answer'.body)
<1> DEFINE list == [i \in DOMAIN body.values |-> Initialised(body.values[i], type)]
           q == QueryOf(selection, type)
           created == Create(list, q)
<1>q. IsQuery(q) /\ q.error = 0 /\ q.resultset = << >>
  BY QueriesAre
<1>1. /\ Len(rows) + Len(body.values) <= MaxRows
      /\ \/ rows' = rows /\ answer'.body = << >>
         \/ /\ \A i \in DOMAIN body.values : ~ Refused(body.values[i], type)
            /\ rows' = created.list /\ answer'.body = created.query.resultset
  BY DEF Post, Reply
<1>2. CASE rows' = rows /\ answer'.body = << >>
  BY <1>2, EmptyBody
<1>3. CASE /\ \A i \in DOMAIN body.values : ~ Refused(body.values[i], type)
           /\ rows' = created.list /\ answer'.body = created.query.resultset
  <2> DEFINE conflict == \E i \in DOMAIN list : Position(rows, list[i]["key"][1]) # 0
  <2> HIDE DEF list, q
  <2>1. CASE conflict
    <3>1. created = [list |-> rows, query |-> [q EXCEPT !.error = 40009]]
      BY <2>1 DEF Create
    <3>2. created.list = rows /\ created.query.resultset = << >>
      BY <1>q, <3>1 DEF IsQuery
    <3> QED BY <1>3, <3>2, EmptyBody
  <2>2. CASE ~ conflict
    <3>1. created = [list |-> rows \o list,
                     query |-> [q EXCEPT !.resultset = Fields(list, q.fields)]]
      BY <2>2 DEF Create
    <3>2. created.list = rows \o list /\ created.query.resultset = Fields(list, q.fields)
      BY <1>q, <3>1 DEF IsQuery
    <3>3. RowsInv(rows \o list)
      BY <1>1, <1>3, <2>2, CreateInv DEF list
    <3>4. /\ list \in Seq(Range(list))
          /\ \A i \in 1 .. Len(list) : DOMAIN list[i] # {}
      BY <1>1, <1>3, <2>2, CreatedAre DEF list
    <3>5. NoEmptyRow(Fields(list, q.fields))
      BY <3>4, FieldsNotEmpty DEF NoEmptyRow, Range
    <3> QED BY <1>3, <3>2, <3>3, <3>5
  <2> QED BY <2>1, <2>2
<1> QED BY <1>1, <1>2, <1>3

(* What a PUT comes to: it has no outcome, is refused, misses its key, or    *)
(* writes rows.                                                              *)
PutQuery(selection, type) == [UpdateQuery(selection, type) EXCEPT !.fields = {}]

Writing(type, selection, change) ==
    /\ IsChange(change)
    /\ IsPut(UpdateQuery(selection, type), PutQuery(selection, type))
    /\ ~ has_invalid_update_fields(change, type)
    /\ rows' = Update(Typed(change, type), UpdateQuery(selection, type)).list
    /\ answer'.body =
          IF SomeApplied(Typed(change, type), UpdateQuery(selection, type))
          THEN Fields(ChangedResults(Typed(change, type), UpdateQuery(selection, type)),
                      selection.fields)
          ELSE << >>
    /\ answer'.code = IF answer'.body = << >> THEN 204 ELSE 200

LEMMA PutIs ==
    ASSUME NEW selection \in Selections, NEW type \in Types, NEW changes \in Changes,
           Put(type, selection, changes)
    PROVE  /\ answer'.method = "PUT" /\ answer'.selection = selection
           /\ answer'.type = type /\ answer'.change = changes
           /\ Len(selection.keys) = 1
           /\ \/ /\ rows' = << >> /\ answer'.body = << >>
                 /\ answer'.code = Undefined /\ changes = << >>
              \/ rows' = rows /\ answer'.body = << >> /\ answer'.code \in {400, 404, 409, 500}
              \/ \E change \in Range(changes) : Writing(type, selection, change)
<1> DEFINE change == Last(changes)
           typed == Typed(change, type)
           q == UpdateQuery(selection, type)
           r == PutQuery(selection, type)
           updated == Update(typed, q)
           refused == has_reserved_update_fields(change) \/ has_invalid_update_fields(change, type)
<1>1. /\ answer' = [method |-> "PUT", type |-> type, selection |-> selection, change |-> changes,
                    code |-> answer'.code, body |-> answer'.body]
      /\ Len(selection.keys) = 1
      /\ \/ /\ rows' = << >> /\ answer'.body = << >>
            /\ answer'.code = Undefined /\ changes = << >>
         \/ rows' = rows /\ answer'.body = << >> /\ answer'.code \in {400, 500}
         \/ \E lookup : /\ rows' = rows /\ answer'.body = << >>
                        /\ answer'.code = Status(lookup)
         \/ /\ changes # << >> /\ ~ refused
            /\ rows' = updated.list
            /\ answer'.body = updated.query.resultset
            /\ answer'.code = IF updated.query.error # 0 THEN Status(updated.query.error)
                              ELSE IF updated.query.resultset = << >> THEN 204 ELSE 200
  BY DEF Put, Reply, Lost, Typed
<1>2. /\ answer'.method = "PUT" /\ answer'.selection = selection
      /\ answer'.type = type /\ answer'.change = changes
  BY <1>1
<1>0. CASE /\ rows' = << >> /\ answer'.body = << >>
           /\ answer'.code = Undefined /\ changes = << >>
  BY <1>0, <1>1, <1>2
<1>3. CASE rows' = rows /\ answer'.body = << >> /\ answer'.code \in {400, 500}
  BY <1>1, <1>2, <1>3
<1>4. CASE \E lookup : /\ rows' = rows /\ answer'.body = << >>
                       /\ answer'.code = Status(lookup)
  BY <1>1, <1>2, <1>4 DEF Status
<1>5. CASE /\ changes # << >> /\ ~ refused
           /\ rows' = updated.list
           /\ answer'.body = updated.query.resultset
           /\ answer'.code = IF updated.query.error # 0 THEN Status(updated.query.error)
                             ELSE IF updated.query.resultset = << >> THEN 204 ELSE 200
  <2>1. /\ IsQuery(q) /\ q.error = 0 /\ q.resultset = << >> /\ q.fields = selection.fields
    BY QueriesAre DEF UpdateQuery, QueryOf
  <2>2. r = [q EXCEPT !.fields = {}] /\ IsReadable(r) /\ r.fields = {}
    BY SelectionIs, QueryIsReadable DEF PutQuery, UpdateQuery, QueryOf
  <2>0. change \in Range(changes)
    <3>1. changes \in Seq(Range(changes))
      BY ChangesAssumption
    <3>2. Len(changes) \in Nat /\ Len(changes) # 0
      BY <1>5, <3>1
    <3>3. Len(changes) \in 1 .. Len(changes)
      BY <3>2
    <3> QED BY <3>1, <3>3, RangeHas DEF Last
  <2>3. IsChange(change)
    <3>1. IsMultimap(change)
      BY <2>0, ChangesAssumption
    <3> QED BY <1>5, <3>1 DEF IsChange, has_reserved_update_fields
  <2> HIDE DEF q, r, typed, change
  <2>4. /\ Unfielded(q).error \in {0, 40004}
        /\ Unfielded(q).error # 0 <=> MissesKey(r)
    BY <2>1, <2>2, UnfieldedIs
  <2>5. CASE MissesKey(r)
    <3>1. updated = [list |-> rows, query |-> [q EXCEPT !.error = Unfielded(q).error]]
      BY <2>4, <2>5, UpdateFails
    <3>2. /\ updated.list = rows /\ updated.query.resultset = << >>
          /\ updated.query.error = 40004
      BY <2>1, <2>4, <2>5, <3>1 DEF IsQuery
    <3> QED BY <1>1, <1>2, <1>5, <3>2 DEF Status
  <2>6. CASE ~ MissesKey(r)
    <3> DEFINE result == IF SomeApplied(typed, q)
                         THEN Fields(ChangedResults(typed, q), q.fields) ELSE << >>
    <3>1. updated.query = [q EXCEPT !.resultset = result]
      BY <2>4, <2>6, UpdateAnswers
    <3> HIDE DEF result
    <3>2. updated.query.resultset = result /\ updated.query.error = 0
      BY <2>1, <3>1 DEF IsQuery
    <3>3. IsPut(q, r)
      BY <2>1, <2>2, <2>6 DEF IsPut
    <3>4. /\ answer'.body = result
          /\ answer'.code = IF answer'.body = << >> THEN 204 ELSE 200
      BY <1>5, <3>2
    <3>5. Writing(type, selection, change)
      BY <1>5, <2>1, <2>3, <3>3, <3>4 DEF Writing, q, r, typed, result
    <3> QED BY <1>1, <1>2, <2>0, <3>5
  <2> QED BY <2>5, <2>6
<1> QED BY <1>0, <1>1, <1>3, <1>4, <1>5

(* The rows that a PUT shows are of its type. *)
LEMMA ShownType ==
    ASSUME NEW selection, NEW type \in Types, NEW row, IsRow(row),
           IsShown(row, PutQuery(selection, type))
    PROVE  row["type"] = << type >>
<1> DEFINE r == PutQuery(selection, type)
<1>1. r.include = (IF type = "queue" THEN "" ELSE type) /\ << "type", type >> \in r.exclusive
  BY DEF PutQuery, UpdateQuery, QueryOf
<1>2. IsShown(row, r)
  OBVIOUS
<1> HIDE DEF r
<1>3. PICK t \in Types : row["type"] = << t >>
  BY DEF IsRow
<1>4. CASE Passes(row, r)
  <2>1. << "type", type >>[2] \in Range(Values(row, << "type", type >>[1]))
    BY <1>1, <1>4 DEF Passes, PassesExclusive
  <2>2. type \in Range(Values(row, "type"))
    BY <2>1
  <2>3. Values(row, "type") = << t >>
    BY <1>3 DEF IsRow, Values
  <2>4. Range(<< t >>) = {t}
    BY DEF Range
  <2> QED BY <1>3, <2>2, <2>3, <2>4
<1>5. CASE IsRelated(row, Paged(r), r.include)
  <2>1. r.include # "" /\ Type(row) = r.include
    BY <1>5 DEF IsRelated
  <2>2. Type(row) = t
    BY <1>3 DEF Type
  <2> QED BY <1>1, <1>3, <2>1, <2>2
<1> QED BY <1>2, <1>4, <1>5 DEF IsShown

LEMMA ChangedStays ==
    ASSUME NEW row, IsRow(row), Complete(row), NEW change, IsChange(change),
           NEW type \in Types, row["type"] = << type >>
    PROVE  /\ IsRow(Changed(row, Typed(change, type)))
           /\ Complete(Changed(row, Typed(change, type)))
           /\ Key(Changed(row, Typed(change, type))) = Key(row)
           /\ Type(Changed(row, Typed(change, type))) = type
<1> DEFINE next == Changed(row, Typed(change, type))
<1>1. /\ IsRow(next) /\ next["key"] = row["key"] /\ next["type"] = << type >>
      /\ \A p \in DOMAIN row : p \in DOMAIN next /\ Len(next[p]) = Len(row[p])
  BY ChangedIs DEF IsChange
<1> HIDE DEF next
<1>2. Key(next) = Key(row) /\ Type(next) = type /\ Type(row) = type
  BY <1>1 DEF Key, Type
<1>3. ASSUME type = "queue" PROVE Complete(next)
  <2>1. Limits \subseteq DOMAIN row
    BY <1>2, <1>3 DEF Complete
  <2>2. Limits \subseteq DOMAIN next
    BY <1>1, <2>1
  <2> QED BY <1>2, <1>3, <2>2 DEF Complete
<1>4. ASSUME type # "queue" PROVE Complete(next)
  <2>1. "endpoint" \in DOMAIN row /\ "state" \in DOMAIN row /\ Len(row["state"]) = 1
    BY <1>2, <1>4 DEF Complete
  <2>2. "endpoint" \in DOMAIN next /\ "state" \in DOMAIN next /\ Len(next["state"]) = 1
    BY <1>1, <2>1
  <2> QED BY <1>2, <1>4, <2>2 DEF Complete
<1> QED BY <1>1, <1>2, <1>3, <1>4 DEF next

LEMMA PutInv ==
    ASSUME RowsInv(rows), NEW selection \in Selections, NEW type \in Types,
           NEW changes \in Changes, Put(type, selection, changes)
    PROVE  RowsInv(rows') /\ NoEmptyRow(answer'.body)
<1>0. CASE rows' = << >> /\ answer'.body = << >>
  BY <1>0, NoRowsInv, EmptyBody
<1>1. CASE rows' = rows /\ answer'.body = << >>
  BY <1>1, EmptyBody
<1>2. ASSUME NEW change, Writing(type, selection, change)
      PROVE  RowsInv(rows') /\ NoEmptyRow(answer'.body)
  <2> DEFINE typed == Typed(change, type)
             q == UpdateQuery(selection, type)
             r == PutQuery(selection, type)
             results == ChangedResults(typed, q)
             list == Update(typed, q).list
  <2>1. IsChange(change) /\ IsPut(q, r) /\ rows' = list
    BY <1>2 DEF Writing
  <2>2. \/ answer'.body = << >>
        \/ answer'.body = Fields(results, selection.fields)
    BY <1>2 DEF Writing
  <2> HIDE DEF q, r
  <2>3. /\ results \in Seq(Range(results)) /\ Len(results) = Len(Shown(r))
        /\ \A i \in 1 .. Len(Shown(r)) : IsRow(results[i])
    BY <2>1, ChangedResultsAre
  <2>4. \A i \in 1 .. Len(results) : DOMAIN results[i] # {}
    BY <2>3 DEF IsRow
  <2> HIDE DEF results
  <2>5. NoEmptyRow(answer'.body)
    <3>1. CASE answer'.body = << >>
      BY <3>1, EmptyBody
    <3>2. CASE answer'.body = Fields(results, selection.fields)
      BY <2>3, <2>4, <3>2, FieldsNotEmpty DEF NoEmptyRow, Range
    <3> QED BY <2>2, <3>1, <3>2
  <2> DEFINE read == Unfielded(q).resultset
  <2>6. /\ DOMAIN list = 1 .. Len(rows)
        /\ list = [i \in 1 .. Len(rows) |-> list[i]]
        /\ \A i \in 1 .. Len(rows) :
              \/ list[i] = rows[i]
              \/ \E m : IsMeant(q, r, m, rows[i]) /\ list[i] = Changed(read[m], typed)
    BY <2>1, UpdateWrites
  <2> HIDE DEF list
  <2>7. ASSUME NEW i \in 1 .. Len(rows)
        PROVE  IsRow(list[i]) /\ Complete(list[i]) /\ Key(list[i]) = Key(rows[i])
    <3>1. IsRow(rows[i]) /\ Complete(rows[i])
      BY DEF RowsInv
    <3>2. CASE list[i] = rows[i]
      BY <3>1, <3>2
    <3>3. ASSUME NEW m, IsMeant(q, r, m, rows[i]), list[i] = Changed(read[m], typed)
          PROVE  IsRow(list[i]) /\ Complete(list[i]) /\ Key(list[i]) = Key(rows[i])
      <4>1. read[m] \in Range(rows) /\ IsShown(read[m], r) /\ Key(read[m]) = Key(rows[i])
        BY <3>3 DEF IsMeant
      <4> HIDE DEF read
      <4>2. IsRow(read[m]) /\ Complete(read[m])
        BY <4>1, RowHas
      <4>3. read[m]["type"] = << type >>
        BY <4>1, <4>2, ShownType DEF r
      <4>4. IsChange(change)
        BY <2>1
      <4> QED BY <3>3, <4>1, <4>2, <4>3, <4>4, ChangedStays
    <3> QED BY <2>6, <3>2, <3>3
  <2>8. RowsInv(list)
    BY <2>6, <2>7, SameKeysInv
  <2> QED BY <2>1, <2>5, <2>8
<1> QED BY <1>0, <1>1, <1>2, PutIs

(* What a DELETE leaves. *)
LEMMA DeleteLeaves ==
    ASSUME RowsInv(rows), NEW selection \in Selections, NEW type \in Types,
           Delete(type, selection)
    PROVE  SomeRows(rows') /\ answer'.body = << >> /\ answer'.method = "DELETE"
<1> DEFINE q == QueryOf(selection, type)
           results == Read(q).resultset
           store == Destroy(q).store
<1>1. /\ answer'.body = << >> /\ answer'.method = "DELETE"
      /\ rows' = IF store.defined THEN store.list ELSE << >>
  BY DEF Delete, Reply, Lost
<1>2. IsReadable(q) /\ q.resultset = << >>
  BY SelectionIs, QueryIsReadable, QueriesAre
<1> HIDE DEF q
<1>3. Len(results) \in Nat
  BY <1>2, ReadBody
<1>4. PICK f : /\ Erases(results, f)
               /\ store = f[IF Read(q).error # 0 THEN 0 ELSE Len(results)]
  BY <1>3, DestroyIs
<1>5. PICK n \in 0 .. Len(results) : store = f[n]
  BY <1>3, <1>4
<1>6. rows \in Seq(Range(rows))
  BY DEF RowsInv
<1> HIDE DEF results, store
<1>7. PICK list : \E defined \in BOOLEAN : store = Store(list, defined) /\ SomeRows(list)
  BY <1>3, <1>4, <1>5, <1>6, ErasedIs
<1>8. SomeRows(<< >>)
  <2>1. IsPart(rows, << >>, << >>)
    BY DEF IsPart
  <2> QED BY <2>1 DEF SomeRows
<1>9. rows' = << >> \/ rows' = list
  BY <1>1, <1>7, StoreIs DEF store
<1>10. SomeRows(rows')
  BY <1>7, <1>8, <1>9
<1> QED BY <1>1, <1>10

LEMMA DeleteInv ==
    ASSUME RowsInv(rows), NEW selection \in Selections, NEW type \in Types,
           Delete(type, selection)
    PROVE  RowsInv(rows') /\ NoEmptyRow(answer'.body)
BY DeleteLeaves, PartInv, EmptyBody

IsFiltered(q) == "inclusive" \in DOMAIN q /\ "exclusive" \in DOMAIN q

Lowered(keys) == [i \in DOMAIN keys |-> Lower(keys[i])]

LEMMA QueryHas ==
    ASSUME NEW selection, NEW type
    PROVE  /\ QueryOf(selection, type).keys = Lowered(selection.keys)
           /\ QueryOf(selection, type).inclusive = Inclusive(selection.filters)
           /\ QueryOf(selection, type).exclusive = Exclusive(selection.filters) \cup {<< "type", type >>}
           /\ QueryOf(selection, type).index = selection.index /\ QueryOf(selection, type).limit = selection.limit
           /\ QueryOf(selection, type).fields = selection.fields /\ QueryOf(selection, type).include = ""
           /\ QueryOf(selection, type).error = 0 /\ QueryOf(selection, type).resultset = << >>
           /\ IsQuery(QueryOf(selection, type)) /\ IsFiltered(QueryOf(selection, type))
BY DEF QueryOf, Lowered, IsFiltered, IsQuery

LEMMA QueryPlain ==
    ASSUME NEW selection, NEW type
    PROVE  QueryOf(selection, type).include = "" /\ QueryOf(selection, type).fields = selection.fields
BY QueryHas

LEMMA NothingIs ==
    ASSUME NEW list, DOMAIN list = {}, list = [i \in {} |-> list[i]]
    PROVE  list = << >>
<1>1. 0 \in Nat /\ 1 .. 0 = {}
  OBVIOUS
<1>2. list \in Seq(Range(list)) /\ Len(list) = 0
  BY <1>1, FunctionIsList
<1> QED BY <1>2

(* A query of every row of a type. *)
All == [keys |-> << >>, filters |-> << >>, index |-> 0, limit |-> SizeMax, fields |-> {}]

LEMMA AllIs ==
    /\ Len(All.keys) \in Nat /\ DOMAIN All.keys = 1 .. Len(All.keys) /\ DOMAIN All.keys = {}
    /\ All.filters = << >> /\ DOMAIN All.filters = {}
    /\ All.index \in Nat /\ All.index = 0 /\ All.limit \in Nat /\ All.limit = SizeMax
    /\ All.fields = {}
<1>1. Len(<< >>) \in Nat /\ DOMAIN << >> = 1 .. Len(<< >>) /\ DOMAIN << >> = {}
  OBVIOUS
<1>2. All.keys = << >> /\ All.filters = << >> /\ All.index = 0 /\ All.limit = SizeMax
      /\ All.fields = {}
  BY DEF All
<1> QED BY <1>1, <1>2, DefaultsAssumption

(* The query with other filters. *)
With(q, inclusive, exclusive) == [q EXCEPT !.inclusive = inclusive, !.exclusive = exclusive]

LEMMA Replaced ==
    ASSUME NEW q, IsFiltered(q), IsQuery(q), NEW a, NEW b
    PROVE  /\ With(q, a, b).inclusive = a /\ With(q, a, b).exclusive = b
           /\ IsQuery(With(q, a, b))
           /\ With(q, a, b).keys = q.keys /\ With(q, a, b).index = q.index
           /\ With(q, a, b).limit = q.limit /\ With(q, a, b).fields = q.fields
           /\ With(q, a, b).include = q.include /\ With(q, a, b).error = q.error
           /\ With(q, a, b).resultset = q.resultset
BY DEF With, IsFiltered, IsQuery

LEMMA ReachableIs ==
    ASSUME NEW queues, NEW q, q = ReachableQuery(queues)
    PROVE  /\ IsReadable(q) /\ ~ MissesKey(q) /\ q.resultset = << >> /\ q.error = 0
           /\ q.keys = << >> /\ q.fields = {} /\ q.include = ""
           /\ q.index = 0 /\ q.limit = SizeMax
           /\ q.inclusive = [i \in DOMAIN queues |-> << "queues", LowerBound(queues[i], "key") >>]
           /\ q.exclusive = {<< "type", "subscription" >>} \cup {<< "state", "reachable" >>}
<1> DEFINE of == QueryOf(All, "subscription")
           naming == [i \in DOMAIN queues |-> << "queues", LowerBound(queues[i], "key") >>]
           one == << "type", "subscription" >>
           two == << "state", "reachable" >>
<1>3. IsReadable(of)
  BY AllIs, QueryIsReadable
<1>0. of = QueryOf(All, "subscription")
  OBVIOUS
<1> HIDE DEF of
<1>q. /\ of.fields = All.fields /\ of.include = "" /\ of.resultset = << >> /\ of.error = 0
      /\ of.index = All.index /\ of.limit = All.limit
      /\ IsFiltered(of) /\ IsQuery(of)
      /\ of.exclusive = Exclusive(All.filters) \cup {one}
      /\ of.keys = Lowered(All.keys)
  <2> HIDE DEF one
  <2>1. one = << "type", "subscription" >>
    BY DEF one
  <2>2. of.fields = All.fields
    BY <1>0, QueryHas
  <2>3. of.include = ""
    BY <1>0, QueryHas
  <2>4. of.resultset = << >> /\ of.error = 0
    BY <1>0, QueryHas
  <2>5. of.index = All.index /\ of.limit = All.limit
    BY <1>0, QueryHas
  <2>6. IsFiltered(of) /\ IsQuery(of)
    BY <1>0, QueryHas
  <2>7. of.exclusive = Exclusive(All.filters) \cup {one}
    BY <1>0, <2>1, QueryHas
  <2>8. of.keys = Lowered(All.keys)
    BY <1>0, QueryHas
  <2> QED BY <2>2, <2>3, <2>4, <2>5, <2>6, <2>7, <2>8
<1>f. Exclusive(All.filters) = {}
  BY AllIs DEF Exclusive
<1>4. /\ of.fields = {} /\ of.include = "" /\ of.resultset = << >> /\ of.error = 0
      /\ of.index = 0 /\ of.limit = SizeMax
      /\ IsFiltered(of) /\ IsQuery(of)
      /\ of.exclusive = {one}
  BY <1>q, <1>f, AllIs
<1>6. of.keys = << >>
  <2>1. DOMAIN of.keys = {} /\ of.keys = [i \in {} |-> of.keys[i]]
    BY <1>q, AllIs DEF Lowered
  <2> QED BY <2>1, NothingIs
<1>7. q = With(of, naming, of.exclusive \cup {two})
  BY DEF ReachableQuery, All, of, With
<1> HIDE DEF naming, two
<1>8. /\ q.keys = of.keys /\ q.index = of.index /\ q.limit = of.limit /\ q.fields = of.fields
      /\ q.include = of.include /\ q.resultset = of.resultset /\ q.error = of.error
      /\ q.inclusive = naming
      /\ q.exclusive = of.exclusive \cup {two}
      /\ IsQuery(q)
  <2> DEFINE b == of.exclusive \cup {two}
  <2> HIDE DEF b, one
  <2>1. q = With(of, naming, b)
    BY <1>7 DEF b
  <2>2. IsFiltered(of) /\ IsQuery(of)
    BY <1>4
  <2>3. q.keys = of.keys /\ q.index = of.index /\ q.limit = of.limit /\ q.fields = of.fields
    BY <2>1, <2>2, Replaced
  <2>4. q.include = of.include /\ q.resultset = of.resultset /\ q.error = of.error
    BY <2>1, <2>2, Replaced
  <2>5. q.inclusive = naming
    BY <2>1, <2>2, Replaced
  <2>6. q.exclusive = b
    BY <2>1, <2>2, Replaced
  <2>7. IsQuery(q)
    BY <2>1, <2>2, Replaced
  <2> QED BY <2>3, <2>4, <2>5, <2>6, <2>7 DEF b
<1>e. q.exclusive = {one} \cup {two}
  BY <1>4, <1>8
<1> HIDE DEF one
<1>s. /\ q.keys = << >> /\ q.fields = {} /\ q.include = "" /\ q.resultset = << >>
      /\ q.error = 0 /\ q.index = 0 /\ q.limit = SizeMax
  BY <1>4, <1>6, <1>8
<1>9. IsReadable(q)
  <2>1. Len(<< >>) \in Nat /\ DOMAIN << >> = 1 .. Len(<< >>)
    OBVIOUS
  <2> QED BY <1>8, <1>s, <2>1, DefaultsAssumption DEF IsReadable
<1>10. ~ MissesKey(q)
  <2>1. DOMAIN << >> = {}
    OBVIOUS
  <2> QED BY <1>s, <2>1 DEF MissesKey
<1> QED BY <1>8, <1>9, <1>10, <1>e, <1>s DEF naming, one, two

(* The subscriptions a message is for, given the queues that were read. *)
Reached(queues) == Read(ReachableQuery(queues)).resultset

NamesQueue(row, queues) ==
    \E name \in Range(Values(row, "queues")) :
        \E queue \in Range(queues) : Lower(name) = Lower(LowerBound(queue, "key"))

Receivers(queues) ==
    Kept(Reached(queues), {i \in DOMAIN Reached(queues) : NamesQueue(Reached(queues)[i], queues)})

(* What a publication comes to: it has no outcome, is refused, or goes to    *)
(* its receivers, whose rows say what they are.                              *)
LEMMA PublishIs ==
    ASSUME NEW selection, Publish(selection)
    PROVE  /\ answer'.method = "PUBLISH" /\ answer'.selection = selection
           /\ \/ /\ rows' = << >> /\ answer'.body = << >> /\ answer'.code = Undefined
                 /\ selection.fields # {} /\ "type" \notin selection.fields
              \/ rows' = rows /\ answer'.body = << >> /\ answer'.code \in {404, 409, 500}
              \/ /\ rows' = rows
                 /\ Read(QueryOf(selection, "queue")).error = 0
                 /\ \E queues :
                       /\ queues = QueuesOf(Read(QueryOf(selection, "queue")).resultset)
                       /\ answer'.body = Receivers(queues)
                       /\ answer'.code = IF Receivers(queues) = << >> THEN 201 ELSE 202
<1> DEFINE read == Read(QueryOf(selection, "queue"))
           fields == selection.fields
           queues == QueuesOf(read.resultset)
           receivers == Receivers(queues)
<1>1. \/ Lost("PUBLISH", "message", selection, << >>) /\ fields # {} /\ "type" \notin fields
      \/ /\ Lost("PUBLISH", "message", selection, << >>)
         /\ fields # {} /\ fields \cap MessageFromKey = {}
      \/ \E error : /\ Reply("PUBLISH", "message", selection, << >>, Status(error), << >>)
                    /\ rows' = rows
      \/ /\ Reply("PUBLISH", "message", selection, << >>, 500, << >>)
         /\ rows' = rows
      \/ /\ receivers = << >>
         /\ Reply("PUBLISH", "message", selection, << >>, 201, << >>)
         /\ rows' = rows /\ read.error = 0
      \/ /\ receivers # << >>
         /\ Reply("PUBLISH", "message", selection, << >>, 202, receivers)
         /\ rows' = rows /\ read.error = 0
  BY DEF Publish, Receivers, Reached, NamesQueue
<1> HIDE DEF receivers, read, fields, queues
<1>2. "type" \in MessageFromKey
  BY DEF MessageFromKey
<1>3. CASE Lost("PUBLISH", "message", selection, << >>) /\ fields # {} /\ "type" \notin fields
  BY <1>3 DEF Lost, Reply, fields
<1>4. CASE /\ Lost("PUBLISH", "message", selection, << >>)
           /\ fields # {} /\ fields \cap MessageFromKey = {}
  BY <1>2, <1>4 DEF Lost, Reply, fields
<1>5. CASE \E error : /\ Reply("PUBLISH", "message", selection, << >>, Status(error), << >>)
                     /\ rows' = rows
  BY <1>5 DEF Reply, Status
<1>6. CASE /\ Reply("PUBLISH", "message", selection, << >>, 500, << >>)
           /\ rows' = rows
  BY <1>6 DEF Reply
<1>7. CASE /\ receivers = << >>
           /\ Reply("PUBLISH", "message", selection, << >>, 201, << >>)
           /\ rows' = rows /\ read.error = 0
  BY <1>7 DEF Reply, receivers, queues, read
<1>8. CASE /\ receivers # << >>
           /\ Reply("PUBLISH", "message", selection, << >>, 202, receivers)
           /\ rows' = rows /\ read.error = 0
  BY <1>8 DEF Reply, receivers, queues, read
<1> QED BY <1>1, <1>3, <1>4, <1>5, <1>6, <1>7, <1>8

LEMMA ReceiversAreRows ==
    ASSUME RowsInv(rows), NEW queues
    PROVE  NoEmptyRow(Receivers(queues))
<1> DEFINE q == ReachableQuery(queues)
           reached == Reached(queues)
           receivers == Receivers(queues)
<1>1. IsReadable(q) /\ ~ MissesKey(q) /\ q.fields = {}
  BY ReachableIs
<1> HIDE DEF q
<1>2. reached = Results(q) /\ Results(q) = Shown(q)
  <2>1. Results(q) = Fields(Shown(q), q.fields)
    BY DEF Results, Shown
  <2> QED BY <1>1, <2>1, ReadSucceeds DEF Fields, IsReadable, Reached, q
<1>3. reached \in Seq(Range(rows))
  BY <1>1, <1>2, ShownAre DEF RowsInv
<1>4. receivers \in Seq(Range(rows))
  <2> HIDE DEF reached
  <2> DEFINE places == {i \in DOMAIN reached : NamesQueue(reached[i], queues)}
  <2>1. receivers = Kept(reached, places)
    BY DEF Receivers, reached
  <2> HIDE DEF places
  <2> QED BY <1>3, <2>1, KeptSelects
<1> HIDE DEF receivers
<1>5. \A row \in Range(receivers) : DOMAIN row # {}
  BY <1>4, RangeWithin, RowHas
<1> QED BY <1>5 DEF NoEmptyRow, receivers

LEMMA PublishInv ==
    ASSUME RowsInv(rows), NEW selection \in Selections, Publish(selection)
    PROVE  RowsInv(rows') /\ NoEmptyRow(answer'.body)
<1>1. \/ rows' = << >> /\ answer'.body = << >>
      \/ rows' = rows /\ answer'.body = << >>
      \/ rows' = rows /\ \E queues : answer'.body = Receivers(queues)
  BY PublishIs
<1> QED BY <1>1, NoRowsInv, EmptyBody, ReceiversAreRows

LEMMA StepInv ==
    ASSUME Inv, [Next]_vars
    PROVE  Inv'
<1>1. CASE UNCHANGED vars
  BY <1>1 DEF vars, Inv, RowsInv, NoEmptyRow, IsRow, Complete, Type
<1>2. CASE Answered
  BY <1>2 DEF Answered, Inv, RowsInv, NoEmptyRow, IsRow, Complete, Type
<1>3. CASE Request
  <2>0. RowsInv(rows)
    BY DEF Inv
  <2>1. PICK selection \in Selections :
          \/ \E type \in Types :
                \/ Get(type, selection)
                \/ \E body \in Bodies : body.type = type /\ Post(type, selection, body.values)
                \/ \E changes \in Changes : Put(type, selection, changes)
                \/ Delete(type, selection)
          \/ Publish(selection)
    BY <1>3 DEF Request
  <2>2. RowsInv(rows') /\ NoEmptyRow(answer'.body)
    <3>1. CASE Publish(selection)
      BY <2>0, <3>1, PublishInv
    <3>2. ASSUME NEW type \in Types, Get(type, selection)
          PROVE  RowsInv(rows') /\ NoEmptyRow(answer'.body)
      BY <2>0, <3>2, GetInv
    <3>3. ASSUME NEW type \in Types, NEW body \in Bodies, Post(type, selection, body.values)
          PROVE  RowsInv(rows') /\ NoEmptyRow(answer'.body)
      BY <2>0, <3>3, PostInv
    <3>4. ASSUME NEW type \in Types, NEW changes \in Changes, Put(type, selection, changes)
          PROVE  RowsInv(rows') /\ NoEmptyRow(answer'.body)
      BY <2>0, <3>4, PutInv
    <3>5. ASSUME NEW type \in Types, Delete(type, selection)
          PROVE  RowsInv(rows') /\ NoEmptyRow(answer'.body)
      BY <2>0, <3>5, DeleteInv
    <3> QED BY <2>1, <3>1, <3>2, <3>3, <3>4, <3>5
  <2> QED BY <2>2 DEF Inv, RowsInv, NoEmptyRow, IsRow, Complete, Type
<1> QED BY <1>1, <1>2, <1>3 DEF Next

LEMMA InitInv == Init => Inv
<1> SUFFICES ASSUME Init PROVE Inv
  OBVIOUS
<1>1. rows = << >> /\ answer = NoAnswer
  BY DEF Init
<1>2. << >> \in Seq(Range(<< >>)) /\ Len(<< >>) = 0
  OBVIOUS
<1>3. Len(<< >>) <= MaxRows
  BY <1>2, DefaultsAssumption
<1> QED BY <1>1, <1>2, <1>3 DEF Inv, RowsInv

LEMMA InvariantHolds == Spec => []Inv
BY InitInv, StepInv, PTL DEF Spec

(* The rows are rows, with a key and one type each, and every property has a *)
(* value; no answer holds an empty row.                                      *)
THEOREM TypeCorrectness == Spec => []TypeOK
<1>1. Inv => TypeOK
  BY InvIs
<1> QED BY <1>1, InvariantHolds, PTL

-----------------------------------------------------------------------------
(* What a PUT may change. *)

LEMMA LoweredIs ==
    ASSUME NEW keys, Len(keys) \in Nat, DOMAIN keys = 1 .. Len(keys)
    PROVE  /\ DOMAIN Lowered(keys) = 1 .. Len(keys) /\ Len(Lowered(keys)) = Len(keys)
           /\ \A i \in 1 .. Len(keys) : Lowered(keys)[i] = Lower(keys[i])
<1>1. /\ DOMAIN Lowered(keys) = 1 .. Len(keys)
      /\ \A i \in 1 .. Len(keys) : Lowered(keys)[i] = Lower(keys[i])
      /\ Lowered(keys) = [i \in 1 .. Len(keys) |-> Lowered(keys)[i]]
  BY DEF Lowered
<1>2. Len(Lowered(keys)) = Len(keys)
  BY <1>1, FunctionIsList
<1> QED BY <1>1, <1>2

LEMMA PutQueryIs ==
    ASSUME NEW selection, NEW type
    PROVE  /\ PutQuery(selection, type).keys = Lowered(selection.keys)
           /\ PutQuery(selection, type).include = IF type = "queue" THEN "" ELSE type
           /\ << "type", type >> \in PutQuery(selection, type).exclusive
BY DEF PutQuery, UpdateQuery, QueryOf, Lowered

(* The rows that a PUT shows: the one of its key, and the subscriptions that *)
(* name it, when it is for a subscription.                                   *)
LEMMA PutShows ==
    ASSUME RowsInv(rows), NEW selection \in Selections, NEW type \in Types,
           Len(selection.keys) = 1, IsReadable(PutQuery(selection, type)),
           ~ MissesKey(PutQuery(selection, type)),
           NEW row, IsShown(row, PutQuery(selection, type))
    PROVE  \/ Key(row) = Lower(selection.keys[1])
           \/ /\ type = "subscription"
              /\ \E name \in Range(Values(row, "queues")) : Lower(name) = Lower(selection.keys[1])
<1> DEFINE r == PutQuery(selection, type)
           key == Lower(selection.keys[1])
<1>1. rows \in Seq(Range(rows))
  BY DEF RowsInv
<1>2. /\ Len(selection.keys) \in Nat /\ DOMAIN selection.keys = 1 .. Len(selection.keys)
      /\ 1 \in 1 .. Len(selection.keys)
  BY SelectionIs
<1>3. /\ Len(r.keys) = 1 /\ DOMAIN r.keys = 1 .. 1 /\ r.keys[1] = key
  <2>1. r.keys = Lowered(selection.keys)
    BY PutQueryIs
  <2> HIDE DEF r
  <2> QED BY <1>2, <2>1, LoweredIs
<1>4. Lower(key) = key
  BY <1>2, LowerAssumption
<1>5. r.include = IF type = "queue" THEN "" ELSE type
  BY PutQueryIs
<1>6. IsReadable(r) /\ ~ MissesKey(r) /\ IsShown(row, r)
  OBVIOUS
<1> HIDE DEF r, key
<1>7. r.keys # << >>
  BY <1>3
<1>8. Found(r) \in Seq(Range(rows)) /\ \A i \in 1 .. Len(Found(r)) : Key(Found(r)[i]) = key
  <2>1. /\ Len(Found(r)) = Len(r.keys)
        /\ \A i \in 1 .. Len(r.keys) : Key(Found(r)[i]) = Lower(r.keys[i])
        /\ Found(r) \in Seq(Range(rows))
    BY <1>1, <1>3, <1>6, <1>7, FoundIs DEF IsReadable
  <2> QED BY <1>3, <1>4, <2>1
<1>9. \A j \in 1 .. Len(Paged(r)) : Key(Paged(r)[j]) = key
  <2>1. PICK from \in [1 .. Len(Paged(r)) -> 1 .. Len(Found(r))] :
           \A i \in 1 .. Len(Paged(r)) : Paged(r)[i] = Found(r)[from[i]]
    BY <1>1, <1>6, PagedAre
  <2> QED BY <1>8, <2>1
<1>10. CASE \E j \in 1 .. Len(Found(r)) : row = Found(r)[j] /\ Passes(row, r)
  BY <1>8, <1>10 DEF key
<1>11. CASE IsRelated(row, Paged(r), r.include)
  <2>1. r.include # "" /\ NamesOneOf(row, Paged(r))
    BY <1>11 DEF IsRelated
  <2>2. type = "subscription"
    BY <1>5, <2>1 DEF Types
  <2>3. \E name \in Range(Values(row, "queues")) : Lower(name) = key
    BY <1>9, <2>1 DEF NamesOneOf
  <2> QED BY <2>2, <2>3 DEF key
<1> QED BY <1>6, <1>10, <1>11 DEF IsShown

(* The rows that a PUT is meant for. *)
IsTarget(row, type, key) ==
    \/ Key(row) = key
    \/ type = "subscription" /\ \E name \in Range(Values(row, "queues")) : Lower(name) = key

LEMMA PutIsLocal ==
    ASSUME RowsInv(rows), NEW selection \in Selections, NEW type \in Types,
           NEW changes \in Changes, Put(type, selection, changes), answer'.code # Undefined
    PROVE  /\ Len(rows') = Len(rows) /\ DOMAIN rows' = DOMAIN rows
           /\ \A i \in DOMAIN rows :
                 /\ Key(rows'[i]) = Key(rows[i])
                 /\ rows'[i] # rows[i] =>
                       \E j \in DOMAIN rows :
                          /\ Key(rows[j]) = Key(rows[i])
                          /\ IsTarget(rows[j], type, Lower(selection.keys[1]))
<1>1. CASE rows' = rows
  BY <1>1
<1>2. ASSUME NEW change, Writing(type, selection, change)
      PROVE  /\ Len(rows') = Len(rows) /\ DOMAIN rows' = DOMAIN rows
             /\ \A i \in DOMAIN rows :
                   /\ Key(rows'[i]) = Key(rows[i])
                   /\ rows'[i] # rows[i] =>
                         \E j \in DOMAIN rows :
                            /\ Key(rows[j]) = Key(rows[i])
                            /\ IsTarget(rows[j], type, Lower(selection.keys[1]))
  <2> DEFINE typed == Typed(change, type)
             q == UpdateQuery(selection, type)
             r == PutQuery(selection, type)
             list == Update(typed, q).list
             read == Unfielded(q).resultset
             key == Lower(selection.keys[1])
  <2>1. IsChange(change) /\ IsPut(q, r) /\ rows' = list
    BY <1>2 DEF Writing
  <2>2. /\ DOMAIN list = 1 .. Len(rows)
        /\ list = [i \in 1 .. Len(rows) |-> list[i]]
        /\ \A i \in 1 .. Len(rows) :
              \/ list[i] = rows[i]
              \/ \E m : IsMeant(q, r, m, rows[i]) /\ list[i] = Changed(read[m], typed)
    BY <2>1, UpdateWrites
  <2> HIDE DEF list, key, typed
  <2>3. Len(rows) \in Nat /\ DOMAIN rows = 1 .. Len(rows)
    BY SeqDomain DEF RowsInv
  <2>4. Len(list) = Len(rows)
    BY <2>2, <2>3, FunctionIsList
  <2>5. Len(selection.keys) = 1 /\ IsReadable(r) /\ ~ MissesKey(r)
    BY <2>1, PutIs DEF IsPut
  <2>6. ASSUME NEW i \in 1 .. Len(rows), NEW m, IsMeant(q, r, m, rows[i]),
               list[i] = Changed(read[m], typed)
        PROVE  /\ Key(list[i]) = Key(rows[i])
               /\ \E j \in 1 .. Len(rows) :
                     Key(rows[j]) = Key(rows[i]) /\ IsTarget(rows[j], type, key)
    <3>1. read[m] \in Range(rows) /\ IsShown(read[m], r) /\ Key(read[m]) = Key(rows[i])
      BY <2>6 DEF IsMeant
    <3> HIDE DEF read, r
    <3>2. IsRow(read[m])
      BY <3>1, RowHas
    <3>3. Changed(read[m], typed)["key"] = read[m]["key"]
      BY <2>1, <3>2, ChangedIs DEF typed, IsChange
    <3>4. IsTarget(read[m], type, key)
      BY <2>5, <3>1, PutShows DEF IsTarget, key, r
    <3>5. PICK j \in 1 .. Len(rows) : read[m] = rows[j]
      BY <3>1, RangeFrom DEF RowsInv
    <3> QED BY <2>6, <3>1, <3>3, <3>4, <3>5 DEF Key
  <2>7. \A i \in 1 .. Len(rows) :
           /\ Key(list[i]) = Key(rows[i])
           /\ list[i] # rows[i] => \E j \in 1 .. Len(rows) :
                                     Key(rows[j]) = Key(rows[i]) /\ IsTarget(rows[j], type, key)
    <3> HIDE DEF read, q, r
    <3> QED BY <2>2, <2>6
  <2> QED BY <2>1, <2>2, <2>3, <2>4, <2>7 DEF key
<1> QED BY <1>1, <1>2, PutIs

(* The requests, each with the invariant. *)
LEMMA RequestIs ==
    ASSUME Request
    PROVE  \E selection \in Selections :
              \/ \E type \in Types : Get(type, selection)
              \/ \E type \in Types : \E body \in Bodies : Post(type, selection, body.values)
              \/ \E type \in Types : \E changes \in Changes : Put(type, selection, changes)
              \/ \E type \in Types : Delete(type, selection)
              \/ Publish(selection)
BY DEF Request

LEMMA OtherMethods ==
    ASSUME NEW selection, NEW type, NEW values
    PROVE  /\ Get(type, selection) => answer'.method = "GET" /\ rows' = rows
           /\ Post(type, selection, values) => answer'.method = "POST"
           /\ Delete(type, selection) => answer'.method = "DELETE"
           /\ Publish(selection) => answer'.method = "PUBLISH"
<1>1. Get(type, selection) => answer'.method = "GET" /\ rows' = rows
  BY DEF Get, Reply
<1>2. Post(type, selection, values) => answer'.method = "POST"
  BY DEF Post, Reply
<1>3. Delete(type, selection) => answer'.method = "DELETE"
  BY DEF Delete, Reply, Lost
<1>4. Publish(selection) => answer'.method = "PUBLISH"
  BY PublishIs
<1> QED BY <1>1, <1>2, <1>3, <1>4

LEMMA AnsweredIs == Answered => answer'.method = "" /\ rows' = rows
<1>1. NoAnswer.method = ""
  BY DEF NoAnswer
<1> QED BY <1>1 DEF Answered

(* A PUT changes the resource of its URI and no other, but for subscriptions *)
(* that name this one as a queue (exchange_impl.cpp:571, 642), and for rows  *)
(* that share their key with one that is meant.                              *)
THEOREM UpdatesAreLocal == Spec => UpdateIsLocal
<1> DEFINE Local == answer'.method = "PUT" /\ answer'.code # Undefined =>
              LET key == Lower(answer'.selection.keys[1])
                  Meant(row) ==
                     \/ Key(row) = key
                     \/ /\ answer'.type = "subscription"
                        /\ \E name \in Range(Values(row, "queues")) : Lower(name) = key
              IN  /\ Len(rows') = Len(rows)
                  /\ \A i \in DOMAIN rows :
                        rows'[i] # rows[i] =>
                            \E j \in DOMAIN rows : Key(rows[j]) = Key(rows[i]) /\ Meant(rows[j])
<1>1. ASSUME Inv, [Next]_vars
      PROVE  [Local]_vars
  <2>1. CASE UNCHANGED vars
    BY <2>1
  <2>2. CASE Answered
    BY <2>2, AnsweredIs
  <2>3. CASE Request
    <3>0. RowsInv(rows)
      BY <1>1 DEF Inv
    <3>1. PICK selection \in Selections :
              \/ \E type \in Types : Get(type, selection)
              \/ \E type \in Types : \E body \in Bodies : Post(type, selection, body.values)
              \/ \E type \in Types : \E changes \in Changes : Put(type, selection, changes)
              \/ \E type \in Types : Delete(type, selection)
              \/ Publish(selection)
      BY <2>3, RequestIs
    <3>2. ASSUME NEW type \in Types, NEW changes \in Changes, Put(type, selection, changes),
                 answer'.code # Undefined
          PROVE  Local
      <4>1. answer'.selection = selection /\ answer'.type = type
        BY <3>2, PutIs
      <4>2. /\ Len(rows') = Len(rows)
            /\ \A i \in DOMAIN rows :
                  rows'[i] # rows[i] =>
                     \E j \in DOMAIN rows :
                        /\ Key(rows[j]) = Key(rows[i])
                        /\ IsTarget(rows[j], type, Lower(selection.keys[1]))
        BY <3>0, <3>2, PutIsLocal
      <4> QED BY <4>1, <4>2 DEF IsTarget
    <3>3. CASE ~ \E type \in Types : \E changes \in Changes : Put(type, selection, changes)
      <4>1. answer'.method # "PUT"
        BY <3>1, <3>3, OtherMethods
      <4> QED BY <4>1
    <3>4. CASE answer'.code = Undefined
      BY <3>4
    <3> QED BY <3>2, <3>3, <3>4
  <2> QED BY <1>1, <2>1, <2>2, <2>3 DEF Next
<1> QED BY <1>1, InvariantHolds, PTL DEF Spec, UpdateIsLocal

-----------------------------------------------------------------------------
(* A PUT that answers 204 without fields has changed nothing.                *)

(* A list whose neighbours are equal ends as it begins. *)
LEMMA LastIsFirst ==
    ASSUME NEW list, IsValues(list), \A i \in 2 .. Len(list) : list[i] = list[i - 1]
    PROVE  Last(list) = list[1]
<1>1. Len(list) \in Nat /\ Len(list) >= 1
  BY DEF IsValues
<1> DEFINE S == {n \in Nat : n + 1 <= Len(list) => list[n + 1] = list[1]}
<1>2. 0 \in S
  OBVIOUS
<1>3. ASSUME NEW n \in Nat, n \in S PROVE n + 1 \in S
  <2> DEFINE p == n + 2
  <2>1. p \in Nat /\ p - 1 = n + 1 /\ p = (n + 1) + 1 /\ p >= 2
    OBVIOUS
  <2>2. ASSUME p <= Len(list) PROVE list[p] = list[1]
    <3>1. list[p] = list[p - 1]
      BY <1>1, <2>1, <2>2
    <3>2. n + 1 <= Len(list)
      BY <1>1, <2>1, <2>2
    <3> QED BY <1>3, <2>1, <3>1, <3>2
  <2> HIDE DEF p
  <2> QED BY <2>1, <2>2
<1> HIDE DEF S
<1>4. Nat \subseteq S
  BY <1>2, <1>3, Induction
<1>5. Len(list) - 1 \in S
  BY <1>1, <1>4
<1>6. (Len(list) - 1) + 1 = Len(list)
  BY <1>1
<1> QED BY <1>1, <1>5, <1>6 DEF Last, S

LEMMA SameFirst ==
    ASSUME NEW list, IsValues(list)
    PROVE  [list EXCEPT ![1] = list[1]] = list
<1>1. list \in [1 .. Len(list) -> Range(list)]
  BY DEF IsValues
<1> QED BY <1>1

LEMMA UnappliedIs ==
    ASSUME NEW row, IsMultimap(row), NEW change, IsMultimap(change), ~ Applied(row, change)
    PROVE  Changed(row, change) = row
<1>1. ASSUME NEW p \in DOMAIN change
      PROVE  /\ p \in DOMAIN row
             /\ [row[p] EXCEPT ![1] = Last(change[p])] = row[p]
  <2>1. /\ p \in DOMAIN row /\ row[p][1] = change[p][1]
        /\ \A i \in 2 .. Len(change[p]) : change[p][i] = change[p][i - 1]
    BY DEF Applied
  <2>2. IsValues(change[p]) /\ IsValues(row[p])
    BY <2>1, MultimapHas DEF IsValues
  <2>3. Last(change[p]) = row[p][1]
    BY <2>1, <2>2, LastIsFirst
  <2> QED BY <2>1, <2>2, <2>3, SameFirst
<1>2. DOMAIN row \cup DOMAIN change = DOMAIN row
  BY <1>1
<1> DEFINE next == Changed(row, change)
<1>3. next = [p \in DOMAIN row |-> IF p \notin DOMAIN change THEN row[p]
                                   ELSE [row[p] EXCEPT ![1] = Last(change[p])]]
  BY <1>2 DEF Changed
<1> HIDE DEF next
<1>4. \A p \in DOMAIN row : next[p] = row[p]
  <2> TAKE p \in DOMAIN row
  <2>1. CASE p \notin DOMAIN change
    BY <1>3, <2>1
  <2>2. CASE p \in DOMAIN change
    <3>1. [row[p] EXCEPT ![1] = Last(change[p])] = row[p]
      BY <1>1, <2>2
    <3>2. next[p] = [row[p] EXCEPT ![1] = Last(change[p])]
      BY <1>3, <2>2
    <3> QED BY <3>1, <3>2
  <2> QED BY <2>1, <2>2
<1>5. DOMAIN next = DOMAIN row /\ next = [p \in DOMAIN row |-> next[p]]
  BY <1>3
<1>6. row = [p \in DOMAIN row |-> row[p]]
  BY DEF IsMultimap
<1>7. next = row
  BY <1>4, <1>5, <1>6
<1> QED BY <1>7 DEF next

LEMMA NoContent ==
    ASSUME RowsInv(rows), KeysDiffer(rows), NEW selection \in Selections, NEW type \in Types,
           NEW changes \in Changes, Put(type, selection, changes),
           answer'.code = 204, selection.fields = {}
    PROVE  rows' = rows
<1>0. answer'.code # Undefined
  BY DEF Undefined
<1>1. CASE rows' = rows
  BY <1>1
<1>2. ASSUME NEW change, Writing(type, selection, change)
      PROVE  rows' = rows
  <2> DEFINE typed == Typed(change, type)
             q == UpdateQuery(selection, type)
             r == PutQuery(selection, type)
             results == ChangedResults(typed, q)
             list == Update(typed, q).list
             found == Unfielded(q).resultset
  <2>1. IsChange(change) /\ IsPut(q, r) /\ rows' = list
    BY <1>2 DEF Writing
  <2>2. answer'.body = << >>
    BY <1>2 DEF Writing
  <2>3. answer'.body = IF SomeApplied(typed, q) THEN Fields(results, selection.fields) ELSE << >>
    BY <1>2 DEF Writing
  <2>4. IsMultimap(typed)
    BY <2>1, TypedIs DEF IsChange
  <2> HIDE DEF q, r
  <2>5. /\ results \in Seq(Range(results)) /\ Len(results) = Len(Shown(r))
        /\ found = Shown(r) /\ Shown(r) \in Seq(Range(rows))
    BY <2>1, ChangedResultsAre
  <2>6. /\ DOMAIN list = 1 .. Len(rows)
        /\ list = [i \in 1 .. Len(rows) |-> list[i]]
        /\ \A i \in 1 .. Len(rows) :
              \/ list[i] = rows[i]
              \/ /\ list[i] = Changed(rows[i], typed)
                 /\ \E m \in DOMAIN found : found[m] = rows[i]
    BY <2>1, UpdateChanges
  <2> HIDE DEF list, typed
  <2>7. ~ SomeApplied(typed, q)
    <3> SUFFICES ASSUME SomeApplied(typed, q) PROVE FALSE
      OBVIOUS
    <3>1. PICK i \in DOMAIN results : TRUE
      BY DEF SomeApplied
    <3>2. results = << >>
      BY <2>2, <2>3 DEF Fields
    <3> HIDE DEF results
    <3>3. DOMAIN << >> = {}
      OBVIOUS
    <3> QED BY <3>1, <3>2, <3>3
  <2>8. DOMAIN results = DOMAIN found
    BY DEF ChangedResults
  <2>9. \A m \in DOMAIN found : ~ Applied(found[m], typed)
    BY <2>7, <2>8 DEF SomeApplied
  <2> HIDE DEF found, results
  <2>10. ASSUME NEW i \in 1 .. Len(rows) PROVE list[i] = rows[i]
    <3>1. CASE list[i] = rows[i]
      BY <3>1
    <3>2. CASE /\ list[i] = Changed(rows[i], typed)
               /\ \E m \in DOMAIN found : found[m] = rows[i]
      <4>1. ~ Applied(rows[i], typed)
        BY <2>9, <3>2
      <4>2. IsMultimap(rows[i])
        BY DEF RowsInv, IsRow
      <4> QED BY <2>4, <3>2, <4>1, <4>2, UnappliedIs
    <3> QED BY <2>6, <3>1, <3>2
  <2>11. rows = [i \in 1 .. Len(rows) |-> rows[i]]
    BY DEF RowsInv
  <2>12. list = rows
    BY <2>6, <2>10, <2>11
  <2> QED BY <2>1, <2>12
<1> QED BY <1>0, <1>1, <1>2, PutIs

(* A PUT without fields that answers 204 has changed nothing, of rows with   *)
(* different keys: the client is told of every change with 200               *)
(* (exchange_impl.cpp:817).                                                  *)
THEOREM NoContentMeansNoChange == Spec => NoContentChangesNothing
<1> DEFINE Kind == /\ KeysDiffer(rows)
                   /\ answer'.method = "PUT" /\ answer'.code = 204
                   /\ answer'.selection.fields = {}
                   => rows' = rows
<1>1. ASSUME Inv, [Next]_vars
      PROVE  [Kind]_vars
  <2>1. CASE UNCHANGED vars
    BY <2>1
  <2>2. CASE Answered
    BY <2>2, AnsweredIs
  <2>3. CASE Request
    <3>0. RowsInv(rows)
      BY <1>1 DEF Inv
    <3>1. PICK selection \in Selections :
              \/ \E type \in Types : Get(type, selection)
              \/ \E type \in Types : \E body \in Bodies : Post(type, selection, body.values)
              \/ \E type \in Types : \E changes \in Changes : Put(type, selection, changes)
              \/ \E type \in Types : Delete(type, selection)
              \/ Publish(selection)
      BY <2>3, RequestIs
    <3>2. ASSUME NEW type \in Types, NEW changes \in Changes, Put(type, selection, changes)
          PROVE  Kind
      <4>1. answer'.selection = selection
        BY <3>2, PutIs
      <4> QED BY <3>0, <3>2, <4>1, NoContent
    <3>3. CASE ~ \E type \in Types : \E changes \in Changes : Put(type, selection, changes)
      <4>1. answer'.method # "PUT"
        BY <3>1, <3>3, OtherMethods
      <4> QED BY <4>1
    <3> QED BY <3>2, <3>3
  <2> QED BY <1>1, <2>1, <2>2, <2>3 DEF Next
<1> QED BY <1>1, InvariantHolds, PTL DEF Spec, NoContentChangesNothing

-----------------------------------------------------------------------------
(* What is stored stays usable.                                              *)

LEMMA CreatedUsable ==
    ASSUME NEW value, IsMultimap(value), "key" \in DOMAIN value,
           NEW type \in Types, ~ Refused(value, type)
    PROVE  Usable(Initialised(value, type))
<1> DEFINE next == Initialised(value, type)
<1>1. /\ next["type"] = << type >>
      /\ \A p \in DOMAIN value : next[p] = value[p]
      /\ type = "queue" => \A p \in Limits \ DOMAIN value : next[p] = << Default >>
  BY InitialisedIs
<1> HIDE DEF next
<1>2. Type(next) = type
  BY <1>1 DEF Type
<1>3. ASSUME type = "queue" PROVE Usable(next)
  <2>1. \A p \in Limits \cap DOMAIN value : value[p][1] \in Numbers
    BY <1>3 DEF Refused, has_invalid_create_fields
  <2>2. ASSUME NEW p \in Limits PROVE next[p][1] \in Numbers
    <3>1. CASE p \in DOMAIN value
      BY <1>1, <2>1, <3>1
    <3>2. CASE p \notin DOMAIN value
      <4>1. next[p] = << Default >>
        BY <1>1, <1>3, <3>2
      <4> QED BY <4>1, DefaultsAssumption
    <3> QED BY <3>1, <3>2
  <2> QED BY <1>2, <1>3, <2>2 DEF Usable
<1>4. ASSUME type = "subscription" PROVE Usable(next)
  <2>1. "endpoint" \in DOMAIN value /\ value["endpoint"][1] \in Endpoints
    BY <1>4 DEF Refused, has_invalid_create_fields, invalid_endpoint
  <2>2. next["endpoint"][1] \in Endpoints
    BY <1>1, <2>1
  <2> QED BY <1>2, <1>4, <2>2 DEF Usable
<1> QED BY <1>3, <1>4 DEF Types, next

LEMMA ChangedUsable ==
    ASSUME NEW row, IsRow(row), Complete(row), Usable(row), NEW change, IsChange(change),
           NEW type \in Types, row["type"] = << type >>,
           ~ has_invalid_update_fields(change, type),
           \A p \in DOMAIN change : Len(change[p]) = 1
    PROVE  Usable(Changed(row, Typed(change, type)))
<1> DEFINE typed == Typed(change, type)
           next == Changed(row, typed)
<1>1. /\ Type(next) = type
      /\ \A p \in DOMAIN row : p \notin DOMAIN typed => next[p] = row[p]
      /\ \A p \in DOMAIN row : p \in DOMAIN typed => next[p][1] = Last(typed[p])
  BY ChangedIs, ChangedStays DEF IsChange
<1>2. /\ DOMAIN typed = DOMAIN change \cup {"type"}
      /\ \A p \in DOMAIN change : p # "type" => typed[p] = change[p]
  BY TypedIs DEF IsChange
<1>3. Type(row) = type
  BY DEF Type
<1> HIDE DEF typed, next
<1>4. ASSUME NEW p \in DOMAIN row, p # "type"
      PROVE  \/ next[p] = row[p]
             \/ p \in DOMAIN change /\ next[p][1] = change[p][1]
  <2>1. CASE p \notin DOMAIN typed
    BY <1>1, <2>1
  <2>2. CASE p \in DOMAIN typed
    <3>1. p \in DOMAIN change /\ typed[p] = change[p]
      BY <1>2, <1>4, <2>2
    <3>2. Last(change[p]) = change[p][1]
      BY <3>1 DEF Last
    <3> QED BY <1>1, <2>2, <3>1, <3>2
  <2> QED BY <2>1, <2>2
<1>5. ASSUME type = "queue" PROVE Usable(next)
  <2>1. \A p \in Limits \cap DOMAIN change : change[p][1] \in Numbers
    BY <1>5 DEF has_invalid_update_fields, has_invalid_create_fields
  <2>2. Limits \subseteq DOMAIN row /\ \A p \in Limits : p # "type" /\ row[p][1] \in Numbers
    BY <1>3, <1>5 DEF Complete, Usable, Limits
  <2>3. \A p \in Limits : next[p][1] \in Numbers
    BY <1>4, <2>1, <2>2
  <2> QED BY <1>1, <1>5, <2>3 DEF Usable
<1>6. ASSUME type # "queue" PROVE Usable(next)
  <2>1. "endpoint" \in DOMAIN change => change["endpoint"][1] \in Endpoints
    BY <1>6 DEF has_invalid_update_fields, invalid_endpoint
  <2>2. "endpoint" \in DOMAIN row /\ row["endpoint"][1] \in Endpoints
    BY <1>3, <1>6 DEF Complete, Usable
  <2>3. next["endpoint"][1] \in Endpoints
    BY <1>4, <2>1, <2>2
  <2> QED BY <1>1, <1>6, <2>3 DEF Usable
<1> QED BY <1>5, <1>6 DEF next, typed

AllUsable(list) == \A row \in Range(list) : Usable(row)

LEMMA PutUsable ==
    ASSUME RowsInv(rows), AllUsable(rows), NEW selection \in Selections, NEW type \in Types,
           NEW changes \in Changes, Put(type, selection, changes),
           \A change \in Range(changes) : \A p \in DOMAIN change : Len(change[p]) = 1
    PROVE  AllUsable(rows')
<1>0. CASE rows' = << >>
  BY <1>0 DEF AllUsable, Range
<1>1. CASE rows' = rows
  BY <1>1
<1>2. ASSUME NEW change \in Range(changes), Writing(type, selection, change)
      PROVE  AllUsable(rows')
  <2> DEFINE q == UpdateQuery(selection, type)
             r == PutQuery(selection, type)
             typed == Typed(change, type)
             list == Update(typed, q).list
             read == Unfielded(q).resultset
  <2>1. /\ IsChange(change) /\ IsPut(q, r) /\ rows' = list
        /\ ~ has_invalid_update_fields(change, type)
    BY <1>2 DEF Writing
  <2>0. \A p \in DOMAIN change : Len(change[p]) = 1
    OBVIOUS
  <2> HIDE DEF q, r
  <2>2. /\ DOMAIN list = 1 .. Len(rows)
        /\ list = [i \in 1 .. Len(rows) |-> list[i]]
        /\ \A i \in 1 .. Len(rows) :
              \/ list[i] = rows[i]
              \/ \E m : IsMeant(q, r, m, rows[i]) /\ list[i] = Changed(read[m], typed)
    BY <2>1, UpdateWrites
  <2> HIDE DEF list
  <2>3. ASSUME NEW i \in 1 .. Len(rows) PROVE Usable(list[i])
    <3>1. CASE list[i] = rows[i]
      BY <3>1, RangeHas DEF RowsInv, AllUsable
    <3>2. ASSUME NEW m, IsMeant(q, r, m, rows[i]), list[i] = Changed(read[m], typed)
          PROVE  Usable(list[i])
      <4>1. read[m] \in Range(rows) /\ IsShown(read[m], r)
        BY <3>2 DEF IsMeant
      <4> HIDE DEF read
      <4>2. IsRow(read[m]) /\ Complete(read[m]) /\ Usable(read[m])
        BY <4>1, RowHas DEF AllUsable
      <4>3. read[m]["type"] = << type >>
        BY <4>1, <4>2, ShownType DEF r
      <4> QED BY <2>0, <2>1, <3>2, <4>2, <4>3, ChangedUsable
    <3> QED BY <2>2, <3>1, <3>2
  <2> QED BY <2>1, <2>2, <2>3 DEF AllUsable, Range
<1> QED BY <1>0, <1>1, <1>2, PutIs

(* What a POST stores. *)
Stored(values, type) == [i \in DOMAIN values |-> Initialised(values[i], type)]

Creating(values, type) ==
    /\ \A i \in DOMAIN values : ~ Refused(values[i], type)
    /\ \A i \in DOMAIN Stored(values, type) :
          Position(rows, Stored(values, type)[i]["key"][1]) = 0
    /\ rows' = rows \o Stored(values, type)

LEMMA PostIs ==
    ASSUME NEW selection, NEW type \in Types, NEW body \in Bodies,
           Post(type, selection, body.values)
    PROVE  /\ answer'.method = "POST" /\ answer'.change = body.values
           /\ rows' = rows \/ Creating(body.values, type)
<1> DEFINE list == Stored(body.values, type)
           q == QueryOf(selection, type)
           created == Create(list, q)
<1>1. /\ answer'.method = "POST" /\ answer'.change = body.values
      /\ \/ rows' = rows
         \/ /\ \A i \in DOMAIN body.values : ~ Refused(body.values[i], type)
            /\ rows' = created.list
  BY DEF Post, Reply, Stored
<1>2. \/ created.list = rows
      \/ /\ created.list = rows \o list
         /\ \A i \in DOMAIN list : Position(rows, list[i]["key"][1]) = 0
  <2> HIDE DEF list
  <2> QED BY DEF Create
<1> HIDE DEF created
<1>3. \/ created.list = rows
      \/ /\ created.list = rows \o Stored(body.values, type)
         /\ \A i \in DOMAIN Stored(body.values, type) :
               Position(rows, Stored(body.values, type)[i]["key"][1]) = 0
  BY <1>2
<1> QED BY <1>1, <1>3 DEF Creating

LEMMA PostUsable ==
    ASSUME RowsInv(rows), AllUsable(rows), NEW selection, NEW type \in Types,
           NEW body \in Bodies, Post(type, selection, body.values)
    PROVE  AllUsable(rows')
<1> DEFINE list == Stored(body.values, type)
<1>1. CASE rows' = rows
  BY <1>1
<1>2. CASE /\ \A i \in DOMAIN body.values : ~ Refused(body.values[i], type)
           /\ rows' = rows \o list
  <2>1. /\ list \in Seq(Range(list)) /\ DOMAIN body.values = 1 .. Len(list)
        /\ \A i \in 1 .. Len(list) : list[i] = Initialised(body.values[i], type)
    BY <1>2, CreatedAre DEF Stored
  <2>2. ASSUME NEW i \in 1 .. Len(list) PROVE Usable(list[i])
    <3>1. IsMultimap(body.values[i]) /\ "key" \in DOMAIN body.values[i]
      <4>1. body.values[i] \in Range(body.values)
        BY <2>1, BodiesAssumption, RangeHas
      <4> QED BY <4>1, BodiesAssumption
    <3> HIDE DEF list
    <3> QED BY <1>2, <2>1, <3>1, CreatedUsable
  <2> HIDE DEF list
  <2>3. rows \in Seq(Range(rows)) /\ \A i \in 1 .. Len(rows) : Usable(rows[i])
    BY RangeHas DEF RowsInv, AllUsable
  <2> DEFINE S == Range(rows) \cup Range(list)
             all == rows \o list
  <2>4. rows \in Seq(S) /\ list \in Seq(S)
    <3>1. Range(rows) \subseteq S /\ Range(list) \subseteq S
      OBVIOUS
    <3> HIDE DEF S
    <3> QED BY <2>1, <2>3, <3>1, SeqWider
  <2> HIDE DEF S
  <2>5. all \in Seq(S) /\ Len(all) = Len(rows) + Len(list)
    BY <2>4, Joined
  <2>6. ASSUME NEW i \in 1 .. Len(rows) + Len(list) PROVE Usable(all[i])
    <3>1. \/ i \in 1 .. Len(rows) /\ all[i] = rows[i]
          \/ i - Len(rows) \in 1 .. Len(list) /\ all[i] = list[i - Len(rows)]
      BY <2>4, Joined
    <3> QED BY <2>2, <2>3, <3>1
  <2> HIDE DEF all
  <2>7. \A row \in Range(all) : Usable(row)
    BY <2>5, <2>6, RangeFrom
  <2> QED BY <1>2, <2>7 DEF AllUsable, all
<1>3. rows' = rows \/ Creating(body.values, type)
  BY PostIs
<1>4. Creating(body.values, type) =>
         /\ \A i \in DOMAIN body.values : ~ Refused(body.values[i], type)
         /\ rows' = rows \o list
  BY DEF Creating
<1> HIDE DEF list
<1> QED BY <1>1, <1>2, <1>3, <1>4

LEMMA DeleteUsable ==
    ASSUME RowsInv(rows), AllUsable(rows), NEW selection \in Selections, NEW type \in Types,
           Delete(type, selection)
    PROVE  AllUsable(rows')
<1>1. rows' \in Seq(Range(rows))
  BY DeleteLeaves DEF SomeRows
<1>2. Range(rows') \subseteq Range(rows)
  BY <1>1, RangeWithin
<1> QED BY <1>2 DEF AllUsable

(* What is stored stays usable, as long as nobody PUTs several values for a  *)
(* property (validator_impl.cpp:116-136, stl_repository.cpp:181-200).        *)
THEOREM WhatIsStoredStaysUsable == Spec => StoredStaysUsable
<1> DEFINE Single1 == answer'.method = "PUT" =>
                         \A change \in Range(answer'.change) :
                            \A p \in DOMAIN change : Len(change[p]) = 1
           Kind == (\A row \in Range(rows) : Usable(row)) /\ Single1
                      => \A row \in Range(rows') : Usable(row)
<1>1. ASSUME Inv, [Next]_vars
      PROVE  [Kind]_vars
  <2> SUFFICES ASSUME AllUsable(rows), Single1 PROVE AllUsable(rows') \/ UNCHANGED vars
    BY DEF AllUsable
  <2>1. CASE UNCHANGED vars
    BY <2>1
  <2>2. CASE Answered
    BY <2>2, AnsweredIs
  <2>3. CASE Request
    <3>0. RowsInv(rows)
      BY <1>1 DEF Inv
    <3>1. PICK selection \in Selections :
              \/ \E type \in Types : Get(type, selection)
              \/ \E type \in Types : \E body \in Bodies : Post(type, selection, body.values)
              \/ \E type \in Types : \E changes \in Changes : Put(type, selection, changes)
              \/ \E type \in Types : Delete(type, selection)
              \/ Publish(selection)
      BY <2>3, RequestIs
    <3>2. CASE \E type \in Types : Get(type, selection)
      BY <3>2, OtherMethods
    <3>3. CASE Publish(selection)
      <4>1. rows' = << >> \/ rows' = rows
        BY <3>3, PublishIs
      <4> QED BY <4>1 DEF AllUsable, Range
    <3>4. CASE \E type \in Types : \E body \in Bodies : Post(type, selection, body.values)
      BY <3>0, <3>4, PostUsable
    <3>5. ASSUME NEW type \in Types, NEW changes \in Changes, Put(type, selection, changes)
          PROVE  AllUsable(rows')
      <4>1. answer'.method = "PUT" /\ answer'.change = changes
        BY <3>5, PutIs
      <4>2. \A change \in Range(changes) : \A p \in DOMAIN change : Len(change[p]) = 1
        BY <4>1
      <4> QED BY <3>0, <3>5, <4>2, PutUsable
    <3>6. CASE \E type \in Types : Delete(type, selection)
      BY <3>0, <3>6, DeleteUsable
    <3> QED BY <3>1, <3>2, <3>3, <3>4, <3>5, <3>6
  <2> QED BY <1>1, <2>1, <2>2, <2>3 DEF Next
<1> QED BY <1>1, InvariantHolds, PTL DEF Spec, StoredStaysUsable

-----------------------------------------------------------------------------
(* A key is taken once.                                                      *)

(* A list whose keys are those of different rows. *)
LEMMA SharedBefore ==
    ASSUME NEW list, NEW from \in [DOMAIN list -> DOMAIN rows],
           \A i, j \in DOMAIN list : from[i] = from[j] => i = j,
           \A i \in DOMAIN list : Key(list[i]) = Key(rows[from[i]])
    PROVE  \A i, j \in DOMAIN list :
              i # j /\ Key(list[i]) = Key(list[j]) => SharedIn(Key(list[i]), rows)
BY DEF SharedIn

SharedAreOld ==
    \A i, j \in DOMAIN rows' :
        i # j /\ Key(rows'[i]) = Key(rows'[j]) => SharedIn(Key(rows'[i]), rows)

LEMMA SameShared ==
    ASSUME rows' = rows \/ rows' = << >>
    PROVE  SharedAreOld
<1>1. CASE rows' = rows
  BY <1>1 DEF SharedAreOld, SharedIn
<1>2. CASE rows' = << >>
  BY <1>2 DEF SharedAreOld
<1> QED BY <1>1, <1>2

LEMMA DeleteShared ==
    ASSUME RowsInv(rows), NEW selection \in Selections, NEW type \in Types,
           Delete(type, selection)
    PROVE  SharedAreOld
<1> DEFINE list == rows'
           n == Len(list)
<1>1. list \in Seq(Range(rows)) /\ \E from : IsPart(rows, list, from)
  BY DeleteLeaves DEF SomeRows
<1>2. PICK from : IsPart(rows, list, from)
  BY <1>1
<1>3. n \in Nat /\ DOMAIN list = 1 .. n /\ DOMAIN rows = 1 .. Len(rows) /\ Len(rows) \in Nat
  BY <1>1, SeqDomain DEF RowsInv
<1> HIDE DEF list
<1>4. /\ from \in [1 .. n -> 1 .. Len(rows)]
      /\ \A i, j \in 1 .. n : i < j => from[i] < from[j]
      /\ \A i \in 1 .. n : list[i] = rows[from[i]]
  BY <1>2 DEF IsPart
<1>5. ASSUME NEW i \in 1 .. n, NEW j \in 1 .. n, from[i] = from[j] PROVE i = j
  <2>1. from[i] \in Nat /\ ~ (i < j) /\ ~ (j < i)
    BY <1>4, <1>5
  <2> QED BY <1>3, <2>1
<1>6. \A i, j \in DOMAIN list :
         i # j /\ Key(list[i]) = Key(list[j]) => SharedIn(Key(list[i]), rows)
  BY <1>3, <1>4, <1>5, SharedBefore
<1> QED BY <1>6 DEF SharedAreOld, list

LEMMA PutShared ==
    ASSUME RowsInv(rows), NEW selection \in Selections, NEW type \in Types,
           NEW changes \in Changes, Put(type, selection, changes)
    PROVE  SharedAreOld
<1>1. CASE answer'.code = Undefined
  <2>1. Undefined \notin {200, 204, 400, 404, 409, 500}
    BY DEF Undefined
  <2>2. rows' = << >>
    BY <1>1, <2>1, PutIs DEF Writing
  <2> QED BY <2>2, SameShared
<1>2. CASE answer'.code # Undefined
  <2>1. DOMAIN rows' = DOMAIN rows /\ \A i \in DOMAIN rows : Key(rows'[i]) = Key(rows[i])
    BY <1>2, PutIsLocal
  <2> QED BY <2>1 DEF SharedAreOld, SharedIn
<1> QED BY <1>1, <1>2

(* Of the rows after a POST, two share a key because they did before, or     *)
(* because the resources that it gives do.                                   *)
LEMMA PostShared ==
    ASSUME RowsInv(rows), NEW selection, NEW type \in Types,
           NEW body \in Bodies, Post(type, selection, body.values)
    PROVE  /\ answer'.method = "POST"
           /\ \A i, j \in DOMAIN rows' :
                 i # j /\ Key(rows'[i]) = Key(rows'[j]) =>
                    \/ SharedIn(Key(rows'[i]), rows)
                    \/ SharedIn(Key(rows'[i]), answer'.change)
<1> DEFINE values == body.values
           list == Stored(values, type)
           n == Len(list)
           L == Len(rows)
           all == rows'
<1>0. answer'.method = "POST" /\ answer'.change = values
  BY PostIs
<1>1. CASE rows' = rows
  <2>1. SharedAreOld
    BY <1>1, SameShared
  <2> QED BY <1>0, <2>1 DEF SharedAreOld
<1>2. CASE Creating(values, type)
  <2>1. /\ \A i \in DOMAIN values : ~ Refused(values[i], type)
        /\ \A i \in DOMAIN list : Position(rows, list[i]["key"][1]) = 0
        /\ rows' = rows \o list
    BY <1>2 DEF Creating
  <2>2. /\ list \in Seq(Range(list)) /\ n \in Nat /\ DOMAIN values = 1 .. n
        /\ \A i \in 1 .. n : Key(list[i]) = Lower(values[i]["key"][1])
    BY <2>1, CreatedAre DEF Stored
  <2>3. rows \in Seq(Range(rows)) /\ L \in Nat /\ DOMAIN rows = 1 .. L
    BY SeqDomain DEF RowsInv
  <2>4. DOMAIN list = 1 .. n
    BY <2>2, SeqDomain
  <2> HIDE DEF list, values
  <2> DEFINE S == Range(rows) \cup Range(list)
  <2>5. rows \in Seq(S) /\ list \in Seq(S)
    <3>1. Range(rows) \subseteq S /\ Range(list) \subseteq S
      OBVIOUS
    <3> HIDE DEF S
    <3> QED BY <2>2, <2>3, <3>1, SeqWider
  <2> HIDE DEF S
  <2>6. all \in Seq(S) /\ Len(all) = L + n
    BY <2>1, <2>5, Joined
  <2>7. ASSUME NEW i \in 1 .. L + n
        PROVE  \/ i \in 1 .. L /\ all[i] = rows[i]
               \/ i - L \in 1 .. n /\ all[i] = list[i - L]
    BY <2>1, <2>5, Joined
  <2>8. DOMAIN all = 1 .. L + n
    BY <2>6, SeqDomain
  <2> HIDE DEF all, n, L
  <2>9. ASSUME NEW i \in 1 .. L, NEW k \in 1 .. n PROVE Key(rows[i]) # Key(list[k])
    <3>1. Position(rows, list[k]["key"][1]) = 0
      BY <2>1, <2>4
    <3>2. Key(rows[i]) # Lower(list[k]["key"][1])
      BY <2>3, <3>1, PositionIs DEF L
    <3> QED BY <3>2 DEF Key
  <2>10. ASSUME NEW i \in 1 .. L + n, NEW j \in 1 .. L + n, i # j, Key(all[i]) = Key(all[j])
         PROVE  SharedIn(Key(all[i]), rows) \/ SharedIn(Key(all[i]), values)
    <3>1. CASE i \in 1 .. L /\ all[i] = rows[i] /\ j \in 1 .. L /\ all[j] = rows[j]
      BY <2>3, <2>10, <3>1 DEF SharedIn
    <3>2. CASE /\ i - L \in 1 .. n /\ all[i] = list[i - L]
               /\ j - L \in 1 .. n /\ all[j] = list[j - L]
      <4>1. i - L # j - L
        BY <2>3, <2>10
      <4>2. Key(values[i - L]) = Key(all[i]) /\ Key(values[j - L]) = Key(all[i])
        BY <2>2, <2>10, <3>2 DEF Key
      <4> QED BY <2>2, <3>2, <4>1, <4>2 DEF SharedIn
    <3>3. CASE /\ i \in 1 .. L /\ all[i] = rows[i]
               /\ j - L \in 1 .. n /\ all[j] = list[j - L]
      BY <2>9, <2>10, <3>3
    <3>4. CASE /\ j \in 1 .. L /\ all[j] = rows[j]
               /\ i - L \in 1 .. n /\ all[i] = list[i - L]
      BY <2>9, <2>10, <3>4
    <3> QED BY <2>7, <3>1, <3>2, <3>3, <3>4
  <2> QED BY <1>0, <2>8, <2>10 DEF all
<1> QED BY <1>1, <1>2, PostIs

(* However a key is spelt, it is taken once: rows come to share one only by  *)
(* a POST that gives it to several of its own resources                      *)
(* (stl_repository.cpp:69-86).                                               *)
THEOREM KeysAreTakenOnce == Spec => KeysTakenOnce
<1> DEFINE Once == \A i, j \in DOMAIN rows' :
                      i # j /\ Key(rows'[i]) = Key(rows'[j]) =>
                         \/ SharedIn(Key(rows'[i]), rows)
                         \/ answer'.method = "POST" /\ SharedIn(Key(rows'[i]), answer'.change)
<1>1. ASSUME Inv, [Next]_vars
      PROVE  [Once]_vars
  <2>0. SharedAreOld => Once
    BY DEF SharedAreOld
  <2>1. CASE UNCHANGED vars
    BY <2>1
  <2>2. CASE Answered
    BY <2>0, <2>2, AnsweredIs, SameShared
  <2>3. CASE Request
    <3>0. RowsInv(rows)
      BY <1>1 DEF Inv
    <3>1. PICK selection \in Selections :
              \/ \E type \in Types : Get(type, selection)
              \/ \E type \in Types : \E body \in Bodies : Post(type, selection, body.values)
              \/ \E type \in Types : \E changes \in Changes : Put(type, selection, changes)
              \/ \E type \in Types : Delete(type, selection)
              \/ Publish(selection)
      BY <2>3, RequestIs
    <3>2. ASSUME NEW type \in Types, Get(type, selection) PROVE Once
      BY <2>0, <3>2, OtherMethods, SameShared
    <3>3. ASSUME NEW type \in Types, NEW body \in Bodies, Post(type, selection, body.values)
          PROVE  Once
      BY <3>0, <3>3, PostShared
    <3>4. ASSUME NEW type \in Types, NEW changes \in Changes, Put(type, selection, changes)
          PROVE  Once
      BY <2>0, <3>0, <3>4, PutShared
    <3>5. ASSUME NEW type \in Types, Delete(type, selection) PROVE Once
      BY <2>0, <3>0, <3>5, DeleteShared
    <3>6. CASE Publish(selection)
      <4>1. rows' = << >> \/ rows' = rows
        BY <3>6, PublishIs
      <4> QED BY <2>0, <4>1, SameShared
    <3> HIDE DEF Once
    <3> QED BY <3>1, <3>2, <3>3, <3>4, <3>5, <3>6
  <2> QED BY <1>1, <2>1, <2>2, <2>3 DEF Next
<1> QED BY <1>1, InvariantHolds, PTL DEF Spec, KeysTakenOnce

-----------------------------------------------------------------------------
(* What a DELETE erases when it looks for keys.                              *)

LEMMA BoundIs ==
    ASSUME NEW p \in {"key", "type"} \cup Limits, NEW row, p \in DOMAIN row
    PROVE  Bound(row, p) = 1 /\ LowerBound(row, p) = row[p][1]
<1> DEFINE names == From(p)
           I == {i \in 1 .. Len(names) : names[i] \in DOMAIN row}
           at == Bound(row, p)
<1>1. Len(names) \in Nat /\ Len(names) >= 1 /\ names[1] = p
  <2>1. names \in Seq(Range(names)) /\ names # << >> /\ names[1] = p
    BY DefaultsAssumption
  <2> HIDE DEF names
  <2> QED BY <2>1
<1>3. at = IF I # {} THEN Min(I) ELSE 0
  BY DEF SelectInSeq, Bound
<1>7. LowerBound(row, p) = row[names[at]][1]
  BY DEF LowerBound
<1> HIDE DEF at, names
<1>2. 1 \in I /\ I \subseteq Nat
  BY <1>1
<1>4. \A i \in I : 1 <= i
  BY <1>1
<1> HIDE DEF I
<1>5. Min(I) \in I /\ Min(I) <= 1
  BY <1>2, LeastIs
<1>6. at = 1
  <2>1. at = Min(I) /\ Min(I) \in Nat
    BY <1>2, <1>3, <1>5
  <2>2. 1 <= Min(I)
    BY <1>4, <1>5
  <2> QED BY <1>5, <2>1, <2>2
<1>8. LowerBound(row, p) = row[p][1]
  BY <1>1, <1>6, <1>7
<1>9. Bound(row, p) = 1
  BY <1>6 DEF at
<1> QED BY <1>8, <1>9

LEMMA FoundByKey ==
    ASSUME NEW list, NEW result, "key" \in DOMAIN result
    PROVE  FoundFor(list, result) = Position(list, result["key"][1])
<1>1. Bound(result, "key") = 1 /\ LowerBound(result, "key") = result["key"][1]
  BY BoundIs
<1> QED BY <1>1 DEF FoundFor

(* The rows but for those that have the key of one of the first n results. *)
Remains(list, results, n) ==
    /\ SomeRows(list)
    /\ \A row \in Range(rows) :
          row \in Range(list) <=> \A m \in 1 .. n : Key(results[m]) # Key(row)

LEMMA SomeRowsAre ==
    ASSUME RowsInv(rows), KeysDiffer(rows), NEW list, SomeRows(list)
    PROVE  /\ list \in Seq(Range(rows)) /\ Len(list) \in Nat
           /\ \A i, j \in 1 .. Len(list) : Key(list[i]) = Key(list[j]) => i = j
<1>1. list \in Seq(Range(rows)) /\ Len(list) \in Nat
  BY SeqDomain DEF SomeRows
<1>2. PICK from : IsPart(rows, list, from)
  BY DEF SomeRows
<1> DEFINE n == Len(list)
<1>3. /\ from \in [1 .. n -> 1 .. Len(rows)]
      /\ \A i, j \in 1 .. n : i < j => from[i] < from[j]
      /\ \A i \in 1 .. n : list[i] = rows[from[i]]
  BY <1>2 DEF IsPart
<1>4. DOMAIN rows = 1 .. Len(rows)
  BY SeqDomain DEF RowsInv
<1>5. ASSUME NEW i \in 1 .. n, NEW j \in 1 .. n, Key(list[i]) = Key(list[j]) PROVE i = j
  <2>1. from[i] = from[j]
    BY <1>3, <1>4, <1>5 DEF KeysDiffer
  <2>2. from[i] \in Nat /\ ~ (i < j) /\ ~ (j < i)
    BY <1>3, <2>1
  <2> QED BY <1>1, <2>2
<1> QED BY <1>1, <1>5

LEMMA EraseFinds ==
    ASSUME RowsInv(rows), KeysDiffer(rows), NEW results, NEW n \in Nat, NEW list, Remains(list, results, n),
           "key" \in DOMAIN results[n + 1], FoundFor(list, results[n + 1]) # 0
    PROVE  Remains(RemoveAt(list, FoundFor(list, results[n + 1])), results, n + 1)
<1> DEFINE p == n + 1
           at == FoundFor(list, results[p])
           next == RemoveAt(list, at)
<1>1. /\ list \in Seq(Range(rows)) /\ Len(list) \in Nat
      /\ \A i, j \in 1 .. Len(list) : Key(list[i]) = Key(list[j]) => i = j
  BY SomeRowsAre DEF Remains
<1>2. at \in 1 .. Len(list) /\ Key(list[at]) = Key(results[p])
  <2>1. at = Position(list, results[p]["key"][1])
    BY FoundByKey
  <2>2. /\ Position(list, results[p]["key"][1]) \in 0 .. Len(list)
        /\ Position(list, results[p]["key"][1]) # 0 =>
              Key(list[Position(list, results[p]["key"][1])]) = Lower(results[p]["key"][1])
    BY <1>1, PositionIs
  <2>3. at # 0
    OBVIOUS
  <2> HIDE DEF at
  <2>4. at \in 1 .. Len(list) /\ Key(list[at]) = Lower(results[p]["key"][1])
    BY <1>1, <2>1, <2>2, <2>3
  <2> QED BY <2>4 DEF Key
<1> HIDE DEF at
<1>3. \A i, j \in 1 .. Len(list) : list[i] = list[j] => i = j
  BY <1>1
<1>4. Range(next) = Range(list) \ {list[at]}
  BY <1>1, <1>2, <1>3, RemovedRange
<1>5. SomeRows(next)
  <2>1. PICK from : IsPart(rows, list, from)
    BY DEF Remains, SomeRows
  <2>2. next \in Seq(Range(rows))
    BY <1>1, <1>2, RemoveAtIs
  <2>3. \E h : IsPart(rows, next, h)
    BY <1>1, <1>2, <2>1, RemovalIsPart DEF RowsInv
  <2> QED BY <2>2, <2>3 DEF SomeRows
<1> HIDE DEF next
<1>6. \A m \in 1 .. p : m \in 1 .. n \/ m = p
  OBVIOUS
<1>7. p \in 1 .. p /\ \A m \in 1 .. n : m \in 1 .. p
  OBVIOUS
<1> HIDE DEF p
<1>8. ASSUME NEW row \in Range(rows)
      PROVE  row \in Range(next) <=> \A m \in 1 .. p : Key(results[m]) # Key(row)
  <2>1. row \in Range(list) <=> \A m \in 1 .. n : Key(results[m]) # Key(row)
    BY DEF Remains
  <2>2. row = list[at] <=> Key(row) = Key(results[p])
    <3>1. list[at] \in Range(rows)
      BY <1>1, <1>2
    <3>2. PICK i \in 1 .. Len(rows) : list[at] = rows[i]
      BY <3>1, RangeFrom DEF RowsInv
    <3> QED BY <1>2, <3>2, SameKeySameRow
  <2> QED BY <1>4, <1>6, <1>7, <2>1, <2>2
<1> QED BY <1>5, <1>8 DEF Remains, next, at, p

(* Each result has its key, so that it finds its row. *)
HaveKeys(results) == \A m \in 1 .. Len(results) : "key" \in DOMAIN results[m]

IsErased(store, results, n) ==
    \E list : \E defined \in BOOLEAN :
        store = Store(list, defined) /\ (defined => Remains(list, results, n))

LEMMA NoneErased ==
    ASSUME RowsInv(rows), NEW results
    PROVE  IsErased(Untouched, results, 0)
<1>1. SomeRows(rows)
  BY WholeIsPart DEF SomeRows, RowsInv
<1>2. Remains(rows, results, 0)
  BY <1>1 DEF Remains
<1>3. Untouched = Store(rows, TRUE)
  BY DEF Untouched, Store
<1> QED BY <1>2, <1>3 DEF IsErased

LEMMA OneErased ==
    ASSUME RowsInv(rows), KeysDiffer(rows), NEW results, Len(results) \in Nat, HaveKeys(results),
           NEW n \in Nat, n + 1 <= Len(results), NEW store, IsErased(store, results, n)
    PROVE  IsErased(Erase(store, results[n + 1]), results, n + 1)
<1>1. PICK list : \E defined \in BOOLEAN :
        store = Store(list, defined) /\ (defined => Remains(list, results, n))
  BY DEF IsErased
<1>2. PICK defined \in BOOLEAN :
        store = Store(list, defined) /\ (defined => Remains(list, results, n))
  BY <1>1
<1> DEFINE p == n + 1
           at == FoundFor(list, results[p])
<1>3. p \in 1 .. Len(results) /\ "key" \in DOMAIN results[p]
  BY DEF HaveKeys
<1>4. Erase(store, results[p]) = IF at = 0 THEN Store(list, FALSE)
                                 ELSE Store(RemoveAt(list, at), defined)
  BY <1>2, EraseIs
<1>5. CASE at = 0
  <2> HIDE DEF p, at
  <2>1. Erase(store, results[p]) = Store(list, FALSE)
    BY <1>4, <1>5
  <2>2. IsErased(Erase(store, results[p]), results, p)
    BY <2>1 DEF IsErased
  <2> QED BY <2>2 DEF p
<1>6. CASE at # 0
  <2>1. defined => Remains(RemoveAt(list, at), results, p)
    BY <1>2, <1>3, <1>6, EraseFinds
  <2> HIDE DEF p, at
  <2>2. Erase(store, results[p]) = Store(RemoveAt(list, at), defined)
    BY <1>4, <1>6
  <2>3. IsErased(Erase(store, results[p]), results, p)
    BY <1>2, <2>1, <2>2 DEF IsErased
  <2> QED BY <2>3 DEF p
<1> QED BY <1>5, <1>6

LEMMA AllErased ==
    ASSUME RowsInv(rows), KeysDiffer(rows), NEW results, Len(results) \in Nat, HaveKeys(results),
           NEW f, Erases(results, f), NEW n \in 0 .. Len(results)
    PROVE  IsErased(f[n], results, n)
<1> DEFINE S == {k \in Nat : k <= Len(results) => IsErased(f[k], results, k)}
<1>1. 0 \in S
  BY NoneErased DEF Erases
<1>2. ASSUME NEW k \in Nat, k \in S PROVE k + 1 \in S
  <2> SUFFICES ASSUME k + 1 <= Len(results)
               PROVE  IsErased(f[k + 1], results, k + 1)
    OBVIOUS
  <2>1. IsErased(f[k], results, k)
    BY <1>2
  <2>2. k + 1 \in 1 .. Len(results) /\ (k + 1) - 1 = k
    OBVIOUS
  <2>3. f[k + 1] = Erase(f[k], results[k + 1])
    BY <2>2 DEF Erases
  <2>4. IsErased(Erase(f[k], results[k + 1]), results, k + 1)
    BY <2>1, OneErased
  <2> QED BY <2>3, <2>4
<1> HIDE DEF S
<1>3. n \in S
  BY <1>1, <1>2, Induction
<1> QED BY <1>3 DEF S

-----------------------------------------------------------------------------
(* Which requests have a defined outcome. *)

(* The places of a list, all of them. *)
Fills(from, n, m) ==
    /\ n \in Nat /\ m \in Nat /\ from \in [1 .. n -> 1 .. m]
    /\ \A i, j \in 1 .. n : i < j => from[i] < from[j]
    /\ \A k \in 1 .. m : \E i \in 1 .. n : from[i] = k

LEMMA EveryPlace ==
    ASSUME NEW from, NEW n, NEW m, Fills(from, n, m)
    PROVE  n = m /\ \A i \in 1 .. n : from[i] = i
<1> DEFINE id == [i \in 1 .. m |-> i]
<1>1. Rises(from, n) /\ Rises(id, m)
  BY DEF Rises, Fills
<1>2. Image(from, n) = Image(id, m)
  BY DEF Image, Fills
<1>3. SamePlaces(from, n, id, m)
  BY <1>1, <1>2 DEF SamePlaces, Fills
<1>4. n = m /\ \A k \in 1 .. n : from[k] = id[k]
  <2> HIDE DEF id
  <2> QED BY <1>3, SameIncreasing
<1> QED BY <1>4

LEMMA NothingAdded ==
    ASSUME NEW S, NEW list \in Seq(S)
    PROVE  list \o << >> = list
OBVIOUS

(* A query that relates nothing shows its page. *)
LEMMA NothingRelated ==
    ASSUME NEW q, q.include = "", Paged(q) \in Seq(Range(rows))
    PROVE  Shown(q) = Paged(q)
<1>1. Related(Paged(q), q.include) = << >>
  BY DEF Related
<1> DEFINE list == Paged(q)
<1> HIDE DEF list
<1>2. list \in Seq(Range(rows)) => list \o << >> = list
  BY NothingAdded
<1> QED BY <1>1, <1>2 DEF Shown, list

(* The key is shown: no fields are left out, or the key is one of them. *)
ShowsKey(fields) == fields = {} \/ "key" \in fields

(* A property that is shown stays what it is, and so every row is shown. *)
ShowsProperty(fields, p) == fields = {} \/ p \in fields

Have(list, p) == \A i \in 1 .. Len(list) : p \in DOMAIN list[i]

Same(list, shown, p) ==
    /\ Len(shown) = Len(list)
    /\ \A i \in 1 .. Len(list) : p \in DOMAIN shown[i] /\ shown[i][p] = list[i][p]

LEMMA FieldsKeep ==
    ASSUME NEW S, NEW list \in Seq(S), NEW fields, NEW p, ShowsProperty(fields, p), Have(list, p)
    PROVE  Same(list, Fields(list, fields), p) /\ \E T : Fields(list, fields) \in Seq(T)
<1>0. Len(list) \in Nat /\ \A i \in 1 .. Len(list) : p \in DOMAIN list[i]
  BY DEF Have
<1>1. CASE fields = {}
  <2> DEFINE shown == Fields(list, fields)
  <2>1. shown = list
    BY <1>1 DEF Fields
  <2> HIDE DEF shown
  <2>2. Same(list, shown, p) /\ \E T : shown \in Seq(T)
    BY <1>0, <2>1 DEF Same
  <2> QED BY <2>2 DEF shown
<1>2. CASE fields # {}
  <2> DEFINE shown == Fields(list, fields)
             n == Len(shown)
             m == Len(list)
  <2>1. n \in Nat /\ \E T : shown \in Seq(T)
    BY <1>2, FieldsShow
  <2>2. PICK from : Shows(list, fields, shown, from)
    BY <1>2, FieldsShow
  <2>3. p \in fields
    BY <1>2 DEF ShowsProperty
  <2> HIDE DEF shown
  <2>4. /\ from \in [1 .. n -> 1 .. m]
        /\ \A i, j \in 1 .. n : i < j => from[i] < from[j]
        /\ \A i \in 1 .. n : shown[i] = Cut(list[from[i]], fields)
        /\ \A k \in 1 .. m : DOMAIN list[k] \cap fields # {} => \E i \in 1 .. n : from[i] = k
    BY <2>2 DEF Shows
  <2>5. \A k \in 1 .. m : \E i \in 1 .. n : from[i] = k
    BY <1>0, <2>3, <2>4
  <2>6. n = m /\ \A i \in 1 .. n : from[i] = i
    <3>1. m \in Nat
      BY <1>0
    <3> HIDE DEF n, m
    <3>2. Fills(from, n, m)
      BY <3>1, <2>1, <2>4, <2>5 DEF Fills
    <3> QED BY <3>2, EveryPlace
  <2>7. ASSUME NEW i \in 1 .. m
        PROVE  p \in DOMAIN shown[i] /\ shown[i][p] = list[i][p]
    <3>1. shown[i] = Cut(list[i], fields)
      BY <2>4, <2>6
    <3>2. p \in DOMAIN Cut(list[i], fields) /\ Cut(list[i], fields)[p] = list[i][p]
      BY <1>0, <2>3 DEF Cut
    <3> QED BY <3>1, <3>2
  <2>8. Same(list, shown, p)
    BY <2>6, <2>7 DEF Same
  <2> QED BY <2>1, <2>8 DEF shown
<1> QED BY <1>1, <1>2

LEMMA FieldsKeepKeys ==
    ASSUME NEW S, NEW list \in Seq(S), NEW fields, ShowsKey(fields),
           \A i \in 1 .. Len(list) : "key" \in DOMAIN list[i]
    PROVE  /\ Len(Fields(list, fields)) = Len(list)
           /\ \A i \in 1 .. Len(list) :
                 /\ "key" \in DOMAIN Fields(list, fields)[i]
                 /\ Key(Fields(list, fields)[i]) = Key(list[i])
<1>1. ShowsProperty(fields, "key") /\ Have(list, "key")
  BY DEF ShowsKey, ShowsProperty, Have
<1>2. Same(list, Fields(list, fields), "key")
  BY <1>1, FieldsKeep
<1> QED BY <1>2 DEF Key, Same

(* A query without relations whose results have their keys. *)
IsPlain(q) == IsReadable(q) /\ ~ MissesKey(q) /\ q.include = "" /\ ShowsKey(q.fields)

LEMMA PlainResults ==
    ASSUME RowsInv(rows), NEW q, IsPlain(q)
    PROVE  /\ Paged(q) \in Seq(Range(rows)) /\ Len(Results(q)) = Len(Paged(q))
           /\ HaveKeys(Results(q))
           /\ \A i \in 1 .. Len(Paged(q)) : Key(Results(q)[i]) = Key(Paged(q)[i])
<1>1. rows \in Seq(Range(rows)) /\ IsReadable(q) /\ ~ MissesKey(q)
      /\ q.include = "" /\ ShowsKey(q.fields)
  BY DEF RowsInv, IsPlain
<1>2. Paged(q) \in Seq(Range(rows))
  BY <1>1, PagedAre
<1>3. Results(q) = Fields(Paged(q), q.fields)
  <2>1. Shown(q) = Paged(q)
    BY <1>1, <1>2, NothingRelated
  <2>2. Results(q) = Fields(Shown(q), q.fields)
    BY DEF Results, Shown
  <2> QED BY <2>1, <2>2
<1> DEFINE list == Paged(q)
<1> HIDE DEF list
<1>4. list \in Seq(Range(rows))
  BY <1>2 DEF list
<1>5. \A i \in 1 .. Len(list) : "key" \in DOMAIN list[i]
  BY <1>4, RangeHas, RowHas
<1>6. /\ Len(Fields(list, q.fields)) = Len(list)
      /\ \A i \in 1 .. Len(list) :
            /\ "key" \in DOMAIN Fields(list, q.fields)[i]
            /\ Key(Fields(list, q.fields)[i]) = Key(list[i])
  BY <1>1, <1>4, <1>5, FieldsKeepKeys
<1> QED BY <1>2, <1>3, <1>6 DEF list, HaveKeys

(* The keys of a query are as they are lowered, and differ. *)
DistinctKeys(q) ==
    /\ \A i \in 1 .. Len(q.keys) : Lower(q.keys[i]) = q.keys[i]
    /\ \A i, j \in 1 .. Len(q.keys) : q.keys[i] = q.keys[j] => i = j

(* From the result after n on, each has a row of its own in a list, with its *)
(* key.                                                                      *)
Matched(list, results, n) ==
    \E g \in [n + 1 .. Len(results) -> 1 .. Len(list)] :
        /\ \A m, k \in n + 1 .. Len(results) : g[m] = g[k] => m = k
        /\ \A m \in n + 1 .. Len(results) : Key(list[g[m]]) = Key(results[m])

(* A place, once the one at a place is gone. *)
Moved(i, at) == IF i < at THEN i ELSE i - 1

LEMMA MovedIs ==
    ASSUME NEW n \in Nat, NEW at \in 1 .. n, NEW i \in 1 .. n, i # at
    PROVE  /\ Moved(i, at) \in 1 .. n - 1
           /\ i = IF Moved(i, at) < at THEN Moved(i, at) ELSE Moved(i, at) + 1
BY DEF Moved

(* The next result erases a row, and the others still have theirs: the one   *)
(* whose row is erased takes that of the next result.                        *)
LEMMA MatchedErase ==
    ASSUME NEW results, Len(results) \in Nat, NEW n \in Nat, n + 1 <= Len(results),
           NEW S, NEW list \in Seq(S), Matched(list, results, n),
           "key" \in DOMAIN results[n + 1]
    PROVE  /\ FoundFor(list, results[n + 1]) \in 1 .. Len(list)
           /\ Matched(RemoveAt(list, FoundFor(list, results[n + 1])), results, n + 1)
<1> DEFINE p == n + 1
           N == Len(results)
           L == Len(list)
           key == results[p]["key"][1]
           at == FoundFor(list, results[p])
           next == RemoveAt(list, at)
<1>1. L \in Nat /\ N \in Nat /\ p \in Nat /\ p <= N
  OBVIOUS
<1>2. PICK g \in [p .. N -> 1 .. L] :
         /\ \A m, k \in p .. N : g[m] = g[k] => m = k
         /\ \A m \in p .. N : Key(list[g[m]]) = Key(results[m])
  BY DEF Matched
<1>3. at = Position(list, key)
  BY FoundByKey
<1>4. Key(results[p]) = Lower(key)
  BY DEF Key
<1> HIDE DEF key, at
<1>5. /\ Position(list, key) \in 0 .. L
      /\ Position(list, key) = 0 => \A i \in 1 .. L : Key(list[i]) # Lower(key)
      /\ Position(list, key) # 0 => Key(list[Position(list, key)]) = Lower(key)
  BY <1>1, PositionIs
<1>6. p \in p .. N
  BY <1>1
<1>7. at \in 1 .. L /\ Key(list[at]) = Key(results[p])
  BY <1>1, <1>2, <1>3, <1>4, <1>5, <1>6
<1>8. /\ Len(next) = L - 1
      /\ \A i \in 1 .. L - 1 : next[i] = IF i < at THEN list[i] ELSE list[i + 1]
  BY <1>7, RemoveAtIs
<1> HIDE DEF next, N, L, p
<1> DEFINE h == [m \in p + 1 .. N |-> IF g[m] = at THEN g[p] ELSE g[m]]
           d == [m \in p + 1 .. N |-> Moved(h[m], at)]
<1>9. ASSUME NEW m \in p + 1 .. N
      PROVE  /\ m \in p .. N /\ m # p
             /\ h[m] \in 1 .. L /\ h[m] # at /\ Key(list[h[m]]) = Key(results[m])
  <2>1. m \in p .. N /\ m # p
    BY <1>1
  <2>2. CASE g[m] = at
    <3>1. h[m] = g[p]
      BY <2>2
    <3>2. g[p] # at
      BY <1>2, <1>6, <2>1, <2>2
    <3>3. Key(list[g[p]]) = Key(results[m])
      BY <1>2, <1>6, <1>7, <2>1, <2>2
    <3> QED BY <1>2, <1>6, <2>1, <3>1, <3>2, <3>3
  <2>3. CASE g[m] # at
    BY <1>2, <2>1, <2>3
  <2> QED BY <2>1, <2>2, <2>3
<1>10. ASSUME NEW m \in p + 1 .. N, NEW k \in p + 1 .. N, h[m] = h[k] PROVE m = k
  <2>1. m \in p .. N /\ k \in p .. N /\ m # p /\ k # p
    BY <1>9
  <2>2. h[m] = (IF g[m] = at THEN g[p] ELSE g[m]) /\ h[k] = (IF g[k] = at THEN g[p] ELSE g[k])
    OBVIOUS
  <2> QED BY <1>2, <1>6, <1>10, <2>1, <2>2
<1> HIDE DEF h
<1>11. ASSUME NEW m \in p + 1 .. N
       PROVE  /\ d[m] \in 1 .. L - 1 /\ Key(next[d[m]]) = Key(results[m])
              /\ h[m] = IF d[m] < at THEN d[m] ELSE d[m] + 1
  <2>1. h[m] \in 1 .. L /\ h[m] # at /\ Key(list[h[m]]) = Key(results[m])
    BY <1>9
  <2>2. d[m] = Moved(h[m], at)
    OBVIOUS
  <2> HIDE DEF d
  <2>3. d[m] \in 1 .. L - 1 /\ h[m] = IF d[m] < at THEN d[m] ELSE d[m] + 1
    <3>1. /\ Moved(h[m], at) \in 1 .. L - 1
          /\ h[m] = IF Moved(h[m], at) < at THEN Moved(h[m], at) ELSE Moved(h[m], at) + 1
      <4> DEFINE i == h[m]
      <4>1. i \in 1 .. L /\ i # at /\ L \in Nat /\ at \in 1 .. L
        BY <1>1, <1>7, <2>1 DEF L
      <4> HIDE DEF i
      <4>2. Moved(i, at) \in 1 .. L - 1 /\ i = IF Moved(i, at) < at THEN Moved(i, at) ELSE Moved(i, at) + 1
        BY <4>1, MovedIs
      <4> QED BY <4>2 DEF i
    <3> QED BY <2>2, <3>1
  <2>4. next[d[m]] = list[h[m]]
    BY <1>8, <2>3
  <2> QED BY <2>1, <2>3, <2>4
<1>12. ASSUME NEW m \in p + 1 .. N, NEW k \in p + 1 .. N, d[m] = d[k] PROVE m = k
  <2> HIDE DEF d
  <2>1. h[m] = h[k]
    BY <1>11, <1>12
  <2> QED BY <1>10, <2>1
<1>13. d \in [p + 1 .. N -> 1 .. Len(next)]
  BY <1>8, <1>11
<1> HIDE DEF d
<1>14. Matched(next, results, p)
  BY <1>11, <1>12, <1>13 DEF Matched, N
<1> QED BY <1>7, <1>14 DEF p, L, at, next

IsMatched(store, results, n) ==
    \E list \in Seq(Range(rows)) : store = Store(list, TRUE) /\ Matched(list, results, n)

LEMMA ErasesAll ==
    ASSUME rows \in Seq(Range(rows)), NEW results, Len(results) \in Nat, HaveKeys(results),
           Matched(rows, results, 0), NEW f, Erases(results, f)
    PROVE  f[Len(results)].defined = TRUE
<1> DEFINE S == {k \in Nat : k <= Len(results) => IsMatched(f[k], results, k)}
<1>1. 0 \in S
  <2>1. f[0] = Store(rows, TRUE)
    BY DEF Erases, Untouched, Store
  <2>2. IsMatched(f[0], results, 0)
    BY <2>1 DEF IsMatched
  <2> QED BY <2>2
<1>2. ASSUME NEW k \in Nat, k \in S PROVE k + 1 \in S
  <2> SUFFICES ASSUME k + 1 <= Len(results)
               PROVE  IsMatched(f[k + 1], results, k + 1)
    OBVIOUS
  <2>0. IsMatched(f[k], results, k)
    BY <1>2
  <2>1. PICK list \in Seq(Range(rows)) : f[k] = Store(list, TRUE) /\ Matched(list, results, k)
    BY <2>0 DEF IsMatched
  <2> DEFINE at == FoundFor(list, results[k + 1])
             next == RemoveAt(list, at)
  <2>2. k + 1 \in 1 .. Len(results) /\ (k + 1) - 1 = k
    OBVIOUS
  <2>3. "key" \in DOMAIN results[k + 1]
    BY <2>2 DEF HaveKeys
  <2>4. at \in 1 .. Len(list) /\ Matched(next, results, k + 1)
    BY <2>1, <2>3, MatchedErase
  <2>5. next \in Seq(Range(rows))
    BY <2>4, RemoveAtIs
  <2>6. at # 0
    BY <2>4
  <2>7. f[k + 1] = Erase(Store(list, TRUE), results[k + 1])
    BY <2>1, <2>2 DEF Erases
  <2>8. f[k + 1] = Store(next, TRUE)
    <3>1. Erase(Store(list, TRUE), results[k + 1]) =
             IF at = 0 THEN Store(list, FALSE) ELSE Store(next, TRUE)
      BY EraseIs
    <3> QED BY <2>6, <2>7, <3>1
  <2> HIDE DEF next, at
  <2> QED BY <2>4, <2>5, <2>8 DEF IsMatched
<1> HIDE DEF S
<1>3. Len(results) \in S
  BY <1>1, <1>2, Induction
<1>4. IsMatched(f[Len(results)], results, Len(results))
  BY <1>3 DEF S
<1>5. PICK list : f[Len(results)] = Store(list, TRUE)
  BY <1>4 DEF IsMatched
<1> QED BY <1>5, StoreIs

(* What is found are different rows. *)
LEMMA FoundPlaces ==
    ASSUME RowsInv(rows), NEW q, IsReadable(q), ~ MissesKey(q), DistinctKeys(q)
    PROVE  \E place \in [1 .. Len(Found(q)) -> 1 .. Len(rows)] :
              /\ \A i, j \in 1 .. Len(Found(q)) : place[i] = place[j] => i = j
              /\ \A i \in 1 .. Len(Found(q)) : Found(q)[i] = rows[place[i]]
<1>1. CASE q.keys = << >>
  <2>1. Found(q) = rows
    BY <1>1 DEF Found
  <2> DEFINE place == [i \in 1 .. Len(rows) |-> i]
  <2>2. place \in [1 .. Len(Found(q)) -> 1 .. Len(rows)]
    BY <2>1
  <2>3. \A i \in 1 .. Len(Found(q)) : place[i] = i
    BY <2>1
  <2> HIDE DEF place
  <2> QED BY <2>1, <2>2, <2>3
<1>2. CASE q.keys # << >>
  <2> DEFINE place == [i \in 1 .. Len(q.keys) |-> Position(rows, q.keys[i])]
  <2>1. /\ Len(Found(q)) = Len(q.keys)
        /\ \A i \in 1 .. Len(q.keys) :
              /\ Position(rows, q.keys[i]) \in 1 .. Len(rows)
              /\ Found(q)[i] = rows[Position(rows, q.keys[i])]
              /\ Key(Found(q)[i]) = Lower(q.keys[i])
    BY <1>2, FoundIs DEF IsReadable, RowsInv
  <2>2. /\ place \in [1 .. Len(Found(q)) -> 1 .. Len(rows)]
        /\ \A i \in 1 .. Len(Found(q)) : Found(q)[i] = rows[place[i]]
    BY <2>1
  <2>3. \A i \in 1 .. Len(Found(q)) : Key(rows[place[i]]) = q.keys[i]
    BY <2>1 DEF DistinctKeys
  <2> HIDE DEF place
  <2>4. \A i, j \in 1 .. Len(Found(q)) : place[i] = place[j] => i = j
    BY <2>1, <2>3 DEF DistinctKeys
  <2> QED BY <2>2, <2>4
<1> QED BY <1>1, <1>2

LEMMA PlainMatched ==
    ASSUME RowsInv(rows), NEW q, IsPlain(q), DistinctKeys(q)
    PROVE  Matched(rows, Results(q), 0)
<1> DEFINE n == Len(Paged(q))
<1>1. /\ Paged(q) \in Seq(Range(rows)) /\ Len(Results(q)) = n
      /\ \A i \in 1 .. n : Key(Results(q)[i]) = Key(Paged(q)[i])
  BY PlainResults
<1>2. rows \in Seq(Range(rows)) /\ IsReadable(q) /\ ~ MissesKey(q)
  BY DEF RowsInv, IsPlain
<1>3. PICK from \in [1 .. n -> 1 .. Len(Found(q))] :
         /\ \A i, j \in 1 .. n : i < j => from[i] < from[j]
         /\ \A i \in 1 .. n : Paged(q)[i] = Found(q)[from[i]]
  BY <1>1, <1>2, PagedAre
<1>4. PICK place \in [1 .. Len(Found(q)) -> 1 .. Len(rows)] :
         /\ \A i, j \in 1 .. Len(Found(q)) : place[i] = place[j] => i = j
         /\ \A i \in 1 .. Len(Found(q)) : Found(q)[i] = rows[place[i]]
  BY <1>2, FoundPlaces
<1>5. n \in Nat
  BY <1>1, SeqDomain
<1> DEFINE g == [i \in 1 .. n |-> place[from[i]]]
<1>6. g \in [1 .. n -> 1 .. Len(rows)]
  BY <1>3, <1>4
<1>7. \A i \in 1 .. n : Key(rows[g[i]]) = Key(Results(q)[i])
  BY <1>1, <1>3, <1>4
<1>8. ASSUME NEW i \in 1 .. n, NEW j \in 1 .. n, g[i] = g[j] PROVE i = j
  <2>0. from[i] \in 1 .. Len(Found(q)) /\ from[j] \in 1 .. Len(Found(q))
    BY <1>3
  <2>1. place[from[i]] = place[from[j]]
    BY <1>8
  <2>2. from[i] = from[j] /\ from[i] \in Nat
    BY <1>4, <2>0, <2>1
  <2>3. ~ (i < j) /\ ~ (j < i)
    BY <1>3, <2>2
  <2> QED BY <1>5, <2>3
<1> HIDE DEF g
<1>9. Len(Results(q)) = n /\ 0 + 1 = 1
  BY <1>1
<1> HIDE DEF n
<1> QED BY <1>6, <1>7, <1>8, <1>9 DEF Matched

(* A DELETE whose selection names no key twice, and shows the key.           *)
IsClear(selection) ==
    /\ ShowsKey(selection.fields)
    /\ \A i, j \in 1 .. Len(selection.keys) :
          Lower(selection.keys[i]) = Lower(selection.keys[j]) => i = j

LEMMA ClearIs ==
    ASSUME RowsInv(rows), NEW selection \in Selections, IsClear(selection), NEW type
    PROVE  /\ IsReadable(QueryOf(selection, type)) /\ DistinctKeys(QueryOf(selection, type))
           /\ ~ MissesKey(QueryOf(selection, type)) => IsPlain(QueryOf(selection, type))
<1> DEFINE q == QueryOf(selection, type)
           n == Len(selection.keys)
<1>1. n \in Nat /\ DOMAIN selection.keys = 1 .. n
      /\ selection.index \in Nat /\ selection.limit \in Nat
  BY SelectionIs
<1>2. IsReadable(q) /\ Len(q.keys) = n /\ \A i \in 1 .. n : q.keys[i] = Lower(selection.keys[i])
  BY <1>1, QueryIsReadable
<1>3. q.include = "" /\ q.fields = selection.fields
  BY QueryHas
<1>4. \A i \in 1 .. n : Lower(Lower(selection.keys[i])) = Lower(selection.keys[i])
  BY <1>1, LowerAssumption
<1> HIDE DEF q
<1>5. DistinctKeys(q)
  BY <1>2, <1>4 DEF DistinctKeys, IsClear
<1>6. ~ MissesKey(q) => IsPlain(q)
  BY <1>2, <1>3 DEF IsPlain, IsClear
<1> QED BY <1>2, <1>5, <1>6 DEF q

(* What a DELETE whose selection shows the key does: it misses a key, or     *)
(* erases its results, which have their keys.                                *)
Erasing(q, f) ==
    /\ IsPlain(q) /\ Len(Results(q)) \in Nat /\ HaveKeys(Results(q))
    /\ Erases(Results(q), f)
    /\ answer'.code = IF f[Len(Results(q))].defined THEN 204 ELSE Undefined
    /\ rows' = IF f[Len(Results(q))].defined THEN f[Len(Results(q))].list ELSE << >>

LEMMA DeleteIs ==
    ASSUME RowsInv(rows), NEW selection \in Selections, NEW type \in Types,
           Delete(type, selection), ShowsKey(selection.fields)
    PROVE  \/ MissesKey(QueryOf(selection, type)) /\ answer'.code = 404
           \/ \E f : Erasing(QueryOf(selection, type), f)
<1> DEFINE q == QueryOf(selection, type)
           results == Read(q).resultset
           store == Destroy(q).store
<1>1. /\ answer'.code = IF ~ store.defined THEN Undefined
                        ELSE IF Destroy(q).query.error # 0 THEN 404 ELSE 204
      /\ rows' = IF store.defined THEN store.list ELSE << >>
  BY DEF Delete, Reply, Lost
<1>2. IsReadable(q) /\ (~ MissesKey(q) => IsPlain(q))
  <2>1. IsReadable(q) /\ q.include = "" /\ q.fields = selection.fields
    BY SelectionIs, QueryIsReadable, QueryHas
  <2> HIDE DEF q
  <2> QED BY <2>1 DEF IsPlain
<1>3. IsQuery(q) /\ q.resultset = << >> /\ q.error = 0
  BY QueriesAre
<1> HIDE DEF q
<1>4. Len(results) \in Nat
  BY <1>2, <1>3, ReadBody
<1>5. PICK f : /\ Erases(results, f)
               /\ Destroy(q).query = Read(q)
               /\ store = f[IF Read(q).error # 0 THEN 0 ELSE Len(results)]
  BY <1>4, DestroyIs
<1>6. CASE MissesKey(q)
  <2>1. Read(q).error # 0
    BY <1>3, <1>6, ReadFails
  <2>2. store = Untouched
    BY <1>5, <2>1 DEF Erases
  <2>3. store.defined = TRUE
    BY <2>2 DEF Untouched
  <2> QED BY <1>1, <1>5, <1>6, <2>1, <2>3 DEF q
<1>7. CASE ~ MissesKey(q)
  <2>1. Read(q).error = 0 /\ results = Results(q)
    BY <1>3, <1>7, ReadSucceeds
  <2>2. HaveKeys(results) /\ IsPlain(q)
    BY <1>2, <1>7, <2>1, PlainResults
  <2>3. store = f[Len(results)]
    BY <1>5, <2>1
  <2>4. answer'.code = IF store.defined THEN 204 ELSE Undefined
    BY <1>1, <1>5, <2>1
  <2> HIDE DEF store, results
  <2>5. Erasing(q, f)
    BY <1>1, <1>4, <1>5, <2>1, <2>2, <2>3, <2>4 DEF Erasing
  <2> QED BY <2>5 DEF q
<1> QED BY <1>6, <1>7

(* What it leaves, of rows with different keys. *)
LEMMA KeyedDelete ==
    ASSUME RowsInv(rows), KeysDiffer(rows), NEW selection \in Selections, NEW type \in Types,
           Delete(type, selection), ShowsKey(selection.fields), answer'.code = 204
    PROVE  /\ IsPlain(QueryOf(selection, type))
           /\ Remains(rows', Results(QueryOf(selection, type)),
                      Len(Results(QueryOf(selection, type))))
<1> DEFINE q == QueryOf(selection, type)
           results == Results(q)
<1>1. PICK f : Erasing(q, f)
  BY DeleteIs
<1> HIDE DEF q
<1>2. /\ IsPlain(q) /\ Len(results) \in Nat /\ HaveKeys(results)
      /\ Erases(results, f)
      /\ f[Len(results)].defined /\ rows' = f[Len(results)].list
  BY <1>1 DEF Erasing, Undefined
<1> HIDE DEF results
<1>3. IsErased(f[Len(results)], results, Len(results))
  <2>1. Len(results) \in 0 .. Len(results)
    BY <1>2
  <2> QED BY <1>2, <2>1, AllErased
<1>4. PICK list : \E defined \in BOOLEAN :
         /\ f[Len(results)] = Store(list, defined)
         /\ defined => Remains(list, results, Len(results))
  BY <1>3 DEF IsErased
<1>5. PICK defined \in BOOLEAN :
         /\ f[Len(results)] = Store(list, defined)
         /\ defined => Remains(list, results, Len(results))
  BY <1>4
<1>6. rows' = list /\ defined
  BY <1>2, <1>5, StoreIs
<1> QED BY <1>2, <1>5, <1>6 DEF q, results

LEMMA ClearDelete ==
    ASSUME RowsInv(rows), NEW selection \in Selections, NEW type \in Types,
           Delete(type, selection), IsClear(selection)
    PROVE  answer'.code \in {204, 404}
<1> DEFINE q == QueryOf(selection, type)
<1>1. DistinctKeys(q)
  BY ClearIs
<1>2. ShowsKey(selection.fields)
  BY DEF IsClear
<1>3. answer'.code = 404 \/ \E f : Erasing(q, f)
  BY <1>2, DeleteIs
<1> HIDE DEF q
<1>4. ASSUME NEW f, Erasing(q, f) PROVE answer'.code = 204
  <2>1. Matched(rows, Results(q), 0)
    BY <1>1, <1>4, PlainMatched DEF Erasing
  <2>2. f[Len(Results(q))].defined = TRUE
    BY <1>4, <2>1, ErasesAll DEF Erasing, RowsInv
  <2> QED BY <1>4, <2>2 DEF Erasing
<1> QED BY <1>3, <1>4

LEMMA NoneUndefined == NoAnswer.code # Undefined
<1>1. NoAnswer.code = 0
  BY DEF NoAnswer
<1> QED BY <1>1 DEF Undefined

LEMMA NeverUndefined ==
    /\ \A error : Status(error) # Undefined
    /\ Undefined \notin {200, 201, 202, 204, 400, 404, 409, 500}
BY DEF Status, Undefined

LEMMA OthersDefined ==
    ASSUME NEW selection, NEW type, NEW values
    PROVE  /\ Get(type, selection) => answer'.code # Undefined
           /\ Post(type, selection, values) => answer'.code # Undefined
<1>1. Get(type, selection) => answer'.code # Undefined
  BY NeverUndefined DEF Get, Reply
<1>2. Post(type, selection, values) => answer'.code # Undefined
  BY NeverUndefined DEF Post, Reply
<1> QED BY <1>1, <1>2

LEMMA UndefinedDelete ==
    ASSUME RowsInv(rows), NEW selection \in Selections, NEW type \in Types,
           Delete(type, selection)
    PROVE  UndefinedHasCause'
<1>1. answer'.method = "DELETE" /\ answer'.selection = selection
  BY DEF Delete, Reply, Lost
<1>2. ASSUME answer'.code = Undefined
      PROVE  \/ selection.fields # {} /\ "key" \notin selection.fields
             \/ \E i, j \in DOMAIN selection.keys :
                   i # j /\ Lower(selection.keys[i]) = Lower(selection.keys[j])
  <2>1. answer'.code # 204 /\ answer'.code # 404
    BY <1>2 DEF Undefined
  <2>2. ~ IsClear(selection)
    BY <2>1, ClearDelete
  <2>3. DOMAIN selection.keys = 1 .. Len(selection.keys)
    BY SelectionIs
  <2> QED BY <2>2, <2>3 DEF IsClear, ShowsKey
<1> QED BY <1>1, <1>2 DEF UndefinedHasCause

LEMMA UndefinedPut ==
    ASSUME NEW selection \in Selections, NEW type \in Types, NEW changes \in Changes,
           Put(type, selection, changes)
    PROVE  UndefinedHasCause'
<1>1. answer'.method = "PUT" /\ answer'.change = changes
  BY PutIs
<1>2. answer'.code = Undefined => changes = << >>
  BY NeverUndefined, PutIs DEF Writing
<1> QED BY <1>1, <1>2 DEF UndefinedHasCause

LEMMA UndefinedPublication ==
    ASSUME NEW selection, Publish(selection)
    PROVE  UndefinedHasCause'
<1>1. answer'.method = "PUBLISH" /\ answer'.selection = selection
  BY PublishIs
<1>2. answer'.code = Undefined => selection.fields # {} /\ "type" \notin selection.fields
  BY NeverUndefined, PublishIs
<1> QED BY <1>1, <1>2 DEF UndefinedHasCause

(* The only requests without a defined outcome are DELETEs that name a key   *)
(* twice, or whose fields leave the key out (stl_repository.cpp:247-258), a  *)
(* PUT of an empty list (exchange_impl.cpp:533), and publications whose      *)
(* fields leave the type out (exchange_impl.cpp:898, 850).                   *)
THEOREM UndefinedNeedsACause == Spec => []UndefinedHasCause
<1>1. Init => UndefinedHasCause
  BY NoneUndefined DEF Init, UndefinedHasCause
<1>2. Inv /\ UndefinedHasCause /\ [Next]_vars => UndefinedHasCause'
  <2> SUFFICES ASSUME Inv, UndefinedHasCause, [Next]_vars
               PROVE  UndefinedHasCause'
    OBVIOUS
  <2>0. RowsInv(rows)
    BY DEF Inv
  <2>1. CASE UNCHANGED vars
    BY <2>1 DEF vars, UndefinedHasCause
  <2>2. CASE Answered
    <3>1. answer' = NoAnswer
      BY <2>2 DEF Answered
    <3>2. answer'.code # Undefined
      BY <3>1, NoneUndefined
    <3> QED BY <3>2 DEF UndefinedHasCause
  <2>3. CASE Request
    <3>1. PICK selection \in Selections :
              \/ \E type \in Types : Get(type, selection)
              \/ \E type \in Types : \E body \in Bodies : Post(type, selection, body.values)
              \/ \E type \in Types : \E changes \in Changes : Put(type, selection, changes)
              \/ \E type \in Types : Delete(type, selection)
              \/ Publish(selection)
      BY <2>3, RequestIs
    <3>2. ASSUME NEW type \in Types, Delete(type, selection) PROVE UndefinedHasCause'
      BY <2>0, <3>2, UndefinedDelete
    <3>3. ASSUME NEW type \in Types, NEW changes \in Changes, Put(type, selection, changes)
          PROVE  UndefinedHasCause'
      BY <3>3, UndefinedPut
    <3>4. CASE Publish(selection)
      BY <3>4, UndefinedPublication
    <3>5. answer'.code # Undefined => UndefinedHasCause'
      BY DEF UndefinedHasCause
    <3> QED BY <3>1, <3>2, <3>3, <3>4, <3>5, OthersDefined
  <2> QED BY <2>1, <2>2, <2>3 DEF Next
<1> QED BY <1>1, <1>2, InvariantHolds, PTL DEF Spec

=============================================================================
