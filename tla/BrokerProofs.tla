---------------------------- MODULE BrokerProofs ----------------------------
(***************************************************************************)
(* Proofs about Broker: its types, the two capacities, the limit on        *)
(* messages and the reasons of a refusal for any number of workers, and    *)
(* that one worker alone never writes or erases a row that is gone.        *)
(***************************************************************************)
EXTENDS Broker, FiniteSetTheorems, SequenceTheorems, TLAPS

-----------------------------------------------------------------------------
(* Types. *)

(* What a worker may turn to. *)
LEMMA GotoType ==
    ASSUME TypeOK, NEW w \in Workers, NEW next \in Task, Goto(w, next)
    PROVE  task' \in [Workers -> Task]
  BY DEF TypeOK, Goto

LEMMA IdleType == Idle \in Task
  BY DEF Idle, Task

LEMMA AnswerType ==
    ASSUME TypeOK, NEW w \in Workers, Answer(w)
    PROVE  task' \in [Workers -> Task]
  BY GotoType, IdleType DEF Answer

(* The shape of a task follows from its stage. *)
LEMMA TaskByStage ==
    ASSUME NEW t \in Task
    PROVE  /\ t.stage = "include" =>
                 /\ t.op \in {"create", "update"}
                 /\ t.batch \in Batches
                 /\ t.found \subseteq Queues
                 /\ Named(t.batch) \subseteq t.found
           /\ t.stage \in {"create", "update"} => t.batch \in Batches
           /\ t.stage = "write" => t.key \in Subscriptions /\ t.row \in Row
           /\ t.stage \in {"count", "match"} =>
                 t.message \in Messages /\ t.found \subseteq Queues
           /\ t.stage = "store" =>
                 /\ t.message \in Messages
                 /\ t.fresh \subseteq State
                 /\ \A st \in t.fresh : st.message = t.message
  BY DEF Task

LEMMA BatchType ==
    ASSUME NEW b \in Batches
    PROVE  /\ Len(b) \in 1 .. MaxBatch
           /\ DOMAIN b = 1 .. Len(b)
           /\ \A i \in DOMAIN b : b[i] \in Change
  BY RequestsAssumption DEF Batches

LEMMA FindQueuesType ==
    ASSUME TypeOK, NEW w \in Workers, NEW op \in {"create", "update"},
           NEW batch \in Batches, FindQueues(w, op, batch)
    PROVE  task' \in [Workers -> Task]
<1> DEFINE found == IF Named(batch) = {} THEN queues ELSE Named(batch)
           next == [stage |-> "include", op |-> op, batch |-> batch, found |-> found]
<1>1. Goto(w, next)
  BY DEF FindQueues
<1>2. found \subseteq Queues /\ Named(batch) \subseteq found
  BY DEF FindQueues, TypeOK
<1>3. next \in Task
  BY <1>2 DEF Task
<1> QED BY <1>1, <1>3, GotoType

LEMMA CreateRequestType ==
    ASSUME TypeOK, NEW w \in Workers, CreateRequest(w)
    PROVE  task' \in [Workers -> Task]
<1> DEFINE Asked == [key : Subscriptions, queues : QueueLists, state : {"kept"}]
<1>1. PICK n \in 1 .. MaxBatch : \E batch \in [1 .. n -> Asked] : FindQueues(w, "create", batch)
  BY DEF CreateRequest
<1>2. PICK batch \in [1 .. n -> Asked] : FindQueues(w, "create", batch)
  BY <1>1
<1>3. Asked \subseteq Change
  BY RequestsAssumption DEF Change
<1>4. batch \in Seq(Change) /\ Len(batch) = n
  <2>1. n \in Nat
    BY RequestsAssumption
  <2>2. batch \in [1 .. n -> Change]
    BY <1>3
  <2> HIDE DEF Asked
  <2> QED BY <2>1, <2>2
<1>5. batch \in Batches
  BY <1>4 DEF Batches
<1> QED BY <1>2, <1>5, FindQueuesType

LEMMA UpdateRequestType ==
    ASSUME TypeOK, NEW w \in Workers, UpdateRequest(w)
    PROVE  task' \in [Workers -> Task]
<1>1. PICK change \in [key : Subscriptions, queues : QueueLists,
                       state : {"reachable", "unreachable", "kept"}] :
          FindQueues(w, "update", << change >>)
  BY DEF UpdateRequest
<1>2. change \in Change
  BY RequestsAssumption DEF Change
<1>3. << change >> \in Batches
  BY <1>2, RequestsAssumption DEF Batches
<1> QED BY <1>1, <1>3, FindQueuesType

(* What a change makes of a row, and which queues the row can gain. *)
LEMMA ChangedType ==
    ASSUME NEW row \in Row, NEW change \in Change
    PROVE  /\ Changed(row, change) \in Row
           /\ Range(Changed(row, change).queues) \subseteq Range(row.queues) \cup Range(change.queues)
<1> DEFINE old == row.queues
           new == change.queues
<1>1. old \in Seq(Queues) /\ new \in Seq(Queues)
  BY DEF Row, Change
<1>2. /\ Overwrite(old, new) \in Seq(Queues)
      /\ Range(Overwrite(old, new)) \subseteq Range(old) \cup Range(new)
  <2>1. CASE new = << >>
    BY <1>1, <2>1 DEF Overwrite
  <2>2. CASE new # << >>
    <3>1. /\ Len(new) \in DOMAIN new
          /\ new[Len(new)] \in Queues
          /\ new[Len(new)] \in Range(new)
      BY <1>1, <2>2 DEF Range
    <3> DEFINE last == new[Len(new)]
    <3>2. CASE old = << >>
      <4>1. Overwrite(old, new) = << last >>
        BY <2>2, <3>2 DEF Overwrite
      <4>2. << last >> \in Seq(Queues) /\ Range(<< last >>) = {last}
        BY <3>1 DEF Range
      <4> QED BY <4>1, <4>2, <3>1
    <3>3. CASE old # << >>
      <4>1. Overwrite(old, new) = [old EXCEPT ![1] = last]
        BY <2>2, <3>3 DEF Overwrite
      <4>0. last \in Queues /\ last \in Range(new) /\ 1 \in 1 .. Len(old)
        BY <1>1, <3>1, <3>3
      <4> HIDE DEF last, old, new
      <4>2. [old EXCEPT ![1] = last] \in Seq(Queues)
        BY <1>1, <4>0, ExceptSeq
      <4>3. Range([old EXCEPT ![1] = last]) \subseteq Range(old) \cup {last}
        BY <1>1 DEF Range
      <4> QED BY <4>0, <4>1, <4>2, <4>3
    <3> QED BY <3>2, <3>3
  <2> QED BY <2>1, <2>2
<1> QED BY <1>2 DEF Changed, Row, Change

LEMMA CreateSubscriptionsType ==
    ASSUME TypeOK, NEW w \in Workers, CreateSubscriptions(w)
    PROVE  /\ DOMAIN subscriptions' \subseteq Subscriptions
           /\ subscriptions' \in [DOMAIN subscriptions' -> Row]
<1>1. CASE UNCHANGED subscriptions
  BY <1>1 DEF TypeOK
<1>2. CASE subscriptions' # subscriptions
  <2> DEFINE batch == task[w].batch
             keys == {batch[i].key : i \in DOMAIN batch}
  <2>1. batch \in Batches /\ task[w].stage = "create"
    BY TaskByStage DEF CreateSubscriptions, TypeOK
  <2>2. keys \subseteq Subscriptions /\ \A i \in DOMAIN batch : batch[i] \in Change
    BY <2>1, BatchType DEF Change
  <2>3. PICK n \in [keys -> DOMAIN batch] :
           /\ \A s \in keys : batch[n[s]].key = s
           /\ subscriptions' = [s \in DOMAIN subscriptions \cup keys |->
                                   IF s \in keys THEN NewRow(batch[n[s]])
                                   ELSE subscriptions[s]]
    BY <1>2 DEF CreateSubscriptions
  <2>4. \A i \in DOMAIN batch : NewRow(batch[i]) \in Row
    BY <2>2 DEF NewRow, Row, Change
  <2> QED BY <2>2, <2>3, <2>4 DEF TypeOK
<1> QED BY <1>1, <1>2

LEMMA MatchingType ==
    ASSUME TypeOK, NEW m \in Messages, NEW found \in SUBSET Queues
    PROVE  /\ Matching(m, found) \subseteq State
           /\ \A st \in Matching(m, found) : st.message = m /\ st.queue \in found
<1>1. \A s \in DOMAIN subscriptions : DOMAIN subscriptions[s].queues \subseteq Nat
  BY DEF TypeOK, Row
<1>2. UNION {DOMAIN subscriptions[s].queues : s \in DOMAIN subscriptions} \subseteq Nat
  BY <1>1
<1> QED BY <1>2 DEF Matching, State, TypeOK

(* One case per action; what an action leaves alone keeps its type. *)
LEMMA TypeStep ==
    ASSUME TypeOK, [Next]_vars
    PROVE  TypeOK'
<1> USE DEF TypeOK
<1>1. CASE UNCHANGED vars
  BY <1>1 DEF vars
<1>2. CASE Next
  <2> SUFFICES ASSUME NEW w \in Workers,
                      \/ ManageQueues(w) \/ ManageSubscriptions(w)
                      \/ Publish(w) \/ Deliver(w)
               PROVE  TypeOK'
    BY <1>2 DEF Next
  <2>0. task[w] \in Task /\ (Answer(w) => task' \in [Workers -> Task])
    BY AnswerType
  <2> USE DEF Break
  <2>1. ASSUME NEW q \in Queues, CreateQueue(w, q) PROVE TypeOK'
    BY <2>1 DEF CreateQueue
  <2>2. ASSUME NEW q \in Queues, DeleteQueueRead(w, q) PROVE TypeOK'
    <3>1. [stage |-> "erase_queue", key |-> q] \in Task
      BY DEF Task
    <3> QED BY <2>2, <3>1, GotoType DEF DeleteQueueRead
  <2>3. CASE DeleteQueueErase(w)
    BY <2>0, <2>3 DEF DeleteQueueErase
  <2>4. CASE CreateRequest(w)
    BY <2>4, CreateRequestType DEF CreateRequest, FindQueues
  <2>5. CASE UpdateRequest(w)
    BY <2>5, UpdateRequestType DEF UpdateRequest, FindQueues
  <2>6. CASE Include(w)
    <3>1. task[w].op \in {"create", "update"} /\ task[w].batch \in Batches
      BY <2>0, <2>6, TaskByStage DEF Include
    <3>2. [stage |-> task[w].op, batch |-> task[w].batch] \in Task
      BY <3>1 DEF Task
    <3> QED BY <2>6, <3>2, GotoType DEF Include
  <2>7. CASE RefuseSubscriptions(w)
    BY <2>0, <2>7 DEF RefuseSubscriptions
  <2>8. CASE CreateSubscriptions(w)
    <3>1. task' \in [Workers -> Task]
      BY <2>0, <2>8 DEF CreateSubscriptions
    <3>2. UNCHANGED << queues, states, offered, fate >>
      BY <2>8 DEF CreateSubscriptions
    <3> QED BY <2>8, <3>1, <3>2, CreateSubscriptionsType
  <2>9. CASE UpdateRead(w)
    <3> DEFINE change == task[w].batch[1]
    <3>1. change \in Change
      BY <2>0, <2>9, TaskByStage, BatchType DEF UpdateRead
    <3>2. CASE change.key \in DOMAIN subscriptions
      <4>1. Changed(subscriptions[change.key], change) \in Row
        BY <3>1, <3>2, ChangedType
      <4>2. [stage |-> "write", key |-> change.key,
             row |-> Changed(subscriptions[change.key], change)] \in Task
        BY <3>1, <4>1 DEF Task, Change
      <4> QED BY <2>9, <3>2, <4>2, GotoType DEF UpdateRead
    <3>3. CASE change.key \notin DOMAIN subscriptions
      BY <2>0, <2>9, <3>3 DEF UpdateRead
    <3> QED BY <3>2, <3>3
  <2>10. CASE UpdateWrite(w)
    <3>1. task[w].key \in Subscriptions /\ task[w].row \in Row
      BY <2>0, <2>10, TaskByStage DEF UpdateWrite
    <3> QED BY <2>0, <2>10, <3>1 DEF UpdateWrite
  <2>11. ASSUME NEW s \in Subscriptions, DeleteSubscriptionRead(w, s) PROVE TypeOK'
    <3>1. [stage |-> "erase_subscription", key |-> s] \in Task
      BY DEF Task
    <3> QED BY <2>11, <3>1, GotoType DEF DeleteSubscriptionRead
  <2>12. CASE DeleteSubscriptionErase(w)
    BY <2>0, <2>12 DEF DeleteSubscriptionErase
  <2>13. ASSUME NEW m \in Messages, NEW found \in SUBSET Queues, ReadQueues(w, m, found)
         PROVE  TypeOK'
    <3>1. [stage |-> "count", message |-> m, found |-> found] \in Task
      BY DEF Task
    <3> QED BY <2>13, <3>1, GotoType DEF ReadQueues
  <2>14. CASE CountStates(w)
    <3>1. task[w].message \in Messages /\ task[w].found \subseteq Queues
      BY <2>0, <2>14, TaskByStage DEF CountStates
    <3>2. [stage |-> "match", message |-> task[w].message, found |-> task[w].found] \in Task
      BY <3>1 DEF Task
    <3> QED BY <2>0, <2>14, <3>2, GotoType DEF CountStates
  <2>15. CASE MatchSubscriptions(w)
    <3> DEFINE fresh == Matching(task[w].message, task[w].found)
    <3>1. task[w].message \in Messages /\ task[w].found \subseteq Queues
      BY <2>0, <2>15, TaskByStage DEF MatchSubscriptions
    <3>2. [stage |-> "store", message |-> task[w].message, fresh |-> fresh] \in Task
      BY <3>1, MatchingType DEF Task
    <3> QED BY <2>0, <2>15, <3>2, GotoType DEF MatchSubscriptions
  <2>16. CASE StoreStates(w)
    BY <2>0, <2>16, TaskByStage DEF StoreStates
  <2>17. ASSUME NEW s \in Subscriptions, TripBreaker(w, s) PROVE TypeOK'
    <3> DEFINE change == [key |-> s, queues |-> << >>, state |-> "unreachable"]
    <3>1. << change >> \in Batches
      BY RequestsAssumption DEF Batches, Change
    <3>2. [stage |-> "update", batch |-> << change >>] \in Task
      BY <3>1 DEF Task
    <3> QED BY <2>17, <3>2, GotoType DEF TripBreaker
  <2>18. ASSUME NEW st \in states, Settle(w, st) PROVE TypeOK'
    BY <2>18 DEF Settle
  <2> QED BY <2>1, <2>2, <2>3, <2>4, <2>5, <2>6, <2>7, <2>8, <2>9, <2>10, <2>11,
             <2>12, <2>13, <2>14, <2>15, <2>16, <2>17, <2>18
          DEF ManageQueues, ManageSubscriptions, Publish, Deliver
<1> QED BY <1>1, <1>2

(* Every variable keeps its type: a request in hand has the shape its stage *)
(* needs, and names only queues that were read.                             *)
THEOREM TypeCorrect == Spec => []TypeOK
<1>1. Init => TypeOK
  BY IdleType DEF Init, TypeOK
<1>2. TypeOK /\ [Next]_vars => TypeOK'
  BY TypeStep
<1> QED BY <1>1, <1>2, PTL DEF Spec

-----------------------------------------------------------------------------
(* The limit on subscriptions. *)

(* What a task past the comparison may yet add to a queue: the entries of   *)
(* its batch that ask for the queue, or the row it is about to write back.  *)
Slots(t, q) ==
    IF t.stage \in {"create", "update"} THEN Asking(t.batch, q)
    ELSE IF t.stage = "write" /\ q \in Range(t.row.queues) THEN {1}
    ELSE {}

Slot(t, i) == IF t.stage = "write" THEN t.key ELSE t.batch[i].key

Promised(t, q) == {Slot(t, i) : i \in Slots(t, q)}

PromisedBy(set, q) == UNION {Promised(task[w], q) : w \in set}

Claimed(q) == Subscribed(q) \cup PromisedBy(Workers, q)

(* Inductive: what is stored together with what is promised stays within    *)
(* the bound.  The stored subscriptions alone would not do: a grant is      *)
(* used, and a row written back, after the comparison.                      *)
LimitInv ==
    \A q \in Queues : Cardinality(Claimed(q)) <= SubscriptionLimit[q] + Excess(MaxBatch)

LEMMA SubscribedType ==
    ASSUME TypeOK, NEW q \in Queues
    PROVE  /\ Subscribed(q) \subseteq Subscriptions
           /\ IsFiniteSet(Subscribed(q))
<1>1. Subscribed(q) \subseteq Subscriptions
  BY DEF Subscribed, TypeOK
<1> QED BY <1>1, FS_Subset, SetsAssumption

LEMMA PromisedType ==
    ASSUME NEW t \in Task, NEW q \in Queues
    PROVE  /\ Slots(t, q) \subseteq 1 .. MaxBatch
           /\ Promised(t, q) \subseteq Subscriptions
<1>1. CASE t.stage \in {"create", "update"}
  <2>1. t.batch \in Batches
    BY <1>1, TaskByStage
  <2>2. /\ DOMAIN t.batch \subseteq 1 .. MaxBatch
        /\ \A i \in DOMAIN t.batch : t.batch[i].key \in Subscriptions
    BY <2>1, BatchType, RequestsAssumption DEF Change
  <2> QED BY <1>1, <2>2 DEF Slots, Promised, Slot, Asking
<1>2. CASE t.stage = "write"
  BY <1>2, TaskByStage, RequestsAssumption DEF Slots, Promised, Slot
<1>3. CASE t.stage \notin {"create", "update", "write"}
  BY <1>3 DEF Slots, Promised
<1> QED BY <1>1, <1>2, <1>3

(* The other workers together are promised at most a batch each: pairs of   *)
(* a worker and a place in its batch cover what they are promised.          *)
LEMMA OthersPromised ==
    ASSUME TypeOK, NEW w \in Workers, NEW q \in Queues
    PROVE  /\ IsFiniteSet(PromisedBy(Workers \ {w}, q))
           /\ Cardinality(PromisedBy(Workers \ {w}, q)) <= Excess(MaxBatch)
<1> DEFINE others == Workers \ {w}
           U == PromisedBy(others, q)
           P == others \X (1 .. MaxBatch)
<1>1. /\ IsFiniteSet(others)
      /\ Cardinality(others) = Cardinality(Workers) - 1
      /\ Cardinality(Workers) \in Nat \ {0}
  <2>1. IsFiniteSet(Workers) /\ Cardinality(Workers) \in Nat
    BY FS_CardinalityType, SetsAssumption
  <2>2. Cardinality(Workers) # 0
    BY FS_EmptySet, SetsAssumption
  <2> QED BY <2>1, <2>2, FS_RemoveElement
<1>2. IsFiniteSet(1 .. MaxBatch) /\ Cardinality(1 .. MaxBatch) = MaxBatch
  BY FS_Interval, RequestsAssumption
<1>3. IsFiniteSet(P) /\ Cardinality(P) = Excess(MaxBatch)
  <2>1. IsFiniteSet(P) /\ Cardinality(P) = Cardinality(others) * Cardinality(1 .. MaxBatch)
    BY <1>1, <1>2, FS_Product
  <2>2. Cardinality(P) = (Cardinality(Workers) - 1) * MaxBatch
    BY <1>1, <1>2, <2>1, Zenon
  <2> QED BY <2>1, <2>2 DEF Excess
<1>4. CASE U = {}
  <2>1. Excess(MaxBatch) \in Nat
    BY <1>3, FS_CardinalityType
  <2> QED BY <1>4, <2>1, FS_EmptySet
<1>5. CASE U # {}
  <2>1. PICK u \in U : TRUE
    BY <1>5
  <2> DEFINE f == [p \in P |-> IF p[2] \in Slots(task[p[1]], q)
                               THEN Slot(task[p[1]], p[2]) ELSE u]
  <2>2. \A p \in P : f[p] \in U
    BY <2>1 DEF PromisedBy, Promised
  <2>3. \A x \in U : \E p \in P : f[p] = x
    <3> SUFFICES ASSUME NEW x \in U
                 PROVE  \E p \in P : f[p] = x
      OBVIOUS
    <3>1. PICK v \in others : x \in Promised(task[v], q)
      BY DEF PromisedBy
    <3>2. PICK i \in Slots(task[v], q) : x = Slot(task[v], i)
      BY <3>1 DEF Promised
    <3>3. i \in 1 .. MaxBatch
      BY <3>2, PromisedType DEF TypeOK
    <3>4. << v, i >> \in P /\ f[<< v, i >>] = x
      BY <3>2, <3>3
    <3> QED BY <3>4
  <2>4. f \in Surjection(P, U)
    <3>1. f \in [P -> U]
      BY <2>2
    <3> HIDE DEF f, P, U
    <3> QED BY <3>1, <2>3 DEF Surjection
  <2> HIDE DEF f, P, U
  <2>5. IsFiniteSet(U) /\ Cardinality(U) <= Cardinality(P)
    BY <1>3, <2>4, FS_Surjection
  <2> QED BY <1>3, <2>5 DEF U
<1> QED BY <1>4, <1>5

(* The counts of the code are at least what they stand for: include() may   *)
(* list a subscription several times, and never leaves one out.             *)
LEMMA CountsSuffice ==
    ASSUME TypeOK, NEW batch \in Batches, NEW found \in SUBSET Queues, NEW q \in found
    PROVE  LET asked == {batch[i].key : i \in Asking(batch, q)}
           IN  /\ IsFiniteSet(asked)
               /\ Cardinality(asked) <= NewCount(q, batch)
               /\ Cardinality(Subscribed(q)) <= CurrentCount(q, found)
               /\ NewCount(q, batch) \in Nat
               /\ CurrentCount(q, found) \in Nat
<1> DEFINE asking == Asking(batch, q)
           asked == {batch[i].key : i \in asking}
<1>1. /\ IsFiniteSet(asked)
      /\ Cardinality(asked) <= NewCount(q, batch)
      /\ NewCount(q, batch) \in Nat
  <2>1. IsFiniteSet(asking)
    <3>1. asking \subseteq 1 .. MaxBatch
      <4>1. Len(batch) \in 1 .. MaxBatch /\ DOMAIN batch = 1 .. Len(batch)
        BY BatchType
      <4>2. asking \subseteq 1 .. Len(batch)
        BY <4>1 DEF Asking
      <4> HIDE DEF asking
      <4> QED BY <4>1, <4>2, RequestsAssumption
    <3>2. IsFiniteSet(1 .. MaxBatch)
      BY FS_Interval, RequestsAssumption
    <3> HIDE DEF asking
    <3> QED BY <3>1, <3>2, FS_Subset
  <2> DEFINE f == [i \in asking |-> batch[i].key]
  <2>2. f \in Surjection(asking, asked)
    BY DEF Surjection
  <2> HIDE DEF f, asked, asking
  <2>3. IsFiniteSet(asked) /\ Cardinality(asked) <= Cardinality(asking)
    BY <2>1, <2>2, FS_Surjection
  <2> QED BY <2>1, <2>3, FS_CardinalityType DEF asking, NewCount
<1>2. /\ Cardinality(Subscribed(q)) <= CurrentCount(q, found)
      /\ CurrentCount(q, found) \in Nat
  <2> DEFINE pairs == {x \in Related(found) : x[1] \in Subscribed(q)}
             own == Subscribed(q) \X {q}
  <2>1. IsFiniteSet(pairs)
    <3>1. IsFiniteSet(DOMAIN subscriptions) /\ IsFiniteSet(found)
      BY FS_Subset, SetsAssumption DEF TypeOK
    <3>2. IsFiniteSet((DOMAIN subscriptions) \X found)
      BY <3>1, FS_Product
    <3>3. pairs \subseteq (DOMAIN subscriptions) \X found
      BY DEF Related
    <3> QED BY <3>2, <3>3, FS_Subset
  <2>2. own \subseteq pairs
    BY DEF Related, Subscribed
  <2>3. Cardinality(own) <= Cardinality(pairs)
    BY <2>1, <2>2, FS_Subset
  <2>4. Cardinality(own) = Cardinality(Subscribed(q)) * 1
    <3>1. IsFiniteSet(Subscribed(q))
      BY SubscribedType
    <3>2. IsFiniteSet({q}) /\ Cardinality({q}) = 1
      BY FS_Singleton
    <3> QED BY <3>1, <3>2, FS_Product
  <2>5. Cardinality(Subscribed(q)) \in Nat /\ Cardinality(pairs) \in Nat
    BY <2>1, SubscribedType, FS_CardinalityType
  <2> HIDE DEF own, pairs
  <2>6. CurrentCount(q, found) = Cardinality(pairs)
    BY DEF CurrentCount, pairs
  <2> QED BY <2>3, <2>6, <2>4, <2>5
<1> QED BY <1>1, <1>2

LEMMA UnionBound ==
    ASSUME NEW S, NEW T, IsFiniteSet(S), IsFiniteSet(T)
    PROVE  /\ IsFiniteSet(S \cup T)
           /\ Cardinality(S \cup T) <= Cardinality(S) + Cardinality(T)
<1>1. IsFiniteSet(S \cap T)
  BY FS_Intersection
<1>2. /\ Cardinality(S) \in Nat /\ Cardinality(T) \in Nat
      /\ Cardinality(S \cap T) \in Nat
  BY <1>1, FS_CardinalityType
<1>3. /\ IsFiniteSet(S \cup T)
      /\ Cardinality(S \cup T) = Cardinality(S) + Cardinality(T) - Cardinality(S \cap T)
  BY FS_Union
<1> QED BY <1>2, <1>3

(* Init promises nothing; a step that promises nothing new keeps LimitInv.   *)
LEMMA LimitShrinks ==
    ASSUME TypeOK, LimitInv, \A q \in Queues : Claimed(q)' \subseteq Claimed(q)
    PROVE  LimitInv'
<1> SUFFICES ASSUME NEW q \in Queues
             PROVE  Cardinality(Claimed(q)') <= SubscriptionLimit[q] + Excess(MaxBatch)
  BY DEF LimitInv, Excess
<1>1. Claimed(q) \subseteq Subscriptions
  BY SubscribedType, PromisedType DEF Claimed, PromisedBy, TypeOK
<1>2. IsFiniteSet(Claimed(q))
  BY <1>1, FS_Subset, SetsAssumption
<1>3. Claimed(q)' \subseteq Claimed(q)
  OBVIOUS
<1>4. /\ IsFiniteSet(Claimed(q)') /\ Cardinality(Claimed(q)') <= Cardinality(Claimed(q))
  BY <1>2, <1>3, FS_Subset
<1>5. Cardinality(Claimed(q)) \in Nat /\ Cardinality(Claimed(q)') \in Nat
  BY <1>2, <1>4, FS_CardinalityType
<1>6. Excess(MaxBatch) \in Int /\ SubscriptionLimit[q] \in Nat
  BY FS_CardinalityType, SetsAssumption, RequestsAssumption, LimitsAssumption DEF Excess
<1> QED BY <1>4, <1>5, <1>6 DEF LimitInv

(* The step of one worker, seen from one queue. *)
LEMMA ClaimStep ==
    ASSUME TypeOK, NEW w \in Workers, NEW next, Goto(w, next), NEW q \in Queues,
           Promised(next, q) \subseteq Claimed(q),
           Subscribed(q)' \subseteq Claimed(q)
    PROVE  Claimed(q)' \subseteq Claimed(q)
<1>1. \A v \in Workers : task'[v] = IF v = w THEN next ELSE task[v]
  BY DEF Goto, TypeOK
<1>2. PromisedBy(Workers, q)' = UNION {Promised(task'[v], q) : v \in Workers}
  BY DEF PromisedBy
<1>3. PromisedBy(Workers, q)' \subseteq Claimed(q)
  BY <1>1, <1>2 DEF Claimed, PromisedBy
<1> QED BY <1>3 DEF Claimed

LEMMA NoPromise ==
    ASSUME NEW t, t.stage \notin {"create", "update", "write"}, NEW q
    PROVE  Promised(t, q) = {}
  BY DEF Promised, Slots

(* A step that leaves the subscriptions alone and promises nothing. *)
LEMMA QuietStep ==
    ASSUME TypeOK, LimitInv, NEW w \in Workers, NEW next, Goto(w, next),
           next.stage \notin {"create", "update", "write"},
           UNCHANGED subscriptions
    PROVE  LimitInv'
<1>1. ASSUME NEW q \in Queues PROVE Claimed(q)' \subseteq Claimed(q)
  <2>1. Promised(next, q) = {}
    BY NoPromise
  <2>2. Subscribed(q)' = Subscribed(q)
    BY DEF Subscribed
  <2> QED BY <2>1, <2>2, ClaimStep DEF Claimed
<1> QED BY <1>1, LimitShrinks

(* The comparison: what the worker is granted fits with what is stored now,  *)
(* and what the others are promised is the excess.                           *)
LEMMA IncludeStep ==
    ASSUME TypeOK, LimitInv, NEW w \in Workers, Include(w)
    PROVE  LimitInv'
<1> DEFINE batch == task[w].batch
           found == task[w].found
           next == [stage |-> task[w].op, batch |-> batch]
<1>1. /\ batch \in Batches /\ found \subseteq Queues /\ Named(batch) \subseteq found
      /\ task[w].op \in {"create", "update"}
  BY TaskByStage DEF Include, TypeOK
<1>2. Goto(w, next) /\ UNCHANGED subscriptions
  BY DEF Include
<1> SUFFICES ASSUME NEW q \in Queues
             PROVE  Cardinality(Claimed(q)') <= SubscriptionLimit[q] + Excess(MaxBatch)
  BY DEF LimitInv, Excess
<1>3. Subscribed(q)' = Subscribed(q)
  BY <1>2 DEF Subscribed
<1> DEFINE asked == {batch[i].key : i \in Asking(batch, q)}
           rest == PromisedBy(Workers \ {w}, q)
<1>4. Promised(next, q) = asked
  BY <1>1 DEF Promised, Slots, Slot
<1>5. Claimed(q)' = (Subscribed(q) \cup asked) \cup rest
  <2>1. \A v \in Workers : task'[v] = IF v = w THEN next ELSE task[v]
    BY <1>2 DEF Goto, TypeOK
  <2>2. PromisedBy(Workers, q)' = UNION {Promised(task'[v], q) : v \in Workers}
    BY DEF PromisedBy
  <2>3. PromisedBy(Workers, q)' = Promised(next, q) \cup rest
    <3> HIDE DEF next
    <3> QED BY <2>1, <2>2 DEF PromisedBy
  <2> QED BY <1>3, <1>4, <2>3 DEF Claimed
<1>6. /\ IsFiniteSet(rest) /\ Cardinality(rest) <= Excess(MaxBatch)
      /\ IsFiniteSet(Subscribed(q))
  BY OthersPromised, SubscribedType
<1>7. CASE q \in found
  <2>1. /\ IsFiniteSet(asked)
        /\ Cardinality(asked) <= NewCount(q, batch)
        /\ Cardinality(Subscribed(q)) <= CurrentCount(q, found)
        /\ NewCount(q, batch) \in Nat
        /\ CurrentCount(q, found) \in Nat
    BY <1>1, <1>7, CountsSuffice
  <2>2. NewCount(q, batch) + CurrentCount(q, found) <= SubscriptionLimit[q]
    BY <1>7, <2>1, LimitsAssumption DEF Include, OverLimit
  <2> DEFINE own == Subscribed(q) \cup asked
  <2>3. /\ IsFiniteSet(own)
        /\ Cardinality(own) <= Cardinality(Subscribed(q)) + Cardinality(asked)
    BY <1>6, <2>1, UnionBound
  <2>4. Cardinality(own \cup rest) <= Cardinality(own) + Cardinality(rest)
    BY <1>6, <2>3, UnionBound
  <2>5. /\ Cardinality(own) \in Nat /\ Cardinality(rest) \in Nat
        /\ Cardinality(asked) \in Nat /\ Cardinality(Subscribed(q)) \in Nat
        /\ Cardinality(own \cup rest) \in Nat
    <3> HIDE DEF own, asked, rest
    <3> QED BY <1>6, <2>1, <2>3, FS_CardinalityType, FS_Union
  <2>6. Excess(MaxBatch) \in Int /\ SubscriptionLimit[q] \in Nat
    BY FS_CardinalityType, SetsAssumption, RequestsAssumption, LimitsAssumption DEF Excess
  <2>7. Claimed(q)' = own \cup rest
    BY <1>5
  <2> HIDE DEF own, asked, rest, batch, found
  <2> QED BY <1>6, <2>1, <2>2, <2>3, <2>4, <2>5, <2>6, <2>7
<1>8. CASE q \notin found
  <2>1. asked = {}
    BY <1>1, <1>8 DEF Named, Asking
  <2>2. Claimed(q)' \subseteq Claimed(q)
    BY <1>5, <2>1 DEF Claimed, PromisedBy
  <2>3. Claimed(q) \subseteq Subscriptions
    BY SubscribedType, PromisedType DEF Claimed, PromisedBy, TypeOK
  <2>4. IsFiniteSet(Claimed(q))
    BY <2>3, FS_Subset, SetsAssumption
  <2>5. IsFiniteSet(Claimed(q)') /\ Cardinality(Claimed(q)') <= Cardinality(Claimed(q))
    BY <2>2, <2>4, FS_Subset
  <2>6. Cardinality(Claimed(q)) \in Nat /\ Cardinality(Claimed(q)') \in Nat
    BY <2>4, <2>5, FS_CardinalityType
  <2>7. Excess(MaxBatch) \in Int /\ SubscriptionLimit[q] \in Nat
    BY FS_CardinalityType, SetsAssumption, RequestsAssumption, LimitsAssumption DEF Excess
  <2> QED BY <2>5, <2>6, <2>7 DEF LimitInv
<1> QED BY <1>7, <1>8

LEMMA CreateStep ==
    ASSUME TypeOK, LimitInv, NEW w \in Workers, CreateSubscriptions(w)
    PROVE  LimitInv'
<1>1. CASE UNCHANGED subscriptions
  <2>1. Goto(w, Idle) /\ Idle.stage = "idle"
    BY DEF CreateSubscriptions, Answer, Idle
  <2> QED BY <1>1, <2>1, QuietStep
<1>2. CASE subscriptions' # subscriptions
  <2> DEFINE batch == task[w].batch
             keys == {batch[i].key : i \in DOMAIN batch}
  <2>1. PICK n \in [keys -> DOMAIN batch] :
           /\ \A s \in keys : batch[n[s]].key = s
           /\ subscriptions' = [s \in DOMAIN subscriptions \cup keys |->
                                   IF s \in keys THEN NewRow(batch[n[s]])
                                   ELSE subscriptions[s]]
    BY <1>2 DEF CreateSubscriptions
  <2>2. ASSUME NEW q \in Queues PROVE Claimed(q)' \subseteq Claimed(q)
    <3>1. Promised(task[w], q) = {batch[i].key : i \in Asking(batch, q)}
      BY DEF CreateSubscriptions, Promised, Slots, Slot
    <3>2. Subscribed(q)' \subseteq Subscribed(q) \cup Promised(task[w], q)
      BY <2>1, <3>1 DEF Subscribed, NewRow, Asking
    <3>3. Subscribed(q)' \subseteq Claimed(q)
      BY <3>2 DEF Claimed, PromisedBy
    <3>4. Promised(Idle, q) = {} /\ Goto(w, Idle)
      BY NoPromise DEF Idle, CreateSubscriptions, Answer
    <3> QED BY <3>3, <3>4, ClaimStep
  <2> QED BY <2>2, LimitShrinks
<1> QED BY <1>1, <1>2

(* A row copied by update gains only queues the worker was granted.         *)
LEMMA UpdateReadStep ==
    ASSUME TypeOK, LimitInv, NEW w \in Workers, UpdateRead(w)
    PROVE  LimitInv'
<1> DEFINE change == task[w].batch[1]
<1>1. task[w].batch \in Batches /\ task[w].stage = "update"
  BY TaskByStage DEF UpdateRead, TypeOK
<1>2. change \in Change /\ 1 \in DOMAIN task[w].batch
  BY <1>1, BatchType
<1>3. CASE change.key \in DOMAIN subscriptions
  <2> DEFINE row == Changed(subscriptions[change.key], change)
             next == [stage |-> "write", key |-> change.key, row |-> row]
  <2>1. Goto(w, next) /\ UNCHANGED subscriptions
    BY <1>3 DEF UpdateRead
  <2>2. Range(row.queues) \subseteq Range(subscriptions[change.key].queues) \cup Range(change.queues)
    BY <1>2, <1>3, ChangedType DEF TypeOK
  <2>3. ASSUME NEW q \in Queues PROVE Claimed(q)' \subseteq Claimed(q)
    <3>1. CASE q \in Range(subscriptions[change.key].queues)
      <4>1. Promised(next, q) \subseteq Subscribed(q)
        BY <1>3, <3>1 DEF Promised, Slots, Slot, Subscribed
      <4> QED BY <2>1, <4>1, ClaimStep DEF Claimed, Subscribed
    <3>2. CASE q \in Range(change.queues)
      <4>1. 1 \in Slots(task[w], q) /\ Slot(task[w], 1) = change.key
        BY <1>1, <1>2, <3>2 DEF Slots, Slot, Asking
      <4>2. Promised(next, q) \subseteq Promised(task[w], q)
        BY <4>1 DEF Promised, Slots, Slot
      <4> QED BY <2>1, <4>2, ClaimStep DEF Claimed, PromisedBy, Subscribed
    <3>3. CASE q \notin Range(row.queues)
      <4>1. Promised(next, q) = {}
        BY <3>3 DEF Promised, Slots
      <4> QED BY <2>1, <4>1, ClaimStep DEF Claimed, Subscribed
    <3> QED BY <2>2, <3>1, <3>2, <3>3
  <2> QED BY <2>3, LimitShrinks
<1>4. CASE change.key \notin DOMAIN subscriptions
  <2>1. Goto(w, Idle) /\ Idle.stage = "idle" /\ UNCHANGED subscriptions
    BY <1>4 DEF UpdateRead, Answer, Idle
  <2> QED BY <2>1, QuietStep
<1> QED BY <1>3, <1>4

LEMMA UpdateWriteStep ==
    ASSUME TypeOK, LimitInv, NEW w \in Workers, UpdateWrite(w)
    PROVE  LimitInv'
<1> DEFINE s == task[w].key
           row == task[w].row
<1>1. CASE s \in DOMAIN subscriptions
  <2>1. /\ Goto(w, Idle) /\ task[w].stage = "write"
        /\ subscriptions' = [subscriptions EXCEPT ![s] = row]
    BY <1>1 DEF UpdateWrite, Answer
  <2>2. ASSUME NEW q \in Queues PROVE Claimed(q)' \subseteq Claimed(q)
    <3>1. Promised(task[w], q) = IF q \in Range(row.queues) THEN {s} ELSE {}
      BY <2>1 DEF Promised, Slots, Slot
    <3>2. Subscribed(q)' \subseteq Subscribed(q) \cup Promised(task[w], q)
      BY <2>1, <3>1 DEF Subscribed
    <3>3. Promised(Idle, q) = {}
      BY NoPromise DEF Idle
    <3> QED BY <2>1, <3>2, <3>3, ClaimStep DEF Claimed, PromisedBy
  <2> QED BY <2>2, LimitShrinks
<1>2. CASE s \notin DOMAIN subscriptions
  BY <1>2 DEF UpdateWrite, Break, LimitInv, Claimed, PromisedBy, Subscribed
<1> QED BY <1>1, <1>2

LEMMA DeleteStep ==
    ASSUME TypeOK, LimitInv, NEW w \in Workers, DeleteSubscriptionErase(w)
    PROVE  LimitInv'
<1> DEFINE s == task[w].key
<1>1. CASE s \in DOMAIN subscriptions
  <2>1. /\ Goto(w, Idle)
        /\ subscriptions' = [r \in DOMAIN subscriptions \ {s} |-> subscriptions[r]]
    BY <1>1 DEF DeleteSubscriptionErase, Answer
  <2>2. ASSUME NEW q \in Queues PROVE Claimed(q)' \subseteq Claimed(q)
    <3>1. Subscribed(q)' \subseteq Subscribed(q)
      BY <2>1 DEF Subscribed
    <3>2. Promised(Idle, q) = {}
      BY NoPromise DEF Idle
    <3> QED BY <2>1, <3>1, <3>2, ClaimStep DEF Claimed
  <2> QED BY <2>2, LimitShrinks
<1>2. CASE s \notin DOMAIN subscriptions
  BY <1>2 DEF DeleteSubscriptionErase, Break, LimitInv, Claimed, PromisedBy, Subscribed
<1> QED BY <1>1, <1>2

LEMMA LimitStep ==
    ASSUME TypeOK, LimitInv, [Next]_vars
    PROVE  LimitInv'
<1>0. CASE UNCHANGED << subscriptions, task >>
  BY <1>0 DEF LimitInv, Claimed, PromisedBy, Subscribed
<1>1. CASE UNCHANGED vars
  BY <1>0, <1>1 DEF vars
<1>2. CASE Next
  <2> SUFFICES ASSUME NEW w \in Workers,
                      \/ ManageQueues(w) \/ ManageSubscriptions(w)
                      \/ Publish(w) \/ Deliver(w)
               PROVE  LimitInv'
    BY <1>2 DEF Next
  <2>0. ASSUME NEW next, Goto(w, next),
               next.stage \notin {"create", "update", "write"},
               UNCHANGED subscriptions
        PROVE  LimitInv'
    BY <2>0, QuietStep
  <2>1. CASE Answer(w) /\ UNCHANGED subscriptions
    BY <2>0, <2>1 DEF Answer, Idle
  <2>2. CASE ManageQueues(w)
    BY <1>0, <2>0, <2>1, <2>2
       DEF ManageQueues, CreateQueue, DeleteQueueRead, DeleteQueueErase, Break
  <2>3. CASE ManageSubscriptions(w)
    <3>1. CASE \E op, batch : FindQueues(w, op, batch)
      BY <2>0, <3>1 DEF FindQueues
    <3>2. CASE Include(w)
      BY <3>2, IncludeStep
    <3>3. CASE RefuseSubscriptions(w)
      BY <2>1, <3>3 DEF RefuseSubscriptions
    <3>4. CASE CreateSubscriptions(w)
      BY <3>4, CreateStep
    <3>5. CASE UpdateRead(w)
      BY <3>5, UpdateReadStep
    <3>6. CASE UpdateWrite(w)
      BY <3>6, UpdateWriteStep
    <3>7. CASE \E s \in Subscriptions : DeleteSubscriptionRead(w, s)
      BY <2>0, <3>7 DEF DeleteSubscriptionRead
    <3>8. CASE DeleteSubscriptionErase(w)
      BY <3>8, DeleteStep
    <3> QED BY <2>3, <3>1, <3>2, <3>3, <3>4, <3>5, <3>6, <3>7, <3>8
            DEF ManageSubscriptions, CreateRequest, UpdateRequest
  <2>4. CASE Publish(w)
    BY <2>0, <2>1, <2>4 DEF Publish, ReadQueues, CountStates, MatchSubscriptions, StoreStates
  <2>5. CASE \E s \in Subscriptions : TripBreaker(w, s)
    <3>1. PICK s \in Subscriptions : TripBreaker(w, s)
      BY <2>5
    <3> DEFINE change == [key |-> s, queues |-> << >>, state |-> "unreachable"]
               next == [stage |-> "update", batch |-> << change >>]
    <3>2. Goto(w, next) /\ UNCHANGED subscriptions
      BY <3>1 DEF TripBreaker
    <3>3. ASSUME NEW q \in Queues PROVE Claimed(q)' \subseteq Claimed(q)
      <4>1. Promised(next, q) = {}
        BY DEF Promised, Slots, Asking, Range
      <4> HIDE DEF next
      <4> QED BY <3>2, <4>1, ClaimStep DEF Claimed, Subscribed
    <3> QED BY <3>3, LimitShrinks
  <2>6. CASE \E st \in states : Settle(w, st)
    BY <1>0, <2>6 DEF Settle
  <2> QED BY <2>2, <2>3, <2>4, <2>5, <2>6 DEF Deliver
<1> QED BY <1>1, <1>2

LEMMA LimitInit == Init => LimitInv
<1> SUFFICES ASSUME Init, NEW q \in Queues
             PROVE  Cardinality(Claimed(q)) <= SubscriptionLimit[q] + Excess(MaxBatch)
  BY DEF LimitInv
<1>1. Subscribed(q) = {}
  BY DEF Init, Subscribed
<1>2. \A w \in Workers : Promised(task[w], q) = {}
  BY NoPromise DEF Init, Idle
<1>3. Claimed(q) = {}
  BY <1>1, <1>2 DEF Claimed, PromisedBy
<1>4. Cardinality(Workers) \in Nat \ {0}
  BY FS_CardinalityType, FS_EmptySet, SetsAssumption
<1>5. Excess(MaxBatch) \in Nat
  BY <1>4, RequestsAssumption DEF Excess
<1> QED BY <1>3, <1>5, FS_EmptySet, LimitsAssumption

(* However POST, PUT, DELETE and the circuit breaker interleave, a queue has *)
(* at most its limit of subscriptions, and a batch more per other worker;    *)
(* with one worker the limit is exact.                                       *)
THEOREM SubscriptionLimitHolds == Spec => []SubscriptionsWithinLimit
<1>1. Init => TypeOK /\ LimitInv
  BY LimitInit, IdleType DEF Init, TypeOK
<1>2. TypeOK /\ LimitInv /\ [Next]_vars => TypeOK' /\ LimitInv'
  BY TypeStep, LimitStep
<1>3. TypeOK /\ LimitInv => SubscriptionsWithinLimit
  <2> SUFFICES ASSUME TypeOK, LimitInv, NEW q \in Queues
               PROVE  Cardinality(Subscribed(q)) <= SubscriptionLimit[q] + Excess(MaxBatch)
    BY DEF SubscriptionsWithinLimit
  <2>1. Claimed(q) \subseteq Subscriptions
    BY SubscribedType, PromisedType DEF Claimed, PromisedBy, TypeOK
  <2>2. IsFiniteSet(Claimed(q))
    BY <2>1, FS_Subset, SetsAssumption
  <2>3. Cardinality(Subscribed(q)) <= Cardinality(Claimed(q))
    BY <2>2, FS_Subset DEF Claimed
  <2>4. Cardinality(Subscribed(q)) \in Nat /\ Cardinality(Claimed(q)) \in Nat
    BY <2>2, SubscribedType, FS_CardinalityType
  <2>5. Excess(MaxBatch) \in Int /\ SubscriptionLimit[q] \in Nat
    BY FS_CardinalityType, SetsAssumption, RequestsAssumption, LimitsAssumption DEF Excess
  <2> QED BY <2>3, <2>4, <2>5 DEF LimitInv
<1> QED BY <1>1, <1>2, <1>3, PTL DEF Spec

-----------------------------------------------------------------------------
(* The limit on messages. *)

(* A publication past the comparison will add its message to a queue. *)
Pending(t, q) ==
    IF \/ t.stage = "match" /\ q \in t.found
       \/ t.stage = "store" /\ \E st \in t.fresh : st.queue = q
    THEN {t.message}
    ELSE {}

PendingBy(set, q) == UNION {Pending(task[w], q) : w \in set}

OnQueue(q) == {st.message : st \in Open(q)}

Accepted(q) == OnQueue(q) \cup PendingBy(Workers, q)

FiniteStates ==
    /\ IsFiniteSet(states)
    /\ \A w \in Workers : task[w].stage = "store" => IsFiniteSet(task[w].fresh)

(* Inductive: stored and accepted messages together stay within the bound.  *)
MessageInv ==
    \A q \in Queues : Cardinality(Accepted(q)) <= MessageLimit[q] + Excess(1)

LEMMA PendingType ==
    ASSUME NEW t \in Task, NEW q
    PROVE  Pending(t, q) \subseteq Messages
  BY TaskByStage DEF Pending

LEMMA AcceptedType ==
    ASSUME TypeOK, NEW q \in Queues
    PROVE  /\ Accepted(q) \subseteq Messages
           /\ IsFiniteSet(Accepted(q))
<1>1. OnQueue(q) \subseteq Messages
  BY DEF OnQueue, Open, State, TypeOK
<1>2. PendingBy(Workers, q) \subseteq Messages
  BY PendingType DEF PendingBy, TypeOK
<1>3. Accepted(q) \subseteq Messages
  BY <1>1, <1>2 DEF Accepted
<1> QED BY <1>3, FS_Subset, SetsAssumption

(* Every other worker holds at most one message. *)
LEMMA OthersPending ==
    ASSUME TypeOK, NEW w \in Workers, NEW q \in Queues
    PROVE  /\ IsFiniteSet(PendingBy(Workers \ {w}, q))
           /\ Cardinality(PendingBy(Workers \ {w}, q)) <= Excess(1)
<1> DEFINE others == Workers \ {w}
           U == PendingBy(others, q)
<1>1. /\ IsFiniteSet(others)
      /\ Cardinality(others) = Excess(1)
      /\ Excess(1) \in Nat
  <2>1. IsFiniteSet(Workers) /\ Cardinality(Workers) \in Nat
    BY FS_CardinalityType, SetsAssumption
  <2>2. Cardinality(Workers) # 0
    BY FS_EmptySet, SetsAssumption
  <2>3. IsFiniteSet(others) /\ Cardinality(others) = Cardinality(Workers) - 1
    BY <2>1, FS_RemoveElement
  <2> QED BY <2>1, <2>2, <2>3 DEF Excess
<1>2. CASE U = {}
  BY <1>1, <1>2, FS_EmptySet
<1>3. CASE U # {}
  <2>1. PICK u \in U : TRUE
    BY <1>3
  <2> DEFINE f == [v \in others |-> IF Pending(task[v], q) = {} THEN u ELSE task[v].message]
  <2>2. \A v \in others : f[v] \in U
    BY <2>1 DEF PendingBy, Pending
  <2>3. \A x \in U : \E v \in others : f[v] = x
    BY DEF PendingBy, Pending
  <2>4. f \in Surjection(others, U)
    <3>1. f \in [others -> U]
      BY <2>2
    <3> HIDE DEF f, others, U
    <3> QED BY <3>1, <2>3 DEF Surjection
  <2> HIDE DEF f, others, U
  <2>5. IsFiniteSet(U) /\ Cardinality(U) <= Cardinality(others)
    BY <1>1, <2>4, FS_Surjection
  <2> QED BY <1>1, <2>5 DEF U, others
<1> QED BY <1>2, <1>3

(* What a publication records is finite: rows and their queues are. *)
LEMMA MatchingFinite ==
    ASSUME TypeOK, NEW m \in Messages, NEW found \in SUBSET Queues
    PROVE  IsFiniteSet(Matching(m, found))
<1> DEFINE subs == DOMAIN subscriptions
           spans == {DOMAIN subscriptions[s].queues : s \in subs}
           places == UNION spans
           triples == (subs \X places) \X found
           row(p) == [message |-> m, subscription |-> p[1][1],
                      property |-> p[1][2], queue |-> p[2]]
           image == {row(p) : p \in triples}
<1>1. IsFiniteSet(subs) /\ IsFiniteSet(found)
  BY FS_Subset, SetsAssumption DEF TypeOK
<1>2. IsFiniteSet(spans)
  <2> DEFINE f == [s \in subs |-> DOMAIN subscriptions[s].queues]
  <2>1. f \in Surjection(subs, spans)
    BY DEF Surjection
  <2> HIDE DEF f, subs, spans
  <2> QED BY <1>1, <2>1, FS_Surjection
<1>3. \A T \in spans : IsFiniteSet(T)
  <2>1. ASSUME NEW s \in subs PROVE IsFiniteSet(DOMAIN subscriptions[s].queues)
    <3>1. subscriptions[s].queues \in Seq(Queues)
      BY DEF TypeOK, Row
    <3>2. /\ Len(subscriptions[s].queues) \in Nat
          /\ DOMAIN subscriptions[s].queues = 1 .. Len(subscriptions[s].queues)
      BY <3>1
    <3> QED BY <3>2, FS_Interval
  <2> QED BY <2>1
<1>4. IsFiniteSet(places)
  <2> HIDE DEF spans
  <2> QED BY <1>2, <1>3, FS_UNION
<1>5. IsFiniteSet(triples)
  <2> HIDE DEF subs, places
  <2> QED BY <1>1, <1>4, FS_Product
<1>6. IsFiniteSet(image)
  <2> DEFINE f == [p \in triples |-> row(p)]
  <2>1. f \in Surjection(triples, image)
    <3> HIDE DEF triples, row
    <3> QED BY DEF Surjection
  <2> HIDE DEF f, triples, image
  <2> QED BY <1>5, <2>1, FS_Surjection
<1>7. Matching(m, found) \subseteq image
  <2> SUFFICES ASSUME NEW st \in Matching(m, found) PROVE st \in image
    OBVIOUS
  <2>1. st \in [message : {m}, subscription : subs, property : places, queue : found]
    BY DEF Matching
  <2> DEFINE p == << << st.subscription, st.property >>, st.queue >>
  <2> HIDE DEF subs, places
  <2>2. p \in triples
    BY <2>1
  <2>3. st = row(p)
    BY <2>1
  <2> QED BY <2>2, <2>3
<1> QED
  <2> HIDE DEF image
  <2> QED BY <1>6, <1>7, FS_Subset

LEMMA FiniteStep ==
    ASSUME TypeOK, FiniteStates, [Next]_vars
    PROVE  FiniteStates'
<1> USE DEF FiniteStates
<1>0. ASSUME UNCHANGED << states, task >> PROVE FiniteStates'
  BY <1>0
<1>1. CASE UNCHANGED vars
  BY <1>0, <1>1 DEF vars
<1>2. CASE Next
  <2> SUFFICES ASSUME NEW w \in Workers,
                      \/ ManageQueues(w) \/ ManageSubscriptions(w)
                      \/ Publish(w) \/ Deliver(w)
               PROVE  FiniteStates'
    BY <1>2 DEF Next
  <2>0. ASSUME NEW next, Goto(w, next), IsFiniteSet(states'),
               next.stage = "store" => IsFiniteSet(next.fresh)
        PROVE  FiniteStates'
    BY <2>0 DEF Goto, TypeOK
  <2>1. ASSUME NEW next, Goto(w, next), next.stage # "store", UNCHANGED states
        PROVE  FiniteStates'
    BY <2>0, <2>1
  <2>2. CASE Answer(w) /\ UNCHANGED states
    BY <2>1, <2>2 DEF Answer, Idle
  <2>3. CASE ManageQueues(w)
    BY <1>0, <2>1, <2>2, <2>3
       DEF ManageQueues, CreateQueue, DeleteQueueRead, DeleteQueueErase, Break
  <2>4. CASE ManageSubscriptions(w)
    <3>1. CASE \E op, batch : FindQueues(w, op, batch)
      BY <2>1, <3>1 DEF FindQueues
    <3>2. CASE Include(w)
      <4>1. task[w].op \in {"create", "update"}
        BY <3>2, TaskByStage DEF Include, TypeOK
      <4>2. PICK next : Goto(w, next) /\ next.stage = task[w].op
        BY <3>2 DEF Include
      <4> QED BY <2>1, <3>2, <4>1, <4>2 DEF Include
    <3>3. CASE RefuseSubscriptions(w)
      BY <2>2, <3>3 DEF RefuseSubscriptions
    <3>4. CASE CreateSubscriptions(w)
      BY <2>2, <3>4 DEF CreateSubscriptions
    <3>5. CASE UpdateRead(w)
      BY <2>1, <2>2, <3>5 DEF UpdateRead
    <3>6. CASE UpdateWrite(w)
      BY <1>0, <2>2, <3>6 DEF UpdateWrite, Break
    <3>7. CASE \E s \in Subscriptions : DeleteSubscriptionRead(w, s)
      BY <2>1, <3>7 DEF DeleteSubscriptionRead
    <3>8. CASE DeleteSubscriptionErase(w)
      BY <1>0, <2>2, <3>8 DEF DeleteSubscriptionErase, Break
    <3> QED BY <2>4, <3>1, <3>2, <3>3, <3>4, <3>5, <3>6, <3>7, <3>8
            DEF ManageSubscriptions, CreateRequest, UpdateRequest
  <2>5. CASE \E m \in Messages, found \in SUBSET Queues : ReadQueues(w, m, found)
    BY <2>1, <2>5 DEF ReadQueues
  <2>6. CASE CountStates(w)
    BY <2>1, <2>2, <2>6 DEF CountStates
  <2>7. CASE MatchSubscriptions(w)
    <3>1. task[w].message \in Messages /\ task[w].found \in SUBSET Queues
      BY <2>7, TaskByStage DEF MatchSubscriptions, TypeOK
    <3>2. IsFiniteSet(Matching(task[w].message, task[w].found))
      BY <3>1, MatchingFinite
    <3> QED BY <2>0, <2>2, <2>7, <3>2 DEF MatchSubscriptions
  <2>8. CASE StoreStates(w)
    <3>1. IsFiniteSet(states')
      BY <2>8, UnionBound DEF StoreStates
    <3> QED BY <2>0, <2>8, <3>1 DEF StoreStates, Answer, Idle
  <2>9. CASE \E s \in Subscriptions : TripBreaker(w, s)
    BY <2>1, <2>9 DEF TripBreaker
  <2>10. CASE \E st \in states : Settle(w, st)
    <3>1. IsFiniteSet(states')
      BY <2>10, FS_Subset DEF Settle
    <3> QED BY <2>10, <3>1 DEF Settle
  <2> QED BY <2>3, <2>4, <2>5, <2>6, <2>7, <2>8, <2>9, <2>10 DEF Publish, Deliver
<1> QED BY <1>1, <1>2

LEMMA AcceptedShrinks ==
    ASSUME TypeOK, MessageInv, \A q \in Queues : Accepted(q)' \subseteq Accepted(q)
    PROVE  MessageInv'
<1> SUFFICES ASSUME NEW q \in Queues
             PROVE  Cardinality(Accepted(q)') <= MessageLimit[q] + Excess(1)
  BY DEF MessageInv, Excess
<1>1. IsFiniteSet(Accepted(q))
  BY AcceptedType
<1>2. Accepted(q)' \subseteq Accepted(q)
  OBVIOUS
<1>3. /\ IsFiniteSet(Accepted(q)')
      /\ Cardinality(Accepted(q)') <= Cardinality(Accepted(q))
  BY <1>1, <1>2, FS_Subset
<1>4. Cardinality(Accepted(q)) \in Nat /\ Cardinality(Accepted(q)') \in Nat
  BY <1>1, <1>3, FS_CardinalityType
<1>5. Excess(1) \in Int /\ MessageLimit[q] \in Nat
  BY FS_CardinalityType, SetsAssumption, LimitsAssumption DEF Excess
<1> QED BY <1>3, <1>4, <1>5 DEF MessageInv

LEMMA PendingStep ==
    ASSUME TypeOK, NEW w \in Workers, NEW next, Goto(w, next), NEW q \in Queues,
           Pending(next, q) \subseteq Accepted(q),
           OnQueue(q)' \subseteq Accepted(q)
    PROVE  Accepted(q)' \subseteq Accepted(q)
<1>1. \A v \in Workers : task'[v] = IF v = w THEN next ELSE task[v]
  BY DEF Goto, TypeOK
<1>2. PendingBy(Workers, q)' = UNION {Pending(task'[v], q) : v \in Workers}
  BY DEF PendingBy
<1>3. PendingBy(Workers, q)' \subseteq Accepted(q)
  BY <1>1, <1>2 DEF Accepted, PendingBy
<1> QED BY <1>3 DEF Accepted

LEMMA SilentStep ==
    ASSUME TypeOK, MessageInv, NEW w \in Workers, NEW next, Goto(w, next),
           next.stage \notin {"match", "store"}, UNCHANGED states
    PROVE  MessageInv'
<1>1. ASSUME NEW q \in Queues PROVE Accepted(q)' \subseteq Accepted(q)
  <2>1. Pending(next, q) = {}
    BY DEF Pending
  <2>2. OnQueue(q)' = OnQueue(q)
    BY DEF OnQueue, Open
  <2> QED BY <2>1, <2>2, PendingStep DEF Accepted
<1> QED BY <1>1, AcceptedShrinks

(* The comparison counts states, at least one for every message there is.   *)
LEMMA CountStep ==
    ASSUME TypeOK, FiniteStates, MessageInv, NEW w \in Workers, CountStates(w)
    PROVE  MessageInv'
<1> DEFINE m == task[w].message
           found == task[w].found
           next == [stage |-> "match", message |-> m, found |-> found]
<1>1. CASE \E q \in found : Full(q)
  <2>1. Goto(w, Idle) /\ Idle.stage = "idle" /\ UNCHANGED states
    BY <1>1 DEF CountStates, Answer, Idle
  <2> QED BY <2>1, SilentStep
<1>2. CASE ~ \E q \in found : Full(q)
  <2>1. Goto(w, next) /\ UNCHANGED states
    BY <1>2 DEF CountStates
  <2> SUFFICES ASSUME NEW q \in Queues
               PROVE  Cardinality(Accepted(q)') <= MessageLimit[q] + Excess(1)
    BY DEF MessageInv, Excess
  <2>2. OnQueue(q)' = OnQueue(q)
    BY <2>1 DEF OnQueue, Open
  <2> DEFINE rest == PendingBy(Workers \ {w}, q)
  <2>3. Accepted(q)' = OnQueue(q) \cup Pending(next, q) \cup rest
    <3>1. \A v \in Workers : task'[v] = IF v = w THEN next ELSE task[v]
      BY <2>1 DEF Goto, TypeOK
    <3>2. PendingBy(Workers, q)' = UNION {Pending(task'[v], q) : v \in Workers}
      BY DEF PendingBy
    <3>3. PendingBy(Workers, q)' = Pending(next, q) \cup rest
      <4> HIDE DEF next
      <4> QED BY <3>1, <3>2 DEF PendingBy
    <3> QED BY <2>2, <3>3 DEF Accepted
  <2>4. Excess(1) \in Int /\ MessageLimit[q] \in Nat
    BY FS_CardinalityType, SetsAssumption, LimitsAssumption DEF Excess
  <2>5. CASE q \in found
    <3>1. IsFiniteSet(Open(q))
      BY FS_Subset DEF Open, FiniteStates
    <3>2. Cardinality(Open(q)) \in Nat /\ Cardinality(Open(q)) + 1 <= MessageLimit[q]
      BY <1>2, <2>4, <2>5, <3>1, FS_CardinalityType DEF Full
    <3>3. IsFiniteSet(OnQueue(q)) /\ Cardinality(OnQueue(q)) <= Cardinality(Open(q))
      <4> DEFINE f == [st \in Open(q) |-> st.message]
      <4>1. f \in Surjection(Open(q), OnQueue(q))
        BY DEF Surjection, OnQueue
      <4> HIDE DEF f
      <4> QED BY <3>1, <4>1, FS_Surjection
    <3>4. Pending(next, q) = {m}
      BY <2>5 DEF Pending
    <3>5. IsFiniteSet({m}) /\ Cardinality({m}) = 1
      BY FS_Singleton
    <3> DEFINE own == OnQueue(q) \cup {m}
    <3>6. IsFiniteSet(own) /\ Cardinality(own) <= Cardinality(OnQueue(q)) + 1
      BY <3>3, <3>5, UnionBound
    <3>7. IsFiniteSet(rest) /\ Cardinality(rest) <= Excess(1)
      BY OthersPending
    <3>8. Accepted(q)' = own \cup rest
      BY <2>3, <3>4
    <3> HIDE DEF own, rest
    <3>9. /\ IsFiniteSet(own \cup rest)
          /\ Cardinality(own \cup rest) <= Cardinality(own) + Cardinality(rest)
      BY <3>6, <3>7, UnionBound
    <3>10. /\ Cardinality(own) \in Nat /\ Cardinality(rest) \in Nat
           /\ Cardinality(OnQueue(q)) \in Nat /\ Cardinality(own \cup rest) \in Nat
      BY <3>3, <3>6, <3>7, <3>9, FS_CardinalityType
    <3> QED BY <2>4, <3>2, <3>3, <3>6, <3>7, <3>8, <3>9, <3>10
  <2>6. CASE q \notin found
    <3>1. Pending(next, q) = {}
      BY <2>6 DEF Pending
    <3>2. Accepted(q)' \subseteq Accepted(q)
      BY <2>3, <3>1 DEF Accepted, PendingBy
    <3>3. IsFiniteSet(Accepted(q))
      BY AcceptedType
    <3>4. IsFiniteSet(Accepted(q)') /\ Cardinality(Accepted(q)') <= Cardinality(Accepted(q))
      BY <3>2, <3>3, FS_Subset
    <3>5. Cardinality(Accepted(q)) \in Nat /\ Cardinality(Accepted(q)') \in Nat
      BY <3>3, <3>4, FS_CardinalityType
    <3> QED BY <2>4, <3>4, <3>5 DEF MessageInv
  <2> QED BY <2>5, <2>6
<1> QED BY <1>1, <1>2

LEMMA MatchStep ==
    ASSUME TypeOK, MessageInv, NEW w \in Workers, MatchSubscriptions(w)
    PROVE  MessageInv'
<1> DEFINE m == task[w].message
           fresh == Matching(m, task[w].found)
           next == [stage |-> "store", message |-> m, fresh |-> fresh]
<1>1. CASE fresh = {}
  <2>1. Goto(w, Idle) /\ Idle.stage = "idle" /\ UNCHANGED states
    BY <1>1 DEF MatchSubscriptions, Answer, Idle
  <2> QED BY <2>1, SilentStep
<1>2. CASE fresh # {}
  <2>1. Goto(w, next) /\ UNCHANGED states /\ task[w].stage = "match"
    BY <1>2 DEF MatchSubscriptions
  <2>2. m \in Messages /\ task[w].found \in SUBSET Queues
    BY <2>1, TaskByStage DEF TypeOK
  <2>3. \A st \in fresh : st.queue \in task[w].found
    BY <2>2, MatchingType
  <2>4. ASSUME NEW q \in Queues PROVE Accepted(q)' \subseteq Accepted(q)
    <3>1. Pending(next, q) \subseteq Pending(task[w], q)
      <4> HIDE DEF fresh
      <4> QED BY <2>1, <2>3 DEF Pending
    <3>2. OnQueue(q)' = OnQueue(q)
      BY <2>1 DEF OnQueue, Open
    <3> HIDE DEF next
    <3> QED BY <2>1, <3>1, <3>2, PendingStep DEF Accepted, PendingBy
  <2> QED BY <2>4, AcceptedShrinks
<1> QED BY <1>1, <1>2

LEMMA StoreStep ==
    ASSUME TypeOK, MessageInv, NEW w \in Workers, StoreStates(w)
    PROVE  MessageInv'
<1>1. ASSUME NEW q \in Queues PROVE Accepted(q)' \subseteq Accepted(q)
  <2>1. /\ task[w].stage = "store" /\ states' = states \cup task[w].fresh
        /\ Goto(w, Idle) /\ Pending(Idle, q) = {}
    BY DEF StoreStates, Answer, Pending, Idle
  <2>2. \A st \in task[w].fresh : st.message = task[w].message
    BY <2>1, TaskByStage DEF TypeOK
  <2>3. OnQueue(q)' \subseteq OnQueue(q) \cup Pending(task[w], q)
    BY <2>1, <2>2 DEF OnQueue, Open, Pending
  <2> QED BY <2>1, <2>3, PendingStep DEF Accepted, PendingBy
<1> QED BY <1>1, AcceptedShrinks

LEMMA MessageStep ==
    ASSUME TypeOK, FiniteStates, MessageInv, [Next]_vars
    PROVE  MessageInv'
<1>0. ASSUME UNCHANGED << states, task >> PROVE MessageInv'
  BY <1>0 DEF MessageInv, Accepted, PendingBy, OnQueue, Open
<1>1. CASE UNCHANGED vars
  BY <1>0, <1>1 DEF vars
<1>2. CASE Next
  <2> SUFFICES ASSUME NEW w \in Workers,
                      \/ ManageQueues(w) \/ ManageSubscriptions(w)
                      \/ Publish(w) \/ Deliver(w)
               PROVE  MessageInv'
    BY <1>2 DEF Next
  <2>1. ASSUME NEW next, Goto(w, next), next.stage \notin {"match", "store"}, UNCHANGED states
        PROVE  MessageInv'
    BY <2>1, SilentStep
  <2>2. CASE Answer(w) /\ UNCHANGED states
    BY <2>1, <2>2 DEF Answer, Idle
  <2>3. CASE ManageQueues(w)
    BY <1>0, <2>1, <2>2, <2>3
       DEF ManageQueues, CreateQueue, DeleteQueueRead, DeleteQueueErase, Break
  <2>4. CASE ManageSubscriptions(w)
    <3>1. CASE \E op, batch : FindQueues(w, op, batch)
      BY <2>1, <3>1 DEF FindQueues
    <3>2. CASE Include(w)
      <4>1. task[w].op \in {"create", "update"}
        BY <3>2, TaskByStage DEF Include, TypeOK
      <4>2. PICK next : Goto(w, next) /\ next.stage = task[w].op
        BY <3>2 DEF Include
      <4> QED BY <2>1, <3>2, <4>1, <4>2 DEF Include
    <3>3. CASE RefuseSubscriptions(w)
      BY <2>2, <3>3 DEF RefuseSubscriptions
    <3>4. CASE CreateSubscriptions(w)
      BY <2>2, <3>4 DEF CreateSubscriptions
    <3>5. CASE UpdateRead(w)
      BY <2>1, <2>2, <3>5 DEF UpdateRead
    <3>6. CASE UpdateWrite(w)
      BY <1>0, <2>2, <3>6 DEF UpdateWrite, Break
    <3>7. CASE \E s \in Subscriptions : DeleteSubscriptionRead(w, s)
      BY <2>1, <3>7 DEF DeleteSubscriptionRead
    <3>8. CASE DeleteSubscriptionErase(w)
      BY <1>0, <2>2, <3>8 DEF DeleteSubscriptionErase, Break
    <3> QED BY <2>4, <3>1, <3>2, <3>3, <3>4, <3>5, <3>6, <3>7, <3>8
            DEF ManageSubscriptions, CreateRequest, UpdateRequest
  <2>5. CASE \E m \in Messages, found \in SUBSET Queues : ReadQueues(w, m, found)
    BY <2>1, <2>5 DEF ReadQueues
  <2>6. CASE CountStates(w)
    BY <2>6, CountStep
  <2>7. CASE MatchSubscriptions(w)
    BY <2>7, MatchStep
  <2>8. CASE StoreStates(w)
    BY <2>8, StoreStep
  <2>9. CASE \E s \in Subscriptions : TripBreaker(w, s)
    BY <2>1, <2>9 DEF TripBreaker
  <2>10. CASE \E st \in states : Settle(w, st)
    <3>1. ASSUME NEW q \in Queues PROVE Accepted(q)' \subseteq Accepted(q)
      BY <2>10 DEF Settle, Accepted, PendingBy, OnQueue, Open
    <3> QED BY <3>1, AcceptedShrinks
  <2> QED BY <2>3, <2>4, <2>5, <2>6, <2>7, <2>8, <2>9, <2>10 DEF Publish, Deliver
<1> QED BY <1>1, <1>2

LEMMA MessageInit == Init => FiniteStates /\ MessageInv
<1> SUFFICES ASSUME Init PROVE FiniteStates /\ MessageInv
  OBVIOUS
<1>1. FiniteStates
  BY FS_EmptySet DEF Init, FiniteStates, Idle
<1>2. ASSUME NEW q \in Queues
      PROVE  Cardinality(Accepted(q)) <= MessageLimit[q] + Excess(1)
  <2>1. OnQueue(q) = {} /\ \A w \in Workers : Pending(task[w], q) = {}
    BY DEF Init, OnQueue, Open, Pending, Idle
  <2>2. Accepted(q) = {}
    BY <2>1 DEF Accepted, PendingBy
  <2>3. Cardinality(Workers) \in Nat \ {0}
    BY FS_CardinalityType, FS_EmptySet, SetsAssumption
  <2> QED BY <2>2, <2>3, FS_EmptySet, LimitsAssumption DEF Excess
<1> QED BY <1>1, <1>2 DEF MessageInv

(* However publications, deliveries and changes of subscriptions interleave, *)
(* a queue has open deliveries of at most its limit of messages, and one     *)
(* more per other worker.                                                    *)
THEOREM MessageLimitHolds == Spec => []MessagesWithinLimit
<1> DEFINE Inv == TypeOK /\ FiniteStates /\ MessageInv
<1>1. Init => Inv
  BY MessageInit, IdleType DEF Init, TypeOK
<1>2. Inv /\ [Next]_vars => Inv'
  BY TypeStep, FiniteStep, MessageStep
<1>3. Inv => MessagesWithinLimit
  <2> SUFFICES ASSUME TypeOK, MessageInv, NEW q \in Queues
               PROVE  Cardinality(OnQueue(q)) <= MessageLimit[q] + Excess(1)
    BY DEF MessagesWithinLimit, OnQueue
  <2>1. IsFiniteSet(Accepted(q)) /\ OnQueue(q) \subseteq Accepted(q)
    BY AcceptedType DEF Accepted
  <2>2. IsFiniteSet(OnQueue(q)) /\ Cardinality(OnQueue(q)) <= Cardinality(Accepted(q))
    BY <2>1, FS_Subset
  <2>3. Cardinality(OnQueue(q)) \in Nat /\ Cardinality(Accepted(q)) \in Nat
    BY <2>1, <2>2, FS_CardinalityType
  <2>4. Excess(1) \in Int /\ MessageLimit[q] \in Nat
    BY FS_CardinalityType, SetsAssumption, LimitsAssumption DEF Excess
  <2> QED BY <2>2, <2>3, <2>4 DEF MessageInv
<1> QED BY <1>1, <1>2, <1>3, PTL DEF Spec

-----------------------------------------------------------------------------
(* One worker alone. *)

OneWorker == \E w : Workers = {w}

(* Inductive: nobody else removes the row between the two sections.         *)
RowsStay ==
    /\ fate = "running"
    /\ \A w \in Workers :
           /\ task[w].stage \in {"write", "erase_subscription"} =>
                 task[w].key \in DOMAIN subscriptions
           /\ task[w].stage = "erase_queue" => task[w].key \in queues

LEMMA RowsStayStep ==
    ASSUME OneWorker, TypeOK, RowsStay, [Next]_vars
    PROVE  RowsStay'
<1>1. CASE UNCHANGED vars
  BY <1>1 DEF vars, RowsStay
<1>2. CASE Next
  <2> PICK w : Workers = {w}
    BY DEF OneWorker
  <2>1. \/ ManageQueues(w) \/ ManageSubscriptions(w)
        \/ Publish(w) \/ Deliver(w)
    BY <1>2 DEF Next
  <2> USE DEF RowsStay
  <2>0. ASSUME NEW next, Goto(w, next), UNCHANGED fate,
               next.stage \in {"write", "erase_subscription"} =>
                   next.key \in DOMAIN subscriptions',
               next.stage = "erase_queue" => next.key \in queues'
        PROVE  RowsStay'
    BY <2>0 DEF Goto, TypeOK
  <2>2. CASE Answer(w) /\ UNCHANGED fate
    BY <2>0, <2>2 DEF Answer, Idle
  <2>3. CASE ManageQueues(w)
    <3>1. CASE \E q \in Queues : CreateQueue(w, q)
      BY <3>1 DEF CreateQueue
    <3>2. CASE \E q \in Queues : DeleteQueueRead(w, q)
      BY <2>0, <3>2 DEF DeleteQueueRead
    <3>3. CASE DeleteQueueErase(w)
      BY <2>2, <3>3 DEF DeleteQueueErase, Break
    <3> QED BY <2>3, <3>1, <3>2, <3>3 DEF ManageQueues
  <2>4. CASE ManageSubscriptions(w)
    <3>1. CASE \E op, batch : FindQueues(w, op, batch)
      BY <2>0, <3>1 DEF FindQueues
    <3>2. CASE Include(w)
      <4>1. task[w].op \in {"create", "update"}
        BY <3>2, TaskByStage DEF Include, TypeOK
      <4>2. PICK next : Goto(w, next) /\ next.stage = task[w].op
        BY <3>2 DEF Include
      <4> QED BY <2>0, <3>2, <4>1, <4>2 DEF Include
    <3>3. CASE RefuseSubscriptions(w)
      BY <2>2, <3>3 DEF RefuseSubscriptions
    <3>4. CASE CreateSubscriptions(w)
      BY <2>2, <3>4 DEF CreateSubscriptions
    <3>5. CASE UpdateRead(w)
      BY <2>0, <2>2, <3>5 DEF UpdateRead
    <3>6. CASE UpdateWrite(w)
      BY <2>2, <3>6 DEF UpdateWrite, Break
    <3>7. CASE \E s \in Subscriptions : DeleteSubscriptionRead(w, s)
      BY <2>0, <3>7 DEF DeleteSubscriptionRead
    <3>8. CASE DeleteSubscriptionErase(w)
      BY <2>2, <3>8 DEF DeleteSubscriptionErase, Break
    <3> QED BY <2>4, <3>1, <3>2, <3>3, <3>4, <3>5, <3>6, <3>7, <3>8
            DEF ManageSubscriptions, CreateRequest, UpdateRequest
  <2>5. CASE Publish(w)
    <3>1. CASE \E m \in Messages, found \in SUBSET Queues : ReadQueues(w, m, found)
      BY <2>0, <3>1 DEF ReadQueues
    <3>2. CASE CountStates(w)
      BY <2>0, <2>2, <3>2 DEF CountStates
    <3>3. CASE MatchSubscriptions(w)
      BY <2>0, <2>2, <3>3 DEF MatchSubscriptions
    <3>4. CASE StoreStates(w)
      BY <2>2, <3>4 DEF StoreStates
    <3> QED BY <2>5, <3>1, <3>2, <3>3, <3>4 DEF Publish
  <2>6. CASE Deliver(w)
    <3>1. CASE \E s \in Subscriptions : TripBreaker(w, s)
      BY <2>0, <3>1 DEF TripBreaker
    <3>2. CASE \E st \in states : Settle(w, st)
      BY <3>2 DEF Settle
    <3> QED BY <2>6, <3>1, <3>2 DEF Deliver
  <2> QED BY <2>1, <2>3, <2>4, <2>5, <2>6
<1> QED BY <1>1, <1>2

(* With one worker no update or destroy goes through the end iterator.       *)
THEOREM SoloRowsStay ==
    ASSUME OneWorker
    PROVE  Spec => []NoUndefinedBehaviour
<1>1. Init => TypeOK /\ RowsStay
  BY IdleType DEF Init, TypeOK, RowsStay, Idle
<1>2. TypeOK /\ RowsStay /\ [Next]_vars => TypeOK' /\ RowsStay'
  BY TypeStep, RowsStayStep
<1>3. RowsStay => NoUndefinedBehaviour
  BY DEF RowsStay, NoUndefinedBehaviour
<1> QED BY <1>1, <1>2, <1>3, PTL DEF Spec

-----------------------------------------------------------------------------
(* Refusals. *)

(* Inductive: the subscriptions of one POST have a key each.  Without it a  *)
(* batch would count for more places than it fills.                         *)
KeysDiffer ==
    \A w \in Workers :
        LET batch == task[w].batch
        IN  task[w].stage = "include" /\ task[w].op = "create" =>
                \A i, j \in DOMAIN batch : i # j => batch[i].key # batch[j].key

LEMMA KeysDifferStep ==
    ASSUME TypeOK, KeysDiffer, [Next]_vars
    PROVE  KeysDiffer'
<1>1. CASE UNCHANGED task
  BY <1>1 DEF KeysDiffer
<1>2. CASE UNCHANGED vars
  BY <1>1, <1>2 DEF vars
<1>3. CASE Next
  <2> SUFFICES ASSUME NEW w \in Workers,
                      \/ ManageQueues(w) \/ ManageSubscriptions(w)
                      \/ Publish(w) \/ Deliver(w)
               PROVE  KeysDiffer'
    BY <1>3 DEF Next
  <2>0. ASSUME NEW next, Goto(w, next),
               next.stage = "include" /\ next.op = "create" =>
                   \A i, j \in DOMAIN next.batch :
                       i # j => next.batch[i].key # next.batch[j].key
        PROVE  KeysDiffer'
    <3>1. \A v \in Workers : task'[v] = IF v = w THEN next ELSE task[v]
      BY <2>0 DEF Goto, TypeOK
    <3> QED BY <2>0, <3>1 DEF KeysDiffer
  <2>1. ASSUME NEW next, Goto(w, next), next.stage # "include" PROVE KeysDiffer'
    BY <2>0, <2>1
  <2>2. CASE Answer(w)
    BY <2>1, <2>2 DEF Answer, Idle
  <2>3. CASE ManageQueues(w)
    BY <1>1, <2>1, <2>2, <2>3
       DEF ManageQueues, CreateQueue, DeleteQueueRead, DeleteQueueErase, Break
  <2>4. CASE ManageSubscriptions(w)
    <3>1. CASE CreateRequest(w)
      <4>1. PICK n \in 1 .. MaxBatch :
               \E batch \in [1 .. n -> [key : Subscriptions, queues : QueueLists,
                                        state : {"kept"}]] :
                  /\ \A i, j \in 1 .. n : i # j => batch[i].key # batch[j].key
                  /\ FindQueues(w, "create", batch)
        BY <3>1 DEF CreateRequest
      <4>2. PICK batch \in [1 .. n -> [key : Subscriptions, queues : QueueLists,
                                      state : {"kept"}]] :
                  /\ \A i, j \in 1 .. n : i # j => batch[i].key # batch[j].key
                  /\ FindQueues(w, "create", batch)
        BY <4>1
      <4>3. PICK found : Goto(w, [stage |-> "include", op |-> "create",
                                  batch |-> batch, found |-> found])
        BY <4>2 DEF FindQueues
      <4> QED BY <2>0, <4>2, <4>3
    <3>2. CASE UpdateRequest(w)
      <4>1. PICK batch : FindQueues(w, "update", batch)
        BY <3>2 DEF UpdateRequest
      <4>2. PICK found : Goto(w, [stage |-> "include", op |-> "update",
                                  batch |-> batch, found |-> found])
        BY <4>1 DEF FindQueues
      <4> QED BY <2>0, <4>2
    <3>3. CASE Include(w)
      <4>1. task[w].op \in {"create", "update"}
        BY <3>3, TaskByStage DEF Include, TypeOK
      <4>2. PICK next : Goto(w, next) /\ next.stage = task[w].op
        BY <3>3 DEF Include
      <4> QED BY <2>1, <4>1, <4>2
    <3>4. CASE RefuseSubscriptions(w) \/ CreateSubscriptions(w)
      BY <2>2, <3>4 DEF RefuseSubscriptions, CreateSubscriptions
    <3>5. CASE UpdateRead(w) \/ UpdateWrite(w)
      BY <1>1, <2>1, <2>2, <3>5 DEF UpdateRead, UpdateWrite, Break
    <3>6. CASE \E s \in Subscriptions : DeleteSubscriptionRead(w, s)
      BY <2>1, <3>6 DEF DeleteSubscriptionRead
    <3>7. CASE DeleteSubscriptionErase(w)
      BY <1>1, <2>2, <3>7 DEF DeleteSubscriptionErase, Break
    <3> QED BY <2>4, <3>1, <3>2, <3>3, <3>4, <3>5, <3>6, <3>7 DEF ManageSubscriptions
  <2>5. CASE Publish(w)
    BY <2>1, <2>2, <2>5 DEF Publish, ReadQueues, CountStates, MatchSubscriptions, StoreStates
  <2>6. CASE Deliver(w)
    BY <1>1, <2>1, <2>6 DEF Deliver, TripBreaker, Settle
  <2> QED BY <2>3, <2>4, <2>5, <2>6
<1> QED BY <1>2, <1>3

(* While no row names two queues, include() lists a subscription of a queue  *)
(* once: the count is exact.                                                *)
LEMMA CountIsExact ==
    ASSUME TypeOK, NEW found \in SUBSET Queues, NEW q \in found,
           \A s \in DOMAIN subscriptions : Len(subscriptions[s].queues) <= 1
    PROVE  CurrentCount(q, found) <= Cardinality(Subscribed(q))
<1> DEFINE pairs == {x \in Related(found) : x[1] \in Subscribed(q)}
           pair == [s \in Subscribed(q) |-> << s, q >>]
<1>1. ASSUME NEW s \in DOMAIN subscriptions, NEW p \in Queues,
             s \in Subscribed(p), s \in Subscribed(q)
      PROVE  p = q
  <2>1. /\ subscriptions[s].queues \in Seq(Queues)
        /\ Len(subscriptions[s].queues) <= 1
    BY DEF TypeOK, Row
  <2>2. \A i, j \in DOMAIN subscriptions[s].queues : i = j
    BY <2>1
  <2> QED BY <1>1, <2>2 DEF Subscribed, Range
<1>2. pairs = {<< s, q >> : s \in Subscribed(q)}
  <2>1. ASSUME NEW x \in pairs PROVE x \in {<< s, q >> : s \in Subscribed(q)}
    <3>1. /\ x \in (DOMAIN subscriptions) \X found
          /\ x[1] \in Subscribed(x[2]) /\ x[1] \in Subscribed(q)
      BY DEF Related
    <3>2. x = << x[1], x[2] >> /\ x[1] \in DOMAIN subscriptions /\ x[2] \in Queues
      BY <3>1
    <3>3. x[2] = q
      BY <1>1, <3>1, <3>2
    <3> QED BY <3>1, <3>2, <3>3
  <2>2. ASSUME NEW s \in Subscribed(q) PROVE << s, q >> \in pairs
    BY DEF Related, Subscribed
  <2> QED BY <2>1, <2>2
<1>3. pair \in Surjection(Subscribed(q), pairs)
  BY <1>2 DEF Surjection
<1>4. IsFiniteSet(Subscribed(q))
  BY SubscribedType
<1> HIDE DEF pairs, pair
<1>5. Cardinality(pairs) <= Cardinality(Subscribed(q))
  BY <1>3, <1>4, FS_Surjection
<1> QED BY <1>5 DEF CurrentCount, pairs

(* With a key each, the entries of a batch fill as many places.             *)
LEMMA BatchCountIsExact ==
    ASSUME NEW batch \in Batches, NEW q,
           \A i, j \in DOMAIN batch : i # j => batch[i].key # batch[j].key
    PROVE  LET asked == {batch[i].key : i \in Asking(batch, q)}
           IN  IsFiniteSet(asked) => NewCount(q, batch) <= Cardinality(asked)
<1> DEFINE asking == Asking(batch, q)
           asked == {batch[i].key : i \in asking}
           f == [i \in asking |-> batch[i].key]
<1>1. f \in Injection(asking, asked)
  BY DEF Injection, IsInjective, Asking
<1> HIDE DEF f, asking, asked
<1>2. IsFiniteSet(asked) => Cardinality(asking) <= Cardinality(asked)
  BY <1>1, FS_Injection
<1> QED BY <1>2 DEF NewCount, asking, asked

(* Both counts are exact, and no key of the batch is in use: what the code   *)
(* adds up is what the queue would hold.                                    *)
LEMMA RefusalJustified ==
    ASSUME TypeOK, KeysDiffer, NEW w \in Workers,
           RefuseSubscriptions(w), Simple(task[w])
    PROVE  Justified(task[w])
<1> DEFINE t == task[w]
           batch == t.batch
<1>1. /\ batch \in Batches /\ t.found \in SUBSET Queues
      /\ t.stage = "include" /\ t.op = "create"
  BY TaskByStage DEF RefuseSubscriptions, Simple, TypeOK
<1>2. PICK q \in t.found : OverLimit(q, t)
  BY DEF RefuseSubscriptions
<1> DEFINE asked == {batch[i].key : i \in Asking(batch, q)}
           own == Subscribed(q)
<1>3. IsFiniteSet(asked) /\ NewCount(q, batch) \in Nat /\ CurrentCount(q, t.found) \in Nat
  BY <1>1, CountsSuffice
<1>4. NewCount(q, batch) <= Cardinality(asked)
  <2>1. \A i, j \in DOMAIN batch : i # j => batch[i].key # batch[j].key
    BY <1>1 DEF KeysDiffer
  <2> QED BY <1>1, <1>3, <2>1, BatchCountIsExact
<1>5. CurrentCount(q, t.found) <= Cardinality(own)
  BY <1>1, CountIsExact DEF Simple
<1>6. own \cap asked = {}
  BY <1>1 DEF Simple, Conflicting, Subscribed, Asking
<1>7. IsFiniteSet(own)
  BY <1>1, SubscribedType
<1>8. Cardinality(own \cup asked) = Cardinality(own) + Cardinality(asked)
  <2>1. Cardinality(own) \in Nat /\ Cardinality(asked) \in Nat
    BY <1>3, <1>7, FS_CardinalityType
  <2>2. Cardinality(own \cap asked) = 0
    BY <1>6, FS_EmptySet
  <2> HIDE DEF own, asked
  <2>3. Cardinality(own \cup asked)
           = Cardinality(own) + Cardinality(asked) - Cardinality(own \cap asked)
    BY <1>3, <1>7, FS_Union
  <2> QED BY <2>1, <2>2, <2>3
<1>9. /\ Cardinality(own) \in Nat /\ Cardinality(asked) \in Nat
      /\ SubscriptionLimit[q] \in Nat
  BY <1>1, <1>3, <1>7, FS_CardinalityType, LimitsAssumption
<1>10. Granted(t, q) = own \cup asked
  BY DEF Granted
<1>11. NewCount(q, batch) + CurrentCount(q, t.found) > SubscriptionLimit[q]
  BY <1>2 DEF OverLimit
<1>12. Cardinality(Granted(t, q)) > SubscriptionLimit[q]
  <2> HIDE DEF own, asked, t, batch
  <2> QED BY <1>3, <1>4, <1>5, <1>8, <1>9, <1>10, <1>11
<1> QED BY <1>12 DEF Justified

(* However many workers there are, a POST is refused (503) only when it     *)
(* would bring a queue above its limit, while no subscription names two     *)
(* queues.                                                                  *)
THEOREM RefusalsAreJustified == Spec => SimpleRefusalsJustified
<1>1. Init => TypeOK /\ KeysDiffer
  BY IdleType DEF Init, TypeOK, KeysDiffer, Idle
<1>2. TypeOK /\ KeysDiffer /\ [Next]_vars => TypeOK' /\ KeysDiffer'
  BY TypeStep, KeysDifferStep
<1>3. TypeOK /\ KeysDiffer /\ [Next]_vars =>
          [\A w \in Workers :
              RefuseSubscriptions(w) /\ Simple(task[w]) => Justified(task[w])]_vars
  BY RefusalJustified
<1> QED BY <1>1, <1>2, <1>3, PTL DEF Spec, SimpleRefusalsJustified

=============================================================================
