--------------------------- MODULE DispatchProofs ---------------------------
(* What holds of Dispatch for every set of workers, messages and           *)
(* subscriptions, every routing and every bound.                           *)
EXTENDS Dispatch, FiniteSetTheorems, TLAPS

-----------------------------------------------------------------------------
(* The shape of a task is told by its stage. *)

LEMMA TaskShape ==
    ASSUME NEW t \in Task
    PROVE  /\ t.stage \in Publishing => t \in PublishTask
           /\ t.stage \in Claiming => t \in ClaimTask
           /\ t.stage \in Settling => t \in SettleTask
BY DEF Task, PublishTask, ClaimTask, SettleTask, Publishing, Claiming, Settling

LEMMA GotoType ==
    ASSUME task \in [Workers -> Task], NEW w \in Workers, NEW t \in Task,
           Goto(w, t)
    PROVE  task' \in [Workers -> Task]
BY DEF Goto

LEMMA IdleType == Idle \in Task
BY DEF Idle, Task

LEMMA AdvanceType ==
    ASSUME task \in [Workers -> Task], NEW w \in Workers, NEW stage,
           \/ task[w].stage \in Publishing /\ stage \in Publishing
           \/ task[w].stage \in Claiming /\ stage \in Claiming
           \/ task[w].stage \in Settling /\ stage \in Settling,
           Advance(w, stage)
    PROVE  task' \in [Workers -> Task]
<1>1. [task[w] EXCEPT !.stage = stage] \in Task
  BY TaskShape DEF Task, PublishTask, ClaimTask, SettleTask
<1> QED  BY <1>1, GotoType DEF Advance

-----------------------------------------------------------------------------
(* Type correctness. *)

LEMMA RowUpdate ==
    ASSUME TypeOK, NEW k \in DOMAIN states, NEW row \in Row,
           states' = [states EXCEPT ![k] = row]
    PROVE  DOMAIN states' = DOMAIN states /\ states' \in [DOMAIN states' -> Row]
BY DEF TypeOK

LEMMA ClaimType ==
    ASSUME TypeOK, NEW w \in Workers, NEW k \in DOMAIN states, Claim(w, k)
    PROVE  task' \in [Workers -> Task]
<1>1. [stage |-> "claim_read", key |-> k, row |-> states[k]] \in Task
  BY DEF TypeOK, Task, ClaimTask, Claiming
<1> QED  BY <1>1, GotoType DEF Claim, TypeOK

LEMMA SettledRow ==
    ASSUME NEW current \in Row, NEW row \in Row, NEW outcome \in Outcome
    PROVE  Settled(current, row, Verdict(row, outcome)) \in Row
<1>1. CASE row.attempts <= 1
  BY <1>1 DEF Settled, Verdict, OutOfAttempts, Outcome, Row, Status, Terminal
<1>2. CASE row.attempts > 1
  <2>1. row.attempts - 1 \in Nat
    BY <1>2 DEF Row
  <2> QED
    BY <1>2, <2>1 DEF Settled, Verdict, OutOfAttempts, Outcome, Row, Status, Terminal
<1>3. row.attempts \in Nat
  BY DEF Row
<1> QED  BY <1>1, <1>2, <1>3

LEMMA SettledFields ==
    ASSUME NEW current \in Row, NEW row \in Row, NEW verdict
    PROVE  /\ Settled(current, row, verdict).message = current.message
           /\ Settled(current, row, verdict).subscription = current.subscription
           /\ Settled(current, row, verdict).status = verdict
           /\ verdict = "suspended" =>
                 Settled(current, row, verdict).attempts = row.attempts - 1
           /\ verdict # "suspended" =>
                 Settled(current, row, verdict).attempts = current.attempts
BY DEF Settled, Row

LEMMA AttemptedEntry ==
    ASSUME NEW entry \in Entry, NEW outcome
    PROVE  /\ Attempted(entry, outcome) \in Entry
           /\ Attempted(entry, outcome).subscription = entry.subscription
           /\ Attempted(entry, outcome).limit = entry.limit
           /\ Attempted(entry, outcome).tries = entry.tries + 1
           /\ Attempted(entry, outcome).answers
                 = (IF outcome = "failed" THEN entry.answers ELSE entry.answers + 1)
<1>1. entry.tries + 1 \in Nat /\ entry.answers + 1 \in Nat
  BY DEF Entry
<1>2. CASE outcome = "failed"
  BY <1>1, <1>2 DEF Attempted, Entry
<1>3. CASE outcome # "failed"
  BY <1>1, <1>3 DEF Attempted, Entry
<1> QED  BY <1>2, <1>3

LEMMA TypeStep == TypeOK /\ [Next]_vars => TypeOK'
<1> SUFFICES ASSUME TypeOK, [Next]_vars PROVE TypeOK'
  OBVIOUS
<1> USE IdleType
<1>1. ASSUME NEW w \in Workers, NEW m \in Messages, ReadSubscriptions(w, m)
      PROVE  TypeOK'
  <2> DEFINE chosen == {i \in DOMAIN Routes[m] : Routes[m][i].subscription \in reachable}
             next == [stage |-> "create_message", message |-> m, chosen |-> chosen]
  <2>1. chosen \subseteq DOMAIN Routes[m] /\ chosen \subseteq Nat
    BY RoutesAssumption
  <2>2. next \in Task
    BY <2>1 DEF Task, PublishTask, Publishing
  <2>3. Goto(w, next)
    BY <1>1 DEF ReadSubscriptions
  <2>4. task' \in [Workers -> Task]
    BY <2>2, <2>3, GotoType DEF TypeOK
  <2> QED  BY <1>1, <2>4 DEF ReadSubscriptions, TypeOK
<1>2. ASSUME NEW w \in Workers, CreateMessage(w) PROVE TypeOK'
  <2>1. task[w] \in PublishTask
    BY <1>2, TaskShape DEF CreateMessage, TypeOK, Publishing
  <2>2. task' \in [Workers -> Task]
    BY <1>2, GotoType, AdvanceType DEF CreateMessage, TypeOK, Publishing
  <2> QED  BY <1>2, <2>1, <2>2 DEF CreateMessage, TypeOK, PublishTask, Fault
<1>3. ASSUME NEW w \in Workers, CreateStates(w) PROVE TypeOK'
  <2>1. task[w] \in PublishTask
    BY <1>3, TaskShape DEF CreateStates, TypeOK, Publishing
  <2>2. task' \in [Workers -> Task]
    BY <1>3, GotoType DEF CreateStates, TypeOK, Task
  <2>3. CASE StoreStates(w)
    <3> DEFINE m == task[w].message
               matches == Routes[m]
               fresh == {created + i : i \in task[w].chosen}
    <3>1. /\ m \in Messages
          /\ matches \in Seq(Match)
          /\ task[w].chosen \subseteq DOMAIN matches
      BY <2>1, RoutesAssumption DEF PublishTask
    <3>2. Len(matches) \in Nat /\ \A i \in DOMAIN matches : i \in 1 .. Len(matches)
      BY <3>1
    <3>3. created' \in Nat /\ created' = created + Len(matches)
      BY <2>3, <3>2 DEF StoreStates, TypeOK
    <3>4. \A k \in fresh : /\ k \in 1 .. created'
                           /\ matches[k - created] \in Match
      BY <3>1, <3>2, <3>3 DEF TypeOK
    <3>5. \A match \in Match : NewRow(m, match) \in Row /\ NewEntry(match) \in Entry
      BY <3>1 DEF NewRow, NewEntry, Row, Entry, Status, Match
    <3>6. /\ DOMAIN ledger' = DOMAIN ledger \cup fresh
          /\ ledger' \in [DOMAIN ledger' -> Entry]
      BY <2>3, <3>4, <3>5 DEF StoreStates, TypeOK
    <3>7. /\ DOMAIN states' = DOMAIN states \cup fresh
          /\ states' \in [DOMAIN states' -> Row]
      BY <2>3, <3>4, <3>5 DEF StoreStates, TypeOK
    <3>8. DOMAIN states' \subseteq DOMAIN ledger' /\ DOMAIN ledger' \subseteq 1 .. created'
      BY <3>2, <3>3, <3>4, <3>6, <3>7 DEF TypeOK
    <3> QED
      BY <1>3, <2>2, <3>3, <3>6, <3>7, <3>8 DEF CreateStates, TypeOK, Fault
  <2>4. CASE UNCHANGED << states, created, ledger >>
    BY <1>3, <2>2, <2>4 DEF CreateStates, TypeOK, Fault
  <2> QED  BY <1>3, <2>3, <2>4 DEF CreateStates
<1>4. ASSUME NEW w \in Workers, Acknowledge(w) PROVE TypeOK'
  BY <1>4, GotoType DEF Acknowledge, TypeOK
<1>5. ASSUME NEW w \in Workers, RoutePending(w) PROVE TypeOK'
  <2>1. task' \in [Workers -> Task]
    BY <1>5, ClaimType DEF RoutePending, TypeOK
  <2> QED  BY <1>5, <2>1 DEF RoutePending, TypeOK, Fault
<1>6. ASSUME NEW w \in Workers, RouteSuspended(w) PROVE TypeOK'
  <2>1. task' \in [Workers -> Task]
    BY <1>6, ClaimType DEF RouteSuspended, TypeOK
  <2> QED  BY <1>6, <2>1 DEF RouteSuspended, TypeOK
<1>7. ASSUME NEW w \in Workers, ClaimRead(w) PROVE TypeOK'
  <2>1. task[w] \in ClaimTask
    BY <1>7, TaskShape DEF ClaimRead, TypeOK, Claiming
  <2>2. task' \in [Workers -> Task]
    <3>1. Stored(w) => [stage |-> "claim_write", key |-> task[w].key,
                        row |-> states[task[w].key]] \in Task
      BY <2>1 DEF Stored, TypeOK, Task, ClaimTask, Claiming
    <3> QED  BY <1>7, <3>1, GotoType DEF ClaimRead, Return, TypeOK
  <2> QED  BY <1>7, <2>2 DEF ClaimRead, Return, TypeOK, Fault
<1>8. ASSUME NEW w \in Workers, ClaimWrite(w) PROVE TypeOK'
  <2> DEFINE row == [task[w].row EXCEPT !.status = "in-flight"]
  <2>1. task[w] \in ClaimTask
    BY <1>8, TaskShape DEF ClaimWrite, TypeOK, Claiming
  <2>2. row \in Row /\ task[w].key \in Nat
    BY <2>1 DEF ClaimTask, Row, Status
  <2>3. CASE Stored(w)
    <3>1. [stage |-> "read_message", key |-> task[w].key, row |-> row] \in Task
      BY <2>2 DEF Task, ClaimTask, Claiming
    <3>2. task' \in [Workers -> Task]
      BY <1>8, <2>3, <3>1, GotoType DEF ClaimWrite, TypeOK
    <3>3. states' \in [DOMAIN states' -> Row] /\ DOMAIN states' = DOMAIN states
      BY <1>8, <2>2, <2>3, RowUpdate DEF ClaimWrite, Stored
    <3> QED  BY <1>8, <2>3, <3>2, <3>3 DEF ClaimWrite, TypeOK
  <2>4. CASE ~ Stored(w)
    BY <1>8, <2>4 DEF ClaimWrite, Break, TypeOK
  <2> QED  BY <2>3, <2>4
<1>9. ASSUME NEW w \in Workers, ReadMessage(w) PROVE TypeOK'
  <2>1. task[w] \in ClaimTask
    BY <1>9, TaskShape DEF ReadMessage, TypeOK, Claiming
  <2>2. CASE task[w].row.message \in messages
    <3>1. [stage |-> "destroy_read", key |-> task[w].key, row |-> task[w].row,
           outcome |-> "purge"] \in Task
      BY <2>1 DEF Task, ClaimTask, SettleTask, Settling, Outcome
    <3>2. task' \in [Workers -> Task]
      BY <1>9, <2>2, <3>1, GotoType, AdvanceType DEF ReadMessage, TypeOK, Claiming
    <3> QED  BY <1>9, <2>2, <3>2 DEF ReadMessage, TypeOK, Fault
  <2>3. CASE task[w].row.message \notin messages
    BY <1>9, <2>3 DEF ReadMessage, Break, TypeOK
  <2> QED  BY <2>2, <2>3
<1>10. ASSUME NEW w \in Workers, Deliver(w) PROVE TypeOK'
  <2>1. task[w] \in ClaimTask
    BY <1>10, TaskShape DEF Deliver, TypeOK, Claiming
  <2>2. PICK outcome \in {"accepted", "declined", "failed"},
             stage \in {"trip_breaker", "final_read"} :
          /\ ledger' = [ledger EXCEPT ![task[w].key] = Attempted(@, outcome)]
          /\ Goto(w, [stage |-> stage, key |-> task[w].key, row |-> task[w].row,
                      outcome |-> outcome])
    BY <1>10 DEF Deliver
  <2>3. task' \in [Workers -> Task]
    BY <2>1, <2>2, GotoType
       DEF TypeOK, Task, ClaimTask, SettleTask, Settling, Outcome
  <2>4. \A entry \in Entry : Attempted(entry, outcome) \in Entry
    BY AttemptedEntry
  <2>5. DOMAIN ledger' = DOMAIN ledger /\ ledger' \in [DOMAIN ledger -> Entry]
    BY <2>2, <2>4 DEF TypeOK
  <2> QED  BY <1>10, <2>3, <2>5 DEF Deliver, TypeOK
<1>11. ASSUME NEW w \in Workers, TripBreaker(w) PROVE TypeOK'
  <2>1. task' \in [Workers -> Task]
    BY <1>11, AdvanceType DEF TripBreaker, TypeOK, Settling
  <2> QED  BY <1>11, <2>1 DEF TripBreaker, TypeOK, Fault
<1>12. ASSUME NEW w \in Workers, FinalRead(w) PROVE TypeOK'
  <2> DEFINE verdict == Verdict(task[w].row, task[w].outcome)
             next == [task[w] EXCEPT !.stage = "final_write",
                        !.row = Settled(states[task[w].key], task[w].row, verdict)]
  <2>1. task[w] \in SettleTask
    BY <1>12, TaskShape DEF FinalRead, TypeOK, Settling
  <2>2. CASE Stored(w) \/ verdict \notin Terminal
    <3>1. Stored(w) => Settled(states[task[w].key], task[w].row, verdict) \in Row
      BY <2>1, SettledRow DEF Stored, TypeOK, SettleTask
    <3>2. Stored(w) => next \in Task
      BY <2>1, <3>1 DEF SettleTask, Task, Settling
    <3>3. task' \in [Workers -> Task]
      BY <1>12, <2>2, <3>2, GotoType, AdvanceType DEF FinalRead, TypeOK, Settling
    <3> QED  BY <1>12, <2>2, <3>3 DEF FinalRead, TypeOK, Fault
  <2>3. CASE ~ (Stored(w) \/ verdict \notin Terminal)
    BY <1>12, <2>3 DEF FinalRead, Break, TypeOK
  <2> QED  BY <2>2, <2>3
<1>13. ASSUME NEW w \in Workers, FinalWrite(w) PROVE TypeOK'
  <2>1. task[w] \in SettleTask
    BY <1>13, TaskShape DEF FinalWrite, TypeOK, Settling
  <2>2. CASE Stored(w)
    <3>1. task' \in [Workers -> Task]
      BY <1>13, <2>2, AdvanceType DEF FinalWrite, TypeOK, Settling
    <3>2. states' \in [DOMAIN states' -> Row] /\ DOMAIN states' = DOMAIN states
      BY <1>13, <2>1, <2>2, RowUpdate DEF FinalWrite, Stored, SettleTask
    <3> QED  BY <1>13, <2>2, <3>1, <3>2 DEF FinalWrite, TypeOK
  <2>3. CASE ~ Stored(w)
    BY <1>13, <2>3 DEF FinalWrite, Break, TypeOK
  <2> QED  BY <2>2, <2>3
<1>14. ASSUME NEW w \in Workers, DestroyRead(w) PROVE TypeOK'
  <2>1. task' \in [Workers -> Task]
    BY <1>14, GotoType, AdvanceType
       DEF DestroyRead, AfterDestroy, Return, TypeOK, Settling
  <2> QED  BY <1>14, <2>1 DEF DestroyRead, AfterDestroy, Return, TypeOK, Fault
<1>15. ASSUME NEW w \in Workers, DestroyWrite(w) PROVE TypeOK'
  <2>1. CASE Stored(w)
    <3>1. task' \in [Workers -> Task]
      BY <1>15, <2>1, GotoType, AdvanceType
         DEF DestroyWrite, AfterDestroy, Return, TypeOK, Settling
    <3>2. states' \in [DOMAIN states' -> Row] /\ DOMAIN states' \subseteq DOMAIN states
      BY <1>15, <2>1 DEF DestroyWrite, TypeOK
    <3> QED  BY <1>15, <2>1, <3>1, <3>2 DEF DestroyWrite, AfterDestroy, Return, TypeOK
  <2>2. CASE ~ Stored(w)
    BY <1>15, <2>2 DEF DestroyWrite, Break, TypeOK
  <2> QED  BY <2>1, <2>2
<1>16. ASSUME NEW w \in Workers, Reschedule(w) PROVE TypeOK'
  BY <1>16, GotoType DEF Reschedule, Return, TypeOK
<1>17. ASSUME NEW k \in DOMAIN states, Elapse(k) PROVE TypeOK'
  BY <1>17, RowUpdate DEF Elapse, TypeOK, Row
<1>18. CASE Restart
  BY <1>18 DEF Restart, TypeOK
<1>19. CASE UNCHANGED vars
  BY <1>19 DEF vars, TypeOK
<1> QED
  BY <1>1, <1>2, <1>3, <1>4, <1>5, <1>6, <1>7, <1>8, <1>9, <1>10, <1>11, <1>12,
     <1>13, <1>14, <1>15, <1>16, <1>17, <1>18, <1>19 DEF Next, Publish, Dispatch

(* Every variable keeps its type, however many workers interleave. *)
THEOREM TypeCorrect == Spec => []TypeOK
<1>1. Init => TypeOK
  BY BoundsAssumption DEF Init, TypeOK, Task, Idle
<1> QED  BY <1>1, TypeStep, PTL DEF Spec

-----------------------------------------------------------------------------
(* The inductive invariant behind MessagesOutliveStates. *)

Routing == Claiming \cup Settling

(* Rows in the hands of a router refer to stored messages too, and so does *)
(* the batch a publisher is about to store.                                *)
MessagesInv ==
    /\ MessagesOutliveStates
    /\ \A w \in Workers :
          /\ task[w].stage = "create_states" => task[w].message \in messages
          /\ task[w].stage \in Routing => task[w].row.message \in messages

-----------------------------------------------------------------------------
(* A worker that takes a step is the only one whose task changes. *)

LEMMA GotoEffect ==
    ASSUME TypeOK, NEW w \in Workers, NEW next, Goto(w, next)
    PROVE  /\ task'[w] = next
           /\ \A v \in Workers : v # w => task'[v] = task[v]
BY DEF Goto, TypeOK

LEMMA AdvanceEffect ==
    ASSUME TypeOK, NEW w \in Workers, NEW stage, Advance(w, stage),
           task[w].stage \in Publishing \cup Claiming \cup Settling
    PROVE  /\ task'[w].stage = stage
           /\ task[w].stage \in Publishing =>
                 /\ task'[w].message = task[w].message
                 /\ task'[w].chosen = task[w].chosen
           /\ task[w].stage \in Routing =>
                 /\ task'[w].key = task[w].key
                 /\ task'[w].row = task[w].row
           /\ task[w].stage \in Settling => task'[w].outcome = task[w].outcome
           /\ \A v \in Workers : v # w => task'[v] = task[v]
<1>1. task'[w] = [task[w] EXCEPT !.stage = stage]
  BY GotoEffect DEF Advance
<1>2. \A v \in Workers : v # w => task'[v] = task[v]
  BY GotoEffect DEF Advance
<1>3. task[w] \in Task
  BY DEF TypeOK
<1> QED
  BY <1>1, <1>2, <1>3, TaskShape DEF PublishTask, ClaimTask, SettleTask, Routing

LEMMA ClaimEffect ==
    ASSUME TypeOK, NEW w \in Workers, NEW k \in DOMAIN states, Claim(w, k)
    PROVE  /\ task'[w].stage = "claim_read"
           /\ task'[w].key = k
           /\ task'[w].row = states[k]
           /\ \A v \in Workers : v # w => task'[v] = task[v]
BY GotoEffect DEF Claim

LEMMA PendingEffect ==
    ASSUME NEW w \in Workers, RoutePending(w)
    PROVE  /\ task' = task \/ \E k \in InStatus("pending") : k \in DOMAIN states /\ Claim(w, k)
           /\ task[w] = Idle
           /\ UNCHANGED << states, messages, reachable, redelivering, fate, offered,
                           created, ledger, restarts >>
BY DEF RoutePending, IsFirst

LEMMA SuspendedEffect ==
    ASSUME NEW w \in Workers, RouteSuspended(w)
    PROVE  /\ \/ task' = task
              \/ \E k \in InStatus("suspended") :
                    k \in DOMAIN states /\ states[k].due /\ Claim(w, k)
           /\ task[w] = Idle
           /\ UNCHANGED << states, messages, reachable, scheduled, fate, offered,
                           created, ledger, faults, restarts >>
BY DEF RouteSuspended, IsFirst

LEMMA DeliverEffect ==
    ASSUME TypeOK, NEW w \in Workers, Deliver(w)
    PROVE  \E outcome \in {"accepted", "declined", "failed"} :
              /\ task[w].stage = "deliver"
              /\ task'[w] = [stage |-> IF outcome = "failed" /\ OutOfAttempts(task[w].row)
                                       THEN "trip_breaker" ELSE "final_read",
                             key |-> task[w].key, row |-> task[w].row, outcome |-> outcome]
              /\ \A v \in Workers : v # w => task'[v] = task[v]
              /\ ledger' = [ledger EXCEPT ![task[w].key] = Attempted(@, outcome)]
              /\ UNCHANGED << states, messages, reachable, fate, created, faults, restarts >>
BY GotoEffect DEF Deliver

(* The final update reads the state afresh, or leaves it as it is. *)
LEMMA FinalReadEffect ==
    ASSUME TypeOK, NEW w \in Workers, FinalRead(w), ~ Break("deadlocked")
    PROVE  /\ task[w].stage = "final_read"
           /\ task'[w].key = task[w].key
           /\ task'[w].outcome = task[w].outcome
           /\ \/ /\ Stored(w)
                 /\ task'[w].stage = "final_write"
                 /\ task'[w].row = Settled(states[task[w].key], task[w].row,
                                           Verdict(task[w].row, task[w].outcome))
              \/ /\ ~ Stored(w) \/ Fault
                 /\ task'[w].stage = "reschedule"
                 /\ task'[w].row = task[w].row
           /\ \A v \in Workers : v # w => task'[v] = task[v]
           /\ UNCHANGED << states, messages, reachable, fate, created, ledger, restarts >>
<1> DEFINE row == Settled(states[task[w].key], task[w].row,
                          Verdict(task[w].row, task[w].outcome))
<1>1. task[w].stage = "final_read" /\ task[w] \in SettleTask
  BY TaskShape DEF FinalRead, TypeOK, Settling
<1>2. CASE Stored(w) \/ Verdict(task[w].row, task[w].outcome) \notin Terminal
  <2>1. UNCHANGED << states, messages, reachable, fate, created, ledger, restarts >>
    BY <1>2 DEF FinalRead
  <2>2. CASE Stored(w) /\ Goto(w, [task[w] EXCEPT !.stage = "final_write", !.row = row])
    <3> HIDE DEF row
    <3>1. /\ task'[w] = [task[w] EXCEPT !.stage = "final_write", !.row = row]
          /\ \A v \in Workers : v # w => task'[v] = task[v]
      BY <2>2, GotoEffect
    <3>2. /\ task'[w].stage = "final_write" /\ task'[w].row = row
          /\ task'[w].key = task[w].key /\ task'[w].outcome = task[w].outcome
      BY <1>1, <3>1 DEF SettleTask
    <3> QED  BY <1>1, <2>1, <2>2, <3>1, <3>2 DEF row
  <2>3. CASE (~ Stored(w) \/ Fault) /\ Advance(w, "reschedule")
    BY <1>1, <2>1, <2>3, AdvanceEffect DEF Settling, Routing
  <2> QED  BY <1>2, <2>2, <2>3 DEF FinalRead
<1>3. CASE ~ (Stored(w) \/ Verdict(task[w].row, task[w].outcome) \notin Terminal)
  BY <1>3 DEF FinalRead
<1> QED  BY <1>2, <1>3

(* A batch of states is stored under new keys. *)
LEMMA StoreEffect ==
    ASSUME TypeOK, NEW w \in Workers, task[w].stage = "create_states", StoreStates(w)
    PROVE  \E fresh :
              /\ \A k \in fresh : k \in Nat /\ k > created
              /\ fresh \cap DOMAIN ledger = {}
              /\ DOMAIN ledger' = DOMAIN ledger \cup fresh
              /\ DOMAIN states' = DOMAIN states \cup fresh
              /\ \A k \in DOMAIN ledger : ledger'[k] = ledger[k]
              /\ \A k \in DOMAIN states : states'[k] = states[k]
              /\ \A k \in fresh : \E match \in Match :
                    /\ states'[k] = NewRow(task[w].message, match)
                    /\ ledger'[k] = NewEntry(match)
<1> DEFINE matches == Routes[task[w].message]
           fresh == {created + i : i \in task[w].chosen}
<1>1. /\ matches \in Seq(Match)
      /\ task[w].chosen \subseteq DOMAIN matches
  BY TaskShape, RoutesAssumption DEF TypeOK, Publishing, PublishTask
<1>2. \A k \in fresh : k \in Nat /\ k > created /\ matches[k - created] \in Match
  BY <1>1 DEF TypeOK
<1>3. fresh \cap DOMAIN ledger = {}
  BY <1>2 DEF TypeOK
<1>4. /\ DOMAIN ledger' = DOMAIN ledger \cup fresh
      /\ DOMAIN states' = DOMAIN states \cup fresh
      /\ \A k \in DOMAIN ledger : ledger'[k] = ledger[k]
      /\ \A k \in DOMAIN states : states'[k] = states[k]
      /\ \A k \in fresh : /\ states'[k] = NewRow(task[w].message, matches[k - created])
                          /\ ledger'[k] = NewEntry(matches[k - created])
  BY <1>3 DEF StoreStates, TypeOK
<1>5. \A k \in fresh : \E match \in Match :
          /\ states'[k] = NewRow(task[w].message, match)
          /\ ledger'[k] = NewEntry(match)
  <2> SUFFICES ASSUME NEW k \in fresh
               PROVE  \E match \in Match :
                         /\ states'[k] = NewRow(task[w].message, match)
                         /\ ledger'[k] = NewEntry(match)
    OBVIOUS
  <2>1. matches[k - created] \in Match
    BY <1>2
  <2> HIDE DEF matches
  <2> QED  BY <1>4, <2>1
<1>6. \A k \in fresh : k \in Nat /\ k > created
  BY <1>2
<1> HIDE DEF fresh
<1> QED  BY <1>3, <1>4, <1>5, <1>6

-----------------------------------------------------------------------------
LEMMA MessagesStep == TypeOK /\ MessagesInv /\ [Next]_vars => MessagesInv'
<1> SUFFICES ASSUME TypeOK, MessagesInv, [Next]_vars PROVE MessagesInv'
  OBVIOUS
<1> USE DEF MessagesInv, MessagesOutliveStates
<1>1. ASSUME NEW w \in Workers, NEW m \in Messages, ReadSubscriptions(w, m)
      PROVE  MessagesInv'
  BY <1>1, GotoEffect DEF ReadSubscriptions, Routing, Claiming, Settling
<1>2. ASSUME NEW w \in Workers, CreateMessage(w) PROVE MessagesInv'
  <2>1. messages \subseteq messages' /\ states' = states
    BY <1>2 DEF CreateMessage
  <2>2. CASE Goto(w, Idle)
    BY <1>2, <2>1, <2>2, GotoEffect DEF CreateMessage, Idle, Routing, Claiming, Settling
  <2>3. CASE messages' = messages \cup {task[w].message} /\ Advance(w, "create_states")
    BY <1>2, <2>1, <2>3, AdvanceEffect
       DEF CreateMessage, Publishing, Routing, Claiming, Settling
  <2> QED  BY <1>2, <2>2, <2>3 DEF CreateMessage
<1>3. ASSUME NEW w \in Workers, CreateStates(w) PROVE MessagesInv'
  <2>1. task[w].stage = "create_states" /\ messages' = messages
    BY <1>3 DEF CreateStates
  <2>2. StoreStates(w) => \A k \in DOMAIN states' : states'[k].message \in messages
    BY <2>1 DEF StoreStates, NewRow
  <2>3. \A k \in DOMAIN states' : states'[k].message \in messages
    BY <1>3, <2>2 DEF CreateStates
  <2>4. PICK next : Goto(w, next) /\ next.stage \in {"idle", "acknowledge"}
    BY <1>3 DEF CreateStates, Idle
  <2>5. \A v \in Workers : v # w => task'[v] = task[v]
    BY <2>4, GotoEffect
  <2>6. task'[w].stage \in {"idle", "acknowledge"}
    BY <2>4, GotoEffect
  <2> QED
    BY <2>1, <2>3, <2>5, <2>6 DEF Routing, Claiming, Settling
<1>4. ASSUME NEW w \in Workers, Acknowledge(w) PROVE MessagesInv'
  BY <1>4, GotoEffect DEF Acknowledge, Idle, Routing, Claiming, Settling
<1>5. ASSUME NEW w \in Workers, RoutePending(w) PROVE MessagesInv'
  BY <1>5, PendingEffect, ClaimEffect DEF Routing, Claiming, Settling
<1>6. ASSUME NEW w \in Workers, RouteSuspended(w) PROVE MessagesInv'
  BY <1>6, SuspendedEffect, ClaimEffect DEF Routing, Claiming, Settling
<1>7. ASSUME NEW w \in Workers, ClaimRead(w) PROVE MessagesInv'
  BY <1>7, GotoEffect
     DEF ClaimRead, Return, Stored, Idle, Routing, Claiming, Settling
<1>8. ASSUME NEW w \in Workers, ClaimWrite(w) PROVE MessagesInv'
  <2>1. task[w] \in ClaimTask
    BY <1>8, TaskShape DEF ClaimWrite, TypeOK, Claiming
  <2>2. CASE Stored(w)
    BY <1>8, <2>1, <2>2, GotoEffect
       DEF ClaimWrite, Stored, ClaimTask, Row, TypeOK, Routing, Claiming, Settling
  <2>3. CASE ~ Stored(w)
    BY <1>8, <2>3 DEF ClaimWrite, Break
  <2> QED  BY <2>2, <2>3
<1>9. ASSUME NEW w \in Workers, ReadMessage(w) PROVE MessagesInv'
  <2>1. /\ task[w].stage = "read_message"
        /\ task[w].row.message \in messages
    BY <1>9 DEF ReadMessage, Routing, Claiming
  <2>2. states' = states /\ messages' = messages
    BY <1>9, <2>1 DEF ReadMessage
  <2>3. CASE Advance(w, "deliver")
    BY <2>1, <2>2, <2>3, AdvanceEffect DEF Routing, Claiming, Settling
  <2>4. CASE Goto(w, [stage |-> "destroy_read", key |-> task[w].key,
                      row |-> task[w].row, outcome |-> "purge"])
    BY <2>1, <2>2, <2>4, GotoEffect DEF Routing, Claiming, Settling
  <2> QED  BY <1>9, <2>1, <2>3, <2>4 DEF ReadMessage
<1>10. ASSUME NEW w \in Workers, Deliver(w) PROVE MessagesInv'
  BY <1>10, GotoEffect DEF Deliver, Routing, Claiming, Settling
<1>11. ASSUME NEW w \in Workers, TripBreaker(w) PROVE MessagesInv'
  BY <1>11, AdvanceEffect DEF TripBreaker, Routing, Claiming, Settling
<1>12. ASSUME NEW w \in Workers, FinalRead(w) PROVE MessagesInv'
  <2> DEFINE row == Settled(states[task[w].key], task[w].row,
                            Verdict(task[w].row, task[w].outcome))
  <2>1. states' = states /\ messages' = messages /\ task[w].stage = "final_read"
    BY <1>12 DEF FinalRead, Break
  <2>2. CASE Stored(w) /\ Goto(w, [task[w] EXCEPT !.stage = "final_write", !.row = row])
    <3>1. task[w] \in SettleTask
      BY <2>1, TaskShape DEF TypeOK, Settling
    <3>2. row.message \in messages
      BY <2>1, <2>2, <3>1, SettledFields DEF Stored, TypeOK, SettleTask
    <3> HIDE DEF row
    <3>3. task'[w] = [task[w] EXCEPT !.stage = "final_write", !.row = row]
      BY <2>2, GotoEffect
    <3>4. task'[w].stage = "final_write" /\ task'[w].row = row
      BY <3>1, <3>3 DEF SettleTask
    <3>5. \A v \in Workers : v # w => task'[v] = task[v]
      BY <2>2, GotoEffect
    <3> QED  BY <2>1, <3>2, <3>4, <3>5 DEF Routing, Settling
  <2>3. CASE Advance(w, "reschedule")
    BY <2>1, <2>3, AdvanceEffect DEF Routing, Settling
  <2>4. CASE Break("deadlocked")
    BY <2>1, <2>4 DEF Break
  <2> QED  BY <1>12, <2>2, <2>3, <2>4 DEF FinalRead
<1>13. ASSUME NEW w \in Workers, FinalWrite(w) PROVE MessagesInv'
  <2>1. CASE Stored(w)
    <3>1. task[w].stage = "final_write" /\ task[w].row.message \in messages
      BY <1>13 DEF FinalWrite, Routing, Settling
    <3>2. \A k \in DOMAIN states' : states'[k].message \in messages
      BY <1>13, <2>1, <3>1 DEF FinalWrite, TypeOK
    <3>3. PICK stage \in Settling : Advance(w, stage)
      BY <1>13, <2>1 DEF FinalWrite, Settling
    <3> QED
      BY <1>13, <2>1, <3>1, <3>2, <3>3, AdvanceEffect DEF FinalWrite, Routing, Settling
  <2>2. CASE ~ Stored(w)
    BY <1>13, <2>2 DEF FinalWrite, Break
  <2> QED  BY <2>1, <2>2
<1>14. ASSUME NEW w \in Workers, DestroyRead(w) PROVE MessagesInv'
  BY <1>14, GotoEffect, AdvanceEffect
     DEF DestroyRead, AfterDestroy, Return, Idle, Routing, Claiming, Settling
<1>15. ASSUME NEW w \in Workers, DestroyWrite(w) PROVE MessagesInv'
  <2>1. CASE Stored(w)
    <3>1. \A k \in DOMAIN states' : states'[k].message \in messages
      BY <1>15, <2>1 DEF DestroyWrite
    <3> QED
      BY <1>15, <2>1, <3>1, GotoEffect, AdvanceEffect
         DEF DestroyWrite, AfterDestroy, Return, Idle, Routing, Claiming, Settling
  <2>2. CASE ~ Stored(w)
    BY <1>15, <2>2 DEF DestroyWrite, Break
  <2> QED  BY <2>1, <2>2
<1>16. ASSUME NEW w \in Workers, Reschedule(w) PROVE MessagesInv'
  BY <1>16, GotoEffect DEF Reschedule, Return, Idle, Routing, Claiming, Settling
<1>17. ASSUME NEW k \in DOMAIN states, Elapse(k) PROVE MessagesInv'
  BY <1>17 DEF Elapse, TypeOK, Row
<1>18. CASE Restart
  BY <1>18 DEF Restart, Idle, Routing, Claiming, Settling
<1>19. CASE UNCHANGED vars
  BY <1>19 DEF vars
<1> QED
  BY <1>1, <1>2, <1>3, <1>4, <1>5, <1>6, <1>7, <1>8, <1>9, <1>10, <1>11, <1>12,
     <1>13, <1>14, <1>15, <1>16, <1>17, <1>18, <1>19 DEF Next, Publish, Dispatch

(* Every stored delivery has its message, whatever fails or restarts: the  *)
(* branch of router that purges a state for want of its message runs only  *)
(* when the repository answers with an error.                              *)
THEOREM MessagesStayStored == Spec => []MessagesOutliveStates
<1>1. Init => MessagesInv
  BY DEF Init, MessagesInv, MessagesOutliveStates, Idle, Routing, Claiming, Settling
<1>2. MessagesInv => MessagesOutliveStates
  BY DEF MessagesInv
<1> QED  BY <1>1, <1>2, MessagesStep, TypeCorrect, PTL DEF Spec

-----------------------------------------------------------------------------
(* Budgets. *)

(* Delivery k has been answered, or every attempt it is due was made. *)
Spent(k) ==
    \/ ledger[k].answers > 0
    \/ ledger[k].tries > 0 /\ ledger[k].tries >= ledger[k].limit

(* A row, stored or carried, never promises less than what is left to try: *)
(* stale rows give attempts back, they do not take any.                    *)
Honest(k, row) == row.attempts + ledger[k].tries >= ledger[k].limit

(* What a worker carries is within the budget of the delivery it handles.  *)
Carries(w) ==
    LET t == task[w]
    IN  /\ t.stage \in Routing => t.key \in DOMAIN ledger
        /\ t.stage \in Claiming \cup {"final_write"} => Honest(t.key, t.row)
        /\ t.stage \in {"trip_breaker", "final_read", "final_write"} => t.outcome # "purge"
        /\ t.stage \in {"trip_breaker", "final_read"} =>
              IF t.outcome = "failed"
              THEN /\ ledger[t.key].tries > 0
                   /\ t.row.attempts + ledger[t.key].tries > ledger[t.key].limit
              ELSE ledger[t.key].answers > 0
        /\ t.stage = "final_write" /\ t.row.status \in Terminal => Spent(t.key)
        /\ t.stage \in {"destroy_read", "destroy_write"} =>
              t.outcome = "purge" \/ Spent(t.key)

BudgetInv ==
    /\ \A k \in DOMAIN states : Honest(k, states[k])
    /\ \A w \in Workers : Carries(w)

-----------------------------------------------------------------------------
(* The history only grows, and what a worker carries stays within the      *)
(* budget whatever the others add to it.                                   *)

LedgerGrows ==
    \A k \in DOMAIN ledger :
        /\ k \in DOMAIN ledger'
        /\ ledger'[k] \in Entry
        /\ ledger'[k].subscription = ledger[k].subscription
        /\ ledger'[k].limit = ledger[k].limit
        /\ ledger'[k].tries >= ledger[k].tries
        /\ ledger'[k].answers >= ledger[k].answers

LEMMA SpentStays ==
    ASSUME TypeOK, LedgerGrows, NEW k \in DOMAIN ledger, Spent(k)
    PROVE  Spent(k)'
<1>1. ledger[k] \in Entry /\ ledger'[k] \in Entry
  BY DEF TypeOK, LedgerGrows
<1> QED  BY <1>1 DEF Spent, LedgerGrows, Entry

LEMMA HonestStays ==
    ASSUME TypeOK, LedgerGrows, NEW k \in DOMAIN ledger, NEW row \in Row,
           Honest(k, row)
    PROVE  row.attempts + ledger'[k].tries >= ledger'[k].limit
<1>1. ledger[k] \in Entry /\ ledger'[k] \in Entry /\ row.attempts \in Nat
  BY DEF TypeOK, LedgerGrows, Row
<1> QED  BY <1>1 DEF Honest, LedgerGrows, Entry

LEMMA CarriesStays ==
    ASSUME TypeOK, LedgerGrows, NEW v \in Workers, task'[v] = task[v], Carries(v)
    PROVE  Carries(v)'
<1> DEFINE t == task[v]
<1>1. t \in Task
  BY DEF TypeOK
<1>2. CASE t.stage \in Routing
  <2>1. t.key \in DOMAIN ledger /\ t.row \in Row
    BY <1>1, <1>2, TaskShape DEF Carries, ClaimTask, SettleTask, Routing
  <2>2. /\ t.key \in DOMAIN ledger'
        /\ Spent(t.key) => Spent(t.key)'
        /\ Honest(t.key, t.row) => Honest(t.key, t.row)'
    BY <2>1, SpentStays, HonestStays DEF LedgerGrows, Honest
  <2>3. /\ ledger[t.key] \in Entry
        /\ ledger'[t.key] \in Entry
        /\ t.row.attempts \in Nat
    BY <2>1 DEF TypeOK, LedgerGrows, Row
  <2>4. t.stage \in {"trip_breaker", "final_read"} =>
            IF t.outcome = "failed"
            THEN /\ ledger'[t.key].tries > 0
                 /\ t.row.attempts + ledger'[t.key].tries > ledger'[t.key].limit
            ELSE ledger'[t.key].answers > 0
    BY <2>1, <2>3 DEF Carries, LedgerGrows, Entry
  <2> QED  BY <2>1, <2>2, <2>4 DEF Carries, Spent, Honest
<1>3. CASE t.stage \notin Routing
  BY <1>3 DEF Carries, Routing, Claiming, Settling
<1> QED  BY <1>2, <1>3

LEMMA SameLedgerGrows ==
    ASSUME TypeOK, ledger' = ledger
    PROVE  LedgerGrows
<1> SUFFICES ASSUME NEW k \in DOMAIN ledger
             PROVE  ledger[k] \in Entry /\ ledger[k].tries >= ledger[k].tries
                    /\ ledger[k].answers >= ledger[k].answers
  BY DEF LedgerGrows
<1>1. ledger[k] \in Entry
  BY DEF TypeOK
<1> QED  BY <1>1 DEF Entry

LEMMA StoreGrows ==
    ASSUME TypeOK, NEW w \in Workers, task[w].stage = "create_states", StoreStates(w)
    PROVE  LedgerGrows
<1>1. \A k \in DOMAIN ledger : k \in DOMAIN ledger' /\ ledger'[k] = ledger[k]
  BY StoreEffect
<1> SUFFICES ASSUME NEW k \in DOMAIN ledger
             PROVE  ledger[k] \in Entry /\ ledger[k].tries >= ledger[k].tries
                    /\ ledger[k].answers >= ledger[k].answers
  BY <1>1 DEF LedgerGrows
<1>2. ledger[k] \in Entry
  BY DEF TypeOK
<1> QED  BY <1>2 DEF Entry

LEMMA DeliverGrows ==
    ASSUME TypeOK, NEW k \in DOMAIN ledger, NEW outcome,
           ledger' = [ledger EXCEPT ![k] = Attempted(@, outcome)]
    PROVE  LedgerGrows
<1>1. /\ DOMAIN ledger' = DOMAIN ledger
      /\ ledger'[k] = Attempted(ledger[k], outcome)
      /\ \A j \in DOMAIN ledger : ledger[j] \in Entry /\ (j # k => ledger'[j] = ledger[j])
  BY DEF TypeOK
<1>2. /\ ledger'[k] \in Entry
      /\ ledger'[k].subscription = ledger[k].subscription
      /\ ledger'[k].limit = ledger[k].limit
      /\ ledger'[k].tries = ledger[k].tries + 1
      /\ ledger'[k].answers =
            IF outcome = "failed" THEN ledger[k].answers ELSE ledger[k].answers + 1
  BY <1>1, AttemptedEntry
<1> SUFFICES ASSUME NEW j \in DOMAIN ledger
             PROVE  /\ ledger'[j] \in Entry
                    /\ ledger'[j].subscription = ledger[j].subscription
                    /\ ledger'[j].limit = ledger[j].limit
                    /\ ledger'[j].tries >= ledger[j].tries
                    /\ ledger'[j].answers >= ledger[j].answers
  BY <1>1 DEF LedgerGrows
<1>3. CASE j = k
  BY <1>1, <1>2, <1>3 DEF Entry
<1>4. CASE j # k
  BY <1>1, <1>4 DEF Entry
<1> QED  BY <1>3, <1>4

(* A step that changes neither states nor ledger preserves the invariant   *)
(* when it does so for the worker that takes it.                           *)
LEMMA BudgetFrame ==
    ASSUME TypeOK, BudgetInv, NEW w \in Workers, Carries(w)',
           \A v \in Workers : v # w => task'[v] = task[v],
           states' = states, ledger' = ledger
    PROVE  BudgetInv'
<1>1. \A v \in Workers : Carries(v)'
  <2> SUFFICES ASSUME NEW v \in Workers, v # w PROVE Carries(v)'
    OBVIOUS
  <2> QED  BY SameLedgerGrows, CarriesStays DEF BudgetInv
<1>2. \A k \in DOMAIN states' : Honest(k, states[k])'
  BY DEF BudgetInv, Honest
<1> QED  BY <1>1, <1>2 DEF BudgetInv

(* So does a step that writes an honest row over a stored one. *)
LEMMA BudgetWrite ==
    ASSUME TypeOK, BudgetInv, NEW w \in Workers, Carries(w)',
           \A v \in Workers : v # w => task'[v] = task[v],
           NEW k \in DOMAIN states, NEW row, Honest(k, row),
           states' = [states EXCEPT ![k] = row], ledger' = ledger
    PROVE  BudgetInv'
<1>1. \A v \in Workers : Carries(v)'
  <2> SUFFICES ASSUME NEW v \in Workers, v # w PROVE Carries(v)'
    OBVIOUS
  <2> QED  BY SameLedgerGrows, CarriesStays DEF BudgetInv
<1>2. \A j \in DOMAIN states' : Honest(j, states[j])'
  BY DEF BudgetInv, Honest, TypeOK
<1> QED  BY <1>1, <1>2 DEF BudgetInv

LEMMA IdleCarries ==
    ASSUME NEW w, task'[w].stage \notin Routing
    PROVE  Carries(w)'
BY DEF Carries, Routing, Claiming, Settling

LEMMA BudgetStutter ==
    ASSUME BudgetInv, UNCHANGED << states, ledger, task >>
    PROVE  BudgetInv'
BY DEF BudgetInv, Honest, Carries, Spent

LEMMA AfterDestroyEffect ==
    ASSUME TypeOK, NEW w \in Workers, task[w].stage \in Settling, AfterDestroy(w)
    PROVE  /\ \/ task'[w].stage = "idle"
              \/ /\ task'[w].stage = "reschedule"
                 /\ task'[w].key = task[w].key
                 /\ task'[w].outcome = task[w].outcome
                 /\ task[w].outcome # "purge"
           /\ \A v \in Workers : v # w => task'[v] = task[v]
<1>1. CASE task[w].outcome = "purge"
  BY <1>1, GotoEffect DEF AfterDestroy, Return, Idle
<1>2. CASE task[w].outcome # "purge"
  BY <1>2, AdvanceEffect DEF AfterDestroy, Routing
<1> QED  BY <1>1, <1>2

LEMMA SettledCarries ==
    ASSUME TypeOK, BudgetInv, NEW w \in Workers, task[w].stage \in Settling,
           AfterDestroy(w), ledger' = ledger
    PROVE  /\ Carries(w)'
           /\ \A v \in Workers : v # w => task'[v] = task[v]
BY AfterDestroyEffect DEF BudgetInv, Carries, Routing, Claiming, Settling

LEMMA BudgetStep == TypeOK /\ BudgetInv /\ [Next]_vars => BudgetInv'
<1> SUFFICES ASSUME TypeOK, BudgetInv, [Next]_vars PROVE BudgetInv'
  OBVIOUS
<1>1. ASSUME NEW w \in Workers, NEW m \in Messages, ReadSubscriptions(w, m)
      PROVE  BudgetInv'
  <2>1. task'[w].stage \notin Routing /\ \A v \in Workers : v # w => task'[v] = task[v]
    BY <1>1, GotoEffect DEF ReadSubscriptions, Routing, Claiming, Settling
  <2> QED  BY <1>1, <2>1, IdleCarries, BudgetFrame DEF ReadSubscriptions
<1>2. ASSUME NEW w \in Workers, CreateMessage(w) PROVE BudgetInv'
  <2>1. task'[w].stage \notin Routing /\ \A v \in Workers : v # w => task'[v] = task[v]
    BY <1>2, GotoEffect, AdvanceEffect
       DEF CreateMessage, Idle, Publishing, Routing, Claiming, Settling
  <2> QED  BY <1>2, <2>1, IdleCarries, BudgetFrame DEF CreateMessage
<1>3. ASSUME NEW w \in Workers, CreateStates(w) PROVE BudgetInv'
  <2>1. task'[w].stage \notin Routing /\ \A v \in Workers : v # w => task'[v] = task[v]
    BY <1>3, GotoEffect DEF CreateStates, Idle, Routing, Claiming, Settling
  <2>2. CASE StoreStates(w)
    <3>1. PICK fresh :
             /\ fresh \cap DOMAIN ledger = {}
             /\ DOMAIN ledger' = DOMAIN ledger \cup fresh
             /\ DOMAIN states' = DOMAIN states \cup fresh
             /\ \A k \in DOMAIN ledger : ledger'[k] = ledger[k]
             /\ \A k \in DOMAIN states : states'[k] = states[k]
             /\ \A k \in fresh : \E match \in Match :
                   /\ states'[k] = NewRow(task[w].message, match)
                   /\ ledger'[k] = NewEntry(match)
      BY <1>3, <2>2, StoreEffect DEF CreateStates
    <3>2. LedgerGrows
      BY <1>3, <2>2, StoreGrows DEF CreateStates
    <3>3. ASSUME NEW k \in fresh PROVE Honest(k, states[k])'
      <4>1. PICK match \in Match : /\ states'[k] = NewRow(task[w].message, match)
                                   /\ ledger'[k] = NewEntry(match)
        BY <3>1
      <4>2. /\ states'[k].attempts = match.attempts
            /\ ledger'[k].tries = 0
            /\ ledger'[k].limit = match.attempts
        BY <4>1 DEF NewRow, NewEntry
      <4>3. match.attempts \in Nat
        BY DEF Match
      <4> QED  BY <4>2, <4>3 DEF Honest
    <3>4. ASSUME NEW k \in DOMAIN states PROVE Honest(k, states[k])'
      BY <3>1 DEF BudgetInv, Honest, TypeOK
    <3>5. \A v \in Workers : Carries(v)'
      BY <2>1, <3>2, IdleCarries, CarriesStays DEF BudgetInv
    <3> QED  BY <3>1, <3>3, <3>4, <3>5 DEF BudgetInv
  <2>3. CASE UNCHANGED << states, ledger >>
    BY <2>1, <2>3, IdleCarries, BudgetFrame
  <2> QED  BY <1>3, <2>2, <2>3 DEF CreateStates
<1>4. ASSUME NEW w \in Workers, Acknowledge(w) PROVE BudgetInv'
  <2>1. task'[w].stage \notin Routing /\ \A v \in Workers : v # w => task'[v] = task[v]
    BY <1>4, GotoEffect DEF Acknowledge, Idle, Routing, Claiming, Settling
  <2> QED  BY <1>4, <2>1, IdleCarries, BudgetFrame DEF Acknowledge
<1>5. ASSUME NEW w \in Workers, NEW k \in DOMAIN states, Claim(w, k)
      PROVE  Carries(w)' \/ ledger' # ledger
  BY <1>5, ClaimEffect DEF Carries, BudgetInv, TypeOK, Honest, Routing, Claiming, Settling
<1>6. ASSUME NEW w \in Workers, RoutePending(w) PROVE BudgetInv'
  <2>1. states' = states /\ ledger' = ledger
    BY <1>6 DEF RoutePending
  <2>2. CASE task' = task
    BY <2>1, <2>2, SameLedgerGrows, CarriesStays, BudgetFrame DEF BudgetInv
  <2>3. CASE \E k \in DOMAIN states : Claim(w, k)
    BY <2>1, <2>3, <1>5, ClaimEffect, BudgetFrame
  <2> QED  BY <1>6, <2>2, <2>3, PendingEffect
<1>7. ASSUME NEW w \in Workers, RouteSuspended(w) PROVE BudgetInv'
  <2>1. states' = states /\ ledger' = ledger
    BY <1>7 DEF RouteSuspended
  <2>2. CASE task' = task
    BY <2>1, <2>2, SameLedgerGrows, CarriesStays, BudgetFrame DEF BudgetInv
  <2>3. CASE \E k \in DOMAIN states : Claim(w, k)
    BY <2>1, <2>3, <1>5, ClaimEffect, BudgetFrame
  <2> QED  BY <1>7, <2>2, <2>3, SuspendedEffect
<1>8. ASSUME NEW w \in Workers, ClaimRead(w) PROVE BudgetInv'
  <2>1. states' = states /\ ledger' = ledger
    BY <1>8 DEF ClaimRead
  <2>2. CASE Stored(w) /\ Goto(w, [stage |-> "claim_write", key |-> task[w].key,
                                   row |-> states[task[w].key]])
    <3>1. Carries(w)'
      BY <2>1, <2>2, GotoEffect
         DEF Carries, BudgetInv, TypeOK, Stored, Honest, Routing, Claiming, Settling
    <3> QED  BY <2>1, <2>2, <3>1, GotoEffect, BudgetFrame
  <2>3. CASE Return(w)
    <3>1. task'[w].stage \notin Routing
      BY <2>3, GotoEffect DEF Return, Idle, Routing, Claiming, Settling
    <3> QED  BY <2>1, <2>3, <3>1, IdleCarries, GotoEffect, BudgetFrame DEF Return
  <2> QED  BY <1>8, <2>2, <2>3 DEF ClaimRead
<1>9. ASSUME NEW w \in Workers, ClaimWrite(w) PROVE BudgetInv'
  <2> DEFINE k == task[w].key
             row == [task[w].row EXCEPT !.status = "in-flight"]
  <2>1. CASE Stored(w)
    <3>1. /\ states' = [states EXCEPT ![k] = row]
          /\ Goto(w, [stage |-> "read_message", key |-> k, row |-> row])
          /\ ledger' = ledger
          /\ task[w].stage = "claim_write"
      BY <1>9, <2>1 DEF ClaimWrite
    <3>2. task[w].row \in Row
      BY <3>1, TaskShape DEF TypeOK, Claiming, ClaimTask
    <3>3. row.attempts = task[w].row.attempts
      BY <3>2 DEF Row
    <3>4. Honest(k, row) /\ k \in DOMAIN ledger
      BY <3>1, <3>3 DEF BudgetInv, Carries, Honest, Routing, Claiming
    <3> HIDE DEF k, row
    <3>5. /\ task'[w] = [stage |-> "read_message", key |-> k, row |-> row]
          /\ \A v \in Workers : v # w => task'[v] = task[v]
      BY <3>1, GotoEffect
    <3>6. Carries(w)'
      BY <3>1, <3>4, <3>5 DEF Carries, Honest, Settling, Claiming
    <3> QED
      BY <2>1, <3>1, <3>4, <3>5, <3>6, BudgetWrite DEF Stored, k
  <2>2. CASE ~ Stored(w)
    BY <1>9, <2>2, BudgetStutter DEF ClaimWrite, Break
  <2> QED  BY <2>1, <2>2
<1>10. ASSUME NEW w \in Workers, ReadMessage(w) PROVE BudgetInv'
  <2>1. CASE task[w].row.message \in messages
    <3>1. /\ task[w].stage = "read_message"
          /\ states' = states /\ ledger' = ledger
      BY <1>10, <2>1 DEF ReadMessage
    <3>2. /\ task'[w].key = task[w].key
          /\ \/ task'[w].stage = "deliver" /\ task'[w].row = task[w].row
             \/ task'[w].stage = "destroy_read" /\ task'[w].outcome = "purge"
          /\ \A v \in Workers : v # w => task'[v] = task[v]
      BY <1>10, <2>1, AdvanceEffect, GotoEffect DEF ReadMessage, Claiming, Routing
    <3>3. Carries(w)'
      BY <3>1, <3>2 DEF BudgetInv, Carries, Honest, Routing, Claiming, Settling
    <3> QED  BY <3>1, <3>2, <3>3, BudgetFrame
  <2>2. CASE task[w].row.message \notin messages
    BY <1>10, <2>2, BudgetStutter DEF ReadMessage, Break
  <2> QED  BY <2>1, <2>2
<1>11. ASSUME NEW w \in Workers, Deliver(w) PROVE BudgetInv'
  <2> DEFINE k == task[w].key
             row == task[w].row
  <2>1. PICK outcome \in {"accepted", "declined", "failed"},
             stage \in {"trip_breaker", "final_read"} :
          /\ ledger' = [ledger EXCEPT ![k] = Attempted(@, outcome)]
          /\ Goto(w, [stage |-> stage, key |-> k, row |-> row, outcome |-> outcome])
    BY <1>11 DEF Deliver
  <2>2. task[w].stage = "deliver" /\ states' = states
    BY <1>11 DEF Deliver
  <2>3. /\ k \in DOMAIN ledger
        /\ Honest(k, row)
        /\ row \in Row
    BY <2>2, TaskShape DEF TypeOK, BudgetInv, Carries, Routing, Claiming, ClaimTask
  <2>4. ledger[k] \in Entry /\ row.attempts \in Nat
    BY <2>3 DEF TypeOK, Row
  <2>5. /\ DOMAIN ledger' = DOMAIN ledger
        /\ ledger'[k] = Attempted(ledger[k], outcome)
        /\ \A j \in DOMAIN ledger : j # k => ledger'[j] = ledger[j]
    BY <2>1, <2>3 DEF TypeOK
  <2>6. /\ ledger'[k] \in Entry
        /\ ledger'[k].limit = ledger[k].limit
        /\ ledger'[k].tries = ledger[k].tries + 1
        /\ ledger'[k].answers =
              IF outcome = "failed" THEN ledger[k].answers ELSE ledger[k].answers + 1
    BY <2>4, <2>5, AttemptedEntry
  <2>7. LedgerGrows
    BY <2>1, <2>3, DeliverGrows
  <2>8. Carries(w)'
    <3> HIDE DEF k, row
    <3>1. task'[w] = [stage |-> stage, key |-> k, row |-> row, outcome |-> outcome]
      BY <2>1, GotoEffect
    <3>2. IF outcome = "failed"
          THEN /\ ledger'[k].tries > 0
               /\ row.attempts + ledger'[k].tries > ledger'[k].limit
          ELSE ledger'[k].answers > 0
      BY <2>3, <2>4, <2>6 DEF Honest, Entry
    <3> QED  BY <2>3, <2>5, <3>1, <3>2 DEF Carries, Claiming
  <2>9. \A v \in Workers : Carries(v)'
    BY <2>1, <2>7, <2>8, CarriesStays, GotoEffect DEF BudgetInv
  <2>10. \A j \in DOMAIN states' : Honest(j, states[j])'
    <3> SUFFICES ASSUME NEW j \in DOMAIN states PROVE Honest(j, states[j])'
      BY <2>2
    <3>1. j \in DOMAIN ledger /\ states[j] \in Row /\ Honest(j, states[j])
      BY DEF TypeOK, BudgetInv
    <3> QED  BY <2>2, <2>7, <3>1, HonestStays DEF Honest
  <2> QED  BY <2>2, <2>9, <2>10 DEF BudgetInv
<1>12. ASSUME NEW w \in Workers, TripBreaker(w) PROVE BudgetInv'
  <2>1. /\ Advance(w, "final_read")
        /\ task[w].stage = "trip_breaker"
        /\ states' = states /\ ledger' = ledger
    BY <1>12 DEF TripBreaker
  <2>2. /\ task'[w].stage = "final_read"
        /\ task'[w].key = task[w].key
        /\ task'[w].row = task[w].row
        /\ task'[w].outcome = task[w].outcome
        /\ \A v \in Workers : v # w => task'[v] = task[v]
    BY <2>1, AdvanceEffect DEF Settling, Routing
  <2>3. Carries(w)'
    BY <2>1, <2>2 DEF BudgetInv, Carries, Routing, Claiming, Settling
  <2> QED  BY <2>1, <2>2, <2>3, BudgetFrame
<1>13. ASSUME NEW w \in Workers, FinalRead(w) PROVE BudgetInv'
  <2> DEFINE k == task[w].key
             row == task[w].row
             outcome == task[w].outcome
             verdict == Verdict(row, outcome)
             settled == Settled(states[k], row, verdict)
  <2>1. task[w].stage = "final_read"
    BY <1>13 DEF FinalRead
  <2>2. CASE Stored(w) /\ Goto(w, [task[w] EXCEPT !.stage = "final_write", !.row = settled])
    <3>1. states' = states /\ ledger' = ledger
      BY <1>13, <2>2 DEF FinalRead
    <3>2. /\ task[w] \in SettleTask
          /\ row \in Row /\ row.attempts \in Nat
          /\ k \in DOMAIN states /\ k \in DOMAIN ledger /\ states[k] \in Row
          /\ outcome # "purge"
      BY <2>1, <2>2, TaskShape
         DEF TypeOK, Stored, BudgetInv, Carries, Settling, SettleTask, Row
    <3>3. ledger[k] \in Entry
      BY <3>2 DEF TypeOK
    <3>4. /\ settled.status = verdict
          /\ verdict = "suspended" => settled.attempts = row.attempts - 1
          /\ verdict # "suspended" => settled.attempts = states[k].attempts
      BY <3>2, SettledFields
    <3>5. IF outcome = "failed"
          THEN ledger[k].tries > 0 /\ row.attempts + ledger[k].tries > ledger[k].limit
          ELSE ledger[k].answers > 0
      BY <2>1 DEF BudgetInv, Carries
    <3>6. /\ verdict = "suspended" => outcome = "failed" /\ row.attempts > 1
          /\ verdict # "suspended" /\ outcome = "failed" => row.attempts <= 1
      BY <3>2 DEF Verdict, OutOfAttempts, SettleTask, Outcome
    <3>7. Honest(k, settled)
      <4>1. CASE verdict = "suspended"
        <5>1. settled.attempts = row.attempts - 1
          BY <3>4, <4>1
        <5>2. row.attempts + ledger[k].tries > ledger[k].limit
          BY <3>5, <3>6, <4>1
        <5>3. ledger[k].tries \in Nat /\ ledger[k].limit \in Nat
          BY <3>3 DEF Entry
        <5> HIDE DEF k, row, settled
        <5> QED  BY <3>2, <5>1, <5>2, <5>3 DEF Honest
      <4>2. CASE verdict # "suspended"
        BY <3>2, <3>4, <4>2 DEF BudgetInv, Honest
      <4> QED  BY <4>1, <4>2
    <3>8. verdict # "suspended" => Spent(k)
      <4> SUFFICES ASSUME verdict # "suspended" PROVE Spent(k)
        OBVIOUS
      <4>1. CASE outcome = "failed"
        <5>1. row.attempts <= 1 /\ ledger[k].tries > 0
              /\ row.attempts + ledger[k].tries > ledger[k].limit
          BY <3>5, <3>6, <4>1
        <5>2. ledger[k].tries \in Nat /\ ledger[k].limit \in Nat
          BY <3>3 DEF Entry
        <5> HIDE DEF k, row
        <5> QED  BY <3>2, <5>1, <5>2 DEF Spent
      <4>2. CASE outcome # "failed"
        BY <3>5, <4>2 DEF Spent
      <4> QED  BY <4>1, <4>2
    <3>9. "suspended" \notin Terminal
      BY DEF Terminal
    <3> HIDE DEF settled, verdict
    <3>10. /\ task'[w] = [task[w] EXCEPT !.stage = "final_write", !.row = settled]
           /\ \A v \in Workers : v # w => task'[v] = task[v]
      BY <2>2, GotoEffect
    <3>11. /\ task'[w].stage = "final_write"
           /\ task'[w].row = settled
           /\ task'[w].key = k
           /\ task'[w].outcome = outcome
      BY <3>2, <3>10 DEF SettleTask
    <3> HIDE DEF k, outcome
    <3>12. Carries(w)'
      BY <3>1, <3>2, <3>4, <3>7, <3>8, <3>9, <3>11 DEF Carries, Honest, Spent
    <3> QED  BY <3>1, <3>10, <3>12, BudgetFrame
  <2>3. CASE Advance(w, "reschedule")
    <3>1. states' = states /\ ledger' = ledger
      BY <1>13, <2>3 DEF FinalRead, Break
    <3>2. /\ task'[w].stage = "reschedule"
          /\ task'[w].key = k
          /\ task'[w].outcome = outcome
          /\ \A v \in Workers : v # w => task'[v] = task[v]
      BY <2>1, <2>3, AdvanceEffect DEF Settling, Routing
    <3>3. Carries(w)'
      BY <2>1, <3>1, <3>2 DEF BudgetInv, Carries, Routing, Claiming, Settling
    <3> QED  BY <3>1, <3>2, <3>3, BudgetFrame
  <2>4. CASE Break("deadlocked")
    BY <2>4, BudgetStutter DEF Break
  <2> QED  BY <1>13, <2>2, <2>3, <2>4 DEF FinalRead
<1>14. ASSUME NEW w \in Workers, FinalWrite(w) PROVE BudgetInv'
  <2> DEFINE k == task[w].key
             row == task[w].row
  <2>1. CASE Stored(w)
    <3>1. /\ states' = [states EXCEPT ![k] = row]
          /\ task[w].stage = "final_write"
          /\ ledger' = ledger
      BY <1>14, <2>1 DEF FinalWrite
    <3>2. /\ Honest(k, row)
          /\ k \in DOMAIN ledger
          /\ row.status \in Terminal => Spent(k)
      BY <3>1 DEF BudgetInv, Carries, Routing, Settling
    <3>3. CASE row.status \in Terminal /\ Advance(w, "destroy_read")
      <4>1. /\ task'[w].stage = "destroy_read" /\ task'[w].key = k
            /\ task'[w].outcome = task[w].outcome
            /\ \A v \in Workers : v # w => task'[v] = task[v]
        BY <3>1, <3>3, AdvanceEffect DEF Settling, Routing
      <4>2. Carries(w)'
        BY <3>1, <3>2, <3>3, <4>1 DEF BudgetInv, Carries, Spent, Routing, Claiming, Settling
      <4> QED  BY <2>1, <3>1, <3>2, <4>1, <4>2, BudgetWrite DEF Stored
    <3>4. CASE Advance(w, "reschedule")
      <4>1. /\ task'[w].stage = "reschedule" /\ task'[w].key = k
            /\ task'[w].outcome = task[w].outcome
            /\ \A v \in Workers : v # w => task'[v] = task[v]
        BY <3>1, <3>4, AdvanceEffect DEF Settling, Routing
      <4>2. Carries(w)'
        BY <3>1, <3>2, <4>1 DEF BudgetInv, Carries, Routing, Claiming, Settling
      <4> QED  BY <2>1, <3>1, <3>2, <4>1, <4>2, BudgetWrite DEF Stored
    <3> QED  BY <1>14, <2>1, <3>3, <3>4 DEF FinalWrite
  <2>2. CASE ~ Stored(w)
    BY <1>14, <2>2, BudgetStutter DEF FinalWrite, Break
  <2> QED  BY <2>1, <2>2
<1>15. ASSUME NEW w \in Workers, DestroyRead(w) PROVE BudgetInv'
  <2>1. /\ task[w].stage = "destroy_read"
        /\ states' = states /\ ledger' = ledger
    BY <1>15 DEF DestroyRead
  <2>2. CASE Advance(w, "destroy_write")
    <3>1. /\ task'[w].stage = "destroy_write" /\ task'[w].key = task[w].key
          /\ task'[w].outcome = task[w].outcome
          /\ \A v \in Workers : v # w => task'[v] = task[v]
      BY <2>1, <2>2, AdvanceEffect DEF Settling, Routing
    <3>2. Carries(w)'
      BY <2>1, <3>1 DEF BudgetInv, Carries, Spent, Routing, Claiming, Settling
    <3> QED  BY <2>1, <3>1, <3>2, BudgetFrame
  <2>3. CASE AfterDestroy(w)
    BY <2>1, <2>3, SettledCarries, BudgetFrame DEF Settling
  <2> QED  BY <1>15, <2>2, <2>3 DEF DestroyRead
<1>16. ASSUME NEW w \in Workers, DestroyWrite(w) PROVE BudgetInv'
  <2> DEFINE k == task[w].key
  <2>1. CASE Stored(w)
    <3>1. /\ task[w].stage = "destroy_write"
          /\ states' = [j \in DOMAIN states \ {k} |-> states[j]]
          /\ ledger' = ledger
          /\ AfterDestroy(w)
      BY <1>16, <2>1 DEF DestroyWrite
    <3>2. Carries(w)' /\ \A v \in Workers : v # w => task'[v] = task[v]
      BY <3>1, SettledCarries DEF Settling
    <3>3. \A v \in Workers : Carries(v)'
      BY <3>1, <3>2, SameLedgerGrows, CarriesStays DEF BudgetInv
    <3>4. \A j \in DOMAIN states' : Honest(j, states[j])'
      BY <3>1 DEF BudgetInv, Honest
    <3> QED  BY <3>1, <3>3, <3>4 DEF BudgetInv
  <2>2. CASE ~ Stored(w)
    BY <1>16, <2>2, BudgetStutter DEF DestroyWrite, Break
  <2> QED  BY <2>1, <2>2
<1>17. ASSUME NEW w \in Workers, Reschedule(w) PROVE BudgetInv'
  <2>1. task'[w].stage \notin Routing /\ \A v \in Workers : v # w => task'[v] = task[v]
    BY <1>17, GotoEffect DEF Reschedule, Return, Idle, Routing, Claiming, Settling
  <2> QED  BY <1>17, <2>1, IdleCarries, BudgetFrame DEF Reschedule
<1>18. ASSUME NEW k \in DOMAIN states, Elapse(k) PROVE BudgetInv'
  <2>1. /\ DOMAIN states' = DOMAIN states
        /\ \A j \in DOMAIN states : states'[j].attempts = states[j].attempts
    BY <1>18 DEF Elapse, TypeOK, Row
  <2>2. ledger' = ledger /\ task' = task
    BY <1>18 DEF Elapse
  <2> QED
    BY <2>1, <2>2 DEF BudgetInv, Honest, Carries, Spent
<1>19. CASE Restart
  <2>1. \A w \in Workers : task'[w].stage \notin Routing
    BY <1>19 DEF Restart, Idle, Routing, Claiming, Settling
  <2>2. states' = states /\ ledger' = ledger
    BY <1>19 DEF Restart
  <2> QED
    BY <2>1, <2>2, IdleCarries DEF BudgetInv, Honest
<1>20. CASE UNCHANGED vars
  BY <1>20, BudgetStutter DEF vars
<1> QED
  BY <1>1, <1>2, <1>3, <1>4, <1>6, <1>7, <1>8, <1>9, <1>10, <1>11, <1>12, <1>13,
     <1>14, <1>15, <1>16, <1>17, <1>18, <1>19, <1>20 DEF Next, Publish, Dispatch

LEMMA BudgetInvariant == Spec => []BudgetInv
<1>1. Init => BudgetInv
  BY DEF Init, BudgetInv, Carries, Idle, Routing, Claiming, Settling
<1> QED  BY <1>1, BudgetStep, TypeCorrect, PTL DEF Spec

-----------------------------------------------------------------------------
(* Rows. *)

LEMMA LedgerStep ==
    ASSUME TypeOK, BudgetInv, [Next]_vars
    PROVE  LedgerGrows
<1>1. ASSUME NEW w \in Workers, CreateStates(w) PROVE LedgerGrows
  BY <1>1, StoreGrows, SameLedgerGrows DEF CreateStates
<1>2. ASSUME NEW w \in Workers, Deliver(w) PROVE LedgerGrows
  <2>1. task[w].key \in DOMAIN ledger
    BY <1>2 DEF Deliver, BudgetInv, Carries, Routing, Claiming
  <2> QED  BY <1>2, <2>1, DeliverEffect, DeliverGrows
<1>3. CASE ledger' = ledger
  BY <1>3, SameLedgerGrows
<1> QED
  BY <1>1, <1>2, <1>3
     DEF Next, vars, Publish, Dispatch, ReadSubscriptions, CreateMessage, Acknowledge,
         RoutePending, RouteSuspended, Elapse, ClaimRead, ClaimWrite, ReadMessage,
         TripBreaker, FinalRead, FinalWrite, DestroyRead, DestroyWrite, Reschedule,
         Restart, Break

(* A row, stored or carried, names the subscription its delivery was       *)
(* created for, whoever wrote it last.                                     *)
Keeps(w) ==
    task[w].stage \in Routing =>
        task[w].row.subscription = ledger[task[w].key].subscription

RowsInv ==
    /\ \A k \in DOMAIN states : states[k].subscription = ledger[k].subscription
    /\ \A w \in Workers : Keeps(w)

LEMMA RowsFrame ==
    ASSUME TypeOK, BudgetInv, RowsInv, LedgerGrows, NEW w \in Workers, Keeps(w)',
           \A v \in Workers : v # w => task'[v] = task[v],
           \A k \in DOMAIN states' : states'[k].subscription = ledger'[k].subscription
    PROVE  RowsInv'
<1>1. ASSUME NEW v \in Workers, v # w PROVE Keeps(v)'
  <2>1. task[v].stage \in Routing => task[v].key \in DOMAIN ledger
    BY DEF BudgetInv, Carries
  <2> QED  BY <1>1, <2>1 DEF RowsInv, Keeps, LedgerGrows
<1> QED  BY <1>1 DEF RowsInv

LEMMA RowsStep == TypeOK /\ BudgetInv /\ RowsInv /\ [Next]_vars => RowsInv'
<1> SUFFICES ASSUME TypeOK, BudgetInv, RowsInv, [Next]_vars PROVE RowsInv'
  OBVIOUS
<1>0. LedgerGrows
  BY LedgerStep
<1>1. ASSUME NEW w \in Workers, Keeps(w)', states' = states,
             \A v \in Workers : v # w => task'[v] = task[v]
      PROVE  RowsInv'
  BY <1>0, <1>1, RowsFrame DEF RowsInv, LedgerGrows, TypeOK
<1>2. ASSUME NEW w \in Workers, task'[w].stage \notin Routing, states' = states,
             \A v \in Workers : v # w => task'[v] = task[v]
      PROVE  RowsInv'
  BY <1>1, <1>2 DEF Keeps
<1>3. ASSUME NEW w \in Workers, task[w].stage \in Routing,
             task'[w].key = task[w].key, task'[w].row = task[w].row
      PROVE  Keeps(w)'
  BY <1>0, <1>3 DEF RowsInv, Keeps, LedgerGrows, BudgetInv, Carries
<1>4. ASSUME UNCHANGED << states, ledger, task >> PROVE RowsInv'
  BY <1>4 DEF RowsInv, Keeps
<1>5. ASSUME NEW w \in Workers, NEW m \in Messages, ReadSubscriptions(w, m)
      PROVE  RowsInv'
  BY <1>2, <1>5, GotoEffect DEF ReadSubscriptions, Routing, Claiming, Settling
<1>6. ASSUME NEW w \in Workers, CreateMessage(w) PROVE RowsInv'
  BY <1>2, <1>6, GotoEffect, AdvanceEffect
     DEF CreateMessage, Idle, Publishing, Routing, Claiming, Settling
<1>7. ASSUME NEW w \in Workers, CreateStates(w) PROVE RowsInv'
  <2>1. /\ task[w].stage = "create_states"
        /\ task'[w].stage \notin Routing
        /\ \A v \in Workers : v # w => task'[v] = task[v]
    BY <1>7, GotoEffect DEF CreateStates, Idle, Routing, Claiming, Settling
  <2>2. CASE StoreStates(w)
    <3>1. PICK fresh :
             /\ fresh \cap DOMAIN ledger = {}
             /\ DOMAIN ledger' = DOMAIN ledger \cup fresh
             /\ DOMAIN states' = DOMAIN states \cup fresh
             /\ \A k \in DOMAIN ledger : ledger'[k] = ledger[k]
             /\ \A k \in DOMAIN states : states'[k] = states[k]
             /\ \A k \in fresh : \E match \in Match :
                   /\ states'[k] = NewRow(task[w].message, match)
                   /\ ledger'[k] = NewEntry(match)
      BY <2>1, <2>2, StoreEffect
    <3>2. ASSUME NEW k \in fresh PROVE states'[k].subscription = ledger'[k].subscription
      BY <3>1 DEF NewRow, NewEntry
    <3>3. \A k \in DOMAIN states : states'[k].subscription = ledger'[k].subscription
      BY <3>1 DEF RowsInv, TypeOK
    <3> QED  BY <1>0, <2>1, <3>1, <3>2, <3>3, RowsFrame DEF Keeps
  <2> QED  BY <1>2, <1>7, <2>1, <2>2 DEF CreateStates
<1>8. ASSUME NEW w \in Workers, Acknowledge(w) PROVE RowsInv'
  BY <1>2, <1>8, GotoEffect DEF Acknowledge, Idle, Routing, Claiming, Settling
<1>9. ASSUME NEW w \in Workers, NEW k \in DOMAIN states, Claim(w, k),
             UNCHANGED << states, ledger >>
      PROVE  RowsInv'
  BY <1>1, <1>9, ClaimEffect DEF Keeps, RowsInv
<1>10. ASSUME NEW w \in Workers, RoutePending(w) PROVE RowsInv'
  BY <1>4, <1>9, <1>10, PendingEffect
<1>11. ASSUME NEW w \in Workers, RouteSuspended(w) PROVE RowsInv'
  BY <1>4, <1>9, <1>11, SuspendedEffect
<1>12. ASSUME NEW w \in Workers, ClaimRead(w) PROVE RowsInv'
  <2>1. states' = states /\ ledger' = ledger
    BY <1>12 DEF ClaimRead
  <2>2. CASE Stored(w) /\ Goto(w, [stage |-> "claim_write", key |-> task[w].key,
                                   row |-> states[task[w].key]])
    <3>1. Keeps(w)'
      BY <2>1, <2>2, GotoEffect DEF Keeps, RowsInv, Stored
    <3> QED  BY <1>1, <2>1, <2>2, <3>1, GotoEffect
  <2>3. CASE Return(w)
    BY <1>2, <2>1, <2>3, GotoEffect DEF Return, Idle, Routing, Claiming, Settling
  <2> QED  BY <1>12, <2>2, <2>3 DEF ClaimRead
<1>13. ASSUME NEW outcome, Break(outcome) PROVE RowsInv'
  BY <1>4, <1>13 DEF Break
<1>14. ASSUME NEW w \in Workers, NEW row, Stored(w), Keeps(w)',
              row.subscription = ledger[task[w].key].subscription,
              states' = [states EXCEPT ![task[w].key] = row],
              \A v \in Workers : v # w => task'[v] = task[v], ledger' = ledger
       PROVE  RowsInv'
  <2>1. \A k \in DOMAIN states' : states'[k].subscription = ledger[k].subscription
    BY <1>14 DEF Stored, RowsInv, TypeOK
  <2> QED  BY <1>0, <1>14, <2>1, RowsFrame
<1>15. ASSUME NEW w \in Workers, ClaimWrite(w) PROVE RowsInv'
  <2> DEFINE k == task[w].key
             row == [task[w].row EXCEPT !.status = "in-flight"]
  <2>1. CASE Stored(w)
    <3>1. /\ task[w].stage = "claim_write"
          /\ states' = [states EXCEPT ![k] = row]
          /\ Goto(w, [stage |-> "read_message", key |-> k, row |-> row])
          /\ ledger' = ledger
      BY <1>15, <2>1 DEF ClaimWrite
    <3>2. task[w].row \in Row
      BY <3>1, TaskShape DEF TypeOK, Claiming, ClaimTask
    <3>3. row.subscription = ledger[k].subscription
      BY <3>1, <3>2 DEF RowsInv, Keeps, Routing, Claiming, Row
    <3> HIDE DEF row
    <3>4. Keeps(w)'
      BY <3>1, <3>3, GotoEffect DEF Keeps
    <3> QED  BY <1>14, <2>1, <3>1, <3>3, <3>4, GotoEffect
  <2> QED  BY <1>13, <1>15, <2>1 DEF ClaimWrite
<1>16. ASSUME NEW w \in Workers, ReadMessage(w) PROVE RowsInv'
  <2>1. CASE task[w].row.message \in messages
    <3>1. task[w].stage = "read_message" /\ states' = states
      BY <1>16, <2>1 DEF ReadMessage
    <3>2. /\ task'[w].key = task[w].key
          /\ task'[w].row = task[w].row
          /\ \A v \in Workers : v # w => task'[v] = task[v]
      BY <1>16, <2>1, AdvanceEffect, GotoEffect DEF ReadMessage, Claiming, Routing
    <3> QED  BY <1>1, <1>3, <3>1, <3>2 DEF Routing, Claiming
  <2> QED  BY <1>13, <1>16, <2>1 DEF ReadMessage
<1>17. ASSUME NEW w \in Workers, Deliver(w) PROVE RowsInv'
  <2>1. PICK outcome \in {"accepted", "declined", "failed"} :
           /\ task[w].stage = "deliver"
           /\ task'[w] = [stage |-> IF outcome = "failed" /\ OutOfAttempts(task[w].row)
                                    THEN "trip_breaker" ELSE "final_read",
                          key |-> task[w].key, row |-> task[w].row, outcome |-> outcome]
           /\ \A v \in Workers : v # w => task'[v] = task[v]
           /\ states' = states
    BY <1>17, DeliverEffect
  <2>2. task'[w].key = task[w].key /\ task'[w].row = task[w].row
    BY <2>1
  <2> QED  BY <1>1, <1>3, <2>1, <2>2 DEF Routing, Claiming
<1>18. ASSUME NEW w \in Workers, NEW stage, task[w].stage \in Settling, Advance(w, stage)
       PROVE  Keeps(w)' /\ \A v \in Workers : v # w => task'[v] = task[v]
  BY <1>3, <1>18, AdvanceEffect DEF Routing
<1>19. ASSUME NEW w \in Workers, TripBreaker(w) PROVE RowsInv'
  BY <1>1, <1>18, <1>19 DEF TripBreaker, Settling
<1>20. ASSUME NEW w \in Workers, FinalRead(w) PROVE RowsInv'
  <2> DEFINE k == task[w].key
             verdict == Verdict(task[w].row, task[w].outcome)
  <2>1. CASE Break("deadlocked")
    BY <1>13, <2>1
  <2>2. CASE ~ Break("deadlocked")
    <3>1. /\ task[w].stage = "final_read"
          /\ task'[w].key = k
          /\ \/ /\ Stored(w)
                /\ task'[w].row = Settled(states[k], task[w].row, verdict)
             \/ task'[w].row = task[w].row
          /\ \A v \in Workers : v # w => task'[v] = task[v]
          /\ states' = states /\ ledger' = ledger
      BY <1>20, <2>2, FinalReadEffect
    <3>2. CASE task'[w].row = task[w].row
      BY <1>1, <1>3, <3>1, <3>2 DEF Routing, Settling
    <3>3. CASE Stored(w) /\ task'[w].row = Settled(states[k], task[w].row, verdict)
      <4>1. task[w].row \in Row /\ states[k] \in Row
        BY <3>1, <3>3, TaskShape DEF TypeOK, Stored, Settling, SettleTask
      <4>2. task'[w].row.subscription = states[k].subscription
        BY <3>3, <4>1, SettledFields
      <4>3. Keeps(w)'
        BY <3>1, <3>3, <4>2 DEF RowsInv, Keeps, Stored
      <4> QED  BY <1>1, <3>1, <4>3
    <3> QED  BY <3>1, <3>2, <3>3
  <2> QED  BY <2>1, <2>2
<1>21. ASSUME NEW w \in Workers, FinalWrite(w) PROVE RowsInv'
  <2>1. CASE Stored(w)
    <3>1. /\ task[w].stage = "final_write"
          /\ states' = [states EXCEPT ![task[w].key] = task[w].row]
          /\ Advance(w, IF task[w].row.status \in Terminal THEN "destroy_read"
                        ELSE "reschedule")
          /\ ledger' = ledger
      BY <1>21, <2>1 DEF FinalWrite
    <3>2. task[w].row.subscription = ledger[task[w].key].subscription
      BY <3>1 DEF RowsInv, Keeps, Routing, Settling
    <3> QED  BY <1>14, <1>18, <2>1, <3>1, <3>2 DEF Settling
  <2> QED  BY <1>13, <1>21, <2>1 DEF FinalWrite
<1>22. ASSUME NEW w \in Workers, task[w].stage \in Settling, AfterDestroy(w)
       PROVE  Keeps(w)' /\ \A v \in Workers : v # w => task'[v] = task[v]
  <2>1. CASE Return(w)
    BY <2>1, GotoEffect DEF Return, Idle, Keeps, Routing, Claiming, Settling
  <2> QED  BY <1>18, <1>22, <2>1 DEF AfterDestroy
<1>23. ASSUME NEW w \in Workers, DestroyRead(w) PROVE RowsInv'
  BY <1>1, <1>18, <1>22, <1>23 DEF DestroyRead, Settling
<1>24. ASSUME NEW w \in Workers, DestroyWrite(w) PROVE RowsInv'
  <2>1. CASE Stored(w)
    <3>1. \A k \in DOMAIN states' : states'[k].subscription = ledger'[k].subscription
      BY <1>24, <2>1 DEF DestroyWrite, RowsInv
    <3> QED  BY <1>0, <1>22, <1>24, <2>1, <3>1, RowsFrame DEF DestroyWrite, Settling
  <2> QED  BY <1>13, <1>24, <2>1 DEF DestroyWrite
<1>25. ASSUME NEW w \in Workers, Reschedule(w) PROVE RowsInv'
  BY <1>2, <1>25, GotoEffect DEF Reschedule, Return, Idle, Routing, Claiming, Settling
<1>26. ASSUME NEW k \in DOMAIN states, Elapse(k) PROVE RowsInv'
  <2>1. /\ DOMAIN states' = DOMAIN states
        /\ \A j \in DOMAIN states : states'[j].subscription = states[j].subscription
    BY <1>26 DEF Elapse, TypeOK, Row
  <2>2. task' = task /\ ledger' = ledger
    BY <1>26 DEF Elapse
  <2> QED  BY <2>1, <2>2 DEF RowsInv, Keeps
<1>27. CASE Restart
  BY <1>27 DEF Restart, RowsInv, Keeps, Idle, Routing, Claiming, Settling
<1>28. CASE UNCHANGED vars
  BY <1>4, <1>28 DEF vars
<1> QED
  BY <1>5, <1>6, <1>7, <1>8, <1>10, <1>11, <1>12, <1>15, <1>16, <1>17, <1>19, <1>20,
     <1>21, <1>23, <1>24, <1>25, <1>26, <1>27, <1>28 DEF Next, Publish, Dispatch

LEMMA RowsInvariant == Spec => []RowsInv
<1>1. Init => RowsInv
  BY DEF Init, RowsInv, Keeps, Idle, Routing, Claiming, Settling
<1> QED  BY <1>1, RowsStep, BudgetInvariant, TypeCorrect, PTL DEF Spec

-----------------------------------------------------------------------------
(* Losses. *)

(* A purge is under way: the message could not be read, and the state is   *)
(* being destroyed without an attempt.                                     *)
Purges(w, k) ==
    /\ task[w].stage \in {"destroy_read", "destroy_write"}
    /\ task[w].outcome = "purge"
    /\ task[w].key = k

(* Deliveries that were dropped, and those a purge is about to drop.       *)
AtRisk ==
    {k \in DOMAIN ledger : /\ ~ Spent(k)
                           /\ k \in Gone \/ \E w \in Workers : Purges(w, k)}

(* Each of them is accounted for by a repository call that failed. *)
LossInv == Cardinality(AtRisk) <= faults

(* Nothing more is at risk after a step that takes no state away and after *)
(* which the worker is not at a purge it was not at before.                *)
LEMMA RiskFrame ==
    ASSUME TypeOK, BudgetInv, LedgerGrows, NEW w \in Workers,
           DOMAIN states \subseteq DOMAIN states',
           DOMAIN ledger' \ DOMAIN ledger \subseteq DOMAIN states',
           \A v \in Workers : v # w => task'[v] = task[v],
           \A k : Purges(w, k)' => Purges(w, k)
    PROVE  AtRisk' \subseteq AtRisk
<1> SUFFICES ASSUME NEW k \in DOMAIN ledger', ~ Spent(k)',
                    k \in Gone' \/ \E v \in Workers : Purges(v, k)'
             PROVE  k \in AtRisk
  BY DEF AtRisk
<1>1. \A v \in Workers : Purges(v, k)' => Purges(v, k)
  BY DEF Purges
<1>2. k \in DOMAIN ledger
  <2>1. CASE k \in Gone'
    BY <2>1 DEF Gone
  <2>2. CASE \E v \in Workers : Purges(v, k)'
    BY <1>1, <2>2 DEF Purges, BudgetInv, Carries, Routing, Settling
  <2> QED  BY <2>1, <2>2
<1>3. ~ Spent(k)
  BY <1>2, SpentStays
<1> QED  BY <1>1, <1>2, <1>3 DEF AtRisk, Gone

(* A step either puts nothing at risk, or one delivery at the cost of one  *)
(* failed call.                                                            *)
LEMMA RiskStep ==
    ASSUME TypeOK, BudgetInv, [Next]_vars
    PROVE  \/ AtRisk' \subseteq AtRisk /\ faults' >= faults
           \/ faults' = faults + 1 /\ \E k : AtRisk' \subseteq AtRisk \cup {k}
<1> DEFINE Safe == AtRisk' \subseteq AtRisk /\ faults' >= faults
<1>1. faults \in Nat
  BY DEF TypeOK
<1>2. Fault => faults' >= faults
  BY <1>1 DEF Fault
<1>3. ASSUME NEW w \in Workers, states' = states, ledger' = ledger,
             faults' = faults \/ Fault,
             \A v \in Workers : v # w => task'[v] = task[v],
             \A k : Purges(w, k)' => Purges(w, k)
      PROVE  Safe
  BY <1>1, <1>2, <1>3, SameLedgerGrows, RiskFrame
<1>4. ASSUME NEW w \in Workers, states' = states, ledger' = ledger,
             faults' = faults \/ Fault,
             \A v \in Workers : v # w => task'[v] = task[v],
             task'[w].stage \notin {"destroy_read", "destroy_write"}
      PROVE  Safe
  BY <1>3, <1>4 DEF Purges
<1>5. ASSUME NEW w \in Workers, NEW m \in Messages, ReadSubscriptions(w, m) PROVE Safe
  BY <1>4, <1>5, GotoEffect DEF ReadSubscriptions
<1>6. ASSUME NEW w \in Workers, CreateMessage(w) PROVE Safe
  BY <1>4, <1>6, GotoEffect, AdvanceEffect DEF CreateMessage, Idle, Publishing
<1>7. ASSUME NEW w \in Workers, CreateStates(w) PROVE Safe
  <2>1. /\ task'[w].stage \notin {"destroy_read", "destroy_write"}
        /\ \A v \in Workers : v # w => task'[v] = task[v]
        /\ faults' = faults \/ Fault
    BY <1>7, GotoEffect DEF CreateStates, Idle
  <2>2. CASE StoreStates(w)
    <3>1. /\ DOMAIN states \subseteq DOMAIN states'
          /\ DOMAIN ledger' \ DOMAIN ledger \subseteq DOMAIN states'
          /\ LedgerGrows
      BY <1>7, <2>2, StoreEffect, StoreGrows DEF CreateStates
    <3> QED  BY <1>1, <1>2, <2>1, <3>1, RiskFrame DEF Purges
  <2>3. CASE UNCHANGED << states, ledger >>
    BY <1>4, <2>1, <2>3
  <2> QED  BY <1>7, <2>2, <2>3 DEF CreateStates
<1>8. ASSUME NEW w \in Workers, Acknowledge(w) PROVE Safe
  BY <1>4, <1>8, GotoEffect DEF Acknowledge, Idle
<1>9. ASSUME task' = task, states' = states, ledger' = ledger, faults' = faults \/ Fault
      PROVE  Safe
  BY <1>1, <1>2, <1>9 DEF AtRisk, Spent, Gone, Purges
<1>10. ASSUME NEW w \in Workers, RoutePending(w) PROVE Safe
  <2>1. /\ states' = states /\ ledger' = ledger
        /\ faults' = faults \/ Fault
    BY <1>10 DEF RoutePending
  <2> QED  BY <1>4, <1>9, <1>10, <2>1, PendingEffect, ClaimEffect
<1>11. ASSUME NEW w \in Workers, RouteSuspended(w) PROVE Safe
  BY <1>4, <1>9, <1>11, SuspendedEffect, ClaimEffect
<1>12. ASSUME NEW w \in Workers, ClaimRead(w) PROVE Safe
  BY <1>4, <1>12, GotoEffect DEF ClaimRead, Return, Idle
<1>13. ASSUME NEW outcome, Break(outcome) PROVE Safe
  BY <1>9, <1>13 DEF Break
<1>14. ASSUME NEW w \in Workers, ClaimWrite(w) PROVE Safe
  <2>1. CASE Stored(w)
    <3>1. /\ task'[w].stage = "read_message"
          /\ \A v \in Workers : v # w => task'[v] = task[v]
          /\ DOMAIN states' = DOMAIN states
          /\ ledger' = ledger /\ faults' = faults
      BY <1>14, <2>1, GotoEffect DEF ClaimWrite
    <3> QED  BY <1>1, <3>1, SameLedgerGrows, RiskFrame DEF Purges
  <2> QED  BY <1>13, <1>14, <2>1 DEF ClaimWrite
<1>15. ASSUME NEW w \in Workers, ReadMessage(w)
       PROVE  \/ Safe
              \/ faults' = faults + 1 /\ \E k : AtRisk' \subseteq AtRisk \cup {k}
  <2>1. CASE Advance(w, "deliver") /\ faults' = faults
    BY <1>4, <1>13, <1>15, <2>1, AdvanceEffect DEF ReadMessage, Claiming
  <2>2. CASE /\ Fault
             /\ Goto(w, [stage |-> "destroy_read", key |-> task[w].key,
                         row |-> task[w].row, outcome |-> "purge"])
             /\ states' = states /\ ledger' = ledger
    <3>1. /\ task'[w].key = task[w].key
          /\ \A v \in Workers : v # w => task'[v] = task[v]
      BY <2>2, GotoEffect
    <3>2. \A v \in Workers : \A k : Purges(v, k)' => Purges(v, k) \/ k = task[w].key
      BY <3>1 DEF Purges
    <3>3. AtRisk' \subseteq AtRisk \cup {task[w].key}
      BY <2>2, <3>2 DEF AtRisk, Spent, Gone
    <3> QED  BY <2>2, <3>3 DEF Fault
  <2> QED  BY <1>13, <1>15, <2>1, <2>2 DEF ReadMessage
<1>16. ASSUME NEW w \in Workers, Deliver(w) PROVE Safe
  <2>1. PICK outcome \in {"accepted", "declined", "failed"},
             stage \in {"trip_breaker", "final_read"} :
          /\ ledger' = [ledger EXCEPT ![task[w].key] = Attempted(@, outcome)]
          /\ Goto(w, [stage |-> stage, key |-> task[w].key, row |-> task[w].row,
                      outcome |-> outcome])
    BY <1>16 DEF Deliver
  <2>2. task[w].stage = "deliver" /\ states' = states /\ faults' = faults
    BY <1>16 DEF Deliver
  <2>3. task[w].key \in DOMAIN ledger
    BY <2>2 DEF BudgetInv, Carries, Routing, Claiming
  <2>4. LedgerGrows /\ DOMAIN ledger' = DOMAIN ledger
    BY <2>1, <2>3, DeliverGrows DEF TypeOK
  <2>5. /\ task'[w].stage \in {"trip_breaker", "final_read"}
        /\ \A v \in Workers : v # w => task'[v] = task[v]
    BY <2>1, GotoEffect
  <2> QED  BY <1>1, <2>2, <2>4, <2>5, RiskFrame DEF Purges
<1>17. ASSUME NEW w \in Workers, TripBreaker(w) PROVE Safe
  BY <1>4, <1>17, AdvanceEffect DEF TripBreaker, Settling
<1>18. ASSUME NEW w \in Workers, FinalRead(w) PROVE Safe
  <2>1. task[w].stage = "final_read" /\ task[w] \in SettleTask
    BY <1>18, TaskShape DEF FinalRead, TypeOK, Settling
  <2>2. ASSUME NEW row, Goto(w, [task[w] EXCEPT !.stage = "final_write", !.row = row])
        PROVE  /\ task'[w].stage = "final_write"
               /\ \A v \in Workers : v # w => task'[v] = task[v]
    <3>1. /\ task'[w] = [task[w] EXCEPT !.stage = "final_write", !.row = row]
          /\ \A v \in Workers : v # w => task'[v] = task[v]
      BY <2>2, GotoEffect
    <3> QED  BY <2>1, <3>1 DEF SettleTask
  <2>3. ASSUME Advance(w, "reschedule")
        PROVE  /\ task'[w].stage = "reschedule"
               /\ \A v \in Workers : v # w => task'[v] = task[v]
    BY <2>1, <2>3, AdvanceEffect DEF Settling
  <2>4. CASE Stored(w) \/ Verdict(task[w].row, task[w].outcome) \notin Terminal
    <3>1. states' = states /\ ledger' = ledger /\ (faults' = faults \/ Fault)
      BY <1>18, <2>4 DEF FinalRead
    <3>2. /\ task'[w].stage \in {"final_write", "reschedule"}
          /\ \A v \in Workers : v # w => task'[v] = task[v]
      BY <1>18, <2>2, <2>3, <2>4 DEF FinalRead
    <3> QED  BY <1>4, <3>1, <3>2
  <2> QED  BY <1>13, <1>18, <2>4 DEF FinalRead
<1>19. ASSUME NEW w \in Workers, FinalWrite(w) PROVE Safe
  <2>1. CASE Stored(w)
    <3>1. /\ Advance(w, IF task[w].row.status \in Terminal THEN "destroy_read"
                        ELSE "reschedule")
          /\ DOMAIN states' = DOMAIN states
          /\ ledger' = ledger /\ faults' = faults
          /\ task[w].stage = "final_write"
      BY <1>19, <2>1 DEF FinalWrite
    <3>2. /\ \A v \in Workers : v # w => task'[v] = task[v]
          /\ task'[w].stage = IF task[w].row.status \in Terminal THEN "destroy_read"
                              ELSE "reschedule"
          /\ task'[w].outcome = task[w].outcome
          /\ task'[w].key = task[w].key
      BY <3>1, AdvanceEffect DEF Settling, Routing
    <3>3. ~ Purges(w, task[w].key)'
      BY <3>1, <3>2 DEF BudgetInv, Carries, Purges
    <3> QED  BY <1>1, <3>1, <3>2, <3>3, SameLedgerGrows, RiskFrame DEF Purges
  <2> QED  BY <1>13, <1>19, <2>1 DEF FinalWrite
<1>20. ASSUME NEW w \in Workers, DestroyRead(w) PROVE Safe
  BY <1>3, <1>4, <1>20, AdvanceEffect, AfterDestroyEffect DEF DestroyRead, Settling, Routing, Purges
<1>21. ASSUME NEW w \in Workers, DestroyWrite(w) PROVE Safe
  <2>1. CASE Stored(w)
    <3> DEFINE k == task[w].key
    <3>1. /\ task[w].stage = "destroy_write"
          /\ states' = [j \in DOMAIN states \ {k} |-> states[j]]
          /\ ledger' = ledger /\ faults' = faults
          /\ AfterDestroy(w)
      BY <1>21, <2>1 DEF DestroyWrite
    <3>2. Spent(k) \/ Purges(w, k)
      BY <3>1 DEF BudgetInv, Carries, Purges
    <3>3. \A v \in Workers : \A j : Purges(v, j)' => Purges(v, j)
      BY <3>1, AfterDestroyEffect DEF Purges, Settling
    <3>4. Gone' = Gone \cup {k}
      BY <2>1, <3>1 DEF Gone, Stored, TypeOK
    <3>5. AtRisk' \subseteq AtRisk
      BY <3>1, <3>2, <3>3, <3>4 DEF AtRisk, Spent
    <3> QED  BY <1>1, <3>1, <3>5
  <2> QED  BY <1>13, <1>21, <2>1 DEF DestroyWrite
<1>22. ASSUME NEW w \in Workers, Reschedule(w) PROVE Safe
  BY <1>4, <1>22, GotoEffect DEF Reschedule, Return, Idle
<1>23. ASSUME NEW k \in DOMAIN states, Elapse(k) PROVE Safe
  <2>1. /\ task' = task /\ ledger' = ledger /\ faults' = faults
        /\ DOMAIN states' = DOMAIN states
    BY <1>23 DEF Elapse
  <2> QED  BY <1>1, <2>1 DEF AtRisk, Spent, Gone, Purges
<1>24. CASE Restart
  <2>1. \A v \in Workers : \A k : ~ Purges(v, k)'
    BY <1>24 DEF Restart, Purges, Idle
  <2>2. states' = states /\ ledger' = ledger /\ faults' = faults
    BY <1>24 DEF Restart
  <2> QED  BY <1>1, <2>1, <2>2 DEF AtRisk, Spent, Gone
<1>25. CASE UNCHANGED vars
  BY <1>9, <1>25 DEF vars
<1> QED
  BY <1>5, <1>6, <1>7, <1>8, <1>10, <1>11, <1>12, <1>14, <1>15, <1>16, <1>17, <1>18,
     <1>19, <1>20, <1>21, <1>22, <1>23, <1>24, <1>25 DEF Next, Publish, Dispatch

LEMMA AtRiskFinite ==
    ASSUME TypeOK
    PROVE  IsFiniteSet(AtRisk)
<1>1. AtRisk \subseteq 1 .. created /\ 1 \in Int /\ created \in Int
  BY DEF AtRisk, TypeOK
<1>2. IsFiniteSet(1 .. created)
  BY <1>1, FS_Interval
<1> QED  BY <1>1, <1>2, FS_Subset

LEMMA LossStep == TypeOK /\ BudgetInv /\ LossInv /\ [Next]_vars => TypeOK' /\ LossInv'
<1> SUFFICES ASSUME TypeOK, BudgetInv, LossInv, [Next]_vars PROVE TypeOK' /\ LossInv'
  OBVIOUS
<1>1. TypeOK'
  BY TypeStep
<1>2. IsFiniteSet(AtRisk)
  BY AtRiskFinite
<1>3. Cardinality(AtRisk) \in Nat /\ faults \in Nat /\ Cardinality(AtRisk) <= faults
  BY <1>2, FS_CardinalityType DEF TypeOK, LossInv
<1>4. CASE AtRisk' \subseteq AtRisk /\ faults' >= faults
  <2>1. Cardinality(AtRisk') \in Nat /\ Cardinality(AtRisk') <= Cardinality(AtRisk)
    BY <1>2, <1>4, FS_Subset, FS_CardinalityType
  <2> QED  BY <1>1, <1>3, <1>4, <2>1 DEF LossInv, TypeOK
<1>5. CASE faults' = faults + 1 /\ \E k : AtRisk' \subseteq AtRisk \cup {k}
  <2>1. PICK k : AtRisk' \subseteq AtRisk \cup {k}
    BY <1>5
  <2>2. /\ IsFiniteSet(AtRisk \cup {k})
        /\ Cardinality(AtRisk \cup {k}) \in Nat
        /\ Cardinality(AtRisk \cup {k}) <= Cardinality(AtRisk) + 1
    BY <1>2, <1>3, FS_AddElement
  <2>3. Cardinality(AtRisk') \in Nat /\ Cardinality(AtRisk') <= Cardinality(AtRisk \cup {k})
    BY <2>1, <2>2, FS_Subset, FS_CardinalityType
  <2> QED  BY <1>1, <1>3, <1>5, <2>2, <2>3 DEF LossInv, TypeOK
<1> QED  BY <1>1, <1>4, <1>5, RiskStep

LEMMA LossInvariant == Spec => []LossInv
<1>1. Init => LossInv
  <2> SUFFICES ASSUME Init PROVE LossInv
    OBVIOUS
  <2>1. AtRisk = {} /\ faults = 0
    BY DEF Init, AtRisk
  <2> QED  BY <2>1, FS_EmptySet DEF LossInv
<1> QED  BY <1>1, LossStep, BudgetInvariant, TypeCorrect, PTL DEF Spec

(* Whatever fails and however often the process dies: the deliveries that  *)
(* are dropped with neither an answer nor all of their attempts are no     *)
(* more than the repository calls that failed.                             *)
THEOREM LossesWithinFaults == Spec => []DropsWithinFaults
<1>1. TypeOK /\ LossInv => DropsWithinFaults
  <2> SUFFICES ASSUME TypeOK, LossInv PROVE DropsWithinFaults
    OBVIOUS
  <2> DEFINE Dropped == {k \in Gone : ledger[k].answers = 0
                            /\ (ledger[k].tries = 0 \/ ledger[k].tries < ledger[k].limit)}
  <2>1. Dropped \subseteq AtRisk
    <3> SUFFICES ASSUME NEW k \in Gone, ledger[k].answers = 0,
                        ledger[k].tries = 0 \/ ledger[k].tries < ledger[k].limit
                 PROVE  k \in AtRisk
      OBVIOUS
    <3>1. k \in DOMAIN ledger /\ ledger[k] \in Entry
      BY DEF Gone, TypeOK
    <3> QED  BY <3>1 DEF AtRisk, Spent, Entry
  <2>2. IsFiniteSet(AtRisk)
    BY AtRiskFinite
  <2>3. /\ Cardinality(Dropped) \in Nat /\ Cardinality(AtRisk) \in Nat
        /\ Cardinality(Dropped) <= Cardinality(AtRisk)
    BY <2>1, <2>2, FS_Subset, FS_CardinalityType
  <2>4. Cardinality(AtRisk) <= faults /\ faults \in Nat
    BY DEF LossInv, TypeOK
  <2>5. DropsWithinFaults <=> Cardinality(Dropped) <= faults
    BY DEF DropsWithinFaults
  <2> HIDE DEF Dropped
  <2> QED  BY <2>3, <2>4, <2>5
<1> QED  BY <1>1, LossInvariant, TypeCorrect, PTL

=============================================================================
