--------------------------- MODULE DispatchHealthy ---------------------------
(* What holds of Dispatch on a repository that answers every call: for any *)
(* number of workers, and however often the process is restarted.          *)
EXTENDS DispatchProofs

-----------------------------------------------------------------------------
(* Wake-ups. *)

(* A wake-up for pending deliveries: a posted route, a handler that will   *)
(* post one before it returns, or a claim that is going to succeed.        *)
WillSchedule(w) ==
    \/ task[w].stage \in {"acknowledge", "claim_write", "read_message", "deliver"} \cup Settling
    \/ /\ task[w].stage = "claim_read"
       /\ task[w].key \in InStatus("pending")
       /\ task[w].row.status = "pending"

WakeUpInv ==
    /\ faults = 0
    /\ \A w \in Workers : task[w].stage \in Settling => task[w].outcome # "purge"
    /\ InStatus("pending") # {} => scheduled > 0 \/ \E w \in Workers : WillSchedule(w)

(* A step that leaves a wake-up behind needs no other. *)
LEMMA WakeUpMade ==
    ASSUME WakeUpInv, NEW w \in Workers, WillSchedule(w)' \/ scheduled' > 0,
           \A v \in Workers : v # w => task'[v] = task[v],
           task'[w].stage \in Settling => task'[w].outcome # "purge",
           faults' = faults
    PROVE  WakeUpInv'
BY DEF WakeUpInv

(* A step of a worker that was no wake-up, and takes none, keeps the others. *)
LEMMA WakeUpFrame ==
    ASSUME WakeUpInv, NEW w \in Workers, ~ WillSchedule(w),
           \A v \in Workers : v # w => task'[v] = task[v],
           task'[w].stage \in Settling => task'[w].outcome # "purge",
           states' = states, scheduled' = scheduled, faults' = faults
    PROVE  WakeUpInv'
<1>1. InStatus("pending")' = InStatus("pending")
  BY DEF InStatus
<1>2. \A v \in Workers : WillSchedule(v) => WillSchedule(v)'
  BY <1>1 DEF WillSchedule
<1> QED  BY <1>1, <1>2 DEF WakeUpInv

LEMMA WakeUpStutter ==
    ASSUME WakeUpInv, UNCHANGED << states, scheduled, faults, task >>
    PROVE  WakeUpInv'
BY DEF WakeUpInv, WillSchedule, InStatus

LEMMA WakeUpStep ==
    ASSUME MaxFaults = 0
    PROVE  TypeOK /\ WakeUpInv /\ [Next]_vars => WakeUpInv'
<1> SUFFICES ASSUME TypeOK, WakeUpInv, [Next]_vars PROVE WakeUpInv'
  OBVIOUS
<1>0. ~ Fault
  BY DEF Fault, WakeUpInv
<1> USE <1>0
<1>1. ASSUME NEW w \in Workers, NEW m \in Messages, ReadSubscriptions(w, m)
      PROVE  WakeUpInv'
  <2>1. task'[w].stage = "create_message" /\ \A v \in Workers : v # w => task'[v] = task[v]
    BY <1>1, GotoEffect DEF ReadSubscriptions
  <2>2. ~ WillSchedule(w)
    BY <1>1 DEF ReadSubscriptions, WillSchedule, Idle, Settling
  <2> QED  BY <1>1, <2>1, <2>2, WakeUpFrame DEF ReadSubscriptions, Settling
<1>2. ASSUME NEW w \in Workers, CreateMessage(w) PROVE WakeUpInv'
  <2>1. task'[w].stage = "create_states" /\ \A v \in Workers : v # w => task'[v] = task[v]
    BY <1>2, AdvanceEffect DEF CreateMessage, Publishing
  <2>2. ~ WillSchedule(w)
    BY <1>2 DEF CreateMessage, WillSchedule, Settling
  <2> QED  BY <1>2, <2>1, <2>2, WakeUpFrame DEF CreateMessage, Settling
<1>3. ASSUME NEW w \in Workers, CreateStates(w) PROVE WakeUpInv'
  <2>1. task'[w].stage = "acknowledge" /\ \A v \in Workers : v # w => task'[v] = task[v]
    BY <1>3, GotoEffect DEF CreateStates
  <2> QED  BY <1>3, <2>1, WakeUpMade DEF CreateStates, WillSchedule, Settling
<1>4. ASSUME NEW w \in Workers, Acknowledge(w) PROVE WakeUpInv'
  <2>1. task'[w].stage = "idle" /\ \A v \in Workers : v # w => task'[v] = task[v]
    BY <1>4, GotoEffect DEF Acknowledge, Idle
  <2>2. scheduled' > 0 /\ faults' = faults
    BY <1>4 DEF Acknowledge, TypeOK
  <2> QED  BY <2>1, <2>2, WakeUpMade DEF Settling
<1>5. ASSUME NEW w \in Workers, RoutePending(w) PROVE WakeUpInv'
  <2>1. CASE \E k \in DOMAIN states : IsFirst(k, "pending") /\ Claim(w, k)
    <3>1. PICK k \in DOMAIN states : IsFirst(k, "pending") /\ Claim(w, k)
      BY <2>1
    <3>2. /\ task'[w].stage = "claim_read" /\ task'[w].key = k /\ task'[w].row = states[k]
          /\ \A v \in Workers : v # w => task'[v] = task[v]
      BY <3>1, ClaimEffect
    <3>3. states' = states /\ faults' = faults
      BY <1>5 DEF RoutePending
    <3>4. WillSchedule(w)'
      BY <3>1, <3>2, <3>3 DEF WillSchedule, InStatus, IsFirst
    <3> QED  BY <3>2, <3>3, <3>4, WakeUpMade DEF Settling
  <2>2. CASE InStatus("pending") = {} /\ UNCHANGED << task, faults >>
    BY <1>5, <2>2 DEF RoutePending, WakeUpInv, InStatus
  <2> QED  BY <1>5, <2>1, <2>2 DEF RoutePending
<1>6. ASSUME NEW w \in Workers, RouteSuspended(w) PROVE WakeUpInv'
  <2>1. ~ WillSchedule(w) /\ task[w].stage = "idle"
    BY <1>6 DEF RouteSuspended, WillSchedule, Idle, Settling
  <2>2. /\ task'[w].stage \in {"claim_read", "idle"}
        /\ \A v \in Workers : v # w => task'[v] = task[v]
    BY <1>6, <2>1, SuspendedEffect, ClaimEffect
  <2>3. states' = states /\ scheduled' = scheduled /\ faults' = faults
    BY <1>6 DEF RouteSuspended
  <2> QED  BY <2>1, <2>2, <2>3, WakeUpFrame DEF Settling
<1>7. ASSUME NEW w \in Workers, ClaimRead(w) PROVE WakeUpInv'
  <2> DEFINE k == task[w].key
             claimable == Stored(w) /\ states[k].status = task[w].row.status
  <2>1. CASE claimable
    <3>1. /\ task'[w].stage = "claim_write"
          /\ \A v \in Workers : v # w => task'[v] = task[v]
      BY <1>7, <2>1, GotoEffect DEF ClaimRead
    <3> QED  BY <1>7, <2>1, <3>1, WakeUpMade DEF ClaimRead, WillSchedule, Settling
  <2>2. CASE ~ claimable
    <3>1. Return(w) /\ states' = states /\ scheduled' = scheduled /\ faults' = faults
      BY <1>7, <2>2 DEF ClaimRead
    <3>2. task'[w].stage = "idle" /\ \A v \in Workers : v # w => task'[v] = task[v]
      BY <3>1, GotoEffect DEF Return, Idle
    <3>3. ~ WillSchedule(w)
      BY <1>7, <2>2 DEF ClaimRead, WillSchedule, InStatus, Stored, Settling
    <3> QED  BY <3>1, <3>2, <3>3, WakeUpFrame DEF Settling
  <2> QED  BY <2>1, <2>2
<1>8. ASSUME NEW w \in Workers, ClaimWrite(w) PROVE WakeUpInv'
  <2>1. CASE Stored(w)
    <3>1. /\ task'[w].stage = "read_message"
          /\ \A v \in Workers : v # w => task'[v] = task[v]
      BY <1>8, <2>1, GotoEffect DEF ClaimWrite
    <3> QED  BY <1>8, <2>1, <3>1, WakeUpMade DEF ClaimWrite, WillSchedule, Settling
  <2>2. CASE ~ Stored(w)
    BY <1>8, <2>2, WakeUpStutter DEF ClaimWrite, Break
  <2> QED  BY <2>1, <2>2
<1>9. ASSUME NEW w \in Workers, ReadMessage(w) PROVE WakeUpInv'
  <2>1. CASE task[w].row.message \in messages
    <3>1. Advance(w, "deliver") /\ task[w].stage = "read_message" /\ faults' = faults
      BY <1>9, <2>1 DEF ReadMessage
    <3>2. /\ task'[w].stage = "deliver"
          /\ \A v \in Workers : v # w => task'[v] = task[v]
      BY <3>1, AdvanceEffect DEF Claiming
    <3> QED  BY <3>1, <3>2, WakeUpMade DEF WillSchedule, Settling
  <2>2. CASE task[w].row.message \notin messages
    BY <1>9, <2>2, WakeUpStutter DEF ReadMessage, Break
  <2> QED  BY <2>1, <2>2
<1>10. ASSUME NEW w \in Workers, Deliver(w) PROVE WakeUpInv'
  <2>1. PICK outcome \in {"accepted", "declined", "failed"},
             stage \in {"trip_breaker", "final_read"} :
          Goto(w, [stage |-> stage, key |-> task[w].key, row |-> task[w].row,
                   outcome |-> outcome])
    BY <1>10 DEF Deliver
  <2>2. /\ task'[w].stage \in Settling /\ task'[w].outcome = outcome
        /\ \A v \in Workers : v # w => task'[v] = task[v]
    BY <2>1, GotoEffect DEF Settling
  <2> QED  BY <1>10, <2>2, WakeUpMade DEF Deliver, WillSchedule
<1>11. ASSUME NEW w \in Workers, NEW stage \in Settling, task[w].stage \in Settling,
              Advance(w, stage), faults' = faults
       PROVE  WakeUpInv'
  <2>1. /\ task'[w].stage = stage /\ task'[w].outcome = task[w].outcome
        /\ \A v \in Workers : v # w => task'[v] = task[v]
    BY <1>11, AdvanceEffect
  <2> QED  BY <1>11, <2>1, WakeUpMade DEF WakeUpInv, WillSchedule
<1>12. ASSUME NEW w \in Workers, TripBreaker(w) PROVE WakeUpInv'
  BY <1>11, <1>12 DEF TripBreaker, Settling
<1>13. ASSUME NEW w \in Workers, FinalRead(w) PROVE WakeUpInv'
  <2> DEFINE row == Settled(states[task[w].key], task[w].row,
                            Verdict(task[w].row, task[w].outcome))
  <2>1. task[w].stage = "final_read"
    BY <1>13 DEF FinalRead
  <2>2. CASE Goto(w, [task[w] EXCEPT !.stage = "final_write", !.row = row]) /\ faults' = faults
    <3> HIDE DEF row
    <3>1. task[w] \in SettleTask
      BY <2>1, TaskShape DEF TypeOK, Settling
    <3>2. /\ task'[w] = [task[w] EXCEPT !.stage = "final_write", !.row = row]
          /\ \A v \in Workers : v # w => task'[v] = task[v]
      BY <2>2, GotoEffect
    <3>3. task'[w].stage = "final_write" /\ task'[w].outcome = task[w].outcome
      BY <3>1, <3>2 DEF SettleTask
    <3> QED  BY <2>1, <2>2, <3>2, <3>3, WakeUpMade DEF WakeUpInv, WillSchedule, Settling
  <2>3. CASE Advance(w, "reschedule") /\ faults' = faults
    BY <1>11, <2>1, <2>3 DEF Settling
  <2>4. CASE Break("deadlocked")
    BY <2>4, WakeUpStutter DEF Break
  <2> QED  BY <1>13, <2>2, <2>3, <2>4 DEF FinalRead
<1>14. ASSUME NEW w \in Workers, FinalWrite(w) PROVE WakeUpInv'
  <2>1. CASE Stored(w)
    <3>1. PICK stage \in {"destroy_read", "reschedule"} : Advance(w, stage)
      BY <1>14, <2>1 DEF FinalWrite
    <3> QED  BY <1>11, <1>14, <2>1, <3>1 DEF FinalWrite, Settling
  <2>2. CASE ~ Stored(w)
    BY <1>14, <2>2, WakeUpStutter DEF FinalWrite, Break
  <2> QED  BY <2>1, <2>2
<1>15. ASSUME NEW w \in Workers, task[w].stage \in Settling, AfterDestroy(w)
       PROVE  Advance(w, "reschedule")
  BY <1>15 DEF AfterDestroy, WakeUpInv
<1>16. ASSUME NEW w \in Workers, DestroyRead(w) PROVE WakeUpInv'
  <2>1. PICK stage \in {"destroy_write", "reschedule"} : Advance(w, stage)
    BY <1>15, <1>16 DEF DestroyRead, Settling
  <2> QED  BY <1>11, <1>16, <2>1 DEF DestroyRead, Settling
<1>17. ASSUME NEW w \in Workers, DestroyWrite(w) PROVE WakeUpInv'
  <2>1. CASE Stored(w)
    BY <1>11, <1>15, <1>17, <2>1 DEF DestroyWrite, Settling
  <2>2. CASE ~ Stored(w)
    BY <1>17, <2>2, WakeUpStutter DEF DestroyWrite, Break
  <2> QED  BY <2>1, <2>2
<1>18. ASSUME NEW w \in Workers, Reschedule(w) PROVE WakeUpInv'
  <2>1. task'[w].stage = "idle" /\ \A v \in Workers : v # w => task'[v] = task[v]
    BY <1>18, GotoEffect DEF Reschedule, Return, Idle
  <2>2. scheduled' > 0 /\ faults' = faults
    BY <1>18 DEF Reschedule, TypeOK
  <2> QED  BY <2>1, <2>2, WakeUpMade DEF Settling
<1>19. ASSUME NEW k \in DOMAIN states, Elapse(k) PROVE WakeUpInv'
  <2>1. InStatus("pending")' = InStatus("pending")
    BY <1>19 DEF Elapse, InStatus, TypeOK, Row
  <2>2. task' = task /\ scheduled' = scheduled /\ faults' = faults
    BY <1>19 DEF Elapse
  <2> QED  BY <2>1, <2>2 DEF WakeUpInv, WillSchedule
<1>20. CASE Restart
  BY <1>20 DEF Restart, WakeUpInv, Idle, Settling
<1>21. CASE UNCHANGED vars
  BY <1>21, WakeUpStutter DEF vars
<1> QED
  BY <1>1, <1>2, <1>3, <1>4, <1>5, <1>6, <1>7, <1>8, <1>9, <1>10, <1>12, <1>13,
     <1>14, <1>16, <1>17, <1>18, <1>19, <1>20, <1>21 DEF Next, Publish, Dispatch

LEMMA WakeUpInvariant ==
    ASSUME MaxFaults = 0
    PROVE  Spec => []WakeUpInv
<1>1. Init => WakeUpInv
  BY DEF Init, WakeUpInv, Idle, Settling
<1> QED  BY <1>1, WakeUpStep, TypeCorrect, PTL DEF Spec

(* On a healthy repository no wake-up is lost: the early returns of router *)
(* give up the route( PENDING ) they consumed only when another handler is *)
(* going to post one, or when no delivery is pending.                      *)
THEOREM NoWakeUpIsLost ==
    ASSUME MaxFaults = 0
    PROVE  Spec => []NoStrandedPending
<1>1. WakeUpInv => NoStrandedPending
  <2>1. ASSUME NEW w \in Workers, task[w] = Idle PROVE ~ WillSchedule(w)
    BY <2>1 DEF WillSchedule, Idle, Settling
  <2> QED  BY <2>1 DEF WakeUpInv, NoStrandedPending
<1> QED  BY <1>1, WakeUpInvariant, PTL

-----------------------------------------------------------------------------
(* Losses: there are none. *)

LEMMA NothingAtRisk ==
    ASSUME MaxFaults = 0
    PROVE  Spec => [](AtRisk = {})
<1>1. TypeOK /\ LossInv /\ WakeUpInv => AtRisk = {}
  <2> SUFFICES ASSUME TypeOK, LossInv, WakeUpInv PROVE AtRisk = {}
    OBVIOUS
  <2>1. Cardinality(AtRisk) \in Nat /\ Cardinality(AtRisk) <= 0
    BY AtRiskFinite, FS_CardinalityType DEF LossInv, WakeUpInv
  <2> QED  BY <2>1, AtRiskFinite, FS_EmptySet
<1> QED  BY <1>1, WakeUpInvariant, LossInvariant, TypeCorrect, PTL

(* What a worker is destroying was answered, or had all of its attempts. *)
LEMMA DestroysSpent ==
    ASSUME BudgetInv, AtRisk = {}, NEW w \in Workers,
           task[w].stage \in {"destroy_read", "destroy_write"}
    PROVE  Spent(task[w].key)
BY DEF BudgetInv, Carries, AtRisk, Purges, Routing, Settling

(* On a healthy repository no delivery is dropped: whatever several        *)
(* workers write over each other, and however often the process restarts,  *)
(* a state is destroyed only after the consumer answered or the attempts   *)
(* its queue allows were all made.                                         *)
THEOREM NothingIsDropped ==
    ASSUME MaxFaults = 0
    PROVE  Spec => []NothingDropped
<1>1. AtRisk = {} => NothingDropped
  BY DEF AtRisk, NothingDropped, Gone, Spent
<1> QED  BY <1>1, NothingAtRisk, PTL

-----------------------------------------------------------------------------
(* The circuit breaker. *)

(* Delivery k has been answered, or its subscription made unreachable. *)
Tripped(k) == ledger[k].answers > 0 \/ ledger[k].subscription \notin reachable

(* A handler that gives a delivery up has been through the breaker. *)
Trips(w) ==
    LET t == task[w]
    IN  /\ t.stage = "final_read" /\ t.outcome = "failed" /\ OutOfAttempts(t.row) =>
              Tripped(t.key)
        /\ t.stage = "final_write" /\ t.row.status \in Terminal => Tripped(t.key)
        /\ t.stage \in {"destroy_read", "destroy_write"} => Tripped(t.key)

TripInv ==
    /\ \A k \in Gone : Tripped(k)
    /\ \A w \in Workers : Trips(w)

LEMMA TrippedStays ==
    ASSUME TypeOK, LedgerGrows, reachable' \subseteq reachable,
           NEW k \in DOMAIN ledger, Tripped(k)
    PROVE  Tripped(k)'
<1>1. ledger[k] \in Entry /\ ledger'[k] \in Entry
  BY DEF TypeOK, LedgerGrows
<1> QED  BY <1>1 DEF Tripped, LedgerGrows, Entry

LEMMA TripsStays ==
    ASSUME TypeOK, BudgetInv, LedgerGrows, reachable' \subseteq reachable,
           NEW v \in Workers, task'[v] = task[v], Trips(v)
    PROVE  Trips(v)'
<1>1. CASE task[v].stage \in Routing
  <2>1. Tripped(task[v].key) => Tripped(task[v].key)'
    BY <1>1, TrippedStays DEF BudgetInv, Carries
  <2> QED  BY <2>1 DEF Trips, Tripped, OutOfAttempts
<1>2. CASE task[v].stage \notin Routing
  BY <1>2 DEF Trips, Routing, Settling
<1> QED  BY <1>1, <1>2

(* A step that removes no state preserves the invariant when the worker    *)
(* that takes it keeps to it.                                              *)
LEMMA TripFrame ==
    ASSUME TypeOK, BudgetInv, TripInv, LedgerGrows, reachable' \subseteq reachable,
           NEW w \in Workers, Trips(w)', \A v \in Workers : v # w => task'[v] = task[v],
           Gone' \subseteq Gone
    PROVE  TripInv'
<1>1. \A v \in Workers : Trips(v)'
  BY TripsStays DEF TripInv
<1>2. \A k \in Gone' : Tripped(k)'
  BY TrippedStays DEF TripInv, Gone
<1> QED  BY <1>1, <1>2 DEF TripInv

LEMMA TripStutter ==
    ASSUME TripInv, UNCHANGED << states, ledger, task, reachable >>
    PROVE  TripInv'
BY DEF TripInv, Gone, Trips, Tripped

LEMMA TripStep ==
    ASSUME MaxFaults = 0
    PROVE  TypeOK /\ WakeUpInv /\ BudgetInv /\ RowsInv /\ TripInv /\ [Next]_vars => TripInv'
<1> SUFFICES ASSUME TypeOK, WakeUpInv, BudgetInv, RowsInv, TripInv, [Next]_vars
             PROVE  TripInv'
  OBVIOUS
<1>0. ~ Fault /\ LedgerGrows
  BY LedgerStep DEF Fault, WakeUpInv
<1> USE <1>0
<1>1. ASSUME NEW w \in Workers, Trips(w)', reachable' \subseteq reachable,
             \A v \in Workers : v # w => task'[v] = task[v],
             DOMAIN states \subseteq DOMAIN states',
             DOMAIN ledger' \subseteq DOMAIN ledger
      PROVE  TripInv'
  BY <1>1, TripFrame DEF Gone
<1>2. ASSUME NEW w \in Workers, reachable' = reachable,
             task'[w].stage \notin {"final_read", "final_write", "destroy_read", "destroy_write"},
             \A v \in Workers : v # w => task'[v] = task[v],
             DOMAIN states' = DOMAIN states, DOMAIN ledger' = DOMAIN ledger
      PROVE  TripInv'
  BY <1>1, <1>2 DEF Trips
<1>3. ASSUME NEW w \in Workers, NEW m \in Messages, ReadSubscriptions(w, m)
      PROVE  TripInv'
  BY <1>2, <1>3, GotoEffect DEF ReadSubscriptions
<1>4. ASSUME NEW w \in Workers, CreateMessage(w) PROVE TripInv'
  BY <1>2, <1>4, AdvanceEffect DEF CreateMessage, Publishing
<1>5. ASSUME NEW w \in Workers, CreateStates(w) PROVE TripInv'
  <2>1. /\ task'[w].stage = "acknowledge"
        /\ \A v \in Workers : v # w => task'[v] = task[v]
        /\ reachable' = reachable
    BY <1>5, GotoEffect DEF CreateStates
  <2>2. PICK fresh : /\ DOMAIN ledger' = DOMAIN ledger \cup fresh
                     /\ DOMAIN states' = DOMAIN states \cup fresh
    BY <1>5, StoreEffect DEF CreateStates
  <2>3. Gone' \subseteq Gone
    BY <2>2 DEF Gone
  <2> QED  BY <2>1, <2>3, TripFrame DEF Trips
<1>6. ASSUME NEW w \in Workers, Acknowledge(w) PROVE TripInv'
  BY <1>2, <1>6, GotoEffect DEF Acknowledge, Idle
<1>7. ASSUME NEW w \in Workers, RoutePending(w) PROVE TripInv'
  BY <1>2, <1>7, PendingEffect, ClaimEffect, TripStutter
<1>8. ASSUME NEW w \in Workers, RouteSuspended(w) PROVE TripInv'
  BY <1>2, <1>8, SuspendedEffect, ClaimEffect, TripStutter
<1>9. ASSUME NEW w \in Workers, ClaimRead(w) PROVE TripInv'
  BY <1>2, <1>9, GotoEffect DEF ClaimRead, Return, Idle
<1>10. ASSUME NEW outcome, Break(outcome) PROVE TripInv'
  BY <1>10, TripStutter DEF Break
<1>11. ASSUME NEW w \in Workers, ClaimWrite(w) PROVE TripInv'
  <2>1. CASE Stored(w)
    <3>1. /\ task'[w].stage = "read_message"
          /\ \A v \in Workers : v # w => task'[v] = task[v]
          /\ DOMAIN states' = DOMAIN states
          /\ ledger' = ledger /\ reachable' = reachable
      BY <1>11, <2>1, GotoEffect DEF ClaimWrite
    <3> QED  BY <1>2, <3>1
  <2> QED  BY <1>10, <1>11, <2>1 DEF ClaimWrite
<1>12. ASSUME NEW w \in Workers, ReadMessage(w) PROVE TripInv'
  <2>1. CASE task[w].row.message \in messages
    BY <1>2, <1>12, <2>1, AdvanceEffect DEF ReadMessage, Claiming
  <2> QED  BY <1>10, <1>12, <2>1 DEF ReadMessage
<1>13. ASSUME NEW w \in Workers, Deliver(w) PROVE TripInv'
  <2> DEFINE k == task[w].key
  <2>1. PICK outcome \in {"accepted", "declined", "failed"} :
           /\ task[w].stage = "deliver"
           /\ task'[w] = [stage |-> IF outcome = "failed" /\ OutOfAttempts(task[w].row)
                                    THEN "trip_breaker" ELSE "final_read",
                          key |-> k, row |-> task[w].row, outcome |-> outcome]
           /\ \A v \in Workers : v # w => task'[v] = task[v]
           /\ ledger' = [ledger EXCEPT ![k] = Attempted(@, outcome)]
           /\ states' = states /\ reachable' = reachable
    BY <1>13, DeliverEffect
  <2>2. DOMAIN ledger' = DOMAIN ledger
    BY <2>1 DEF TypeOK
  <2> HIDE DEF k
  <2>3. Trips(w)'
    BY <2>1 DEF Trips
  <2> QED  BY <1>1, <2>1, <2>2, <2>3
<1>14. ASSUME NEW w \in Workers, TripBreaker(w) PROVE TripInv'
  <2>1. /\ task[w].stage = "trip_breaker"
        /\ reachable' = reachable \ {task[w].row.subscription}
        /\ Advance(w, "final_read")
        /\ states' = states /\ ledger' = ledger
    BY <1>14 DEF TripBreaker
  <2>2. /\ task'[w].stage = "final_read"
        /\ task'[w].key = task[w].key
        /\ \A v \in Workers : v # w => task'[v] = task[v]
    BY <2>1, AdvanceEffect DEF Settling, Routing
  <2>3. task[w].row.subscription = ledger[task[w].key].subscription
    BY <2>1 DEF RowsInv, Keeps, Routing, Settling
  <2>4. Trips(w)'
    BY <2>1, <2>2, <2>3 DEF Trips, Tripped
  <2> QED  BY <1>1, <2>1, <2>2, <2>4
<1>15. ASSUME NEW w \in Workers, FinalRead(w) PROVE TripInv'
  <2> DEFINE k == task[w].key
             row == task[w].row
             verdict == Verdict(row, task[w].outcome)
  <2>1. CASE Break("deadlocked")
    BY <1>10, <2>1
  <2>2. CASE ~ Break("deadlocked")
    <3>1. /\ task[w].stage = "final_read"
          /\ task'[w].key = k
          /\ \/ /\ Stored(w)
                /\ task'[w].stage = "final_write"
                /\ task'[w].row = Settled(states[k], row, verdict)
             \/ task'[w].stage = "reschedule"
          /\ \A v \in Workers : v # w => task'[v] = task[v]
          /\ states' = states /\ ledger' = ledger /\ reachable' = reachable
      BY <1>15, <2>2, FinalReadEffect
    <3>2. CASE task'[w].stage = "reschedule"
      BY <1>2, <3>1, <3>2
    <3>3. CASE task'[w].stage = "final_write"
      <4>1. row \in Row /\ states[k] \in Row
        BY <3>1, <3>3, TaskShape DEF TypeOK, Stored, Settling, SettleTask
      <4>2. task'[w].row.status = verdict
        BY <3>1, <3>3, <4>1, SettledFields
      <4>3. verdict \in Terminal => Tripped(k)
        BY <3>1 DEF BudgetInv, Carries, TripInv, Trips, Tripped, Verdict, Terminal
      <4>4. Trips(w)'
        BY <3>1, <3>3, <4>2, <4>3 DEF Trips, Tripped
      <4> QED  BY <1>1, <3>1, <4>4
    <3> QED  BY <3>1, <3>2, <3>3
  <2> QED  BY <2>1, <2>2
<1>16. ASSUME NEW w \in Workers, FinalWrite(w) PROVE TripInv'
  <2> DEFINE k == task[w].key
             row == task[w].row
  <2>1. CASE Stored(w)
    <3>1. /\ task[w].stage = "final_write"
          /\ states' = [states EXCEPT ![k] = row]
          /\ Advance(w, IF row.status \in Terminal THEN "destroy_read" ELSE "reschedule")
          /\ ledger' = ledger /\ reachable' = reachable
      BY <1>16, <2>1 DEF FinalWrite
    <3>2. /\ task'[w].stage = IF row.status \in Terminal THEN "destroy_read" ELSE "reschedule"
          /\ task'[w].key = k
          /\ \A v \in Workers : v # w => task'[v] = task[v]
      BY <3>1, AdvanceEffect DEF Settling, Routing
    <3>3. row.status \in Terminal => Tripped(k)
      BY <3>1 DEF TripInv, Trips
    <3>4. Trips(w)'
      BY <3>1, <3>2, <3>3 DEF Trips, Tripped
    <3>5. DOMAIN states' = DOMAIN states
      BY <3>1
    <3> QED  BY <1>1, <3>1, <3>2, <3>4, <3>5
  <2> QED  BY <1>10, <1>16, <2>1 DEF FinalWrite
<1>17. ASSUME NEW w \in Workers, task[w].stage \in Settling, AfterDestroy(w)
       PROVE  /\ task'[w].stage = "reschedule"
              /\ \A v \in Workers : v # w => task'[v] = task[v]
  <2>1. Advance(w, "reschedule")
    BY <1>17 DEF AfterDestroy, WakeUpInv
  <2> QED  BY <1>17, <2>1, AdvanceEffect
<1>18. ASSUME NEW w \in Workers, DestroyRead(w) PROVE TripInv'
  <2>1. /\ task[w].stage = "destroy_read"
        /\ states' = states /\ ledger' = ledger /\ reachable' = reachable
    BY <1>18 DEF DestroyRead
  <2>2. CASE AfterDestroy(w)
    BY <1>2, <1>17, <2>1, <2>2 DEF Settling
  <2>3. CASE Advance(w, "destroy_write")
    <3>1. /\ task'[w].stage = "destroy_write"
          /\ task'[w].key = task[w].key
          /\ \A v \in Workers : v # w => task'[v] = task[v]
      BY <2>1, <2>3, AdvanceEffect DEF Settling, Routing
    <3>2. Trips(w)'
      BY <2>1, <3>1 DEF TripInv, Trips, Tripped
    <3> QED  BY <1>1, <2>1, <3>1, <3>2
  <2> QED  BY <1>18, <2>2, <2>3 DEF DestroyRead
<1>19. ASSUME NEW w \in Workers, DestroyWrite(w) PROVE TripInv'
  <2> DEFINE k == task[w].key
  <2>1. CASE Stored(w)
    <3>1. /\ task[w].stage = "destroy_write"
          /\ states' = [j \in DOMAIN states \ {k} |-> states[j]]
          /\ ledger' = ledger /\ reachable' = reachable
          /\ AfterDestroy(w)
      BY <1>19, <2>1 DEF DestroyWrite
    <3>2. /\ task'[w].stage = "reschedule"
          /\ \A v \in Workers : v # w => task'[v] = task[v]
      BY <1>17, <3>1 DEF Settling
    <3>3. \A v \in Workers : Trips(v)'
      BY <3>1, <3>2, TripsStays DEF TripInv, Trips
    <3>4. Tripped(k)
      BY <3>1 DEF TripInv, Trips
    <3>5. \A j \in Gone' : Tripped(j)'
      BY <3>1, <3>4 DEF TripInv, Gone, Tripped
    <3> QED  BY <3>3, <3>5 DEF TripInv
  <2> QED  BY <1>10, <1>19, <2>1 DEF DestroyWrite
<1>20. ASSUME NEW w \in Workers, Reschedule(w) PROVE TripInv'
  BY <1>2, <1>20, GotoEffect DEF Reschedule, Return, Idle
<1>21. ASSUME NEW k \in DOMAIN states, Elapse(k) PROVE TripInv'
  <2>1. DOMAIN states' = DOMAIN states
    BY <1>21 DEF Elapse
  <2>2. task' = task /\ ledger' = ledger /\ reachable' = reachable
    BY <1>21 DEF Elapse
  <2> QED  BY <2>1, <2>2 DEF TripInv, Gone, Trips, Tripped
<1>22. CASE Restart
  BY <1>22 DEF Restart, Idle, TripInv, Trips, Gone, Tripped
<1>23. CASE UNCHANGED vars
  BY <1>23, TripStutter DEF vars
<1> QED
  BY <1>3, <1>4, <1>5, <1>6, <1>7, <1>8, <1>9, <1>11, <1>12, <1>13, <1>14, <1>15,
     <1>16, <1>18, <1>19, <1>20, <1>21, <1>22, <1>23 DEF Next, Publish, Dispatch

(* On a healthy repository a delivery that is given up has made its        *)
(* subscription unreachable first, so that later messages are not routed   *)
(* to it, whatever several workers do to the same state.                   *)
THEOREM NoGivingUpWithoutBreaker ==
    ASSUME MaxFaults = 0
    PROVE  Spec => []GivenUpTripsBreaker
<1>1. Init => TripInv
  BY DEF Init, TripInv, Gone, Trips, Idle, Routing, Claiming, Settling
<1>2. TripInv => GivenUpTripsBreaker
  BY DEF TripInv, Tripped, GivenUpTripsBreaker
<1> QED
  BY <1>1, <1>2, TripStep, WakeUpInvariant, BudgetInvariant, RowsInvariant, TypeCorrect,
     PTL DEF Spec

-----------------------------------------------------------------------------
(* Deliveries in flight. *)

(* The worker that took delivery k up has yet to settle it. *)
Proceeds(w, k) ==
    /\ task[w].stage \in {"read_message", "deliver", "trip_breaker", "final_read",
                          "final_write"}
    /\ task[w].key = k

(* Whatever another worker writes over the state, it is not "in-flight"    *)
(* again unless that worker is under way with it too.                      *)
FlightInv ==
    /\ \A k \in InStatus("in-flight") : \E w \in Workers : Proceeds(w, k)
    /\ \A w \in Workers : task[w].stage = "final_write" => task[w].row.status # "in-flight"

(* A step after which nothing more is in flight, and the worker still      *)
(* proceeds with what it was at if that is.                                *)
LEMMA FlightFrame ==
    ASSUME FlightInv, NEW w \in Workers,
           \A v \in Workers : v # w => task'[v] = task[v],
           task'[w].stage = "final_write" => task'[w].row.status # "in-flight",
           \A k \in InStatus("in-flight")' :
               Proceeds(w, k)' \/ (k \in InStatus("in-flight") /\ ~ Proceeds(w, k))
    PROVE  FlightInv'
<1>1. ASSUME NEW k \in InStatus("in-flight")' PROVE \E v \in Workers : Proceeds(v, k)'
  <2>1. CASE Proceeds(w, k)'
    BY <2>1
  <2>2. CASE k \in InStatus("in-flight") /\ ~ Proceeds(w, k)
    <3>1. PICK v \in Workers : Proceeds(v, k) /\ v # w
      BY <2>2 DEF FlightInv
    <3> QED  BY <3>1 DEF Proceeds
  <2> QED  BY <1>1, <2>1, <2>2
<1> QED  BY <1>1 DEF FlightInv

(* A step of a worker that was not proceeding with anything. *)
LEMMA FlightAside ==
    ASSUME FlightInv, NEW w \in Workers,
           \A v \in Workers : v # w => task'[v] = task[v],
           task[w].stage \notin {"read_message", "deliver", "trip_breaker", "final_read",
                                 "final_write"},
           task'[w].stage # "final_write",
           InStatus("in-flight")' \subseteq InStatus("in-flight")
    PROVE  FlightInv'
BY FlightFrame DEF Proceeds

LEMMA FlightStutter ==
    ASSUME FlightInv, UNCHANGED << states, task >>
    PROVE  FlightInv'
BY DEF FlightInv, InStatus, Proceeds

LEMMA FlightStep ==
    ASSUME MaxFaults = 0, MaxRestarts = 0
    PROVE  TypeOK /\ WakeUpInv /\ FlightInv /\ [Next]_vars => FlightInv'
<1> SUFFICES ASSUME TypeOK, WakeUpInv, FlightInv, [Next]_vars PROVE FlightInv'
  OBVIOUS
<1>0. ~ Fault
  BY DEF Fault, WakeUpInv
<1> USE <1>0
<1> DEFINE Flying == InStatus("in-flight")
<1>1. states' = states => Flying' = Flying
  BY DEF InStatus
<1>2. ASSUME NEW w \in Workers, NEW m \in Messages, ReadSubscriptions(w, m)
      PROVE  FlightInv'
  BY <1>1, <1>2, GotoEffect, FlightAside DEF ReadSubscriptions, Idle
<1>3. ASSUME NEW w \in Workers, CreateMessage(w) PROVE FlightInv'
  BY <1>1, <1>3, AdvanceEffect, FlightAside DEF CreateMessage, Publishing
<1>4. ASSUME NEW w \in Workers, CreateStates(w) PROVE FlightInv'
  <2>1. StoreStates(w) /\ task[w].stage = "create_states"
    BY <1>4 DEF CreateStates
  <2>2. PICK fresh :
           /\ DOMAIN ledger' = DOMAIN ledger \cup fresh
           /\ DOMAIN states' = DOMAIN states \cup fresh
           /\ \A k \in DOMAIN ledger : ledger'[k] = ledger[k]
           /\ \A k \in DOMAIN states : states'[k] = states[k]
           /\ \A k \in fresh : \E match \in Match :
                 /\ states'[k] = NewRow(task[w].message, match)
                 /\ ledger'[k] = NewEntry(match)
    BY <2>1, StoreEffect
  <2>3. Flying' \subseteq Flying
    BY <2>2 DEF InStatus, NewRow
  <2> QED  BY <1>4, <2>3, GotoEffect, FlightAside DEF CreateStates
<1>5. ASSUME NEW w \in Workers, Acknowledge(w) PROVE FlightInv'
  BY <1>1, <1>5, GotoEffect, FlightAside DEF Acknowledge, Idle
<1>6. ASSUME NEW w \in Workers, RoutePending(w) PROVE FlightInv'
  BY <1>1, <1>6, PendingEffect, ClaimEffect, FlightAside, FlightStutter DEF Idle
<1>7. ASSUME NEW w \in Workers, RouteSuspended(w) PROVE FlightInv'
  BY <1>1, <1>7, SuspendedEffect, ClaimEffect, FlightAside, FlightStutter DEF Idle
<1>8. ASSUME NEW w \in Workers, ClaimRead(w) PROVE FlightInv'
  BY <1>1, <1>8, GotoEffect, FlightAside DEF ClaimRead, Return, Idle
<1>9. ASSUME NEW outcome, Break(outcome) PROVE FlightInv'
  BY <1>9, FlightStutter DEF Break
<1>10. ASSUME NEW w \in Workers, ClaimWrite(w) PROVE FlightInv'
  <2>1. CASE Stored(w)
    <3>1. /\ task[w].stage = "claim_write"
          /\ \E row : states' = [states EXCEPT ![task[w].key] = row]
          /\ task'[w].stage = "read_message"
          /\ task'[w].key = task[w].key
          /\ \A v \in Workers : v # w => task'[v] = task[v]
      BY <1>10, <2>1, GotoEffect DEF ClaimWrite
    <3>2. Flying' \subseteq Flying \cup {task[w].key}
      BY <3>1 DEF InStatus, TypeOK
    <3> QED  BY <3>1, <3>2, FlightFrame DEF Proceeds
  <2> QED  BY <1>9, <1>10, <2>1 DEF ClaimWrite
<1>11. ASSUME NEW w \in Workers, states' = states, task'[w].key = task[w].key,
              \A v \in Workers : v # w => task'[v] = task[v],
              task'[w].stage \in {"deliver", "trip_breaker", "final_read"}
       PROVE  FlightInv'
  BY <1>1, <1>11, FlightFrame DEF Proceeds
<1>12. ASSUME NEW w \in Workers, ReadMessage(w) PROVE FlightInv'
  <2>1. CASE task[w].row.message \in messages
    BY <1>11, <1>12, <2>1, AdvanceEffect DEF ReadMessage, Claiming, Routing
  <2> QED  BY <1>9, <1>12, <2>1 DEF ReadMessage
<1>13. ASSUME NEW w \in Workers, Deliver(w) PROVE FlightInv'
  <2>1. PICK outcome \in {"accepted", "declined", "failed"} :
           /\ task'[w] = [stage |-> IF outcome = "failed" /\ OutOfAttempts(task[w].row)
                                    THEN "trip_breaker" ELSE "final_read",
                          key |-> task[w].key, row |-> task[w].row, outcome |-> outcome]
           /\ \A v \in Workers : v # w => task'[v] = task[v]
           /\ states' = states
    BY <1>13, DeliverEffect
  <2>2. task'[w].stage \in {"trip_breaker", "final_read"} /\ task'[w].key = task[w].key
    BY <2>1
  <2> QED  BY <1>11, <2>1, <2>2
<1>14. ASSUME NEW w \in Workers, TripBreaker(w) PROVE FlightInv'
  BY <1>11, <1>14, AdvanceEffect DEF TripBreaker, Settling, Routing
<1>15. ASSUME NEW w \in Workers, FinalRead(w) PROVE FlightInv'
  <2> DEFINE k == task[w].key
             verdict == Verdict(task[w].row, task[w].outcome)
  <2>1. CASE ~ Break("deadlocked")
    <3>1. /\ task[w].stage = "final_read"
          /\ task'[w].key = k
          /\ \/ /\ Stored(w)
                /\ task'[w].stage = "final_write"
                /\ task'[w].row = Settled(states[k], task[w].row, verdict)
             \/ ~ Stored(w) /\ task'[w].stage = "reschedule"
          /\ \A v \in Workers : v # w => task'[v] = task[v]
          /\ states' = states
      BY <1>15, <2>1, FinalReadEffect
    <3>2. CASE task'[w].stage = "reschedule"
      <4>1. k \notin Flying
        BY <3>1, <3>2 DEF Stored, InStatus
      <4> QED  BY <1>1, <3>1, <3>2, <4>1, FlightFrame DEF Proceeds
    <3>3. CASE task'[w].stage = "final_write"
      <4>1. task[w].row \in Row /\ states[k] \in Row
        BY <3>1, <3>3, TaskShape DEF TypeOK, Stored, Settling, SettleTask
      <4>2. task'[w].row.status = verdict
        BY <3>1, <3>3, <4>1, SettledFields
      <4>3. verdict # "in-flight"
        BY DEF Verdict
      <4> QED  BY <1>1, <3>1, <3>3, <4>2, <4>3, FlightFrame DEF Proceeds
    <3> QED  BY <3>1, <3>2, <3>3
  <2> QED  BY <1>9, <2>1
<1>16. ASSUME NEW w \in Workers, FinalWrite(w) PROVE FlightInv'
  <2>1. CASE Stored(w)
    <3>1. /\ task[w].stage = "final_write"
          /\ states' = [states EXCEPT ![task[w].key] = task[w].row]
          /\ Advance(w, IF task[w].row.status \in Terminal THEN "destroy_read"
                        ELSE "reschedule")
      BY <1>16, <2>1 DEF FinalWrite
    <3>2. /\ task'[w].stage \in {"destroy_read", "reschedule"}
          /\ \A v \in Workers : v # w => task'[v] = task[v]
      BY <3>1, AdvanceEffect DEF Settling
    <3>3. task[w].row.status # "in-flight"
      BY <3>1 DEF FlightInv
    <3>4. Flying' \subseteq Flying \ {task[w].key}
      BY <2>1, <3>1, <3>3 DEF InStatus, TypeOK, Stored
    <3> QED  BY <3>1, <3>2, <3>4, FlightFrame DEF Proceeds
  <2> QED  BY <1>9, <1>16, <2>1 DEF FinalWrite
<1>17. ASSUME NEW w \in Workers, DestroyRead(w) PROVE FlightInv'
  BY <1>1, <1>17, AdvanceEffect, AfterDestroyEffect, FlightAside DEF DestroyRead, Settling
<1>18. ASSUME NEW w \in Workers, DestroyWrite(w) PROVE FlightInv'
  <2>1. CASE Stored(w)
    <3>1. /\ task[w].stage = "destroy_write"
          /\ states' = [k \in DOMAIN states \ {task[w].key} |-> states[k]]
          /\ AfterDestroy(w)
      BY <1>18, <2>1 DEF DestroyWrite
    <3>2. Flying' \subseteq Flying
      BY <3>1 DEF InStatus
    <3> QED  BY <3>1, <3>2, AfterDestroyEffect, FlightAside DEF Settling
  <2> QED  BY <1>9, <1>18, <2>1 DEF DestroyWrite
<1>19. ASSUME NEW w \in Workers, Reschedule(w) PROVE FlightInv'
  BY <1>1, <1>19, GotoEffect, FlightAside DEF Reschedule, Return, Idle
<1>20. ASSUME NEW k \in DOMAIN states, Elapse(k) PROVE FlightInv'
  <2>1. Flying' = Flying /\ task' = task
    BY <1>20 DEF Elapse, InStatus, TypeOK, Row
  <2> QED  BY <2>1 DEF FlightInv, Proceeds
<1>21. ~ Restart
  BY DEF Restart, TypeOK
<1>22. CASE UNCHANGED vars
  BY <1>22, FlightStutter DEF vars
<1> QED
  BY <1>2, <1>3, <1>4, <1>5, <1>6, <1>7, <1>8, <1>10, <1>12, <1>13, <1>14, <1>15,
     <1>16, <1>17, <1>18, <1>19, <1>20, <1>21, <1>22 DEF Next, Publish, Dispatch

(* On a healthy repository, and for as long as the process lives, a state  *)
(* marked in flight is being processed: some worker is going to write what *)
(* became of it, for however many workers.                                 *)
THEOREM InFlightIsNeverAbandoned ==
    ASSUME MaxFaults = 0, MaxRestarts = 0
    PROVE  Spec => []InFlightIsProcessed
<1>1. Init => FlightInv
  BY DEF Init, FlightInv, InStatus, Idle
<1>2. FlightInv => InFlightIsProcessed
  BY DEF FlightInv, Proceeds, InFlightIsProcessed, Claiming, Settling
<1> QED  BY <1>1, <1>2, FlightStep, WakeUpInvariant, TypeCorrect, PTL DEF Spec

=============================================================================
