----------------------------- MODULE DispatchSolo -----------------------------
(* What holds of Dispatch with one worker, the default of Settings: first  *)
(* for any number of repository errors and restarts; then, on a repository *)
(* that answers every call, that it implements the abstract delivery       *)
(* service of Delivery, and makes first attempts in the order deliveries   *)
(* were created.                                                           *)
EXTENDS DispatchHealthy

OneWorker == \A v, w \in Workers : v = w

-----------------------------------------------------------------------------
(* With one worker, what a handler carries is what is stored. *)

Untried(k) == ledger[k].tries = 0 /\ ledger[k].answers = 0

Resumable(k, row) ==
    /\ ledger[k].answers = 0
    /\ row.attempts > 0
    /\ row.attempts + ledger[k].tries = ledger[k].limit

Open(k, row) ==
    \/ row.attempts = ledger[k].limit /\ Untried(k)
    \/ Resumable(k, row)

(* The attempt just made was the last but row.attempts - 1 of the budget.  *)
Tried(k, row) ==
    /\ ledger[k].answers = 0
    /\ row.attempts + ledger[k].tries
          = (IF row.attempts = 0 THEN 1 ELSE ledger[k].limit + 1)

(* A stored state is fresh, or resumable, or the business of a handler. *)
Rests(k) ==
    /\ states[k].status = "pending" => states[k].attempts = ledger[k].limit /\ Untried(k)
    /\ states[k].status = "suspended" => Resumable(k, states[k])

Handles(w) ==
    LET t == task[w]
    IN  /\ t.stage \in Routing \ {"reschedule"} => t.key \in DOMAIN states
        /\ t.stage \in Claiming => t.row = states[t.key] /\ Open(t.key, t.row)
        /\ t.stage \in {"claim_read", "claim_write"} =>
              /\ t.row.status \in {"pending", "suspended"}
              /\ t.row.status = "suspended" => t.row.due
        /\ t.stage \in {"read_message", "deliver", "trip_breaker", "final_read"} =>
              states[t.key].status = "in-flight"
        /\ t.stage \in {"trip_breaker", "final_read"} =>
              /\ t.outcome # "purge"
              /\ t.outcome = "failed" => Tried(t.key, t.row)
        /\ t.stage = "final_write" =>
              /\ t.row.status \in {"suspended"} \cup Terminal
              /\ t.row.status = "suspended" => Resumable(t.key, t.row)
        /\ t.stage \in {"final_write", "destroy_read", "destroy_write"} =>
              states[t.key].status \notin {"pending", "suspended"}

WithinLimit(k) ==
    ledger[k].tries <= (IF ledger[k].limit = 0 THEN 1 ELSE ledger[k].limit)

SoloInv ==
    /\ fate = "running"
    /\ \A k \in DOMAIN ledger : WithinLimit(k)
    /\ \A k \in DOMAIN states : Rests(k)
    /\ \A w \in Workers : Handles(w)

-----------------------------------------------------------------------------
LEMMA FreeHandles ==
    ASSUME NEW w, task'[w].stage \notin Routing \ {"reschedule"}
    PROVE  Handles(w)'
BY DEF Handles, Routing, Claiming, Settling

LEMMA SoloFrame ==
    ASSUME OneWorker, SoloInv, NEW w \in Workers, Handles(w)',
           states' = states, ledger' = ledger, fate' = fate
    PROVE  SoloInv'
BY DEF SoloInv, OneWorker, Rests, WithinLimit, Untried, Resumable

LEMMA SoloWrite ==
    ASSUME OneWorker, TypeOK, SoloInv, NEW w \in Workers, Handles(w)',
           NEW k \in DOMAIN states, NEW row, row.status # "pending",
           row.status = "suspended" => Resumable(k, row),
           states' = [states EXCEPT ![k] = row], ledger' = ledger, fate' = fate
    PROVE  SoloInv'
<1>1. \A j \in DOMAIN states' : Rests(j)'
  BY DEF SoloInv, Rests, Untried, Resumable, TypeOK
<1> QED  BY <1>1 DEF SoloInv, OneWorker, WithinLimit

LEMMA SoloStutter ==
    ASSUME SoloInv, UNCHANGED << states, ledger, fate, task >>
    PROVE  SoloInv'
BY DEF SoloInv, Rests, WithinLimit, Handles, Untried, Resumable, Open, Tried

LEMMA SoloStep ==
    ASSUME OneWorker
    PROVE  TypeOK /\ MessagesInv /\ SoloInv /\ [Next]_vars => SoloInv'
<1> SUFFICES ASSUME TypeOK, MessagesInv, SoloInv, [Next]_vars PROVE SoloInv'
  OBVIOUS
<1>1. ASSUME NEW w \in Workers, NEW m \in Messages, ReadSubscriptions(w, m)
      PROVE  SoloInv'
  <2>1. task'[w].stage = "create_message"
    BY <1>1, GotoEffect DEF ReadSubscriptions
  <2> QED
    BY <1>1, <2>1, FreeHandles, SoloFrame
       DEF ReadSubscriptions, Routing, Claiming, Settling
<1>2. ASSUME NEW w \in Workers, CreateMessage(w) PROVE SoloInv'
  <2>1. task'[w].stage \in {"create_states", "idle"}
    BY <1>2, GotoEffect, AdvanceEffect DEF CreateMessage, Publishing, Idle
  <2> QED
    BY <1>2, <2>1, FreeHandles, SoloFrame
       DEF CreateMessage, Routing, Claiming, Settling
<1>3. ASSUME NEW w \in Workers, CreateStates(w) PROVE SoloInv'
  <2>1. Handles(w)'
    <3>1. task'[w].stage \in {"acknowledge", "idle"}
      BY <1>3, GotoEffect DEF CreateStates, Idle
    <3> QED  BY <3>1, FreeHandles DEF Routing, Claiming, Settling
  <2>2. CASE StoreStates(w)
    <3>1. PICK fresh :
             /\ DOMAIN ledger' = DOMAIN ledger \cup fresh
             /\ DOMAIN states' = DOMAIN states \cup fresh
             /\ \A k \in DOMAIN ledger : ledger'[k] = ledger[k]
             /\ \A k \in DOMAIN states : states'[k] = states[k]
             /\ \A k \in fresh : \E match \in Match :
                    /\ states'[k] = NewRow(task[w].message, match)
                    /\ ledger'[k] = NewEntry(match)
      BY <1>3, <2>2, StoreEffect DEF CreateStates
    <3>2. \A k \in DOMAIN states' : Rests(k)'
      <4>1. ASSUME NEW k \in DOMAIN states PROVE Rests(k)'
        BY <3>1 DEF SoloInv, Rests, Untried, Resumable, TypeOK
      <4>2. ASSUME NEW k \in fresh PROVE Rests(k)'
        BY <3>1 DEF NewRow, NewEntry, Rests, Untried
      <4> QED  BY <3>1, <4>1, <4>2
    <3>3. \A k \in DOMAIN ledger' : WithinLimit(k)'
      <4>1. ASSUME NEW k \in fresh PROVE WithinLimit(k)'
        <5>1. PICK match \in Match : ledger'[k] = NewEntry(match)
          BY <3>1
        <5>2. match.attempts \in Nat
          BY DEF Match
        <5> QED  BY <5>1, <5>2 DEF NewEntry, WithinLimit
      <4> QED  BY <3>1, <4>1 DEF SoloInv, WithinLimit
    <3> QED  BY <1>3, <2>1, <3>2, <3>3 DEF SoloInv, OneWorker, CreateStates
  <2>3. CASE UNCHANGED << states, ledger >>
    BY <1>3, <2>1, <2>3, SoloFrame DEF CreateStates
  <2> QED  BY <1>3, <2>2, <2>3 DEF CreateStates
<1>4. ASSUME NEW w \in Workers, Acknowledge(w) PROVE SoloInv'
  <2>1. task'[w].stage = "idle"
    BY <1>4, GotoEffect DEF Acknowledge, Idle
  <2> QED
    BY <1>4, <2>1, FreeHandles, SoloFrame DEF Acknowledge, Routing, Claiming, Settling
<1>5. ASSUME NEW w \in Workers, NEW k \in DOMAIN states, Claim(w, k),
             states[k].status \in {"pending", "suspended"},
             states[k].status = "suspended" => states[k].due,
             UNCHANGED << states, ledger, fate >>
      PROVE  SoloInv'
  <2>1. /\ task'[w].stage = "claim_read"
        /\ task'[w].key = k
        /\ task'[w].row = states[k]
    BY <1>5, ClaimEffect
  <2>2. Open(k, states[k])
    BY <1>5 DEF SoloInv, Rests, Open
  <2>3. Handles(w)'
    BY <1>5, <2>1, <2>2
       DEF Handles, Open, Untried, Resumable, Routing, Claiming, Settling
  <2> QED  BY <1>5, <2>3, SoloFrame
<1>6. ASSUME NEW w \in Workers, RoutePending(w) PROVE SoloInv'
  <2>1. CASE task' = task
    BY <1>6, <2>1, SoloStutter, PendingEffect
  <2>2. CASE \E k \in InStatus("pending") : k \in DOMAIN states /\ Claim(w, k)
    BY <1>5, <1>6, <2>2, PendingEffect DEF InStatus
  <2> QED  BY <1>6, <2>1, <2>2, PendingEffect
<1>7. ASSUME NEW w \in Workers, RouteSuspended(w) PROVE SoloInv'
  <2>1. CASE task' = task
    BY <1>7, <2>1, SoloStutter, SuspendedEffect
  <2>2. CASE \E k \in InStatus("suspended") :
                k \in DOMAIN states /\ states[k].due /\ Claim(w, k)
    BY <1>5, <1>7, <2>2, SuspendedEffect DEF InStatus
  <2> QED  BY <1>7, <2>1, <2>2, SuspendedEffect
<1>8. ASSUME NEW w \in Workers, ClaimRead(w) PROVE SoloInv'
  <2> DEFINE k == task[w].key
  <2>1. /\ task[w].stage = "claim_read"
        /\ UNCHANGED << states, ledger, fate >>
    BY <1>8 DEF ClaimRead
  <2>2. CASE Goto(w, [stage |-> "claim_write", key |-> k, row |-> states[k]])
    <3>1. /\ k \in DOMAIN states
          /\ task[w].row = states[k]
          /\ Open(k, states[k])
          /\ states[k].status \in {"pending", "suspended"}
          /\ states[k].status = "suspended" => states[k].due
      BY <2>1 DEF SoloInv, Handles, Routing, Claiming
    <3> HIDE DEF k
    <3>2. task'[w] = [stage |-> "claim_write", key |-> k, row |-> states[k]]
      BY <2>2, GotoEffect
    <3>3. Handles(w)'
      BY <2>1, <3>1, <3>2
         DEF Handles, Open, Untried, Resumable, Routing, Claiming, Settling
    <3> QED  BY <2>1, <3>3, SoloFrame
  <2>3. CASE Return(w)
    <3>1. task'[w].stage = "idle"
      BY <2>3, GotoEffect DEF Return, Idle
    <3> QED  BY <2>1, <3>1, FreeHandles, SoloFrame DEF Routing, Claiming, Settling
  <2> QED  BY <1>8, <2>2, <2>3 DEF ClaimRead
<1>9. ASSUME NEW w \in Workers, ClaimWrite(w) PROVE SoloInv'
  <2> DEFINE k == task[w].key
             row == [task[w].row EXCEPT !.status = "in-flight"]
  <2>1. /\ task[w].stage = "claim_write"
        /\ k \in DOMAIN states
        /\ Open(k, task[w].row)
    BY <1>9 DEF ClaimWrite, SoloInv, Handles, Routing, Claiming
  <2>2. /\ states' = [states EXCEPT ![k] = row]
        /\ Goto(w, [stage |-> "read_message", key |-> k, row |-> row])
        /\ ledger' = ledger /\ fate' = fate
    BY <1>9, <2>1 DEF ClaimWrite, Stored
  <2>3. task[w].row \in Row
    BY <2>1, TaskShape DEF TypeOK, Claiming, ClaimTask
  <2>4. row.status = "in-flight" /\ row.attempts = task[w].row.attempts
    BY <2>3 DEF Row
  <2>5. Open(k, row)
    BY <2>1, <2>4 DEF Open, Resumable
  <2> HIDE DEF k, row
  <2>6. task'[w] = [stage |-> "read_message", key |-> k, row |-> row]
    BY <2>2, GotoEffect
  <2>7. states'[k] = row /\ k \in DOMAIN states'
    BY <2>1, <2>2 DEF TypeOK
  <2>8. Handles(w)'
    BY <2>2, <2>4, <2>5, <2>6, <2>7
       DEF Handles, Open, Untried, Resumable, Routing, Claiming, Settling
  <2> QED  BY <2>1, <2>2, <2>4, <2>8, SoloWrite
<1>10. ASSUME NEW w \in Workers, ReadMessage(w) PROVE SoloInv'
  <2>1. /\ task[w].stage = "read_message"
        /\ task[w].row.message \in messages
    BY <1>10 DEF ReadMessage, MessagesInv, Routing, Claiming
  <2>2. UNCHANGED << states, ledger, fate >>
    BY <1>10, <2>1 DEF ReadMessage
  <2>3. /\ task[w].key \in DOMAIN states
        /\ states[task[w].key].status = "in-flight"
    BY <2>1 DEF SoloInv, Handles, Routing, Claiming
  <2>4. CASE Advance(w, "deliver")
    <3>1. /\ task'[w].stage = "deliver"
          /\ task'[w].key = task[w].key
          /\ task'[w].row = task[w].row
      BY <2>1, <2>4, AdvanceEffect DEF Routing, Claiming
    <3>2. Handles(w)'
      BY <2>1, <2>2, <2>3, <3>1
         DEF SoloInv, Handles, Open, Untried, Resumable, Routing, Claiming, Settling
    <3> QED  BY <2>2, <3>2, SoloFrame
  <2>5. CASE Goto(w, [stage |-> "destroy_read", key |-> task[w].key,
                      row |-> task[w].row, outcome |-> "purge"])
    <3>1. task'[w].stage = "destroy_read" /\ task'[w].key = task[w].key
      BY <2>5, GotoEffect
    <3>2. Handles(w)'
      BY <2>2, <2>3, <3>1 DEF Handles, Routing, Claiming, Settling
    <3> QED  BY <2>2, <3>2, SoloFrame
  <2> QED  BY <1>10, <2>1, <2>4, <2>5 DEF ReadMessage
<1>11. ASSUME NEW w \in Workers, Deliver(w) PROVE SoloInv'
  <2> DEFINE k == task[w].key
             row == task[w].row
  <2>1. PICK outcome \in {"accepted", "declined", "failed"},
             stage \in {"trip_breaker", "final_read"} :
          /\ ledger' = [ledger EXCEPT ![k] = Attempted(@, outcome)]
          /\ Goto(w, [stage |-> stage, key |-> k, row |-> row, outcome |-> outcome])
    BY <1>11 DEF Deliver
  <2>2. task[w].stage = "deliver" /\ states' = states /\ fate' = fate
    BY <1>11 DEF Deliver
  <2>3. /\ k \in DOMAIN states
        /\ k \in DOMAIN ledger
        /\ states[k].status = "in-flight"
        /\ Open(k, row)
        /\ row \in Row
    BY <2>2, TaskShape DEF TypeOK, SoloInv, Handles, Routing, Claiming, ClaimTask
  <2>4. /\ ledger[k] \in Entry
        /\ ledger[k].tries \in Nat /\ ledger[k].limit \in Nat
        /\ ledger[k].answers \in Nat
        /\ row.attempts \in Nat
    BY <2>3 DEF TypeOK, Row, Entry
  <2>5. /\ DOMAIN ledger' = DOMAIN ledger
        /\ ledger'[k] = Attempted(ledger[k], outcome)
        /\ \A j \in DOMAIN ledger : j # k => ledger'[j] = ledger[j]
    BY <2>1, <2>3 DEF TypeOK
  <2>6. /\ ledger'[k].limit = ledger[k].limit
        /\ ledger'[k].tries = ledger[k].tries + 1
        /\ outcome = "failed" => ledger'[k].answers = ledger[k].answers
    BY <2>4, <2>5, AttemptedEntry
  <2> HIDE DEF k, row
  <2>7. /\ ledger'[k].tries <= (IF ledger'[k].limit = 0 THEN 1 ELSE ledger'[k].limit)
        /\ row.attempts + ledger'[k].tries
              = (IF row.attempts = 0 THEN 1 ELSE ledger'[k].limit + 1)
    BY <2>3, <2>4, <2>6 DEF Open, Untried, Resumable
  <2>8. ledger[k].answers = 0
    BY <2>3 DEF Open, Untried, Resumable
  <2>9. Handles(w)'
    <3>1. task'[w] = [stage |-> stage, key |-> k, row |-> row, outcome |-> outcome]
      BY <2>1, GotoEffect
    <3>2. outcome = "failed" => ledger'[k].answers = 0
      BY <2>6, <2>8
    <3> QED
      BY <2>2, <2>3, <2>7, <3>1, <3>2 DEF Handles, Tried, Routing, Claiming, Settling
  <2>10. \A j \in DOMAIN ledger' : WithinLimit(j)'
    BY <2>5, <2>7 DEF SoloInv, WithinLimit
  <2>11. \A j \in DOMAIN states' : Rests(j)'
    <3> SUFFICES ASSUME NEW j \in DOMAIN states PROVE Rests(j)'
      BY <2>2
    <3>1. CASE j = k
      BY <2>2, <2>3, <3>1 DEF Rests
    <3>2. CASE j # k
      BY <2>2, <2>5, <3>2 DEF SoloInv, Rests, Untried, Resumable, TypeOK
    <3> QED  BY <3>1, <3>2
  <2> QED  BY <2>2, <2>9, <2>10, <2>11 DEF SoloInv, OneWorker
<1>12. ASSUME NEW w \in Workers, TripBreaker(w) PROVE SoloInv'
  <2>1. /\ Advance(w, "final_read")
        /\ task[w].stage = "trip_breaker"
        /\ UNCHANGED << states, ledger, fate >>
    BY <1>12 DEF TripBreaker
  <2>2. /\ task'[w].stage = "final_read"
        /\ task'[w].key = task[w].key
        /\ task'[w].row = task[w].row
        /\ task'[w].outcome = task[w].outcome
    BY <2>1, AdvanceEffect DEF Settling, Routing
  <2>3. Handles(w)'
    BY <2>1, <2>2 DEF SoloInv, Handles, Tried, Routing, Claiming, Settling
  <2> QED  BY <2>1, <2>3, SoloFrame
<1>13. ASSUME NEW w \in Workers, Advance(w, "reschedule"), task[w].stage \in Settling,
              UNCHANGED << states, ledger, fate >>
       PROVE  SoloInv'
  <2>1. task'[w].stage = "reschedule"
    BY <1>13, AdvanceEffect
  <2> QED  BY <1>13, <2>1, FreeHandles, SoloFrame DEF Routing, Claiming, Settling
<1>14. ASSUME NEW w \in Workers, FinalRead(w) PROVE SoloInv'
  <2> DEFINE k == task[w].key
             row == task[w].row
             outcome == task[w].outcome
             verdict == Verdict(row, outcome)
             settled == Settled(states[k], row, verdict)
  <2>1. /\ task[w].stage = "final_read"
        /\ k \in DOMAIN states
        /\ states[k].status = "in-flight"
        /\ outcome # "purge"
        /\ outcome = "failed" => Tried(k, row)
    BY <1>14 DEF FinalRead, SoloInv, Handles, Routing, Settling
  <2>2. UNCHANGED << states, ledger, fate >>
    BY <1>14, <2>1 DEF FinalRead, Stored
  <2>3. CASE Goto(w, [task[w] EXCEPT !.stage = "final_write", !.row = settled])
    <3>1. /\ task[w] \in SettleTask
          /\ row \in Row /\ row.attempts \in Nat
          /\ states[k] \in Row
          /\ ledger[k] \in Entry
      BY <2>1, TaskShape DEF TypeOK, Settling, SettleTask, Row
    <3>2. /\ settled.status = verdict
          /\ verdict = "suspended" => settled.attempts = row.attempts - 1
      BY <3>1, SettledFields
    <3>3. /\ verdict \in {"suspended"} \cup Terminal
          /\ verdict = "suspended" => outcome = "failed" /\ row.attempts > 1
      BY <2>1, <3>1 DEF Verdict, OutOfAttempts, Terminal, SettleTask, Outcome
    <3>4. ledger[k].tries \in Nat /\ ledger[k].limit \in Nat
      BY <3>1 DEF Entry
    <3> HIDE DEF settled, verdict
    <3>5. task'[w] = [task[w] EXCEPT !.stage = "final_write", !.row = settled]
      BY <2>3, GotoEffect
    <3>6. task'[w].stage = "final_write" /\ task'[w].row = settled /\ task'[w].key = k
      BY <3>1, <3>5 DEF SettleTask
    <3> HIDE DEF k, row, outcome
    <3>7. verdict = "suspended" => Resumable(k, settled)
      BY <2>1, <3>1, <3>2, <3>3, <3>4 DEF Tried, Resumable
    <3>8. Handles(w)'
      BY <2>1, <2>2, <3>2, <3>3, <3>6, <3>7
         DEF Handles, Resumable, Routing, Claiming, Settling
    <3> QED  BY <2>2, <3>8, SoloFrame
  <2>4. CASE Advance(w, "reschedule")
    BY <1>13, <2>1, <2>2, <2>4 DEF Settling
  <2> QED  BY <1>14, <2>1, <2>3, <2>4 DEF FinalRead, Stored
<1>15. ASSUME NEW w \in Workers, FinalWrite(w) PROVE SoloInv'
  <2> DEFINE k == task[w].key
             row == task[w].row
  <2>1. /\ task[w].stage = "final_write"
        /\ k \in DOMAIN states
        /\ row.status \in {"suspended"} \cup Terminal
        /\ row.status = "suspended" => Resumable(k, row)
    BY <1>15 DEF FinalWrite, SoloInv, Handles, Routing, Settling
  <2>2. /\ states' = [states EXCEPT ![k] = row]
        /\ Advance(w, IF row.status \in Terminal THEN "destroy_read" ELSE "reschedule")
        /\ ledger' = ledger /\ fate' = fate
    BY <1>15, <2>1 DEF FinalWrite, Stored
  <2>3. /\ task'[w].stage = (IF row.status \in Terminal THEN "destroy_read" ELSE "reschedule")
        /\ task'[w].key = k
    BY <2>1, <2>2, AdvanceEffect DEF Settling, Routing
  <2> HIDE DEF k, row
  <2>4. states'[k] = row /\ k \in DOMAIN states' /\ row.status # "pending"
    BY <2>1, <2>2 DEF TypeOK, Terminal
  <2>5. Handles(w)'
    BY <2>3, <2>4 DEF Handles, Terminal, Routing, Claiming, Settling
  <2> QED  BY <2>1, <2>2, <2>4, <2>5, SoloWrite
<1>16. ASSUME NEW w \in Workers, AfterDestroy(w), task[w].stage \in Settling
       PROVE  Handles(w)'
  <2>1. task'[w].stage \in {"idle", "reschedule"}
    BY <1>16, GotoEffect, AdvanceEffect DEF AfterDestroy, Return, Idle
  <2> QED  BY <2>1, FreeHandles DEF Routing, Claiming, Settling
<1>17. ASSUME NEW w \in Workers, DestroyRead(w) PROVE SoloInv'
  <2>1. /\ task[w].stage = "destroy_read"
        /\ UNCHANGED << states, ledger, fate >>
    BY <1>17 DEF DestroyRead
  <2>2. CASE Advance(w, "destroy_write")
    <3>1. task'[w].stage = "destroy_write" /\ task'[w].key = task[w].key
      BY <2>1, <2>2, AdvanceEffect DEF Settling, Routing
    <3>2. Handles(w)'
      BY <2>1, <3>1 DEF SoloInv, Handles, Routing, Claiming, Settling
    <3> QED  BY <2>1, <3>2, SoloFrame
  <2>3. CASE AfterDestroy(w)
    BY <1>16, <2>1, <2>3, SoloFrame DEF Settling
  <2> QED  BY <1>17, <2>2, <2>3 DEF DestroyRead
<1>18. ASSUME NEW w \in Workers, DestroyWrite(w) PROVE SoloInv'
  <2> DEFINE k == task[w].key
  <2>1. task[w].stage = "destroy_write" /\ k \in DOMAIN states
    BY <1>18 DEF DestroyWrite, SoloInv, Handles, Routing, Settling
  <2>2. /\ states' = [j \in DOMAIN states \ {k} |-> states[j]]
        /\ AfterDestroy(w)
        /\ ledger' = ledger /\ fate' = fate
    BY <1>18, <2>1 DEF DestroyWrite, Stored
  <2>3. Handles(w)'
    BY <1>16, <2>1, <2>2 DEF Settling
  <2>4. \A j \in DOMAIN states' : Rests(j)'
    BY <2>2 DEF SoloInv, Rests, Untried, Resumable
  <2> QED  BY <2>2, <2>3, <2>4 DEF SoloInv, OneWorker, WithinLimit
<1>19. ASSUME NEW w \in Workers, Reschedule(w) PROVE SoloInv'
  <2>1. task'[w].stage = "idle"
    BY <1>19, GotoEffect DEF Reschedule, Return, Idle
  <2> QED
    BY <1>19, <2>1, FreeHandles, SoloFrame DEF Reschedule, Routing, Claiming, Settling
<1>20. ASSUME NEW k \in DOMAIN states, Elapse(k) PROVE SoloInv'
  <2>1. /\ states' = [states EXCEPT ![k].due = TRUE]
        /\ UNCHANGED << ledger, fate, task >>
        /\ states[k].status = "suspended" /\ ~ states[k].due
    BY <1>20 DEF Elapse, InStatus
  <2>2. /\ DOMAIN states' = DOMAIN states
        /\ \A j \in DOMAIN states : /\ states'[j].status = states[j].status
                                    /\ states'[j].attempts = states[j].attempts
                                    /\ j # k => states'[j] = states[j]
    BY <2>1 DEF TypeOK, Row
  <2>3. \A j \in DOMAIN states' : Rests(j)'
    BY <2>1, <2>2 DEF SoloInv, Rests, Untried, Resumable
  <2>4. ASSUME NEW w \in Workers PROVE Handles(w)'
    <3>1. task[w].stage \in Claiming => task[w].key # k
      BY <2>1 DEF SoloInv, Handles, Routing, Claiming
    <3> QED
      BY <2>1, <2>2, <3>1
         DEF SoloInv, Handles, Open, Untried, Resumable, Tried, Routing, Claiming, Settling
  <2> QED  BY <2>1, <2>3, <2>4 DEF SoloInv, WithinLimit
<1>21. CASE Restart
  <2>1. \A w \in Workers : task'[w].stage = "idle"
    BY <1>21 DEF Restart, Idle
  <2>2. UNCHANGED << states, ledger, fate >>
    BY <1>21 DEF Restart
  <2>3. \A w \in Workers : Handles(w)'
    BY <2>1, FreeHandles DEF Routing, Claiming, Settling
  <2> QED
    BY <2>2, <2>3 DEF SoloInv, Rests, WithinLimit, Untried, Resumable
<1>22. CASE UNCHANGED vars
  BY <1>22, SoloStutter DEF vars
<1> QED
  BY <1>1, <1>2, <1>3, <1>4, <1>6, <1>7, <1>8, <1>9, <1>10, <1>11, <1>12, <1>14,
     <1>15, <1>17, <1>18, <1>19, <1>20, <1>21, <1>22 DEF Next, Publish, Dispatch

LEMMA SoloInvariant ==
    ASSUME OneWorker
    PROVE  Spec => [](TypeOK /\ SoloInv)
<1>1. Init => MessagesInv /\ SoloInv
  BY DEF Init, MessagesInv, MessagesOutliveStates, SoloInv, Handles, Idle, Routing,
         Claiming, Settling
<1> QED  BY <1>1, MessagesStep, SoloStep, TypeCorrect, PTL DEF Spec

(* With one worker no delivery is attempted more often than its queue      *)
(* allows, whatever fails and however often the process restarts: what is  *)
(* left of the budget is always what the stored row says.                  *)
THEOREM SoloAttemptsWithinLimit ==
    ASSUME OneWorker
    PROVE  Spec => []AttemptsWithinLimit
<1>1. SoloInv => AttemptsWithinLimit
  BY DEF SoloInv, WithinLimit, AttemptsWithinLimit
<1> QED  BY <1>1, SoloInvariant, PTL

(* With one worker no section writes or erases through an end iterator,    *)
(* and none locks the mutex its own thread holds.                          *)
THEOREM SoloNoUndefinedBehaviour ==
    ASSUME OneWorker
    PROVE  Spec => []NoUndefinedBehaviour
<1>1. SoloInv => NoUndefinedBehaviour
  BY DEF SoloInv, NoUndefinedBehaviour
<1> QED  BY <1>1, SoloInvariant, PTL

(* What was tried as often as its queue allows, in vain. *)
Exhausted(k) ==
    /\ ledger[k].answers = 0
    /\ ledger[k].tries > 0
    /\ ledger[k].tries >= ledger[k].limit

(* An answered or exhausted delivery is not attempted again. *)
LEMMA ClosedStays ==
    ASSUME TypeOK, SoloInv, [Next]_vars,
           NEW k \in DOMAIN ledger, ledger[k].answers > 0 \/ Exhausted(k)
    PROVE  k \in DOMAIN ledger' /\ ledger'[k] = ledger[k]
<1>1. ASSUME NEW w \in Workers, CreateStates(w)
      PROVE  k \in DOMAIN ledger' /\ ledger'[k] = ledger[k]
  BY <1>1, StoreEffect DEF CreateStates
<1>2. ASSUME NEW w \in Workers, Deliver(w)
      PROVE  k \in DOMAIN ledger' /\ ledger'[k] = ledger[k]
  <2>1. /\ Open(task[w].key, task[w].row)
        /\ task[w].row \in Row
        /\ ledger[k] \in Entry
    BY <1>2, TaskShape DEF Deliver, SoloInv, Handles, TypeOK, Claiming, ClaimTask
  <2>2. k # task[w].key
    BY <2>1 DEF Open, Untried, Resumable, Exhausted, Row, Entry
  <2> QED  BY <1>2, <2>2 DEF Deliver, TypeOK
<1>3. CASE ledger' = ledger
  BY <1>3
<1> QED
  BY <1>1, <1>2, <1>3
     DEF Next, vars, Publish, Dispatch, ReadSubscriptions, CreateMessage, Acknowledge,
         RoutePending, RouteSuspended, Elapse, ClaimRead, ClaimWrite, ReadMessage,
         TripBreaker, FinalRead, FinalWrite, DestroyRead, DestroyWrite, Reschedule,
         Restart, Break

(* With one worker a consumer that has answered is not sent the message    *)
(* again, across failures of the final update and restarts.                *)
THEOREM SoloAnsweredOnce ==
    ASSUME OneWorker
    PROVE  Spec => AnsweredOnce
<1>1. TypeOK /\ SoloInv /\ [Next]_vars =>
          \A k \in DOMAIN ledger : ledger[k].answers > 0 => ledger'[k] = ledger[k]
  BY ClosedStays
<1> QED  BY <1>1, SoloInvariant, PTL DEF Spec, AnsweredOnce

-----------------------------------------------------------------------------
(* The circuit breaker. *)

CauseInv ==
    /\ BreakerHasCause
    /\ \A w \in Workers : task[w].stage = "trip_breaker" => Exhausted(task[w].key)

(* Only a failed attempt takes a handler to the breaker. *)
LEMMA BreakerEntered ==
    ASSUME TypeOK, [Next]_vars, NEW v \in Workers, task'[v].stage = "trip_breaker"
    PROVE  task'[v] = task[v] \/ Deliver(v)
<1>1. ASSUME NEW w \in Workers,
             \/ \E m \in Messages : ReadSubscriptions(w, m)
             \/ Publish(w)
      PROVE  task'[v] = task[v]
  <2>1. ASSUME NEW m \in Messages, ReadSubscriptions(w, m) PROVE task'[v] = task[v]
    BY <2>1, GotoEffect DEF ReadSubscriptions
  <2>2. CASE CreateMessage(w)
    BY <2>2, GotoEffect, AdvanceEffect DEF CreateMessage, Idle, Publishing
  <2>3. CASE CreateStates(w) \/ Acknowledge(w)
    BY <2>3, GotoEffect DEF CreateStates, Acknowledge, Idle
  <2> QED  BY <1>1, <2>1, <2>2, <2>3 DEF Publish
<1>2. ASSUME NEW w \in Workers, RoutePending(w) \/ RouteSuspended(w)
      PROVE  task'[v] = task[v]
  BY <1>2, PendingEffect, SuspendedEffect, ClaimEffect
<1>3. ASSUME NEW outcome, Break(outcome) PROVE task'[v] = task[v]
  BY <1>3 DEF Break
<1>4. ASSUME NEW w \in Workers, ClaimRead(w) PROVE task'[v] = task[v]
  BY <1>4, GotoEffect DEF ClaimRead, Return, Idle
<1>5. ASSUME NEW w \in Workers, ClaimWrite(w) PROVE task'[v] = task[v]
  BY <1>3, <1>5, GotoEffect DEF ClaimWrite
<1>6. ASSUME NEW w \in Workers, ReadMessage(w) PROVE task'[v] = task[v]
  BY <1>3, <1>6, GotoEffect, AdvanceEffect DEF ReadMessage, Claiming
<1>7. ASSUME NEW w \in Workers, Deliver(w), v # w PROVE task'[v] = task[v]
  BY <1>7, GotoEffect DEF Deliver
<1>8. ASSUME NEW w \in Workers, TripBreaker(w) PROVE task'[v] = task[v]
  BY <1>8, AdvanceEffect DEF TripBreaker, Settling
<1>9. ASSUME NEW w \in Workers, FinalRead(w) PROVE task'[v] = task[v]
  BY <1>3, <1>9, FinalReadEffect
<1>10. ASSUME NEW w \in Workers, FinalWrite(w) PROVE task'[v] = task[v]
  BY <1>3, <1>10, AdvanceEffect DEF FinalWrite, Settling
<1>11. ASSUME NEW w \in Workers, DestroyRead(w) \/ DestroyWrite(w)
       PROVE  task'[v] = task[v]
  BY <1>3, <1>11, AdvanceEffect, AfterDestroyEffect DEF DestroyRead, DestroyWrite, Settling
<1>12. ASSUME NEW w \in Workers, Reschedule(w) PROVE task'[v] = task[v]
  BY <1>12, GotoEffect DEF Reschedule, Return, Idle
<1>13. ASSUME NEW k \in DOMAIN states, Elapse(k) PROVE task'[v] = task[v]
  BY <1>13 DEF Elapse
<1>14. ~ Restart
  BY DEF Restart, Idle
<1>15. CASE UNCHANGED vars
  BY <1>15 DEF vars
<1> QED
  BY <1>1, <1>2, <1>4, <1>5, <1>6, <1>7, <1>8, <1>9, <1>10, <1>11, <1>12, <1>13,
     <1>14, <1>15 DEF Next, Dispatch

LEMMA CauseStep ==
    TypeOK /\ BudgetInv /\ RowsInv /\ SoloInv /\ CauseInv /\ [Next]_vars => CauseInv'
<1> SUFFICES ASSUME TypeOK, BudgetInv, RowsInv, SoloInv, CauseInv, [Next]_vars
             PROVE  CauseInv'
  OBVIOUS
<1>1. ASSUME NEW k \in DOMAIN ledger, Exhausted(k)
      PROVE  k \in DOMAIN ledger' /\ ledger'[k] = ledger[k] /\ Exhausted(k)'
  BY <1>1, ClosedStays DEF Exhausted
<1>2. BreakerHasCause <=>
          \A s \in Subscriptions \ reachable :
              \E k \in DOMAIN ledger : ledger[k].subscription = s /\ Exhausted(k)
  BY DEF BreakerHasCause, Exhausted
<1>3. ASSUME NEW s \in Subscriptions, s \notin reachable'
      PROVE  \E k \in DOMAIN ledger' : ledger'[k].subscription = s /\ Exhausted(k)'
  <2>1. CASE s \notin reachable
    BY <1>1, <1>2, <2>1 DEF CauseInv
  <2>2. ASSUME NEW w \in Workers, TripBreaker(w), s \in reachable
        PROVE  \E k \in DOMAIN ledger' : ledger'[k].subscription = s /\ Exhausted(k)'
    <3>1. task[w].stage = "trip_breaker" /\ task[w].row.subscription = s
      BY <1>3, <2>2 DEF TripBreaker
    <3>2. /\ task[w].key \in DOMAIN ledger
          /\ ledger[task[w].key].subscription = s
          /\ Exhausted(task[w].key)
      BY <3>1 DEF CauseInv, RowsInv, Keeps, BudgetInv, Carries, Routing, Settling
    <3> QED  BY <1>1, <3>2
  <2>3. reachable' = reachable \/ \E w \in Workers : TripBreaker(w)
    BY DEF Next, vars, Publish, Dispatch, ReadSubscriptions, CreateMessage, CreateStates,
           Acknowledge, RoutePending, RouteSuspended, Elapse, ClaimRead, ClaimWrite,
           ReadMessage, Deliver, FinalRead, FinalWrite, DestroyRead, DestroyWrite,
           Reschedule, Restart, Break
  <2> QED  BY <1>3, <2>1, <2>2, <2>3
<1>4. BreakerHasCause'
  BY <1>3 DEF BreakerHasCause, Exhausted
<1>5. ASSUME NEW v \in Workers, task'[v].stage = "trip_breaker"
      PROVE  Exhausted(task[v].key)'
  <2> DEFINE k == task[v].key
             row == task[v].row
  <2>1. CASE task'[v] = task[v]
    BY <1>1, <1>5, <2>1 DEF CauseInv, BudgetInv, Carries, Routing, Settling
  <2>2. CASE Deliver(v)
    <3>1. PICK outcome \in {"accepted", "declined", "failed"} :
             /\ task[v].stage = "deliver"
             /\ task'[v] = [stage |-> IF outcome = "failed" /\ OutOfAttempts(row)
                                      THEN "trip_breaker" ELSE "final_read",
                            key |-> k, row |-> row, outcome |-> outcome]
             /\ ledger' = [ledger EXCEPT ![k] = Attempted(@, outcome)]
      BY <2>2, DeliverEffect
    <3>2. outcome = "failed" /\ row.attempts <= 1 /\ task'[v].key = k
      BY <1>5, <3>1 DEF OutOfAttempts
    <3>3. /\ k \in DOMAIN ledger
          /\ row \in Row
          /\ Open(k, row)
      BY <3>1, TaskShape
         DEF TypeOK, SoloInv, Handles, BudgetInv, Carries, Routing, Claiming, ClaimTask
    <3>4. ledger[k] \in Entry /\ ledger'[k] = Attempted(ledger[k], outcome)
      BY <3>1, <3>3 DEF TypeOK
    <3>5. /\ ledger'[k].limit = ledger[k].limit
          /\ ledger'[k].tries = ledger[k].tries + 1
          /\ ledger'[k].answers = ledger[k].answers
      BY <3>2, <3>4, AttemptedEntry
    <3>6. /\ row.attempts \in Nat
          /\ ledger[k].tries \in Nat /\ ledger[k].limit \in Nat
      BY <3>3, <3>4 DEF Row, Entry
    <3> HIDE DEF k, row
    <3>7. /\ ledger'[k].answers = 0
          /\ ledger'[k].tries > 0
          /\ ledger'[k].tries >= ledger'[k].limit
      BY <3>2, <3>3, <3>5, <3>6 DEF Open, Untried, Resumable
    <3> QED  BY <3>2, <3>7 DEF Exhausted
  <2> QED  BY <1>5, <2>1, <2>2, BreakerEntered
<1> QED  BY <1>4, <1>5 DEF CauseInv

(* With one worker the circuit breaker has a cause, whatever fails and     *)
(* however often the process restarts: a subscription is unreachable only  *)
(* after one of its deliveries failed as often as its queue allows.        *)
THEOREM SoloBreakerHasCause ==
    ASSUME OneWorker
    PROVE  Spec => []BreakerHasCause
<1>1. Init => CauseInv
  BY DEF Init, CauseInv, BreakerHasCause, Idle
<1>2. CauseInv => BreakerHasCause
  BY DEF CauseInv
<1> QED
  BY <1>1, <1>2, CauseStep, SoloInvariant, BudgetInvariant, RowsInvariant, PTL DEF Spec

-----------------------------------------------------------------------------
(* The repository answers every call: the service of Delivery. *)

LEMMA DeliveryFields ==
    ASSUME NEW k \in DOMAIN ledger
    PROVE  /\ Deliveries[k].limit = ledger[k].limit
           /\ Deliveries[k].tries = ledger[k].tries
           /\ Deliveries[k].answered = (ledger[k].answers > 0)
           /\ Deliveries[k].open = (k \in DOMAIN states)
BY DEF Deliveries

LEMMA InitRefines == Init => Service!Init
BY DEF Init, Service!Init, Deliveries

(* A step that stores a batch of states accepts their deliveries. *)
LEMMA StoreRefines ==
    ASSUME TypeOK, NEW w \in Workers, task[w].stage = "create_states", StoreStates(w)
    PROVE  [Service!Next]_Deliveries
<1>1. PICK fresh :
         /\ fresh \cap DOMAIN ledger = {}
         /\ DOMAIN ledger' = DOMAIN ledger \cup fresh
         /\ DOMAIN states' = DOMAIN states \cup fresh
         /\ \A k \in DOMAIN ledger : ledger'[k] = ledger[k]
         /\ \A k \in DOMAIN states : states'[k] = states[k]
         /\ \A k \in fresh : \E match \in Match :
               /\ states'[k] = NewRow(task[w].message, match)
               /\ ledger'[k] = NewEntry(match)
  BY StoreEffect
<1>2. DOMAIN Deliveries = DOMAIN ledger /\ DOMAIN Deliveries' = DOMAIN ledger'
  BY DEF Deliveries
<1>3. ASSUME NEW k \in DOMAIN ledger PROVE Deliveries'[k] = Deliveries[k]
  <2>1. (k \in DOMAIN states') = (k \in DOMAIN states)
    BY <1>1
  <2>2. k \in DOMAIN ledger' /\ ledger'[k] = ledger[k]
    BY <1>1
  <2> QED  BY <2>1, <2>2, Zenon DEF Deliveries
<1>4. CASE fresh = {}
  <2>1. Deliveries' = Deliveries
    BY <1>1, <1>4 DEF Deliveries
  <2> QED  BY <2>1
<1>5. CASE fresh # {}
  <2>1. ASSUME NEW k \in fresh
        PROVE  Deliveries'[k] \in [limit : Nat, tries : {0}, answered : {FALSE}, open : {TRUE}]
    <3>1. PICK match \in Match : ledger'[k] = NewEntry(match)
      BY <1>1
    <3>2. match.attempts \in Nat
      BY DEF Match
    <3>3. ledger'[k].limit \in Nat /\ ledger'[k].tries = 0 /\ ~ (ledger'[k].answers > 0)
      BY <3>1, <3>2 DEF NewEntry
    <3>4. k \in DOMAIN ledger' /\ k \in DOMAIN states'
      BY <1>1
    <3>5. (ledger'[k].answers > 0) = FALSE /\ (k \in DOMAIN states') = TRUE
      BY <3>3, <3>4
    <3>6. Deliveries'[k] = [limit |-> ledger'[k].limit, tries |-> 0,
                            answered |-> FALSE, open |-> TRUE]
      BY <3>3, <3>4, <3>5, Zenon DEF Deliveries
    <3> QED  BY <3>3, <3>6
  <2>2. Service!Accept
    BY <1>1, <1>2, <1>3, <1>5, <2>1 DEF Service!Accept
  <2> QED  BY <2>2 DEF Service!Next
<1> QED  BY <1>4, <1>5

(* A request to a consumer is an attempt the budget allows. *)
LEMMA DeliverRefines ==
    ASSUME TypeOK, SoloInv, NEW w \in Workers, Deliver(w)
    PROVE  Service!Next
<1> DEFINE k == task[w].key
           row == task[w].row
<1>1. PICK outcome \in {"accepted", "declined", "failed"} :
         ledger' = [ledger EXCEPT ![k] = Attempted(@, outcome)]
  BY DEF Deliver
<1>2. /\ k \in DOMAIN states /\ k \in DOMAIN ledger
      /\ Open(k, row)
      /\ row \in Row
      /\ states' = states
  BY TaskShape DEF Deliver, TypeOK, SoloInv, Handles, Routing, Claiming, ClaimTask
<1>3. /\ ledger[k] \in Entry
      /\ ledger[k].tries \in Nat /\ ledger[k].limit \in Nat /\ ledger[k].answers \in Nat
      /\ row.attempts \in Nat
  BY <1>2 DEF TypeOK, Row, Entry
<1> HIDE DEF k, row
<1>4. /\ DOMAIN ledger' = DOMAIN ledger
      /\ ledger'[k] = Attempted(ledger[k], outcome)
      /\ \A j \in DOMAIN ledger : j # k => ledger'[j] = ledger[j]
  BY <1>1, <1>2 DEF TypeOK
<1>5. /\ ledger[k].answers = 0
      /\ ledger[k].tries # (IF ledger[k].limit = 0 THEN 1 ELSE ledger[k].limit)
  BY <1>2, <1>3 DEF Open, Untried, Resumable
<1>6. /\ Deliveries[k].open
      /\ ~ Deliveries[k].answered
      /\ Deliveries[k].tries # Service!Allowed(Deliveries[k])
  <2>1. ~ (ledger[k].answers > 0)
    BY <1>5
  <2>2. Deliveries[k].open /\ ~ Deliveries[k].answered
    BY <1>2, <2>1, DeliveryFields, Zenon
  <2>3. Deliveries[k].tries # Service!Allowed(Deliveries[k])
    BY <1>2, <1>5, DeliveryFields DEF Service!Allowed
  <2> QED  BY <2>2, <2>3
<1> DEFINE answer == outcome # "failed"
<1>7. /\ ledger'[k].limit = ledger[k].limit
      /\ ledger'[k].tries = ledger[k].tries + 1
      /\ (ledger'[k].answers > 0) = answer
  BY <1>3, <1>4, <1>5, AttemptedEntry
<1> HIDE DEF answer
<1>8. Deliveries' = [Deliveries EXCEPT ![k].tries = @ + 1, ![k].answered = answer]
  BY <1>2, <1>4, <1>7 DEF Deliveries
<1>9. Service!Attempt(k)
  BY <1>6, <1>8 DEF Service!Attempt, Service!Exhausted, answer
<1>10. k \in DOMAIN Deliveries
  BY <1>2 DEF Deliveries
<1> QED  BY <1>9, <1>10, Zenon DEF Service!Next

(* A state is destroyed when its delivery was answered or is out of        *)
(* attempts: at least the budget was spent, and never more.                *)
LEMMA DestroyRefines ==
    ASSUME TypeOK, SoloInv, BudgetInv, AtRisk = {}, NEW w \in Workers, DestroyWrite(w),
           Stored(w)
    PROVE  Service!Next
<1> DEFINE k == task[w].key
<1>1. /\ k \in DOMAIN states /\ k \in DOMAIN ledger
      /\ Spent(k)
      /\ WithinLimit(k)
      /\ states' = [j \in DOMAIN states \ {k} |-> states[j]]
      /\ ledger' = ledger
  BY DestroysSpent DEF DestroyWrite, Stored, TypeOK, SoloInv
<1>2. ledger[k].tries \in Nat /\ ledger[k].limit \in Nat
  BY <1>1 DEF TypeOK, Entry
<1> HIDE DEF k
<1>3. \/ ledger[k].answers > 0
      \/ ledger[k].tries = (IF ledger[k].limit = 0 THEN 1 ELSE ledger[k].limit)
  BY <1>1, <1>2 DEF Spent, WithinLimit
<1>4. Deliveries[k].open
  BY <1>1, DeliveryFields, Zenon
<1>5. Deliveries[k].answered \/ Deliveries[k].tries = Service!Allowed(Deliveries[k])
  <2>1. CASE ledger[k].answers > 0
    BY <1>1, <2>1, DeliveryFields, Zenon
  <2>2. CASE ledger[k].tries = (IF ledger[k].limit = 0 THEN 1 ELSE ledger[k].limit)
    BY <1>1, <2>2, DeliveryFields DEF Service!Allowed
  <2> QED  BY <1>3, <2>1, <2>2
<1>6. Deliveries' = [Deliveries EXCEPT ![k].open = FALSE]
  <2>1. DOMAIN Deliveries' = DOMAIN Deliveries /\ DOMAIN Deliveries = DOMAIN ledger
    BY <1>1 DEF Deliveries
  <2>2. ASSUME NEW j \in DOMAIN ledger, j # k PROVE Deliveries'[j] = Deliveries[j]
    <3>1. (j \in DOMAIN states') = (j \in DOMAIN states)
      BY <1>1, <2>2
    <3> QED  BY <1>1, <3>1, Zenon DEF Deliveries
  <2>3. Deliveries'[k] = [Deliveries[k] EXCEPT !.open = FALSE]
    <3> DEFINE answered == ledger[k].answers > 0
               yes == TRUE
               no == FALSE
    <3>1. (k \in DOMAIN states') = FALSE /\ (k \in DOMAIN states) = TRUE
      BY <1>1
    <3>2. /\ Deliveries'[k] = [limit |-> ledger[k].limit, tries |-> ledger[k].tries,
                               answered |-> answered, open |-> no]
          /\ Deliveries[k] = [limit |-> ledger[k].limit, tries |-> ledger[k].tries,
                              answered |-> answered, open |-> yes]
      BY <1>1, <3>1, Zenon DEF Deliveries
    <3> HIDE DEF answered, yes, no
    <3>3. Deliveries'[k] = [Deliveries[k] EXCEPT !.open = no]
      BY <3>2
    <3> QED  BY <3>3, Zenon DEF no
  <2> QED  BY <1>1, <2>1, <2>2, <2>3 DEF Deliveries
<1>7. Service!Close(k)
  BY <1>4, <1>5, <1>6 DEF Service!Close, Service!Exhausted
<1>8. k \in DOMAIN Deliveries
  BY <1>1 DEF Deliveries
<1> QED  BY <1>7, <1>8, Zenon DEF Service!Next

LEMMA NextRefines ==
    ASSUME MaxFaults = 0
    PROVE  TypeOK /\ SoloInv /\ BudgetInv /\ WakeUpInv /\ AtRisk = {} /\ [Next]_vars
               => [Service!Next]_Deliveries
<1> SUFFICES ASSUME TypeOK, SoloInv, BudgetInv, WakeUpInv, AtRisk = {}, [Next]_vars
             PROVE  [Service!Next]_Deliveries
  OBVIOUS
<1>1. ASSUME NEW w \in Workers, CreateStates(w) PROVE [Service!Next]_Deliveries
  BY <1>1, StoreRefines DEF CreateStates, Fault, WakeUpInv
<1>2. ASSUME NEW w \in Workers, Deliver(w) PROVE Service!Next
  BY <1>2, DeliverRefines
<1>3. ASSUME NEW w \in Workers, DestroyWrite(w) PROVE [Service!Next]_Deliveries
  <2>1. Stored(w)
    BY <1>3 DEF DestroyWrite, SoloInv, Handles, Stored, Routing, Settling
  <2> QED  BY <1>3, <2>1, DestroyRefines
<1>4. CASE ledger' = ledger /\ DOMAIN states' = DOMAIN states
  BY <1>4 DEF Deliveries
<1>5. ASSUME NEW w \in Workers, ClaimWrite(w) \/ FinalWrite(w)
      PROVE  ledger' = ledger /\ DOMAIN states' = DOMAIN states
  BY <1>5 DEF ClaimWrite, FinalWrite, Break, TypeOK
<1>6. ASSUME NEW k \in DOMAIN states, Elapse(k)
      PROVE  ledger' = ledger /\ DOMAIN states' = DOMAIN states
  BY <1>6 DEF Elapse, TypeOK
<1> QED
  BY <1>1, <1>2, <1>3, <1>4, <1>5, <1>6
     DEF Next, vars, Publish, Dispatch, ReadSubscriptions, CreateMessage, Acknowledge,
         RoutePending, RouteSuspended, ClaimRead, ReadMessage, TripBreaker, FinalRead,
         DestroyRead, Reschedule, Restart, Break

(* The exchange keeps its promise to publishers: with one worker and a     *)
(* healthy repository every step of publishing, routing and settling is a  *)
(* step of the abstract delivery service or changes nothing it shows.      *)
THEOREM DispatchImplementsDelivery ==
    ASSUME OneWorker, MaxFaults = 0
    PROVE  Spec => ImplementsDelivery
<1> QED
  BY InitRefines, NextRefines, SoloInvariant, BudgetInvariant, WakeUpInvariant,
     NothingAtRisk, PTL
     DEF Spec, ImplementsDelivery, Service!Spec

-----------------------------------------------------------------------------
(* First attempts. *)

(* What was never tried is still pending, or with the worker that is going *)
(* to try it; and a worker that took a state up left none untried before.  *)
OrderInv ==
    /\ FirstAttemptsInOrder
    /\ \A k \in DOMAIN ledger :
          \/ ledger[k].tries > 0
          \/ k \in InStatus("pending")
          \/ \E w \in Workers : task[w].stage \in {"read_message", "deliver"} /\ task[w].key = k
    /\ \A w \in Workers :
          /\ task[w].stage \in Claiming =>
                \A j \in DOMAIN ledger : j < task[w].key => ledger[j].tries > 0
          /\ task[w].stage \in Settling => ledger[task[w].key].tries > 0

LEMMA OrderStutter ==
    ASSUME OrderInv, UNCHANGED << states, ledger, task >>
    PROVE  OrderInv'
BY DEF OrderInv, FirstAttemptsInOrder, InStatus

(* A step that makes no attempt and leaves pending what was never tried.   *)
LEMMA OrderFrame ==
    ASSUME OneWorker, OrderInv, NEW w \in Workers, ledger' = ledger,
           \A k \in DOMAIN ledger : ~ ledger[k].tries > 0 =>
               \/ k \in InStatus("pending")'
               \/ task'[w].stage \in {"read_message", "deliver"} /\ task'[w].key = k,
           task'[w].stage \in Claiming =>
               \A j \in DOMAIN ledger : j < task'[w].key => ledger[j].tries > 0,
           task'[w].stage \in Settling => ledger[task'[w].key].tries > 0
    PROVE  OrderInv'
BY DEF OrderInv, FirstAttemptsInOrder, OneWorker

(* What a worker does elsewhere leaves the untried deliveries pending.     *)
LEMMA OrderElsewhere ==
    ASSUME OneWorker, OrderInv, NEW w \in Workers, UNCHANGED << states, ledger >>,
           task[w].stage \notin {"read_message", "deliver"},
           task'[w].stage \notin Claiming,
           task'[w].stage \in Settling =>
               task[w].stage \in Settling /\ task'[w].key = task[w].key
    PROVE  OrderInv'
<1>1. \A k \in DOMAIN ledger : ~ ledger[k].tries > 0 => k \in InStatus("pending")'
  BY DEF OrderInv, OneWorker, InStatus
<1> QED  BY <1>1, OrderFrame DEF OrderInv

LEMMA OrderStep ==
    ASSUME OneWorker, MaxFaults = 0, MaxRestarts = 0
    PROVE  TypeOK /\ WakeUpInv /\ BudgetInv /\ OrderInv /\ [Next]_vars => OrderInv'
<1> SUFFICES ASSUME TypeOK, WakeUpInv, BudgetInv, OrderInv, [Next]_vars PROVE OrderInv'
  OBVIOUS
<1>0. ~ Fault
  BY DEF Fault, WakeUpInv
<1> USE <1>0
<1>1. ASSUME NEW w \in Workers, NEW m \in Messages, ReadSubscriptions(w, m)
      PROVE  OrderInv'
  BY <1>1, GotoEffect, OrderElsewhere DEF ReadSubscriptions, Idle, Claiming, Settling
<1>2. ASSUME NEW w \in Workers, CreateMessage(w) PROVE OrderInv'
  BY <1>2, AdvanceEffect, OrderElsewhere DEF CreateMessage, Publishing, Claiming, Settling
<1>3. ASSUME NEW w \in Workers, CreateStates(w) PROVE OrderInv'
  <2>1. /\ StoreStates(w) /\ task[w].stage = "create_states"
        /\ task'[w].stage = "acknowledge"
    BY <1>3, GotoEffect DEF CreateStates
  <2>2. PICK fresh :
           /\ \A k \in fresh : k \in Nat /\ k > created
           /\ fresh \cap DOMAIN ledger = {}
           /\ DOMAIN ledger' = DOMAIN ledger \cup fresh
           /\ DOMAIN states' = DOMAIN states \cup fresh
           /\ \A k \in DOMAIN ledger : ledger'[k] = ledger[k]
           /\ \A k \in DOMAIN states : states'[k] = states[k]
           /\ \A k \in fresh : \E match \in Match :
                 /\ states'[k] = NewRow(task[w].message, match)
                 /\ ledger'[k] = NewEntry(match)
    BY <2>1, StoreEffect
  <2>3. \A k \in fresh : /\ k \in InStatus("pending")'
                         /\ ledger'[k].tries = 0
    BY <2>2 DEF NewRow, NewEntry, InStatus
  <2>4. \A k \in InStatus("pending") : k \in InStatus("pending")'
    BY <2>2 DEF InStatus
  <2>5. \A j \in DOMAIN ledger : \A k \in fresh : ~ k < j
    BY <2>2 DEF TypeOK
  <2>6. FirstAttemptsInOrder'
    BY <2>2, <2>3, <2>5 DEF OrderInv, FirstAttemptsInOrder
  <2>7. \A v \in Workers : v = w
    BY DEF OneWorker
  <2> QED
    BY <2>1, <2>2, <2>3, <2>4, <2>6, <2>7 DEF OrderInv, Claiming, Settling
<1>4. ASSUME NEW w \in Workers, Acknowledge(w) PROVE OrderInv'
  BY <1>4, GotoEffect, OrderElsewhere DEF Acknowledge, Idle, Claiming, Settling
<1>5. ASSUME NEW w \in Workers, task[w] = Idle
      PROVE  \A k \in DOMAIN ledger : ledger[k].tries > 0 \/ k \in InStatus("pending")
  BY <1>5 DEF OrderInv, OneWorker, Idle
<1>6. ASSUME NEW w \in Workers, task[w] = Idle, NEW k \in DOMAIN states, Claim(w, k),
             UNCHANGED << states, ledger >>,
             \A j \in DOMAIN ledger : j < k => ledger[j].tries > 0
      PROVE  OrderInv'
  <2>1. task'[w].stage = "claim_read" /\ task'[w].key = k
    BY <1>6, ClaimEffect
  <2>2. \A j \in DOMAIN ledger : ledger[j].tries > 0 \/ j \in InStatus("pending")'
    BY <1>5, <1>6 DEF InStatus
  <2> QED  BY <1>6, <2>1, <2>2, OrderFrame DEF Settling
<1>7. ASSUME NEW w \in Workers, RoutePending(w) PROVE OrderInv'
  <2>1. CASE \E k \in DOMAIN states : IsFirst(k, "pending") /\ Claim(w, k)
    <3>1. PICK k \in DOMAIN states : IsFirst(k, "pending") /\ Claim(w, k)
      BY <2>1
    <3>2. task[w] = Idle /\ UNCHANGED << states, ledger >>
      BY <1>7 DEF RoutePending
    <3>3. ASSUME NEW j \in DOMAIN ledger, j < k PROVE ledger[j].tries > 0
      <4>1. j \in Nat /\ k \in Nat
        BY DEF TypeOK
      <4>2. j \notin InStatus("pending")
        BY <3>1, <3>3, <4>1 DEF IsFirst
      <4> QED  BY <1>5, <3>2, <4>2
    <3> QED  BY <1>6, <3>1, <3>2, <3>3
  <2>2. CASE UNCHANGED << states, ledger, task >>
    BY <2>2, OrderStutter
  <2> QED  BY <1>7, <2>1, <2>2 DEF RoutePending
<1>8. ASSUME NEW w \in Workers, RouteSuspended(w) PROVE OrderInv'
  <2>1. task[w] = Idle /\ UNCHANGED << states, ledger >>
    BY <1>8 DEF RouteSuspended
  <2>2. CASE \E k \in InStatus("suspended") :
                k \in DOMAIN states /\ states[k].due /\ Claim(w, k)
    <3>1. PICK k \in DOMAIN states : states[k].status = "suspended" /\ Claim(w, k)
      BY <2>2 DEF InStatus
    <3>2. k \in DOMAIN ledger /\ ledger[k].tries > 0
      BY <1>5, <2>1, <3>1 DEF InStatus, TypeOK
    <3>3. \A j \in DOMAIN ledger : j < k => ledger[j].tries > 0
      BY <3>2 DEF OrderInv, FirstAttemptsInOrder
    <3> QED  BY <1>6, <2>1, <3>1, <3>3
  <2>3. CASE task' = task
    BY <2>1, <2>3, OrderStutter
  <2> QED  BY <1>8, <2>2, <2>3, SuspendedEffect
<1>9. ASSUME NEW w \in Workers, ClaimRead(w) PROVE OrderInv'
  <2>1. task[w].stage = "claim_read" /\ UNCHANGED << states, ledger >>
    BY <1>9 DEF ClaimRead
  <2>2. CASE Return(w)
    BY <2>1, <2>2, GotoEffect, OrderElsewhere DEF Return, Idle, Claiming, Settling
  <2>3. CASE Goto(w, [stage |-> "claim_write", key |-> task[w].key,
                      row |-> states[task[w].key]])
    <3>1. task'[w].stage = "claim_write" /\ task'[w].key = task[w].key
      BY <2>3, GotoEffect
    <3>2. \A k \in DOMAIN ledger : ~ ledger[k].tries > 0 => k \in InStatus("pending")'
      BY <2>1 DEF OrderInv, OneWorker, InStatus
    <3>3. \A j \in DOMAIN ledger : j < task[w].key => ledger[j].tries > 0
      BY <2>1 DEF OrderInv, Claiming
    <3> QED  BY <2>1, <3>1, <3>2, <3>3, OrderFrame DEF Settling
  <2> QED  BY <1>9, <2>2, <2>3 DEF ClaimRead
<1>10. ASSUME NEW outcome, Break(outcome) PROVE OrderInv'
  BY <1>10, OrderStutter DEF Break
<1>11. ASSUME NEW w \in Workers, ClaimWrite(w) PROVE OrderInv'
  <2>1. CASE Stored(w)
    <3>1. /\ task[w].stage = "claim_write"
          /\ task'[w].stage = "read_message" /\ task'[w].key = task[w].key
          /\ \E row : states' = [states EXCEPT ![task[w].key] = row]
          /\ ledger' = ledger
      BY <1>11, <2>1, GotoEffect DEF ClaimWrite
    <3>2. \A k \in DOMAIN ledger :
              ~ ledger[k].tries > 0 => k \in InStatus("pending")' \/ k = task[w].key
      BY <3>1 DEF OrderInv, OneWorker, InStatus, TypeOK
    <3>3. \A j \in DOMAIN ledger : j < task[w].key => ledger[j].tries > 0
      BY <3>1 DEF OrderInv, Claiming
    <3> QED  BY <3>1, <3>2, <3>3, OrderFrame DEF Settling
  <2> QED  BY <1>10, <1>11, <2>1 DEF ClaimWrite
<1>12. ASSUME NEW w \in Workers, ReadMessage(w) PROVE OrderInv'
  <2>1. CASE task[w].row.message \in messages
    <3>1. /\ task[w].stage = "read_message"
          /\ task'[w].stage = "deliver" /\ task'[w].key = task[w].key
          /\ UNCHANGED << states, ledger >>
      BY <1>12, <2>1, AdvanceEffect DEF ReadMessage, Claiming, Routing
    <3>2. \A k \in DOMAIN ledger :
              ~ ledger[k].tries > 0 => k \in InStatus("pending")' \/ k = task[w].key
      BY <3>1 DEF OrderInv, OneWorker, InStatus
    <3>3. \A j \in DOMAIN ledger : j < task[w].key => ledger[j].tries > 0
      BY <3>1 DEF OrderInv, Claiming
    <3> QED  BY <3>1, <3>2, <3>3, OrderFrame DEF Settling
  <2> QED  BY <1>10, <1>12, <2>1 DEF ReadMessage
<1>13. ASSUME NEW w \in Workers, Deliver(w) PROVE OrderInv'
  <2> DEFINE k == task[w].key
  <2>1. PICK outcome \in {"accepted", "declined", "failed"} :
           /\ task[w].stage = "deliver"
           /\ task'[w] = [stage |-> IF outcome = "failed" /\ OutOfAttempts(task[w].row)
                                    THEN "trip_breaker" ELSE "final_read",
                          key |-> k, row |-> task[w].row, outcome |-> outcome]
           /\ ledger' = [ledger EXCEPT ![k] = Attempted(@, outcome)]
           /\ states' = states
    BY <1>13, DeliverEffect
  <2>2. task'[w].stage \in {"trip_breaker", "final_read"} /\ task'[w].key = k
    BY <2>1
  <2>3. k \in DOMAIN ledger /\ ledger[k] \in Entry
    BY <2>1 DEF TypeOK, BudgetInv, Carries, Routing, Claiming
  <2>4. /\ DOMAIN ledger' = DOMAIN ledger
        /\ ledger'[k] = Attempted(ledger[k], outcome)
        /\ \A j \in DOMAIN ledger : j # k => ledger'[j] = ledger[j]
    BY <2>1, <2>3 DEF TypeOK
  <2>5. ledger'[k].tries > 0
    BY <2>3, <2>4, AttemptedEntry DEF Entry
  <2>6. \A j \in DOMAIN ledger : j < k => ledger[j].tries > 0
    BY <2>1 DEF OrderInv, Claiming
  <2>7. \A j \in DOMAIN ledger : ledger[j].tries > 0 \/ j \in InStatus("pending") \/ j = k
    BY <2>1 DEF OrderInv, OneWorker
  <2>8. InStatus("pending")' = InStatus("pending")
    BY <2>1 DEF InStatus
  <2>9. \A v \in Workers : v = w
    BY DEF OneWorker
  <2> HIDE DEF k
  <2>10. FirstAttemptsInOrder'
    BY <2>4, <2>5, <2>6 DEF OrderInv, FirstAttemptsInOrder
  <2> QED
    BY <2>2, <2>4, <2>5, <2>7, <2>8, <2>9, <2>10 DEF OrderInv, Claiming, Settling
<1>14. ASSUME NEW w \in Workers, task[w].stage \in Settling, NEW stage \in Settling,
              Advance(w, stage), UNCHANGED << states, ledger >>
       PROVE  OrderInv'
  BY <1>14, AdvanceEffect, OrderElsewhere DEF Routing, Claiming, Settling
<1>15. ASSUME NEW w \in Workers, TripBreaker(w) PROVE OrderInv'
  BY <1>14, <1>15 DEF TripBreaker, Settling
<1>16. ASSUME NEW w \in Workers, FinalRead(w) PROVE OrderInv'
  <2>1. CASE Break("deadlocked")
    BY <1>10, <2>1
  <2>2. CASE ~ Break("deadlocked")
    BY <1>16, <2>2, FinalReadEffect, OrderElsewhere DEF Claiming, Settling
  <2> QED  BY <2>1, <2>2
<1>17. ASSUME NEW w \in Workers, task[w].stage \in Settling, task'[w].stage \notin Claiming,
              task'[w].stage \in Settling => task'[w].key = task[w].key,
              ledger' = ledger,
              \A k \in InStatus("pending") : k \in InStatus("pending")' \/ k = task[w].key
       PROVE  OrderInv'
  <2>1. \A k \in DOMAIN ledger : ~ ledger[k].tries > 0 => k \in InStatus("pending")'
    BY <1>17 DEF OrderInv, OneWorker, Settling
  <2> QED  BY <1>17, <2>1, OrderFrame DEF OrderInv
<1>18. ASSUME NEW w \in Workers, FinalWrite(w) PROVE OrderInv'
  <2>1. CASE Stored(w)
    <3>1. /\ task[w].stage = "final_write"
          /\ states' = [states EXCEPT ![task[w].key] = task[w].row]
          /\ Advance(w, IF task[w].row.status \in Terminal THEN "destroy_read"
                        ELSE "reschedule")
          /\ ledger' = ledger
      BY <1>18, <2>1 DEF FinalWrite
    <3>2. /\ task'[w].stage \in {"destroy_read", "reschedule"}
          /\ task'[w].key = task[w].key
      BY <3>1, AdvanceEffect DEF Settling, Routing
    <3>3. \A k \in InStatus("pending") : k \in InStatus("pending")' \/ k = task[w].key
      BY <3>1 DEF InStatus, TypeOK
    <3> QED  BY <1>17, <3>1, <3>2, <3>3 DEF Claiming, Settling
  <2> QED  BY <1>10, <1>18, <2>1 DEF FinalWrite
<1>19. ASSUME NEW w \in Workers, DestroyRead(w) PROVE OrderInv'
  <2>1. CASE Advance(w, "destroy_write")
    BY <1>14, <1>19, <2>1 DEF DestroyRead, Settling
  <2>2. CASE AfterDestroy(w)
    BY <1>19, <2>2, AfterDestroyEffect, OrderElsewhere DEF DestroyRead, Claiming, Settling
  <2> QED  BY <1>19, <2>1, <2>2 DEF DestroyRead
<1>20. ASSUME NEW w \in Workers, DestroyWrite(w) PROVE OrderInv'
  <2>1. CASE Stored(w)
    <3>1. /\ task[w].stage = "destroy_write"
          /\ states' = [k \in DOMAIN states \ {task[w].key} |-> states[k]]
          /\ AfterDestroy(w)
          /\ ledger' = ledger
      BY <1>20, <2>1 DEF DestroyWrite
    <3>2. \A k \in InStatus("pending") : k \in InStatus("pending")' \/ k = task[w].key
      BY <3>1 DEF InStatus
    <3>3. /\ task'[w].stage \in {"idle", "reschedule"}
          /\ task'[w].stage \in Settling => task'[w].key = task[w].key
      BY <3>1, AfterDestroyEffect DEF Settling
    <3> QED  BY <1>17, <3>1, <3>2, <3>3 DEF Claiming, Settling
  <2> QED  BY <1>10, <1>20, <2>1 DEF DestroyWrite
<1>21. ASSUME NEW w \in Workers, Reschedule(w) PROVE OrderInv'
  BY <1>21, GotoEffect, OrderElsewhere DEF Reschedule, Return, Idle, Claiming, Settling
<1>22. ASSUME NEW k \in DOMAIN states, Elapse(k) PROVE OrderInv'
  <2>1. InStatus("pending")' = InStatus("pending")
    BY <1>22 DEF Elapse, InStatus, TypeOK, Row
  <2>2. task' = task /\ ledger' = ledger
    BY <1>22 DEF Elapse
  <2> QED  BY <2>1, <2>2 DEF OrderInv, FirstAttemptsInOrder
<1>23. ~ Restart
  BY DEF Restart, TypeOK
<1>24. CASE UNCHANGED vars
  BY <1>24, OrderStutter DEF vars
<1> QED
  BY <1>1, <1>2, <1>3, <1>4, <1>7, <1>8, <1>9, <1>11, <1>12, <1>13, <1>15, <1>16,
     <1>18, <1>19, <1>20, <1>21, <1>22, <1>23, <1>24 DEF Next, Publish, Dispatch

(* With one worker, a healthy repository and a process that lives on,      *)
(* first attempts are made in the order the deliveries were created: no    *)
(* early return and no suspended state lets a later one go first.          *)
THEOREM SoloFirstAttemptsInOrder ==
    ASSUME OneWorker, MaxFaults = 0, MaxRestarts = 0
    PROVE  Spec => []FirstAttemptsInOrder
<1>1. Init => OrderInv
  BY DEF Init, OrderInv, FirstAttemptsInOrder, Idle, Claiming, Settling
<1>2. OrderInv => FirstAttemptsInOrder
  BY DEF OrderInv
<1> QED
  BY <1>1, <1>2, OrderStep, WakeUpInvariant, BudgetInvariant, TypeCorrect, PTL DEF Spec

=============================================================================
