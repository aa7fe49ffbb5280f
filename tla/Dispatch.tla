------------------------------ MODULE Dispatch ------------------------------
(***************************************************************************)
(* The delivery engine of RestQ: DispatchImpl (detail/dispatch_impl.cpp),  *)
(* the tail of the publishing handlers that feed it (create_message_*      *)
(* callbacks of detail/exchange_impl.cpp) and the critical sections of the *)
(* STLRepository both run against (example/exchange/source).               *)
(*                                                                         *)
(* A message is stored once; for every (subscription, queue) pair it       *)
(* matches a STATE resource records the progress of one delivery.  Worker  *)
(* threads of the restbed service run handlers to completion; the          *)
(* repository calls back inline and releases its mutex between the         *)
(* sections of one handler, so handlers of several workers interleave      *)
(* exactly there.  One action is one section, one HTTP exchange or one     *)
(* call of the scheduler.                                                  *)
(***************************************************************************)
EXTENDS Naturals, Sequences, FiniteSets

CONSTANTS
    Workers,        \* threads running the service (Settings worker-limit)
    Messages,       \* keys of the messages that may be published
    Subscriptions,  \* keys of the subscriptions
    Routes,         \* per message, the subscriptions its queues lead to, in
                    \* repository order, each with the queue's delivery limit
    MaxFaults,      \* bound: repository calls that answer with an error
    MaxRestarts     \* bound: crashes of the process, the repository surviving

Match == [subscription : Subscriptions, attempts : Nat]

ASSUME RoutesAssumption == Routes \in [Messages -> Seq(Match)]
ASSUME BoundsAssumption == MaxFaults \in Nat /\ MaxRestarts \in Nat

VARIABLES
    states,       \* STATE resources: key -> row; keys ascend in list order
    messages,     \* keys of the stored MESSAGE resources
    reachable,    \* subscriptions whose stored "state" is "reachable"
    scheduled,    \* route( PENDING ) calls posted to the service
    redelivering, \* worker inside the recurring route( SUSPENDED ), if any
    task,         \* what each worker is doing
    fate,         \* "running", or what undefined behaviour made of the process
    offered,      \* messages a client has published
    created,      \* highest key given to a STATE resource so far
    ledger,       \* history: per created state, limit and delivery attempts
    faults,       \* repository errors so far
    restarts      \* crashes so far

vars == << states, messages, reachable, scheduled, redelivering, task, fate,
           offered, created, ledger, faults, restarts >>

-----------------------------------------------------------------------------
(* Data.  A row snapshots the queue's max-delivery-attempts; "due" stands  *)
(* for redeliver-at <= now and matters only while the row is suspended.    *)

Terminal == {"dispatched", "rejected", "unreachable"}

Status == {"pending", "in-flight", "suspended"} \cup Terminal

Row == [message : Messages, subscription : Subscriptions, status : Status,
        attempts : Nat, due : BOOLEAN]

Entry == [subscription : Subscriptions, limit : Nat, tries : Nat,
          answers : Nat]

Outcome == {"accepted", "declined", "failed", "purge"}

Idle == [stage |-> "idle"]

Publishing == {"create_message", "create_states"}

Claiming == {"claim_read", "claim_write", "read_message", "deliver"}

Settling == {"trip_breaker", "final_read", "final_write", "destroy_read",
             "destroy_write", "reschedule"}

(* A publisher's task names the entries of Routes it found reachable; a     *)
(* router's task carries the row it read, and then what the consumer said.  *)
PublishTask == {t \in [stage : Publishing, message : Messages, chosen : SUBSET Nat] :
                   t.chosen \subseteq DOMAIN Routes[t.message]}

ClaimTask == [stage : Claiming, key : Nat, row : Row]

SettleTask == [stage : Settling, key : Nat, row : Row, outcome : Outcome]

Task == [stage : {"idle", "acknowledge"}] \cup PublishTask \cup ClaimTask \cup SettleTask

TypeOK ==
    /\ created \in Nat
    /\ DOMAIN ledger \subseteq 1 .. created
    /\ ledger \in [DOMAIN ledger -> Entry]
    /\ DOMAIN states \subseteq DOMAIN ledger
    /\ states \in [DOMAIN states -> Row]
    /\ messages \subseteq Messages
    /\ offered \subseteq Messages
    /\ reachable \subseteq Subscriptions
    /\ scheduled \in Nat
    /\ redelivering \subseteq Workers
    /\ task \in [Workers -> Task]
    /\ fate \in {"running", "corrupt", "deadlocked"}
    /\ faults \in Nat
    /\ restarts \in Nat

-----------------------------------------------------------------------------
Init ==
    /\ states = << >>
    /\ messages = {}
    /\ reachable = Subscriptions
    /\ scheduled = 1
    /\ redelivering = {}
    /\ task = [w \in Workers |-> Idle]
    /\ fate = "running"
    /\ offered = {}
    /\ created = 0
    /\ ledger = << >>
    /\ faults = 0
    /\ restarts = 0

(* Keys of the stored states in a given status, and the one a query with   *)
(* limit 1 and no keys returns: the first of the repository's list.        *)

InStatus(status) == {k \in DOMAIN states : states[k].status = status}

(* Faulty variant: the newest instead of the oldest state. *)
IsLast(k, status) ==
    /\ k \in InStatus(status)
    /\ \A j \in InStatus(status) : k >= j

IsFirst(k, status) ==
    /\ k \in InStatus(status)
    /\ \A j \in InStatus(status) : k <= j

Stored(w) == task[w].key \in DOMAIN states

Goto(w, next) == task' = [task EXCEPT ![w] = next]

Advance(w, stage) == Goto(w, [task[w] EXCEPT !.stage = stage])

(* The handler returns; the recurring timer is armed again when the        *)
(* handler was the one it started.                                         *)
Return(w) ==
    /\ Goto(w, Idle)
    /\ redelivering' = redelivering \ {w}

(* A repository call is answered with an error code. *)
Fault ==
    /\ faults < MaxFaults
    /\ faults' = faults + 1

(* Writing or erasing through the end iterator (stl_repository.cpp:210,    *)
(* 257), and locking the mutex a failed read still holds (:118-122).       *)
Break(outcome) ==
    /\ fate' = outcome
    /\ UNCHANGED << states, messages, reachable, scheduled, redelivering, task,
                    offered, created, ledger, faults, restarts >>

-----------------------------------------------------------------------------
(* Publishing. *)

(* Subscriptions are read after the queues; those unreachable at that      *)
(* moment are left out.  With none left nothing is stored (201).           *)
ReadSubscriptions(w, m) ==
    LET chosen == {i \in DOMAIN Routes[m] : Routes[m][i].subscription \in reachable}
    IN  /\ task[w] = Idle
        /\ m \notin offered
        /\ chosen # {}
        /\ offered' = offered \cup {m}
        /\ Goto(w, [stage |-> "create_message", message |-> m, chosen |-> chosen])
        /\ UNCHANGED << states, messages, reachable, scheduled, redelivering,
                        fate, created, ledger, faults, restarts >>

(* Faulty variant: the outcome of create is not looked at. *)
CreateMessageUnchecked(w) ==
    /\ task[w].stage = "create_message"
    /\ Advance(w, "create_states")
    /\ \/ /\ messages' = messages \cup {task[w].message}
          /\ UNCHANGED faults
       \/ /\ Fault
          /\ UNCHANGED messages
    /\ UNCHANGED << states, reachable, scheduled, redelivering, fate, offered,
                    created, ledger, restarts >>

(* Faulty variant: the states are stored first, the message with the reply. *)
CreateMessageLate(w) ==
    /\ task[w].stage = "create_message"
    /\ Advance(w, "create_states")
    /\ UNCHANGED << states, messages, reachable, scheduled, redelivering, fate,
                    offered, created, ledger, faults, restarts >>

CreateMessage(w) ==
    /\ task[w].stage = "create_message"
    /\ \/ /\ messages' = messages \cup {task[w].message}
          /\ Advance(w, "create_states")
          /\ UNCHANGED faults
       \/ /\ Fault
          /\ Goto(w, Idle)
          /\ UNCHANGED messages
    /\ UNCHANGED << states, reachable, scheduled, redelivering, fate, offered,
                    created, ledger, restarts >>

NewRow(m, match) ==
    [message |-> m, subscription |-> match.subscription, status |-> "pending",
     attempts |-> match.attempts, due |-> FALSE]

NewEntry(match) ==
    [subscription |-> match.subscription, limit |-> match.attempts,
     tries |-> 0, answers |-> 0]

(* One batch, appended to the repository's list in a single section: the   *)
(* i-th match of the message is given the key created + i.                 *)
StoreStates(w) ==
    LET matches == Routes[task[w].message]
        fresh == {created + i : i \in task[w].chosen}
    IN  /\ created' = created + Len(matches)
        /\ states' = [k \in DOMAIN states \cup fresh |->
                        IF k \in fresh THEN NewRow(task[w].message, matches[k - created])
                        ELSE states[k]]
        /\ ledger' = [k \in DOMAIN ledger \cup fresh |->
                        IF k \in fresh THEN NewEntry(matches[k - created])
                        ELSE ledger[k]]

CreateStates(w) ==
    /\ task[w].stage = "create_states"
    /\ \/ /\ StoreStates(w)
          /\ Goto(w, [stage |-> "acknowledge"])
          /\ UNCHANGED faults
       \/ /\ Fault
          /\ Goto(w, Idle)
          /\ UNCHANGED << states, created, ledger >>
    /\ UNCHANGED << messages, reachable, scheduled, redelivering, fate, offered,
                    restarts >>

(* Faulty variant: the client is answered, and no route is posted. *)
AcknowledgeOnly(w) ==
    /\ task[w].stage = "acknowledge"
    /\ Goto(w, Idle)
    /\ UNCHANGED << states, messages, reachable, scheduled, redelivering, fate,
                    offered, created, ledger, faults, restarts >>

(* 202 Accepted, and a route( PENDING ) is posted. *)
Acknowledge(w) ==
    /\ task[w].stage = "acknowledge"
    /\ scheduled' = scheduled + 1
    /\ Goto(w, Idle)
    /\ UNCHANGED << states, messages, reachable, redelivering, fate, offered,
                    created, ledger, faults, restarts >>

-----------------------------------------------------------------------------
(* Routing: route( status ) reads one state and router claims it. *)

Claim(w, k) == Goto(w, [stage |-> "claim_read", key |-> k, row |-> states[k]])

RoutePending(w) ==
    /\ task[w] = Idle
    /\ scheduled > 0
    /\ scheduled' = scheduled - 1
    /\ \/ /\ \E k \in DOMAIN states : IsFirst(k, "pending") /\ Claim(w, k)
          /\ UNCHANGED faults
       \/ /\ InStatus("pending") = {}
          /\ UNCHANGED << task, faults >>
       \/ /\ Fault
          /\ UNCHANGED task
    /\ UNCHANGED << states, messages, reachable, redelivering, fate, offered,
                    created, ledger, restarts >>

(* Every second, one at a time.  Only the first suspended state is looked  *)
(* at; while it is not due the handler returns, whatever is behind it.     *)
RouteSuspended(w) ==
    LET Due(k) == IsFirst(k, "suspended") /\ states[k].due
    IN  /\ task[w] = Idle
        /\ redelivering = {}
        /\ \/ /\ \E k \in DOMAIN states : Due(k) /\ Claim(w, k)
              /\ redelivering' = {w}
           \/ /\ \A k \in DOMAIN states : ~ Due(k)
              /\ UNCHANGED << task, redelivering >>
        /\ UNCHANGED << states, messages, reachable, scheduled, fate, offered,
                        created, ledger, faults, restarts >>

(* The redelivery interval of a suspended state has passed. *)
Elapse(k) ==
    /\ k \in InStatus("suspended")
    /\ ~ states[k].due
    /\ states' = [states EXCEPT ![k].due = TRUE]
    /\ UNCHANGED << messages, reachable, scheduled, redelivering, task, fate,
                    offered, created, ledger, faults, restarts >>

(* First section of update( { status: in-flight } ): the query names the   *)
(* key and still filters on the status route asked for.  A state that is   *)
(* gone or no longer in that status ends the handler, and nothing is       *)
(* scheduled in its place.                                                 *)
ClaimRead(w) ==
    LET k == task[w].key
        claimable == Stored(w) /\ states[k].status = task[w].row.status
    IN  /\ task[w].stage = "claim_read"
        /\ \/ /\ claimable
              /\ Goto(w, [stage |-> "claim_write", key |-> k, row |-> states[k]])
              /\ UNCHANGED << redelivering, faults >>
           \/ /\ ~ claimable
              /\ Return(w)
              /\ UNCHANGED faults
           \/ /\ Fault
              /\ Return(w)
        /\ UNCHANGED << states, messages, reachable, scheduled, fate, offered,
                        created, ledger, restarts >>

(* Second section: the row read before is written back whole. *)
ClaimWrite(w) ==
    LET row == [task[w].row EXCEPT !.status = "in-flight"]
    IN  /\ task[w].stage = "claim_write"
        /\ IF Stored(w)
           THEN /\ states' = [states EXCEPT ![task[w].key] = row]
                /\ Goto(w, [stage |-> "read_message", key |-> task[w].key, row |-> row])
                /\ UNCHANGED << messages, reachable, scheduled, redelivering, fate,
                                offered, created, ledger, faults, restarts >>
           ELSE Break("corrupt")

(* A message that cannot be read has its state destroyed.  When the key is *)
(* missing, the repository is still locked as destroy is called.           *)
ReadMessage(w) ==
    /\ task[w].stage = "read_message"
    /\ IF task[w].row.message \in messages
       THEN /\ \/ /\ Advance(w, "deliver")
                  /\ UNCHANGED faults
               \/ /\ Fault
                  /\ Goto(w, [stage |-> "destroy_read", key |-> task[w].key,
                              row |-> task[w].row, outcome |-> "purge"])
            /\ UNCHANGED << states, messages, reachable, scheduled, redelivering,
                            fate, offered, created, ledger, restarts >>
       ELSE Break("deadlocked")

-----------------------------------------------------------------------------
(* Delivery. *)

(* Faulty variants: one attempt too few, and no limit at all. *)
GivesUpEarly(row) == row.attempts <= 2

NeverGivesUp(row) == FALSE

(* The attempt just made was the last one the claimed row allows. *)
OutOfAttempts(row) == row.attempts <= 1

Attempted(entry, outcome) ==
    [entry EXCEPT !.tries = @ + 1,
                  !.answers = IF outcome = "failed" THEN @ ELSE @ + 1]

(* Http::sync: 202, another 2xx, or anything else (a refused connection    *)
(* and a timeout included).                                                *)
Deliver(w) ==
    \E outcome \in {"accepted", "declined", "failed"} :
        LET k == task[w].key
            exhausted == outcome = "failed" /\ OutOfAttempts(task[w].row)
        IN  /\ task[w].stage = "deliver"
            /\ ledger' = [ledger EXCEPT ![k] = Attempted(@, outcome)]
            /\ Goto(w, [stage |-> IF exhausted THEN "trip_breaker" ELSE "final_read",
                        key |-> k, row |-> task[w].row, outcome |-> outcome])
            /\ UNCHANGED << states, messages, reachable, scheduled, redelivering,
                            fate, offered, created, faults, restarts >>

(* Faulty variant: the subscription is left as it is. *)
SpareBreaker(w) ==
    /\ task[w].stage = "trip_breaker"
    /\ Advance(w, "final_read")
    /\ UNCHANGED << states, messages, reachable, scheduled, redelivering, fate,
                    offered, created, ledger, faults, restarts >>

(* The subscription becomes unreachable; failing to record it is logged. *)
TripBreaker(w) ==
    /\ task[w].stage = "trip_breaker"
    /\ \/ /\ reachable' = reachable \ {task[w].row.subscription}
          /\ UNCHANGED faults
       \/ /\ Fault
          /\ UNCHANGED reachable
    /\ Advance(w, "final_read")
    /\ UNCHANGED << states, messages, scheduled, redelivering, fate, offered,
                    created, ledger, restarts >>

Verdict(row, outcome) ==
    IF outcome = "accepted" THEN "dispatched"
    ELSE IF outcome = "declined" THEN "rejected"
    ELSE IF OutOfAttempts(row) THEN "unreachable" ELSE "suspended"

(* Faulty variants: the remaining attempts are not counted down, and the   *)
(* change is computed and not applied.                                     *)
SettledUncounted(current, row, verdict) ==
    [current EXCEPT !.status = verdict, !.due = FALSE]

SettledUnapplied(current, row, verdict) == current

(* The change is computed from the claimed row, and applied to a row read  *)
(* afresh by key alone, whatever its status has become.                    *)
Settled(current, row, verdict) ==
    IF verdict = "suspended"
    THEN [current EXCEPT !.status = verdict, !.attempts = row.attempts - 1,
                         !.due = FALSE]
    ELSE [current EXCEPT !.status = verdict]

(* An error is logged and kept by the query, which turns a destroy that    *)
(* follows into a no-op; when the key is missing that destroy blocks on    *)
(* the mutex the read left locked.                                         *)
FinalRead(w) ==
    LET k == task[w].key
        row == task[w].row
        verdict == Verdict(row, task[w].outcome)
    IN  /\ task[w].stage = "final_read"
        /\ IF Stored(w) \/ verdict \notin Terminal
           THEN /\ \/ /\ Stored(w)
                      /\ Goto(w, [task[w] EXCEPT !.stage = "final_write",
                                                 !.row = Settled(states[k], row, verdict)])
                      /\ UNCHANGED faults
                   \/ /\ ~ Stored(w)
                      /\ Advance(w, "reschedule")
                      /\ UNCHANGED faults
                   \/ /\ Fault
                      /\ Advance(w, "reschedule")
                /\ UNCHANGED << states, messages, reachable, scheduled, redelivering,
                                fate, offered, created, ledger, restarts >>
           ELSE Break("deadlocked")

FinalWrite(w) ==
    LET k == task[w].key
        row == task[w].row
    IN  /\ task[w].stage = "final_write"
        /\ IF Stored(w)
           THEN /\ states' = [states EXCEPT ![k] = row]
                /\ Advance(w, IF row.status \in Terminal THEN "destroy_read"
                              ELSE "reschedule")
                /\ UNCHANGED << messages, reachable, scheduled, redelivering, fate,
                                offered, created, ledger, faults, restarts >>
           ELSE Break("corrupt")

(* After a purge the handler returns; after a delivery it reschedules. *)
AfterDestroy(w) ==
    IF task[w].outcome = "purge"
    THEN Return(w)
    ELSE Advance(w, "reschedule") /\ UNCHANGED redelivering

DestroyRead(w) ==
    /\ task[w].stage = "destroy_read"
    /\ \/ /\ Stored(w)
          /\ Advance(w, "destroy_write")
          /\ UNCHANGED << redelivering, faults >>
       \/ /\ ~ Stored(w)
          /\ AfterDestroy(w)
          /\ UNCHANGED faults
       \/ /\ Fault
          /\ AfterDestroy(w)
    /\ UNCHANGED << states, messages, reachable, scheduled, fate, offered,
                    created, ledger, restarts >>

DestroyWrite(w) ==
    /\ task[w].stage = "destroy_write"
    /\ IF Stored(w)
       THEN /\ states' = [k \in DOMAIN states \ {task[w].key} |-> states[k]]
            /\ AfterDestroy(w)
            /\ UNCHANGED << messages, reachable, scheduled, fate, offered, created,
                            ledger, faults, restarts >>
       ELSE Break("corrupt")

(* Faulty variant: the handler returns as the early returns do. *)
RescheduleNothing(w) ==
    /\ task[w].stage = "reschedule"
    /\ Return(w)
    /\ UNCHANGED << states, messages, reachable, scheduled, fate, offered, created,
                    ledger, faults, restarts >>

Reschedule(w) ==
    /\ task[w].stage = "reschedule"
    /\ scheduled' = scheduled + 1
    /\ Return(w)
    /\ UNCHANGED << states, messages, reachable, fate, offered, created, ledger,
                    faults, restarts >>

-----------------------------------------------------------------------------
(* Faulty variant: deliveries found in flight are taken up again. *)
RestartRequeueing ==
    /\ restarts < MaxRestarts
    /\ restarts' = restarts + 1
    /\ task' = [w \in Workers |-> Idle]
    /\ scheduled' = 1
    /\ redelivering' = {}
    /\ states' = [k \in DOMAIN states |->
                     IF states[k].status = "in-flight"
                     THEN [states[k] EXCEPT !.status = "pending"] ELSE states[k]]
    /\ UNCHANGED << messages, reachable, fate, offered, created, ledger, faults >>

(* The process dies and Exchange::start is called on the same repository:  *)
(* one route( PENDING ) is posted and the timer is armed.                  *)
Restart ==
    /\ restarts < MaxRestarts
    /\ restarts' = restarts + 1
    /\ task' = [w \in Workers |-> Idle]
    /\ scheduled' = 1
    /\ redelivering' = {}
    /\ UNCHANGED << states, messages, reachable, fate, offered, created, ledger,
                    faults >>

Publish(w) ==
    \/ CreateMessage(w)
    \/ CreateStates(w)
    \/ Acknowledge(w)

Dispatch(w) ==
    \/ ClaimRead(w)
    \/ ClaimWrite(w)
    \/ ReadMessage(w)
    \/ Deliver(w)
    \/ TripBreaker(w)
    \/ FinalRead(w)
    \/ FinalWrite(w)
    \/ DestroyRead(w)
    \/ DestroyWrite(w)
    \/ Reschedule(w)

Next ==
    /\ fate = "running"
    /\ \/ \E w \in Workers :
            \/ \E m \in Messages : ReadSubscriptions(w, m)
            \/ Publish(w)
            \/ RoutePending(w)
            \/ RouteSuspended(w)
            \/ Dispatch(w)
       \/ \E k \in DOMAIN states : Elapse(k)
       \/ Restart

Spec == Init /\ [][Next]_vars

(* The service runs posted handlers first in, first out, and an expired    *)
(* timer queues behind them, so no call is passed over for ever; a thread  *)
(* that is scheduled runs on; time passes; Http::sync ends at the latest   *)
(* with the connection timeout.                                            *)
Fairness ==
    /\ \A w \in Workers :
          /\ WF_vars(fate = "running" /\ (Publish(w) \/ Dispatch(w)))
          /\ SF_vars(fate = "running" /\ RoutePending(w))
          /\ SF_vars(fate = "running" /\ RouteSuspended(w))
    /\ WF_vars(fate = "running" /\ \E k \in DOMAIN states : Elapse(k))

FairSpec == Spec /\ Fairness

-----------------------------------------------------------------------------
(* Properties. *)

(* The message a delivery refers to is stored for as long as the delivery  *)
(* is: it is created in an earlier section than its states and nothing     *)
(* removes it, so the "purging" branch and the self-deadlock behind it     *)
(* (dispatch_impl.cpp:137-146) are never taken on a healthy repository.    *)
MessagesOutliveStates ==
    \A k \in DOMAIN states : states[k].message \in messages

(* No lost wake-up: once every worker is idle and no route( PENDING ) is   *)
(* posted, no delivery is left pending.  Each early return of router gives *)
(* up the wake-up it consumed and must be covered by another one.          *)
NoStrandedPending ==
    (\A w \in Workers : task[w] = Idle) /\ scheduled = 0 /\ fate = "running"
        => InStatus("pending") = {}

Gone == DOMAIN ledger \ DOMAIN states

(* A delivery is dropped only after the consumer has answered or the whole *)
(* budget of attempts was spent, whatever stale rows concurrent workers    *)
(* have written over each other.                                           *)
NothingDropped ==
    \A k \in Gone : \/ ledger[k].answers > 0
                    \/ ledger[k].tries > 0 /\ ledger[k].tries >= ledger[k].limit

(* Under faults and restarts too: of the deliveries that are gone, those    *)
(* that had neither an answer nor all of their attempts are no more than    *)
(* the repository calls that failed (the purge, dispatch_impl.cpp:137-146). *)
DropsWithinFaults ==
    Cardinality({k \in Gone : ledger[k].answers = 0
                              /\ (ledger[k].tries = 0 \/ ledger[k].tries < ledger[k].limit)})
        <= faults

(* A delivery given up without an answer has made its subscription         *)
(* unreachable, so later messages are not routed to it.                    *)
GivenUpTripsBreaker ==
    \A k \in Gone : ledger[k].answers > 0 \/ ledger[k].subscription \notin reachable

(* The circuit breaker has a cause: a subscription is unreachable only     *)
(* after one of its deliveries failed as often as its queue allows.        *)
BreakerHasCause ==
    \A s \in Subscriptions \ reachable :
        \E k \in DOMAIN ledger :
            /\ ledger[k].subscription = s
            /\ ledger[k].answers = 0
            /\ ledger[k].tries > 0
            /\ ledger[k].tries >= ledger[k].limit

(* First attempts are made in the order the deliveries were created: the   *)
(* router always takes the first pending state of the repository's list.   *)
FirstAttemptsInOrder ==
    \A j, k \in DOMAIN ledger : j < k /\ ledger[k].tries > 0 => ledger[j].tries > 0

(* "Maximum number of delivery attempts the exchange will make before      *)
(* setting the subscription state to UNREACHABLE" (NETWORK-API.md:81): the *)
(* remaining attempts are re-read and rewritten by several sections.       *)
AttemptsWithinLimit ==
    \A k \in DOMAIN ledger :
        ledger[k].tries <= (IF ledger[k].limit = 0 THEN 1 ELSE ledger[k].limit)

(* No section writes or erases through an end iterator, and none locks the *)
(* repository's mutex while the same thread holds it.                      *)
NoUndefinedBehaviour == fate = "running"

(* "in-flight: Message is currently being processed by the exchange"       *)
(* (DESIGN.md:644): each such state is the business of a worker that will  *)
(* settle it, for nothing else ever looks for states in flight.            *)
InFlightIsProcessed ==
    \A k \in InStatus("in-flight") :
        \E w \in Workers : task[w].stage \in Claiming \cup Settling /\ task[w].key = k

(* A consumer that has answered is not sent the message again, whichever   *)
(* later step of the handler fails or is cut short by a restart.           *)
AnsweredOnce ==
    [][\A k \in DOMAIN ledger : ledger[k].answers > 0 => ledger'[k] = ledger[k]]_vars

(* "I should see no further message delivery attempt to the subscription"  *)
(* (message_delivery_circuit_breaker.feature:38) once it is unreachable.   *)
QuietAfterBreaker ==
    [][\A k \in DOMAIN ledger :
          ledger'[k].tries > ledger[k].tries => ledger[k].subscription \in reachable]_vars

(* What the publisher sees of a delivery: open while its state is stored. *)
Deliveries ==
    [k \in DOMAIN ledger |->
        [limit |-> ledger[k].limit, tries |-> ledger[k].tries,
         answered |-> ledger[k].answers > 0, open |-> k \in DOMAIN states]]

Service == INSTANCE Delivery WITH deliveries <- Deliveries

(* The exchange implements the abstract delivery service of Delivery.tla:  *)
(* the stored rows, and the sections that read, claim, settle and destroy  *)
(* them, add up to attempts within the budget and a close that has a cause. *)
ImplementsDelivery == Service!Spec

(* Every delivery that was recorded is closed in the end, and so is every  *)
(* message: retries, suspended states hidden behind an earlier one that is *)
(* not due, and wake-ups given up by early returns do not hold one back.   *)
EveryDeliveryCloses(Keys) ==
    \A k \in Keys : (k \in DOMAIN states) ~> (k \notin DOMAIN states)

=============================================================================
