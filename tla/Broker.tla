------------------------------- MODULE Broker -------------------------------
(***************************************************************************)
(* Queues, subscriptions and publications of RestQ, and the capacities the *)
(* exchange enforces: the resource and message handlers of ExchangeImpl    *)
(* (detail/exchange_impl.cpp) over the critical sections of STLRepository  *)
(* (example/exchange/source).                                              *)
(*                                                                         *)
(* A handler is a chain of repository calls; the mutex is free between two *)
(* sections of a chain, so what one section has read may be out of date in *)
(* the next.  One action is one section with the code up to the next lock. *)
(* The delivery of the states recorded here is the subject of Dispatch.    *)
(***************************************************************************)
EXTENDS Naturals, Sequences, FiniteSets, Functions

CONSTANTS
    Workers,           \* threads running the service
    Queues,            \* keys of the queues
    Subscriptions,     \* keys of the subscriptions
    Messages,          \* keys of the messages
    QueueLists,        \* "queues" properties a request may carry
    SubscriptionLimit, \* per queue, its subscription-limit
    MessageLimit,      \* per queue, its message-limit
    MaxBatch           \* bound: subscriptions in one request

ASSUME SetsAssumption ==
    /\ IsFiniteSet(Workers) /\ Workers # {}
    /\ IsFiniteSet(Queues)
    /\ IsFiniteSet(Subscriptions)
    /\ IsFiniteSet(Messages)

ASSUME RequestsAssumption ==
    /\ QueueLists \subseteq Seq(Queues)
    /\ MaxBatch \in Nat \ {0}

ASSUME LimitsAssumption ==
    /\ SubscriptionLimit \in [Queues -> Nat]
    /\ MessageLimit \in [Queues -> Nat]

VARIABLES
    queues,        \* keys of the stored QUEUE resources
    subscriptions, \* SUBSCRIPTION resources: key -> row
    states,        \* STATE resources not yet closed
    offered,       \* messages a client has published
    task,          \* what each worker is doing
    fate           \* "running", or "corrupt": a row written or erased through
                   \* the end iterator

vars == << queues, subscriptions, states, offered, task, fate >>

-----------------------------------------------------------------------------
(* Data. *)

Row == [queues : Seq(Queues), state : {"reachable", "unreachable"}]

(* A subscription as a request describes it; "kept": without a state. *)
Change == [key : Subscriptions, queues : Seq(Queues),
           state : {"reachable", "unreachable", "kept"}]

(* One state per matching "queues" property, numbered as in the row. *)
State == [message : Messages, subscription : Subscriptions, property : Nat,
          queue : Queues]

Batches == {b \in Seq(Change) : Len(b) \in 1 .. MaxBatch}

Named(batch) == UNION {Range(batch[i].queues) : i \in DOMAIN batch}

Asking(batch, q) == {i \in DOMAIN batch : q \in Range(batch[i].queues)}

Idle == [stage |-> "idle"]

Task ==
    [stage : {"idle"}]
    \cup {t \in [stage : {"include"}, op : {"create", "update"},
                 batch : Batches, found : SUBSET Queues] :
             Named(t.batch) \subseteq t.found}
    \cup [stage : {"create", "update"}, batch : Batches]
    \cup [stage : {"write"}, key : Subscriptions, row : Row]
    \cup [stage : {"erase_queue"}, key : Queues]
    \cup [stage : {"erase_subscription"}, key : Subscriptions]
    \cup [stage : {"count", "match"}, message : Messages, found : SUBSET Queues]
    \cup {t \in [stage : {"store"}, message : Messages, fresh : SUBSET State] :
             \A st \in t.fresh : st.message = t.message}

TypeOK ==
    /\ queues \subseteq Queues
    /\ DOMAIN subscriptions \subseteq Subscriptions
    /\ subscriptions \in [DOMAIN subscriptions -> Row]
    /\ states \subseteq State
    /\ offered \subseteq Messages
    /\ task \in [Workers -> Task]
    /\ fate \in {"running", "corrupt"}

Init ==
    /\ queues = {}
    /\ subscriptions = << >>
    /\ states = {}
    /\ offered = {}
    /\ task = [w \in Workers |-> Idle]
    /\ fate = "running"

Goto(w, next) == task' = [task EXCEPT ![w] = next]

(* The client is answered and the worker takes its next task. *)
Answer(w) == Goto(w, Idle)

Break ==
    /\ fate' = "corrupt"
    /\ UNCHANGED << queues, subscriptions, states, offered, task >>

-----------------------------------------------------------------------------
(* Queues. *)

(* POST /queues: a key already in use is a conflict, and nothing changes. *)
CreateQueue(w, q) ==
    /\ task[w] = Idle
    /\ q \notin queues
    /\ queues' = queues \cup {q}
    /\ UNCHANGED << subscriptions, states, offered, task, fate >>

(* DELETE /queues/q reads the row in one section and erases it in a second *)
(* one.  Neither subscriptions nor states are looked at.                   *)
DeleteQueueRead(w, q) ==
    /\ task[w] = Idle
    /\ q \in queues
    /\ Goto(w, [stage |-> "erase_queue", key |-> q])
    /\ UNCHANGED << queues, subscriptions, states, offered, fate >>

DeleteQueueErase(w) ==
    /\ task[w].stage = "erase_queue"
    /\ IF task[w].key \in queues
       THEN /\ queues' = queues \ {task[w].key}
            /\ Answer(w)
            /\ UNCHANGED << subscriptions, states, offered, fate >>
       ELSE Break

-----------------------------------------------------------------------------
(* Subscriptions: POST and PUT share the pipeline that reads the queues,   *)
(* then the subscriptions related to them, and compares with the limits.   *)

Subscribed(q) ==
    {s \in DOMAIN subscriptions : q \in Range(subscriptions[s].queues)}

(* First section of the read.  A key that is missing answers 404.  Without *)
(* any "queues" in the request the list of keys is empty, which the        *)
(* repository takes for every queue.                                       *)
FindQueues(w, op, batch) ==
    LET found == IF Named(batch) = {} THEN queues ELSE Named(batch)
    IN  /\ task[w] = Idle
        /\ found \subseteq queues
        /\ Goto(w, [stage |-> "include", op |-> op, batch |-> batch, found |-> found])
        /\ UNCHANGED << queues, subscriptions, states, offered, fate >>

(* The keys of a batch are taken to differ, which nothing checks: repeated *)
(* keys, which store two rows of one key, are the subject of Repository.   *)
CreateRequest(w) ==
    \E n \in 1 .. MaxBatch :
        \E batch \in [1 .. n -> [key : Subscriptions, queues : QueueLists, state : {"kept"}]] :
            /\ \A i, j \in 1 .. n : i # j => batch[i].key # batch[j].key
            /\ FindQueues(w, "create", batch)

UpdateRequest(w) ==
    \E change \in [key : Subscriptions, queues : QueueLists,
                   state : {"reachable", "unreachable", "kept"}] :
        FindQueues(w, "update", << change >>)

(* What include() adds to the result: a subscription once for every queue  *)
(* read that it names.                                                     *)
Related(found) ==
    {x \in (DOMAIN subscriptions) \X found : x[1] \in Subscribed(x[2])}

CurrentCount(q, found) ==
    Cardinality({x \in Related(found) : x[1] \in Subscribed(q)})

(* Faulty variant: a batch counts as one subscription. *)
NewCountOnce(q, batch) == IF Asking(batch, q) = {} THEN 0 ELSE 1

NewCount(q, batch) == Cardinality(Asking(batch, q))

(* Faulty variant: what is being asked for is not counted. *)
OverLimitBefore(q, t) ==
    CurrentCount(q, t.found) > SubscriptionLimit[q]

(* Faulty variant: the last place is never given. *)
OverLimitEarly(q, t) ==
    NewCount(q, t.batch) + CurrentCount(q, t.found) >= SubscriptionLimit[q]

OverLimit(q, t) ==
    NewCount(q, t.batch) + CurrentCount(q, t.found) > SubscriptionLimit[q]

(* Second section of the read, and the comparison with the limits. *)
Include(w) ==
    /\ task[w].stage = "include"
    /\ \A q \in task[w].found : ~ OverLimit(q, task[w])
    /\ Goto(w, [stage |-> task[w].op, batch |-> task[w].batch])
    /\ UNCHANGED << queues, subscriptions, states, offered, fate >>

(* 503 Service Unavailable. *)
RefuseSubscriptions(w) ==
    /\ task[w].stage = "include"
    /\ \E q \in task[w].found : OverLimit(q, task[w])
    /\ Answer(w)
    /\ UNCHANGED << queues, subscriptions, states, offered, fate >>

(* The state of a new subscription is always the default: a request that    *)
(* gives one is refused (validator_impl.cpp:104).                           *)
NewRow(change) == [queues |-> change.queues, state |-> "reachable"]

(* All of the batch, or none of it when a key is in use (409). *)
CreateSubscriptions(w) ==
    LET batch == task[w].batch
        keys == {batch[i].key : i \in DOMAIN batch}
    IN  /\ task[w].stage = "create"
        /\ IF keys \cap DOMAIN subscriptions = {}
           THEN \E n \in [keys -> DOMAIN batch] :
                   /\ \A s \in keys : batch[n[s]].key = s
                   /\ subscriptions' = [s \in DOMAIN subscriptions \cup keys |->
                                           IF s \in keys THEN NewRow(batch[n[s]])
                                           ELSE subscriptions[s]]
           ELSE UNCHANGED subscriptions
        /\ Answer(w)
        /\ UNCHANGED << queues, states, offered, fate >>

(* update() looks each property of the change up by name and overwrites the *)
(* one it finds: of several "queues" in the row, the first.  So the last    *)
(* "queues" of the change replaces the first of the row.                    *)
Overwrite(old, change) ==
    IF change = << >> THEN old
    ELSE IF old = << >> THEN << change[Len(change)] >>
    ELSE [old EXCEPT ![1] = change[Len(change)]]

(* Faulty variant: a PUT without state stores that. *)
ChangedVerbatim(row, change) ==
    [queues |-> Overwrite(row.queues, change.queues), state |-> change.state]

Changed(row, change) ==
    [queues |-> Overwrite(row.queues, change.queues),
     state |-> IF change.state = "kept" THEN row.state ELSE change.state]

(* The two sections of update(): the row is copied in the first and written *)
(* back whole in the second.                                                *)
UpdateRead(w) ==
    LET change == task[w].batch[1]
    IN  /\ task[w].stage = "update"
        /\ IF change.key \in DOMAIN subscriptions
           THEN Goto(w, [stage |-> "write", key |-> change.key,
                         row |-> Changed(subscriptions[change.key], change)])
           ELSE Answer(w)
        /\ UNCHANGED << queues, subscriptions, states, offered, fate >>

UpdateWrite(w) ==
    /\ task[w].stage = "write"
    /\ IF task[w].key \in DOMAIN subscriptions
       THEN /\ subscriptions' = [subscriptions EXCEPT ![task[w].key] = task[w].row]
            /\ Answer(w)
            /\ UNCHANGED << queues, states, offered, fate >>
       ELSE Break

(* Faulty variant: destroy goes on although its read failed. *)
DeleteSubscriptionUnread(w, s) ==
    /\ task[w] = Idle
    /\ Goto(w, [stage |-> "erase_subscription", key |-> s])
    /\ UNCHANGED << queues, subscriptions, states, offered, fate >>

(* DELETE /subscriptions/s, in two sections. *)
DeleteSubscriptionRead(w, s) ==
    /\ task[w] = Idle
    /\ s \in DOMAIN subscriptions
    /\ Goto(w, [stage |-> "erase_subscription", key |-> s])
    /\ UNCHANGED << queues, subscriptions, states, offered, fate >>

DeleteSubscriptionErase(w) ==
    LET s == task[w].key
    IN  /\ task[w].stage = "erase_subscription"
        /\ IF s \in DOMAIN subscriptions
           THEN /\ subscriptions' = [r \in DOMAIN subscriptions \ {s} |-> subscriptions[r]]
                /\ Answer(w)
                /\ UNCHANGED << queues, states, offered, fate >>
           ELSE Break

-----------------------------------------------------------------------------
(* Publications. *)

(* POST /queues/q/messages, or /messages with a query: read of the queues.  *)
ReadQueues(w, m, found) ==
    /\ task[w] = Idle
    /\ m \notin offered
    /\ found # {}
    /\ found \subseteq queues
    /\ offered' = offered \cup {m}
    /\ Goto(w, [stage |-> "count", message |-> m, found |-> found])
    /\ UNCHANGED << queues, subscriptions, states, fate >>

Open(q) == {st \in states : st.queue = q}

(* The limit on messages is compared with the states of the queue. *)
Full(q) == Cardinality(Open(q)) + 1 > MessageLimit[q]

(* Faulty variant: the message is refused when every queue is full. *)
CountStatesLeniently(w) ==
    /\ task[w].stage = "count"
    /\ IF \A q \in task[w].found : Full(q)
       THEN Answer(w)
       ELSE Goto(w, [stage |-> "match", message |-> task[w].message,
                     found |-> task[w].found])
    /\ UNCHANGED << queues, subscriptions, states, offered, fate >>

(* The states are included, and the message is refused by the first queue   *)
(* that is full (503) or accepts no message this large (413, not modelled). *)
CountStates(w) ==
    /\ task[w].stage = "count"
    /\ IF \E q \in task[w].found : Full(q)
       THEN Answer(w)
       ELSE Goto(w, [stage |-> "match", message |-> task[w].message,
                     found |-> task[w].found])
    /\ UNCHANGED << queues, subscriptions, states, offered, fate >>

(* What the reachable subscriptions of the queues are to receive. *)
Matching(m, found) ==
    {st \in [message : {m}, subscription : DOMAIN subscriptions,
             property : UNION {DOMAIN subscriptions[s].queues : s \in DOMAIN subscriptions},
             queue : found] :
        LET row == subscriptions[st.subscription]
        IN  /\ row.state = "reachable"
            /\ st.property \in DOMAIN row.queues
            /\ row.queues[st.property] = st.queue}

(* With nothing to deliver the message is not stored (201). *)
MatchSubscriptions(w) ==
    LET fresh == Matching(task[w].message, task[w].found)
    IN  /\ task[w].stage = "match"
        /\ IF fresh = {}
           THEN Answer(w)
           ELSE Goto(w, [stage |-> "store", message |-> task[w].message,
                         fresh |-> fresh])
        /\ UNCHANGED << queues, subscriptions, states, offered, fate >>

(* The message, in a section nothing here reads, then its states (202). *)
StoreStates(w) ==
    /\ task[w].stage = "store"
    /\ states' = states \cup task[w].fresh
    /\ Answer(w)
    /\ UNCHANGED << queues, subscriptions, offered, fate >>

-----------------------------------------------------------------------------
(* What the dispatcher does to these resources. *)

(* A delivery that is given up makes its subscription unreachable: the same *)
(* update(), without any comparison with limits.                            *)
TripBreaker(w, s) ==
    /\ task[w] = Idle
    /\ \E st \in states : st.subscription = s
    /\ Goto(w, [stage |-> "update",
                batch |-> << [key |-> s, queues |-> << >>, state |-> "unreachable"] >>])
    /\ UNCHANGED << queues, subscriptions, states, offered, fate >>

(* A state is destroyed once answered or given up. *)
Settle(w, st) ==
    /\ task[w] = Idle
    /\ states' = states \ {st}
    /\ UNCHANGED << queues, subscriptions, offered, task, fate >>

-----------------------------------------------------------------------------
ManageQueues(w) ==
    \/ \E q \in Queues : CreateQueue(w, q) \/ DeleteQueueRead(w, q)
    \/ DeleteQueueErase(w)

ManageSubscriptions(w) ==
    \/ CreateRequest(w)
    \/ UpdateRequest(w)
    \/ Include(w)
    \/ RefuseSubscriptions(w)
    \/ CreateSubscriptions(w)
    \/ UpdateRead(w)
    \/ UpdateWrite(w)
    \/ \E s \in Subscriptions : DeleteSubscriptionRead(w, s)
    \/ DeleteSubscriptionErase(w)

Publish(w) ==
    \/ \E m \in Messages, found \in SUBSET Queues : ReadQueues(w, m, found)
    \/ CountStates(w)
    \/ MatchSubscriptions(w)
    \/ StoreStates(w)

Deliver(w) ==
    \/ \E s \in Subscriptions : TripBreaker(w, s)
    \/ \E st \in states : Settle(w, st)

Next ==
    /\ fate = "running"
    /\ \E w \in Workers :
           ManageQueues(w) \/ ManageSubscriptions(w) \/ Publish(w) \/ Deliver(w)

Spec == Init /\ [][Next]_vars

-----------------------------------------------------------------------------
(* Properties. *)

(* Every worker may have passed the comparison before the others stored what *)
(* they were granted: so many more than the limit, and no more.              *)
Excess(perRequest) == (Cardinality(Workers) - 1) * perRequest

(* exchange_impl.cpp:454-492, 600-627: a queue has at most its limit of     *)
(* subscriptions, but for what the other workers were granted meanwhile:    *)
(* exact with one worker, whatever is created, updated, written back late   *)
(* or deleted.                                                              *)
SubscriptionsWithinLimit ==
    \A q \in Queues :
        Cardinality(Subscribed(q)) <= SubscriptionLimit[q] + Excess(MaxBatch)

(* exchange_impl.cpp:945-955: likewise the messages with open deliveries.   *)
MessagesWithinLimit ==
    \A q \in Queues :
        Cardinality({st.message : st \in Open(q)}) <= MessageLimit[q] + Excess(1)

(* stl_repository.cpp:210, 257: with one worker a row is still there when    *)
(* the second section of update or destroy writes or erases it.             *)
NoUndefinedBehaviour == fate = "running"

(* A request that would not raise a queue above its limit is not refused.   *)
Granted(t, q) == Subscribed(q) \cup {t.batch[i].key : i \in Asking(t.batch, q)}

Justified(t) ==
    \E q \in t.found : Cardinality(Granted(t, q)) > SubscriptionLimit[q]

Conflicting(t) ==
    /\ t.op = "create"
    /\ \E i \in DOMAIN t.batch : t.batch[i].key \in DOMAIN subscriptions

(* API.md:1081: the limit is compared with the number of subscriptions of   *)
(* the queue, and clients are refused (503) when it would be breached.      *)
RefusedOnlyAtCapacity ==
    [][\A w \in Workers :
          RefuseSubscriptions(w) /\ ~ Conflicting(task[w]) => Justified(task[w])]_vars

(* exchange_impl.cpp:488: while no subscription names two queues, a POST is *)
(* refused only when it would breach a limit.                               *)
Simple(t) ==
    /\ t.op = "create"
    /\ ~ Conflicting(t)
    /\ \A i \in DOMAIN t.batch : Len(t.batch[i].queues) = 1
    /\ \A s \in DOMAIN subscriptions : Len(subscriptions[s].queues) <= 1

SimpleRefusalsJustified ==
    [][\A w \in Workers :
          RefuseSubscriptions(w) /\ Simple(task[w]) => Justified(task[w])]_vars
=============================================================================
