# RestQ in TLA+

Specifications of the RestQ message exchange (`source/corvusoft/restq`) and of
the in-memory repository of its example (`example/exchange/source`), checked
with TLC and proved with TLAPS.

## 1. Inventory of the system

RestQ is a REST publish/subscribe broker. Clients manage *queues* and
*subscriptions* and post *messages*; the exchange records one *state* per
(message, subscription, queue) and delivers it by HTTP POST to the endpoint of
the subscription. Everything is kept as resources in one `Repository`.

| Part | State it keeps | Operations | Interacts with |
|---|---|---|---|
| `Exchange` (`exchange.cpp`) | service, repository, logger, handlers | start, stop, restart, setters | owns `ExchangeImpl` |
| `ExchangeImpl` (`detail/exchange_impl.cpp`) | rules, formats, ready handler | one handler per resource and verb, chains of repository callbacks | `Repository`, `DispatchImpl`, `ErrorHandlerImpl`, `ValidatorImpl` |
| `DispatchImpl` (`detail/dispatch_impl.cpp`) | static pointers to the service, repository and logger | `route( status )`, `router( query )` | `Repository`, `Service::schedule`, `Http::sync` |
| `STLRepository` (`stl_repository.cpp`) | one list of resources, one mutex | create, read, update, destroy; include, fields, filter | calls back inline on the caller's thread |
| `Query` (`query.cpp`) | keys, filters, paging, result set, error code | setters, `clear` | passed along each chain of callbacks |
| `ErrorHandlerImpl`, `ValidatorImpl`, 25 rules | none | checks of a request, replies | session |
| `Settings`, `String`, `JSONFormatter`, loggers | values | conversions | - |
| restbed `Service` (external) | queue of posted tasks, timers, threads | one-shot and recurring `schedule`, workers | runs the handlers |

Each handler is a chain of repository calls. `STLRepository` calls back inline
and releases its mutex between the sections of a chain, so with one worker (the
default) a whole chain runs undisturbed, and with several workers chains
interleave exactly where the mutex is free. The hard behaviours are there:

* *Claims and write-backs.* `update` reads rows in one section and writes them
  back, whole, in a second one. Nothing checks that they are still the same.
* *Wake-ups.* A pending state is looked at only because somebody posted
  `route( PENDING )`. Every early return of `router` consumes such a wake-up.
* *Partial failure.* The steps of a chain fail separately; each failure is
  logged or answered and the steps before it are not undone.
* *Crash and restart* on a repository that survives.
* *Memory and locks.* Rows that vanish between two sections are written or
  erased through the end iterator; a keyed read that misses calls back with
  the mutex held.
* *Limits.* Message, subscription and attempt limits are compared with counts
  read in an earlier section.

What makes each part correct:

* dispatch: a recorded delivery is attempted in order, within its budget, never
  after an answer; it is dropped only when answered or out of attempts, and in
  the end it is; giving up trips the circuit breaker and nothing else does;
* publishing: a delivery never refers to a message that is not stored; capacity
  limits hold;
* resources: limits, uniqueness of keys, reactivation of a subscription;
* repository: a read, update or destroy acts on exactly the rows selected; an
  error leaves no trace and never leaves it locked; behaviour is undefined only
  where that is said;
* filters, paging, rules, validation: the operators compute what the reference
  definition of each says.

## 2. Plan

| Step | Modules | Subject | Status |
|---|---|---|---|
| A | `Dispatch`, `Delivery`, `MCDispatch`, `DispatchProofs`, `DispatchHealthy`, `DispatchSolo` | delivery engine, end of the publishing chain, repository sections under it; abstract delivery service and its refinement | done |
| B | `Broker`, `MCBroker`, `BrokerProofs` | queues, subscriptions and publications over the critical sections of the repository; message-limit and subscription-limit | done |
| C | `Validator`, `Lists`, `Repository`, `MCRepository` | what a query computes (keys, filters, paging, include, fields), what the handlers do with it, against reference definitions | done |
| D | `Request`, `MCRequest`, `RequestProofs` | rules of the service and of the resources, handlers, replies, and the session they share | done |
| E | - | lifecycle of the facade | not modelled (section 6) |
| F | more proofs | losses, order, circuit breaker and in-flight states of Dispatch; refusals of Broker | done |
| G | `ListProofs`, `RepositoryProofs`, `RepositorySelections` | proofs of every property of `Repository` | done |

The modules cut the exchange at different places, so that each can be explored
on its own, and meet in what one takes from another:

* `Broker` has the sections up to the recorded states, `Dispatch` the sections
  from there to the consumer. In `Broker` the dispatcher is reduced to what it
  does to shared resources: it makes a subscription unreachable through the same
  `update` (which races with the clients' own), and destroys states.
* `Repository` has the data that `Broker` counts and `Request` leaves out, one
  request at a time; what may happen between two sections is in `Broker`.
* `Request` has all answers of all handlers; *why* a limit is reached or a key
  is missing is in the other two, here it is a defect of the request.

## 3. Modules and code

### Delivery: `Dispatch`, `Delivery`

**`Dispatch`** models `DispatchImpl::route`, `DispatchImpl::router`, the
publishing chain from the read of the subscriptions on
(`create_message_and_read_subscriptions_callback`, `create_message_callback`)
and the critical sections of `STLRepository` both run against.

| TLA+ | Code |
|---|---|
| `states` | STATE resources in `m_resources`; a key is the position in the list |
| `messages`, `reachable` | stored MESSAGE resources; SUBSCRIPTION resources whose `state` is `reachable` |
| `scheduled` | posted `route( PENDING )` tasks |
| `redelivering` | the worker that runs the recurring `route( SUSPENDED )`; the timer is armed again when it returns, so there is at most one |
| `task[w]` | where worker `w` is in its chain of callbacks, with the row (`states` of the lambdas) it captured |
| `fate` | what undefined behaviour made of the process: `corrupt` (write or erase through the end iterator), `deadlocked` (mutex locked twice by one thread) |
| `ledger` | history: the limit a delivery was given, the attempts made, the answers received; read by no action |

| Action | Code |
|---|---|
| `ReadSubscriptions`, `CreateMessage`, `CreateStates`, `Acknowledge` | `exchange_impl.cpp:928-1037`, `840-881` |
| `RoutePending`, `RouteSuspended`, `Elapse` | `dispatch_impl.cpp:56-111`; `Elapse` is the clock passing `redeliver-at` |
| `ClaimRead`, `ClaimWrite` | the two sections of the update at `:115` |
| `ReadMessage` | `:128-146`, with the purge |
| `Deliver`, `TripBreaker` | `:148-255` |
| `FinalRead`, `FinalWrite` | the two sections of the update at `:259` |
| `DestroyRead`, `DestroyWrite` | the two sections of `destroy`, at `:145` or `:268` |
| `Reschedule` | `:271` |
| `Restart` | the process dies at any point; `ExchangeImpl::start` (`:106-121`) on the same repository |

Abstractions. A consumer's answer is 202 (`accepted`), another 2xx (`declined`)
or anything else, time-outs included (`failed`). `redeliver-at` is one bit,
`due`. The queues a message goes to and the subscriptions they lead to are the
constant `Routes`; which of them are reachable is read when the message is
published. A row snapshots the queue's `max-delivery-attempts`, as the code
does. A repository error (`Fault`) may answer a call at any point of a handler
where the outcome matters; errors that only end a handler early without
consequence (a failing read of suspended states) are the same as its "nothing
found". Two publications of one message are two messages.
The making of a subscription unreachable is one action although it is an update
of two sections: no other modelled action writes a subscription.

**`Delivery`** is what the exchange promises, without machinery: a delivery is
attempted at least once, at most as often as its queue allows (once when it
allows none), never after an answer, and closed when answered or out of
attempts. `Dispatch` maps its ledger to it (`Service`, `ImplementsDelivery`).

**`MCDispatch`** gives the constants values. **`DispatchProofs`**,
**`DispatchHealthy`** and **`DispatchSolo`** hold the proofs (section 5).

### Resources and capacity: `Broker`

| TLA+ | Code |
|---|---|
| `queues`, `subscriptions` | stored QUEUE and SUBSCRIPTION resources; of a subscription its `queues` properties and its `state` |
| `states` | STATE resources, by message, subscription and matching property |
| `offered` | messages clients have published (each once) |
| `task[w]` | the handler worker `w` is in, and what it has read |
| `fate` | `corrupt` after a write or erase through the end iterator |

| Action | Code |
|---|---|
| `CreateQueue`, `DeleteQueueRead`, `DeleteQueueErase` | POST and DELETE of queues, the sections of `destroy` |
| `CreateRequest`, `UpdateRequest` | POST and PUT of subscriptions up to the read of their queues (`exchange_impl.cpp:419-443`, `517-580`) |
| `Include`, `RefuseSubscriptions` | the second section of that read, and the comparison with the subscription-limit (`:446-506`, `:604-629`) |
| `CreateSubscriptions`, `UpdateRead`, `UpdateWrite`, `DeleteSubscriptionRead`, `DeleteSubscriptionErase` | the sections that change subscriptions |
| `ReadQueues`, `CountStates`, `MatchSubscriptions`, `StoreStates` | the publishing chain (`:356-379`, `:883-1037`, `:840-881`) |
| `TripBreaker`, `Settle` | what the dispatcher does to these resources (`dispatch_impl.cpp:222-272`) |

One action is one critical section with the code up to the next lock. `include`
adds a subscription once for every queue read that it names, and the count it is
compared with counts it as often: `Related` is that multiset. A PUT without
`queues` looks up every queue. A new subscription is always reachable because
the validator refuses any request that gives a state. Limits are constants: a
PUT that changes the limit of a queue in use is not modelled here, nor is the
413 check (it is in `Request`), nor the paging and fields a URI may carry
(`Repository` has them); subscriptions name queues only. The keys of a batch
differ here; the code does not check that, and `Repository` has batches that
repeat a key.

### Queries: `Validator`, `Lists`, `Repository`

`rows` is `m_resources`, a row is a function from properties to the sequence of
their values (a multimap). `answer` is the request just answered, with its code
and body. `QueryOf` is what the rules leave in the session and `Query( session )`
copies; `Read`, `Create`, `Update` and `Destroy` are the operations of
`STLRepository` as functions of `rows`, down to the walk of the iterator over
the inclusive filters (`PassesInclusive`, the set of places it reaches, each
with its equal range), the last of several values that is
stored while the first is validated (`Changed`, `Validator`), the include that is still
in the query of an update (`UpdateQuery`), and the `lower_bound( "key" )` that
finds another property in a row without a key (`FoundFor`). `Bound` and
`LowerBound` are that call for any name: the value of the first property, in the
order of the names, that the row has from this name on, or the end. `Get`, `Post`, `Put`,
`Delete` and `Publish` are the handlers; one request is answered after another.
`Lists` has what is left of a list when some of its elements go (`Kept`): it is
how `read` filters, `fields` drops and the handlers select. What is recursive
(`Kept`, the writes of an update, the erasures of a destroy, the walk over the
filters) is a recursive function.

A filter is a query parameter with or without a comma (`comma`), as rule
`Filters` decides it (`filters.hpp:72-77`), and the items `String::split` makes of
it: one if there is no comma, any number otherwise, so that "c," is a list of one
item and "," a list of none. Behind a name the walk steps past the first filter
of the next one (`stl_repository.cpp:444-447`). A name whose list has several
items is still looked at; one whose list has a single item is not
(`PassedOver`).

A body has any number of resources. Nothing compares a batch with itself
(`stl_repository.cpp:69-86`): of two resources of one POST with one key both are
stored, and from then on updates are written over the first of them and erasures
remove it. A PUT of an empty list, which the example's formatter accepts
(`json_formatter.cpp:57-68`), takes the last of no resources
(`exchange_impl.cpp:533`). Publications carry fields: the queues they read are
cut to them, so type, key and limits are read through `LowerBound` of rows that
may not have them, and of the message that was stored nothing may be left
(`exchange_impl.cpp:850`). `Throws` is `stoul` of a limit that is no number,
answered with 500. `Lost` is undefined behaviour: the answer has the code
`Undefined` and nothing follows.

Clients give the keys in the model; a key that the exchange makes is like one
that was not used before. The selection of a POST has at most fields. The states
that the first read of a publication includes are `Broker`'s `Open`; here they
matter only where fields leave out the type, since the type of a state is
then read beyond its end. What of a message a field can keep
(`MessageFromKey`) leaves the forwarded headers out.

### Requests: `Request`

| TLA+ | Code |
|---|---|
| `request` | target, method, whether there is a body, and what is the matter with it (`Defects`): the outcome of every test a rule or a handler makes |
| `pending`, `Priority` | rules still to run, with the priorities of `setup_ruleset` (`exchange_impl.cpp:242-259`); rules of equal priority run in any order |
| `session` | names that have a value in `restbed::Session` |
| `read` | names that were read so far |
| `stage` | the rule, handler or callback that is next |
| `stored`, `replies` | whether the repository was changed; status codes sent |

One action per rule, handler and callback. The replies of `ErrorHandlerImpl` are
operators; what each composes from the session is an argument of `Close`. How
restbed routes, runs rules and fetches a body is external (`Route`, `FindMethod`,
`Fetched`, `Disconnect`). Rules that are never registered (`Date`, `ETag` and
others) are not part of it. A repository that fails does so with the first call
of a handler (`fault`), with the read of the subscriptions of a publication
(`unreadable`, `exchange_impl.cpp:965-968`), or with the creation of the states
(`states`). `FindAndInvokeFor` has every case of the switch
(`error_handler_impl.cpp:413-450`), although the repositories of the tree set
two of the codes.

An operator marked *Faulty variant* is a plausible bug of the definition that
follows it. None is used by the specifications: each exists to show that some
property would notice that bug.

## 4. Runs

| Run | Instance | Shows |
|---|---|---|
| `dispatch_one_worker` | 1 worker, 3 deliveries (limits 2, 2, 0), no fault | the exchange implements `Delivery`; first attempts are in order; no pending delivery without a wake-up; every delivery is closed (fair) |
| `dispatch_two_workers` | 2 workers, same routes, 1.7 million states | over all interleavings of sections: messages outlive their states, no lost wake-up, nothing dropped before an answer or its whole budget, giving up trips the breaker, a state in flight is always in a worker's hands |
| `dispatch_faults` | 1 worker, 2 repository errors, 1 restart, at every point; 492,000 states | types; messages outlive states; attempts within the limit; the breaker has a cause; each error loses at most one delivery; no undefined behaviour; an answered consumer is never asked again |
| `dispatch_race` (violated) | 2 workers, limit 1 | `AttemptsWithinLimit` fails: both workers deliver the same pending state |
| `dispatch_breaker` (violated) | 1 worker | `QuietAfterBreaker` fails: deliveries recorded before the breaker tripped go on |
| `dispatch_crash` (violated) | 1 worker, 1 restart | `InFlightIsProcessed` fails: states in flight are orphaned |
| `broker_workers` | 2 workers, 2 queues with limit 1, 3 subscriptions, batches of 1, 1 message; 1.04 million states | types; in every interleaving a queue has at most its limit of subscriptions and one batch for each further worker, which is two of the three |
| `broker_one_worker` | 1 worker, 2 queues, requests with up to two subscriptions and two queues each, 2 messages; 178,000 states | both limits are exact; no write or erase through an end iterator; a plain creation is refused at capacity only |
| `broker_refusal` (violated) | 1 worker, limits 2 and 1 | `RefusedOnlyAtCapacity` fails: an update counts itself twice |
| `query_reference` | up to 4 rows, 6 bodies, 5 changes, 14 selections; 230,000 states | GET, PUT, DELETE and publications act on exactly the rows a reference definition names; refusals leave no trace; how rows come to share a key; stored rows stay usable, several values for a property aside; where behaviour is undefined |
| `query_filters` (violated) | the same bodies, a filter with two items | `FiltersAsDocumented` fails: a row with one of the two is answered |
| `request_rules` (fair) | every target, method and single defect, and any two defects of the three longest requests; 91,000 states | nothing is read from the session before it is set; one reply, with a cause; refusals store nothing; every request is answered |

The five violated runs each contradict a sentence of the documentation or of an
acceptance test; `PROJECT.json` quotes it under "findings".

*Bounds.* `MaxFaults` and `MaxRestarts` bound errors and crashes; the counters
of the model are bounded by the constants, so the state space is finite without
constraints. Limit 2 is the smallest with a retry (suspension, write-back of a
decremented row, exhaustion); limit 0 is the boundary at which the code makes
one attempt all the same. Two deliveries of one message exercise the order, the
batch and the head-of-line position of a suspended state; a third delivery to
the first subscription again exercises a publication that races the circuit
breaker. Two workers suffice for every claim/claim, claim/settle and
settle/settle pair of sections. Two faults and one restart can hit every point of
every handler: a failure of the same call twice, of two calls of one handler,
and a crash after a failure; `DropsWithinFaults` needs the second to tell one
loss per error from any number of losses.

In `Broker` two workers race for one last place: both compare before either
stores, and a queue with limit 1 gets two subscriptions. A third one exists, so
the bound of two is a bound: one more place lost, as with a comparison that
forgets the new subscription, and a queue has all three. The bound `Excess`
grows with the workers, and its proof holds for any number. With one worker, two
queues in one request and two subscriptions in one batch are what the counting
of multisets can get wrong. In `Repository` four rows are two queues and two
subscriptions, one of which names the other, or rows of one key from a body that
gives it twice. A key in two spellings, two names with two items each, and three
with one each reach each branch of the walk over the filters, the one that
passes a name over included; the zones of a queue are chosen to be a key of
another row or a type, so that a `lower_bound` that misses its name finds a
value that means something. In `Request` the
defects are independent of each other up to the first that is met, so any two
of them show each order of refusals; the proofs cover any set of them.

*Symmetry* is used in `dispatch_two_workers` (workers) and in the runs of
`Broker` (workers, subscriptions and messages: nothing orders or names them; in
`broker_workers` also queues, which have one limit there and come in lists of one),
none of which has a liveness property. *Deadlock* is checked where the system never stops: the
recurring timer always has a no-op step. With two workers the process may be
lost (`fate`), after which nothing happens: that run, the race and
`broker_workers` say `CHECK_DEADLOCK FALSE`. So do the runs of `Repository`, where
nothing follows undefined behaviour, and `request_rules`, where a closed request
is the end.

*Fairness* (`Fairness` in `Dispatch`). Weak fairness of the steps of a worker
inside a handler: a thread runs on, and `Http::sync` ends with the connection
timeout at the latest. Strong fairness of taking a posted `route( PENDING )`
and of the recurring `route( SUSPENDED )`: the service runs tasks first in,
first out and an expired timer queues behind them, so a task is not passed over
for ever although the worker is busy in between. Weak fairness of `Elapse`:
time passes. Nothing is assumed of clients or consumers: a consumer may never
answer. `Request` assumes weak fairness of its steps: a thread runs the rules
and callbacks that are there, and a body arrives or the connection times out
(`Disconnect`, which `EveryRequestAnswered` allows for).

## 5. Proofs

### Dispatch

The proofs hold for every set of workers, messages and subscriptions, every
routing and every bound on errors and restarts. `DispatchProofs` has what needs
no further assumption, and the lemmas on how a step changes tasks, rows and
history; the other modules have what takes a healthy repository
(`DispatchHealthy`), and one worker, alone or with a healthy repository
(`DispatchSolo`).

* `TypeCorrect` (`DispatchProofs`): `Spec => []TypeOK`. The invariant is inductive as it stands
  because `Task` ties the shape of a worker's record to its stage.
* `MessagesStayStored` (`DispatchProofs`): `Spec => []MessagesOutliveStates`. Alone it is not
  inductive: a batch of states is stored by a publisher that created the message
  two steps earlier, and a router writes back a row it read earlier.
  `MessagesInv` adds that the message in the hands of a publisher about to store
  states, and the message of each row in the hands of a router, are stored.
* `LossesWithinFaults` (`DispatchProofs`): `Spec => []DropsWithinFaults`, for any
  workers, errors and restarts. Two invariants carry it. `BudgetInv` says that
  every row, stored or carried by a worker, is *honest*: what it leaves to try
  plus what was tried is at least the limit. A stale write-back can only give
  attempts back, so it cannot close a delivery early; a row about to be settled
  after a failed attempt is honest by one to spare, which the decrement uses up.
  So the only way to lose a delivery is the purge behind a failed read of its
  message, and `LossInv` counts: the deliveries dropped, and those a worker is
  about to purge (`AtRisk`), are no more than the calls that failed. Counting
  the dropped ones alone is not inductive, because the error comes two sections
  before the erase.
* `NothingIsDropped` (`DispatchHealthy`, assuming `MaxFaults = 0`): `Spec =>
  []NothingDropped`, the case of no error.
* `NoWakeUpIsLost` (`DispatchHealthy`, assuming `MaxFaults = 0`): `Spec =>
  []NoStrandedPending` for any number of workers. `WakeUpInv`: while a delivery
  is pending there is a posted route, a handler past its claim (which posts one
  before it returns), or a claim that will succeed. A claim lost to another
  worker is lost to a handler that is past its own.
* `NoGivingUpWithoutBreaker` (`DispatchHealthy`, assuming `MaxFaults = 0`):
  `Spec => []GivenUpTripsBreaker`. `TripInv` adds to the deliveries that are gone
  those a worker is about to destroy: its row is out of attempts, or terminal,
  only behind the breaker. It needs `RowsInv` (`DispatchProofs`): a row, however
  often written over, names the subscription its delivery was created for.
* `InFlightIsNeverAbandoned` (`DispatchHealthy`, assuming `MaxFaults = 0` and
  `MaxRestarts = 0`): `Spec => []InFlightIsProcessed`. Two workers may have
  claimed the same state; `FlightInv` says that whichever of them settles it
  first, what it writes is not "in-flight", and the other one still has it.
* `SoloAttemptsWithinLimit`, `SoloNoUndefinedBehaviour`, `SoloAnsweredOnce`
  (`DispatchSolo`, assuming `OneWorker`; any faults and restarts). `SoloInv`:
  a row a handler carries is the stored one; a pending row was never tried; a
  suspended or claimed one has its whole remaining budget. So the row a section
  writes or erases exists, and a row found pending or suspended was never
  answered. `MessagesInv` excludes the self-deadlock behind the purge.
* `SoloBreakerHasCause` (`DispatchSolo`, assuming `OneWorker`; any faults and
  restarts): `Spec => []BreakerHasCause`. `CauseInv` adds the handler on its way
  to the breaker: its delivery has failed as often as its queue allows, by
  `SoloInv`, and a delivery that has is never tried again.
* `DispatchImplementsDelivery` (`DispatchSolo`, assuming `OneWorker` and
  `MaxFaults = 0`): `Spec => ImplementsDelivery`. Initial states map to initial
  states; storing a batch is `Accept` (or a stutter when it is empty), a request
  is `Attempt`, erasing a state is `Close`, everything else stutters. That a
  delivery is closed with its budget *exactly* spent needs both invariants:
  at least by `BudgetInv`, at most by `SoloInv`.
* `SoloFirstAttemptsInOrder` (`DispatchSolo`, assuming `OneWorker`,
  `MaxFaults = 0` and `MaxRestarts = 0`): `Spec => []FirstAttemptsInOrder`. In
  `OrderInv` a delivery that was never tried is still pending, or in the hands of
  the worker; whoever claims a state has left none untried before it, because
  the first pending one is claimed and suspended ones were tried.

The assumptions are needed: with two workers `dispatch_race` shows
`AttemptsWithinLimit` violated, and a repository error on the read of a message
makes the dispatcher drop a delivery it never attempted.

Apart from the assumptions named above the theorems on `Dispatch` rest on
`RoutesAssumption` (routes are sequences of matches) and `BoundsAssumption` (the
bounds are natural numbers), which TLC evaluates on every run.

### Broker

The proofs about `Broker` hold for any finite sets of workers, queues,
subscriptions and messages, any limits and any size of a batch
(`SetsAssumption`, `RequestsAssumption`, `LimitsAssumption`).

* `SubscriptionLimitHolds` (`BrokerProofs`): `Spec => []SubscriptionsWithinLimit`,
  the limit and `MaxBatch` for every worker but one. The limit alone is not
  inductive: a worker that has passed the comparison may store at any later
  time. The invariant therefore adds, to the subscriptions of a queue, what each
  other worker holds: the batch it has been granted but not stored, or the row it is about
  to write back, which may name a queue the stored row does not. A worker that
  passes `Include` has compared its own batch with a count that already contains
  everything stored, so what is granted beyond the limit is what the others
  hold.
* `MessageLimitHolds` (`BrokerProofs`): `Spec => []MessagesWithinLimit` by the
  same argument, with one message for each further worker. States are counted,
  so the messages, of which there are no more, are within the limit too.
* `RefusalsAreJustified` (`BrokerProofs`): `Spec => SimpleRefusalsJustified`, for
  any number of workers. The comparison adds two counts, of entries in the batch and
  of pairs that `include` lists. The first is the number of new subscriptions
  because their keys differ (`KeysDiffer`, inductive) and are not in use, the
  second the number of old ones because no row names two queues
  (`CountIsExact`); so the sum is what the queue would hold.
* `SoloRowsStay` (`BrokerProofs`, assuming `OneWorker`): `Spec =>
  []NoUndefinedBehaviour`. With one worker, a row that the first section of
  `update` or `destroy` has found is still stored.

### Request

`RequestProofs` proves, for any set of requests with any combination of defects,
one inductive invariant: a rule that is no longer pending has left what it puts
into the session, a stage beyond the rules has all of them behind it, and a
request that is not closed has no reply. From it follow `SessionReadsHold`
(`ReadsOnlyWhatIsSet`), `OneReplyHolds` (`RepliedOnce`), `RefusalsHold`
(`RefusedStoresNothing`) and `TypeCorrect`. The step that matters is that of a refusal:
`Priorities` shows that whenever a rule of priority 2 or more has its turn,
`echo`, `style` and `accept` have run, so that the reply can be composed
(`ComposedReady`); before that only 406 is possible, which does without.

On top of it `AnswersHaveCauses` proves `Spec => []AnswerHasCause`. `CauseInv` says what each stage has excluded: what the rules that have run
refuse is not there; behind the rules none of it is; behind each call of the
repository, what makes that call fail is not. So a refusal meets a defect that
the request is checked for, and a success has met every check. The order of the
rules matters once: a checksum is refused for its value only, since the
priorities put the length, which fetches the body, before it
(`LengthBeforeChecksum`).

### Repository

The ten properties of `query_reference` are theorems. They hold for any bodies,
changes and selections within these assumptions, each of which TLC evaluates on
the run:

| Assumption | Why |
|---|---|
| `BodiesAssumption`: a body is a list of multimaps, each with a key | a multimap has no name without a value; keys may repeat and the list may be empty |
| `ChangesAssumption`: what is PUT is a list of multimaps | as above |
| `SelectionsAssumption`: keys, filters, index, limit and fields have their types; a filter without a comma has one item | what the rules put into the session |
| `FiltersAssumption`: filters of one name are next to each other | query parameters are a `std::multimap`, in the order of their names |
| `LowerAssumption`: what is lowered stays as it is | `String::lowercase` of ASCII keys |
| `DefaultsAssumption`: the default limit is a number; the names in `From(p)` begin with `p`, and reach the type from a key or a limit; a query without a limit has room for all rows | `exchange_impl.cpp:147-189`, the order of `std::multimap`, `numeric_limits< size_t >::max( )` |

**`ListProofs`** is about lists only. The induction theorems of the library take
an operator as a parameter, which the provers cannot instantiate; `Induction`
states the principle for a *set* of numbers, from the well-foundedness of `Nat`.
With it every recursive definition is treated in two steps: there is a function
of its kind (`KeptExists`, `FlatExists`), since a recursive function is a
`CHOOSE` that means nothing without one; then what it computes
(`KeptSelects`: the elements of the places, in order, from rising places;
`FlattenBlocks`; `Ranked`; `SamePart`).

**`RepositoryProofs`** computes `Read`, `Update` and `Destroy` for rows of any
number and proves the invariant of the rows.

* `TypeCorrectness`: `TypeOK` (`Inv`, for the rows and the answer) is inductive.
  `Complete` is part of it because the limits and the state that handlers read
  of a row without looking are there only as long as no update removes a
  property. It holds of rows that share a key as well.
* `KeysAreTakenOnce`: an update writes a result over the first row with its key,
  so the keys of the list stay what they were (`UpdateWrites`); an erasure only
  takes some away (`DeleteShared`); and a creation adds keys that no row has, so
  that only two of the added rows can share one (`PostShared`).
* `RefusedRequestsChangeNothing`, `UpdatesAreLocal`, `NoContentMeansNoChange`,
  `WhatIsStoredStaysUsable`: the other action properties. A row shown by a query
  passes its filters or names one that does (`ShownAre`), so what a PUT of one key
  writes over has the key of that row or, by the include, of one that names it
  (`PutShows`). That 204 means that nothing was changed takes rows of different
  keys (`UpdateChanges`): where two share one, the second may be written over the first
  by an update that applies nothing.
* `UndefinedNeedsACause`: for a PUT and a publication the guards of the undefined
  steps say it. For a DELETE it is the longest argument of the module, since
  rows may share a key: the rows a query shows can be matched one to one with
  rows that are stored, each erasure takes away the first row of a key and so
  leaves a match for all results that are still to come (`MatchedErase`), and
  none of them misses (`ErasesAll`).

**`RepositorySelections`** shows that the walks of `STLRepository` compute the
reference definition `Selected`.

* The iterator over the inclusive filters steps past the first filter of the
  next name. `ReachesAll`: the names it reaches are exactly those that are not in
  `PassedOver`, which is stated over the list of filters alone: a name with one
  item, behind a name that was not passed over. `SharedIsReached`, `AfterGroup`
  and `FollowingStarts` follow the iterator from one name to the next.
  `InclusiveIs`, `ExclusiveIs` and `WantedIs` compare the filters of the query
  with those of the selection.
* `SelectedIs`: keys, filters and page of the query are those of the selection,
  and `AllFoundIs`: the read fails exactly when a key has no row.
* `ReadsAreExact`, for any rows and any selection; `DeletesAreExact`, for rows of
  different keys, because an erasure takes the first row of a key, whichever was
  selected; `MessagesReachTheNamed`, for publications whose fields, if any, keep key
  and type. The last takes two queries: the inclusive filters of the second, one
  for each queue found, have one name and so none is passed over
  (`QueuesGrouped`), and the page of the second has room for every row
  (`WholePage`).

### Only model-checked

The liveness of `EveryKeyCloses` and `EveryRequestAnswered`: fairness and
`ENABLED` are beyond the prover. Every other property of a passing run is a
theorem.

## 6. Not modelled

*Outside of the tree.* restbed's scheduler, threads, HTTP client, routing and
rule engine are modelled from how the code uses them. What restbed does when
resources are published and rules added again by `Exchange::restart`, and what
two services share, cannot be read here, so `start`, `stop` and `restart` of the
facade and the static pointers of `DispatchImpl` under two exchanges are left
out.

*Text.* JSON, headers, dates, digests, log messages, TLS and sockets; the
headers that `make_message` copies and `ValidatorImpl` filters; `Settings`,
`String` and `Byte`, which have values or formatting and no behaviour.

*Combinations.* A PUT that changes a limit while requests are under way; paging
and fields of a publication's URI together with message-limits; repeated keys
together with interleavings. `PROJECT.json` lists
every part with its status and every hazard with the properties that cover it,
or why none does.

*Exemptions.* `StoredStaysUsable` leaves out a PUT that gives a property several
values: the validator reads the first, `update` stores the last, so a limit that
is no number can be stored, and a publication to that queue is answered with 500.
`RefusedStoresNothing` leaves out the failed creation of the states of a message:
the message stays. `NoContentChangesNothing` and `DeleteIsExact` leave out rows
that share a key, `DeleteIsExact` and `PublishReachesNamed` fields without the
properties they name.

*Differences between documents and code* met on the way that no run is about:

* `documentation/API.md:1033` speaks of the messages on a queue; the limit is compared
  with states, one for each subscription (`exchange_impl.cpp:945`).
* `documentation/DESIGN.md:641-647` has a condition *unreachable* of a delivery, which
  in the code is a state of the subscription, and lacks *suspended*, which the
  code gives a delivery between two attempts (`dispatch_impl.cpp:43-47`).
* `documentation/DESIGN.md:623` (also `:574`) ends a delivery with "Delete message
  record"; the dispatcher destroys states only (`dispatch_impl.cpp:266-268`), and
  nothing destroys a message.
* `message_delivery_circuit_breaker.feature:23` and `:55` POST a subscription with a
  state; the validator refuses every state (`validator_impl.cpp:104`).
* `documentation/NETWORK-API.md:75` and `:109` describe `modified` and a `revision` that
  identifies the edition of a resource; `update` leaves `revision` and `modified` alone
  (`stl_repository.cpp:183`).
* A publication finds subscriptions by the exact spelling of a queue's key, while
  limits and the match ignore case (`exchange_impl.cpp:943`, `:990`).
