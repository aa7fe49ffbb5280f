\* One worker: the limits are exact, and requests may name several queues.
SPECIFICATION Spec
CONSTANTS
    q1 = q1
    q2 = q2
    Workers = {w1}
    Queues = {q1, q2}
    Subscriptions = {s1, s2}
    Messages = {m1, m2}
    QueueLists <- Lists
    SubscriptionLimit <- OneEach
    MessageLimit <- OneEach
    MaxBatch = 2
SYMMETRY Interchangeable
INVARIANTS
    
    
    NoUndefinedBehaviour
PROPERTIES
    SimpleRefusalsJustified
