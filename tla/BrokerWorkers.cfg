\* Two workers race for the last place; a third subscription would break
\* the bound.
SPECIFICATION Spec
CONSTANTS
    q1 = q1
    q2 = q2
    Workers = {w1, w2}
    Queues = {q1, q2}
    Subscriptions = {s1, s2, s3}
    Messages = {m1}
    QueueLists <- SingleLists
    SubscriptionLimit <- OneEach
    MessageLimit <- OneEach
    MaxBatch = 1
SYMMETRY InterchangeableQueues
INVARIANTS
    TypeOK
    
CHECK_DEADLOCK FALSE
