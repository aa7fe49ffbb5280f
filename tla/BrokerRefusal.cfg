\* One worker: a request is refused although every queue has room.
SPECIFICATION Spec
CONSTANTS
    q1 = q1
    q2 = q2
    Workers = {w1}
    Queues = {q1, q2}
    Subscriptions = {s1, s2}
    Messages = {m1}
    QueueLists <- Lists
    SubscriptionLimit <- TwoAndOne
    MessageLimit <- TwoAndOne
    MaxBatch = 1
SYMMETRY Interchangeable
PROPERTIES
    RefusedOnlyAtCapacity
