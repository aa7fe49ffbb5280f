\* One worker (the default), a healthy repository, no restart.
SPECIFICATION FairSpec
CONSTANTS
    m1 = m1
    m2 = m2
    s1 = s1
    s2 = s2
    Workers = {w1}
    Messages = {m1, m2}
    Subscriptions = {s1, s2}
    Routes <- RetriedRoutes
    MaxFaults = 0
    MaxRestarts = 0
INVARIANTS
    NoStrandedPending
    FirstAttemptsInOrder
PROPERTIES
    ImplementsDelivery
    EveryKeyCloses
