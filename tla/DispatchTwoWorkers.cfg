\* Two workers.  The process may be lost to undefined behaviour, after which
\* nothing happens any more: a deadlock is no error here.
SPECIFICATION Spec
CONSTANTS
    m1 = m1
    m2 = m2
    s1 = s1
    s2 = s2
    Workers = {w1, w2}
    Messages = {m1, m2}
    Subscriptions = {s1, s2}
    Routes <- RetriedRoutes
    MaxFaults = 0
    MaxRestarts = 0
SYMMETRY WorkerSymmetry
CHECK_DEADLOCK FALSE
INVARIANTS
    MessagesOutliveStates
    NoStrandedPending
    NothingDropped
    GivenUpTripsBreaker
    InFlightIsProcessed
