\* Two workers claim the same state.
SPECIFICATION Spec
CONSTANTS
    m1 = m1
    m2 = m2
    s1 = s1
    s2 = s2
    Workers = {w1, w2}
    Messages = {m1, m2}
    Subscriptions = {s1, s2}
    Routes <- OneEachRoutes
    MaxFaults = 0
    MaxRestarts = 0
CHECK_DEADLOCK FALSE
INVARIANTS
    AttemptsWithinLimit
