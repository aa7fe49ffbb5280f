\* A crash while a delivery is in flight.
SPECIFICATION Spec
CONSTANTS
    m1 = m1
    m2 = m2
    s1 = s1
    s2 = s2
    Workers = {w1}
    Messages = {m1, m2}
    Subscriptions = {s1, s2}
    Routes <- OneEachRoutes
    MaxFaults = 0
    MaxRestarts = 1
INVARIANTS
    InFlightIsProcessed
