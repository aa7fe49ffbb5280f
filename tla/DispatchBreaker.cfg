\* Deliveries recorded before the circuit breaker tripped.
SPECIFICATION Spec
CONSTANTS
    m1 = m1
    m2 = m2
    s1 = s1
    s2 = s2
    Workers = {w1}
    Messages = {m1, m2}
    Subscriptions = {s1, s2}
    Routes <- RetriedRoutes
    MaxFaults = 0
    MaxRestarts = 0
PROPERTIES
    QuietAfterBreaker
