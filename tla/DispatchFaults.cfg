\* One worker; two repository calls may fail and the process may be restarted once.
SPECIFICATION Spec
CONSTANTS
    m1 = m1
    m2 = m2
    s1 = s1
    s2 = s2
    Workers = {w1}
    Messages = {m1, m2}
    Subscriptions = {s1, s2}
    Routes <- RetriedRoutes
    MaxFaults = 2
    MaxRestarts = 1
INVARIANTS
    TypeOK
    MessagesOutliveStates
    AttemptsWithinLimit
    BreakerHasCause
    DropsWithinFaults
    NoUndefinedBehaviour
PROPERTIES
    AnsweredOnce
