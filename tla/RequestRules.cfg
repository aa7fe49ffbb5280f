\* One request from its arrival to its reply.  A request that is closed is the
\* end: no check for deadlock.
SPECIFICATION Spec
CONSTANT Requests <- ARequest
INVARIANTS
    TypeOK
    ReadsOnlyWhatIsSet
    RepliedOnce
    AnswerHasCause
    RefusedStoresNothing
PROPERTIES
    EveryRequestAnswered
CHECK_DEADLOCK FALSE
