\* Requests one at a time against a definition of what they should do.  After
\* undefined behaviour nothing follows: no check for deadlock.
SPECIFICATION Spec
CONSTANTS
    Bodies <- ABody
    Changes <- AChange
    Selections <- ASelection
    Lower <- Lowered
    KeyPattern = {"q1", "Q1", "q2", "s1", "s2"}
    Numbers = {"5", "100"}
    Endpoints = {"http://a"}
    Default = "100"
    From <- FromOf
    SizeMax = 9
    MaxRows = 4
INVARIANTS
    TypeOK
    ReadIsExact
    PublishReachesNamed
    UndefinedHasCause
PROPERTIES
    KeysTakenOnce
    RefusedChangesNothing
    UpdateIsLocal
    NoContentChangesNothing
    DeleteIsExact
    StoredStaysUsable
CHECK_DEADLOCK FALSE
