SPECIFICATION Spec
CONSTANTS
    Bodies <- ABody
    Changes <- AChange
    Selections <- BothTags
    Lower <- Lowered
    KeyPattern = {"q1", "Q1", "q2", "s1", "s2"}
    Numbers = {"5", "100"}
    Endpoints = {"http://a"}
    Default = "100"
    From <- FromOf
    SizeMax = 9
    MaxRows = 4
INVARIANTS
    FiltersAsDocumented
CHECK_DEADLOCK FALSE
