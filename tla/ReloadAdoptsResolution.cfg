SPECIFICATION Spec
CONSTANTS
    s1 = s1
    s2 = s2
    v1 = v1
    v2 = v2
    o1 = o1
    o2 = o2
    Sessions <- TwoSessions
    ViolationSets <- OneSet
    Operators <- OneOperator
    conflictThreshold = 3
    MaxRejections = 4
    Faults <- NoFaults
    Missing = Missing
    Unreadable = Unreadable
    NoSet = NoSet
PROPERTY ReloadAdoptsResolution
