SPECIFICATION PlansSpec
CONSTANTS
    s1 = s1
    s2 = s2
    v1 = v1
    v2 = v2
    o1 = o1
    o2 = o2
    Sessions <- TwoSessions
    ViolationSets <- OneSet
    Operators <- TwoOperators
    conflictThreshold = 3
    MaxRejections = 4
    Faults <- AllButCrash
    Missing = Missing
    Unreadable = Unreadable
    NoSet = NoSet
    fine = fine
    banned = banned
    Paths <- TwoPaths
    Contents <- TwoContents
    Absent = Absent
    Refused <- CorpusDenies
    Plans <- SomePlans
    Tops <- SomeTops
INVARIANTS
    TypeOK
    StopAfterThreshold
    PaperTrail
    GateTypeOK
    ScopeIsNarrow
    StagedVerified
    WorktreeVerified
