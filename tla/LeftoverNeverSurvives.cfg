SPECIFICATION Spec
CONSTANTS
    s1 = s1
    s2 = s2
    w1 = w1
    w2 = w2
    f1 = f1
    f2 = f2
    Sessions <- TwoSessions
    Workers <- TwoWorkers
    SessionOf <- OneEach
    Files <- TwoFiles
    Scopes <- Singletons
    TTL = 1
    MaxTime = 1
    Faults <- NoFaults
    NoSession = NoSession
    NoTicket = NoTicket
    NoEdit = NoEdit
INVARIANT LeftoverNeverSurvives
