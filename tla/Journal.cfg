SPECIFICATION StateSpec
CONSTANTS
    p1 = p1
    p2 = p2
    Procs <- TwoProcs
    Limit = 2
    PerSecond = 1
    MaxSecond = 3
    MaxWrites = 4
    Replays <- ReplayNoneOrOne
    Clients = {h1, h2}
    Sids = {s1, s2}
    Values = {v1}
    Absent = Absent
    Half = Half
    Processes = {m1, m2, m3}
    Keys = {k1, k2, k3}
    EnvSecret = EnvSecret
    NoFile = NoFile
    Cut = Cut
\* The clock and the number of writes are bounded, and nothing is left to do at the end.
CHECK_DEADLOCK FALSE
SYMMETRY Symmetry
INVARIANTS
    TypeOK
    NothingLost
    SentInOrder
    SkipsOnlyTheEnd
    ReportCountsOnce
    KeysAgree
PROPERTY
    KeepsPromise
