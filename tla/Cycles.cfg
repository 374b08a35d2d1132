SPECIFICATION PartsSpec
CONSTANTS
    a = a
    b = b
    c = c
    Ids <- ThreeIds
    MaxSteps = 3
    own = own
    other = other
    fine = fine
    banned = banned
    Sessions = {own, other}
    NoSession = NoSession
    NoTicket = NoTicket
    NoPath = NoPath
    NoText = NoText
    Hooks <- SomeHooks
    Scopes <- SomeScopes
    Denied <- Corpus
    ToolNames <- OtherTools
    ProjectDir <- Project
    PlansDir <- HomePlans
    strict = strict
    broken = broken
    near = near
    far = far
    mine = mine
    theirs = theirs
    x = x
    y = y
    SkillNames = {near, far}
    NoSkill = NoSkill
    Owners = {mine, theirs}
    Policies = {strict, broken}
    TierZero = TierZero
    Inputs = {x, y}
    Says <- TwoSay
    Packages <- SomePackages
    Calls <- SomeCalls
    AllowWideScope = FALSE
    MaxUploads = 2
    Services <- SomeServices
    Catalogs <- SomeCatalogs
    Rankings <- SomeRankings
    Requests <- SomeRequests
    Events <- SomeEvents
    MaxEvents = 3
    Reported <- ReportedSessions
CHECK_DEADLOCK FALSE
INVARIANTS
    TypeOK
    AcceptsExactly
    GuardFailsClosed
    VerdictTold
    PoliciesBind
    NoForeignObjection
    Sanctioned
    ReportSays
PROPERTY
    AlwaysDecides
