SPECIFICATION Spec
CONSTANTS
    c1 = c1
    c2 = c2
    n1 = n1
    n2 = n2
    good = good
    better = better
    broken = broken
    Calls <- TwoCalls
    Names <- OneName
    NumRoots = 2
    Contents <- AllContents
    Compiling <- Good
    MaxEdits = 1
    MaxRestarts = 1
    Faults <- AllFaults
    Absent = Absent
    NoSkill = NoSkill
    Readings <- BothReadings
INVARIANTS
    TypeOK
    SecondUnknownMeansMissing
    InstalledWhenTrusted
PROPERTY
    CallsEnd
