SPECIFICATION Spec
CONSTANTS
    c1 = c1
    c2 = c2
    n1 = n1
    n2 = n2
    good = good
    better = better
    broken = broken
    Calls <- OneCall
    Names <- TwoNames
    NumRoots = 2
    Contents <- AllContents
    Compiling <- Good
    MaxEdits = 0
    MaxRestarts = 1
    Faults <- NoFaults
    Absent = Absent
    NoSkill = NoSkill
    Readings <- BothReadings
INVARIANT InstalledSkillsApply
