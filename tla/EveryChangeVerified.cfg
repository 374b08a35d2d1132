SPECIFICATION GateSpec
CONSTANTS
    fine = fine
    banned = banned
    Paths <- TwoPaths
    Contents <- TwoContents
    Absent = Absent
    Refused <- CorpusDenies
    Plans <- SomePlans
    Tops <- SomeTops
INVARIANT EveryChangeVerified
