SPECIFICATION Spec
CONSTANT MaxFaults = 2
CONSTANTS
    Inums = {1, 2, 3}
    DataBlocks = {9, 10, 11, 12}
    LOGBLOCKS = 4
    Names = {"a", "b"}
    MaxOps = 4
    MaxCrashes = 1
INVARIANTS
    NothingLeftBehind
    ReportTruthful
    PassIsEarned
    FailuresStillReverse
    OnlyOrphansFound
    DamageDiagnosed
    CleanIsSound
    
PROPERTIES
    CallEnds
    RunEnds
    ExperimentEnds
CHECK_DEADLOCK FALSE
