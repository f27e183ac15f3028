SPECIFICATION Spec
CONSTANT MaxFaults = 1
CONSTANTS
    Inums = {1, 2, 3}
    DataBlocks = {9, 10, 11, 12}
    LOGBLOCKS = 4
    Names = {"a", "b"}
    MaxOps = 0
    MaxCrashes = 1
INVARIANT DigestCoversFiles
CHECK_DEADLOCK FALSE
