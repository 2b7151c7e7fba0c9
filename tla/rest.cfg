SPECIFICATION Spec
CONSTANTS
    Tails <- MCTails
    Documents <- MCDocuments
    Leaves = {"int", "double", "bool"}
    Sizes <- MCSizes
    BufferSizes <- MCBufferSizes
    Word = 65536
INVARIANTS
    RoutesAsAsked
    ParsesTensor
    BinaryPartition
CHECK_DEADLOCK FALSE
