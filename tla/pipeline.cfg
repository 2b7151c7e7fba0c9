SPECIFICATION ExecutionSpec
CONSTANTS
    Graphs <- MCGraphs
    Streams = 1
    DEMULTIPLY_LIMIT = 2
    MaxShards = 3
INVARIANTS
    DeliversComposition
    ValidationIsExact
    GivesBackInTime
PROPERTIES
    Terminates
