SPECIFICATION Spec
CONSTANTS
    Requests = {r1}
    Names = {"a", "b"}
    Versions = {1}
    MaxGeneration <- MCMaxGeneration
    Accepts <- MCAccepts
INVARIANTS
    CountedOnce
    FindsWhatWasThere
    OneGeneration
PROPERTIES
    Progress
CHECK_DEADLOCK FALSE
