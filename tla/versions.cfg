SPECIFICATION FairSpec
CONSTANTS
    DirOrder <- ThreeVersions
    Policies <- TwoPolicies
    Params = {1, 2}
    LoaderStates = {"none", "found", "missing"}
    Refusable = {10}
    Cleanups = {TRUE}
INVARIANTS
    DefaultIsServed
    CleanedWhenServed
PROPERTIES
    RetiresOnlyReplaced
    Converges
