SPECIFICATION FairSpec
CONSTANTS
    q1 = q1
    q2 = q2
    mA = mA
    mB = mB
    n1 = n1
    None = None
    Requests = {q1}
    Checkpoints = 1
    Metas = {mA, mB}
    CustomNodes = {n1}
    Configs <- TwoDefinitions
INVARIANTS
    CreatesFromWhole
    AvailableIsValidated
PROPERTIES
    Progress
