SPECIFICATION FairSpec
CONSTANTS
    p1 = p1
    p2 = p2
    b1 = b1
    b2 = b2
    dirA = dirA
    dirB = dirB
    nchw = nchw
    nhwc = nhwc
    loaderX = loaderX
    loaderY = loaderY
    AutoBatch = AutoBatch
    None = None
    Predicts = {p1, p2}
    Batches = {b1, b2}
    Native = b1
    Configs <- Varied
    Paths = {dirA, dirB}
    IRPaths = {dirA, dirB}
    Layouts = {nchw, nhwc}
    Loaders = {loaderX, loaderY}
    Checkpoints = 1
    LoadsMayFail = TRUE
INVARIANTS
    NoUseWhileLoading
    InferenceFitsModel
    AvailableIsComplete
PROPERTIES
    Progress
