SPECIFICATION FairSpec
CONSTANTS
    r1 = r1
    r2 = r2
    r3 = r3
    i1 = i1
    i2 = i2
    i3 = i3
    Requests = {r1, r2}
    Streams = {i1, i2}
    MaxSequenceId = 3
    MaxSequenceNumber = 1
    MaxInferences = 2
    Cleaner = Cleaner
    None = None
INVARIANTS
    ReferencesAreGood
    ContinuesItsSequence
    StuckOnlyForStreams
PROPERTIES
    AbandonedIsRemoved
