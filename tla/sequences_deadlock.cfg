SPECIFICATION Spec
CONSTANTS
    r1 = r1
    r2 = r2
    r3 = r3
    i1 = i1
    i2 = i2
    i3 = i3
    Requests = {r1, r2, r3}
    Streams = {i1}
    MaxSequenceId = 3
    MaxSequenceNumber = 2
    MaxInferences = 2
    Cleaner = Cleaner
    None = None
SYMMETRY RequestSymmetry
INVARIANTS
    NoCircularWait
