CONSTANTS
    c1 = c1
    c2 = c2
    s1 = s1
    s2 = s2
    len = len
    Chans <- MCChans
    Segs <- MCSegs
    LengthName = len
    MaxTimers = 2
    FaultyCalls = {}
SYMMETRY NameSymmetry
SPECIFICATION Spec
INVARIANT NoOrphanTimerFires
