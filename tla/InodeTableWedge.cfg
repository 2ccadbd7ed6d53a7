CONSTANTS
    t1 = t1
    t2 = t2
    Threads <- MCThreads
    MaxInodes = 4
    NoThread = NoThread
SYMMETRY MCSymmetry
SPECIFICATION Spec
INVARIANT InodeTableNeverWedged
