CONSTANTS
    t1 = t1
    t2 = t2
    Threads <- MCThreads
    TotalBlocks = 5
    MaxCount = 3
    NoThread = NoThread
SYMMETRY MCSymmetry
SPECIFICATION Spec
INVARIANT TypeOK
INVARIANT NoDoubleAllocation
INVARIANT SuperblockReserved
INVARIANT NoLeakedBlocks
PROPERTY AllocationReturnsFreshBlocks
