CONSTANTS
    t1 = t1
    t2 = t2
    c1 = c1
    c2 = c2
    Threads <- MCThreads
    Clients <- MCClients
    Burst = 2
    Rps = 1
    Window = 1
    PerClient = TRUE
    MaxTime = 3
    MaxRequests = 4
    MaxDestroy = 2
    NoLimiter = NoLimiter
SYMMETRY MCSymmetry
SPECIFICATION Spec
INVARIANT TypeOK
INVARIANT TokenBound
INVARIANT StatsBalanced
