CONSTANTS
    t1 = t1
    t2 = t2
    Threads <- MCThreads
    MaxRetries = 2
    Threshold = 2
    MaxCalls = 2
    ErrorTypes <- MCErrorTypes
SPECIFICATION Spec
PROPERTY OpensOnlyAtThreshold
