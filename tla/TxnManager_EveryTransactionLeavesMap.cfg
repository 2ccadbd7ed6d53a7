CONSTANTS
    MaxTxId = 2
    MaxEntries = 2
    MaxBoots = 2
SPECIFICATION TimedSpec
PROPERTY EveryTransactionLeavesMap
