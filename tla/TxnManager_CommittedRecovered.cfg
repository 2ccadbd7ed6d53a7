CONSTANTS
    MaxTxId = 2
    MaxEntries = 2
    MaxBoots = 3
SPECIFICATION Spec
INVARIANT CommittedRecovered
