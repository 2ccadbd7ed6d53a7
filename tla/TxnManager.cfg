CONSTANTS
    MaxTxId = 2
    MaxEntries = 2
    MaxBoots = 2
SPECIFICATION Spec
INVARIANT TypeOK
INVARIANT CommittedAllButLastDurable
