\* Two cells, three revisions, entries that write a cell twice, three messages.
CONSTANTS
    b1 = b1
    b2 = b2
    CellCount = 2
    Block = {b1, b2}
    Loaded <- MCLoaded
    MaxRevision = 3
    MaxEntries = 2
    Batches <- MCBatches
    MaxInFlight = 3
    None = None
SPECIFICATION FairSpec
INVARIANTS TypeOK NoMixing
PROPERTIES NoRollback LastSubmittedWins Converges
