\* Batches over two sections, no restore.
CONSTANTS
    Section = {s1, s2}
    Txn = {t1, t2}
    Handle = {h1, h2}
    MaxReceipts = 2
    MaxPins = 2
    Batch = {{s1, s2}}
    LoadTargets = {"Ready"}
    SessionBound = {"Initialized", "Ready", "Running"}
    AcksOutliveRestore = FALSE
    MaxRevision = 4
    MaxSnapshots = 0
    MaxRestores = 0
    MaxAcks = 1
    None = None
SYMMETRY Symmetry
CHECK_DEADLOCK FALSE
SPECIFICATION Spec
INVARIANTS AtomicCuts RevisionNamesContent ReceiptsAgree
PROPERTIES RevisionsAdvance
