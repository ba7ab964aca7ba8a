\* One pinned section and a restore.
CONSTANTS
    Section = {s1}
    Budget <- MCOneSection
    MaxPin = 1
    Txn = {}
    Handle = {}
    MaxReceipts = 1
    MaxPins = 2
    Batch = {}
    LoadTargets = {"Pending", "Ready"}
    SessionBound = {"Initialized", "Ready", "Running"}
    AcksOutliveRestore = FALSE
    MaxRevision = 4
    MaxSnapshots = 1
    MaxRestores = 1
    MaxAcks = 0
    None = None
CHECK_DEADLOCK FALSE
SPECIFICATION PinnedSpec
INVARIANTS AlwaysDefinite
