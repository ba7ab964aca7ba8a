\* An ack issued before a restore arrives after it.
CONSTANTS
    Section = {s1}
    Txn = {t1, t2}
    Handle = {h1}
    MaxReceipts = 2
    MaxPins = 2
    Batch = {{s1}}
    LoadTargets = {"Ready"}
    SessionBound = {"Initialized", "Ready", "Running"}
    AcksOutliveRestore = TRUE
    MaxRevision = 4
    MaxSnapshots = 1
    MaxRestores = 1
    MaxAcks = 1
    None = None
SYMMETRY Symmetry
CHECK_DEADLOCK FALSE
SPECIFICATION Spec
INVARIANTS EvictionFence
