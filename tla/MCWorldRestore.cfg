\* One section: restores of earlier snapshots, unloads and reloads, late and
\* repeated acks, aborts and retries, captures that hold the pin table full, a
\* full ledger, every session state, shutdown and faults at any moment.
CONSTANTS
    Section = {s1}
    Txn = {t1, t2, t3}
    Handle = {h1}
    MaxReceipts = 2
    MaxPins = 2
    Batch = {{s1}}
    LoadTargets = {"Pending", "Ready", "Unavailable", "Unchanged"}
    SessionBound = {"Initialized", "Ready", "Running", "Paused", "Draining", "Snapshotted", "Disposed"}
    AcksOutliveRestore = FALSE
    MaxRevision = 4
    MaxSnapshots = 1
    MaxRestores = 2
    MaxAcks = 1
    None = None
SYMMETRY Symmetry
CHECK_DEADLOCK FALSE
SPECIFICATION Spec
INVARIANTS TypeOK AtMostOnce NoLostWrite
PROPERTIES ReceiptsForever NoWriteAfterDrain
