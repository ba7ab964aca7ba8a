\* Two sections, two managers, two budgets; see MCPins for the two bounds.
CONSTANTS
    Section = {s1, s2}
    Budget <- MCBudget
    MaxPin = 2
    Txn = {t1}
    Handle = {h1}
    MaxReceipts = 1
    MaxPins = 2
    Batch = {{s1}}
    LoadTargets = {"Ready"}
    SessionBound = {"Initialized", "Ready", "Running"}
    AcksOutliveRestore = FALSE
    MaxRevision = 4
    MaxSnapshots = 0
    MaxRestores = 0
    MaxAcks = 1
    None = None
CHECK_DEADLOCK FALSE
SPECIFICATION MCSpec
INVARIANTS PinsTyped WithinBudgets PromiseKept
PROPERTIES PinnedStaysResident
