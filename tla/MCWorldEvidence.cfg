\* Two tokens of one transaction, the second prepared after an abort.
CONSTANTS
    Section = {s1}
    Txn = {t1}
    Handle = {h1, h2}
    MaxReceipts = 2
    MaxPins = 2
    Batch = {{s1}}
    LoadTargets = {"Ready"}
    SessionBound = {"Initialized", "Ready", "Running"}
    AcksOutliveRestore = FALSE
    MaxRevision = 3
    MaxSnapshots = 0
    MaxRestores = 0
    MaxAcks = 0
    None = None
SYMMETRY Symmetry
CHECK_DEADLOCK FALSE
SPECIFICATION Spec
INVARIANTS AnswersAgree
