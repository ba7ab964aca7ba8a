\* Two threads and three publications: every overlap of captures, publications
\* and drops, with a pin budget that refuses a seal while an old cut is held.
CONSTANTS
    Thread = {t1, t2}
    Self = Self
    Other = Other
    Owner <- MCOwner
    b1 = b1
    Body = {b1}
    Revision = {0, 1}
    InitRoot <- MCInitRoot
    ForeignTokens <- MCForeignTokens
    MaxPins = 3
    MaxTokens = 3
    None = None
SPECIFICATION FairSpec
INVARIANTS TypeOK NoTornView RefsExact
PROPERTIES ImplementsRegister  PinReclaimed
