\* Two places for worlds, two generations, one call in flight.
CONSTANTS
    Slot = {a, b}
    Name = {n}
    Txn = {t}
    MaxGeneration = 3
    SinkCapacity = 3
    MaxCalls = 1
    None = None
SYMMETRY MCSymmetry
SPECIFICATION Spec
INVARIANTS TypeOK OnlyOwnCalls EventsInOrder
PROPERTIES NeverReissued
CHECK_DEADLOCK FALSE
