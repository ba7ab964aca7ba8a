\* Every history of writes, full payloads and deltas of a four-cell section.
CONSTANTS
    Block = {b1, b2, b3}
    CellCount = 4
    Capacity = 2
    Wire <- MCWire
SYMMETRY Symmetry
SPECIFICATION Spec
INVARIANTS TypeOK RawOnlyWhenFull PayloadAccepted PeerAgrees
PROPERTIES ImplementsArray
