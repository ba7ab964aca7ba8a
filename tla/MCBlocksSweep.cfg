\* What a sweep tells of the face it meets.
CONSTANTS
    Cell = {c1, c2}
    Block = {plain, chest}
    EntityId = {e1, e2}
    EntityType = {chestType, otherType}
    TypeFor <- MCTypeFor
    Holder = {h1, h2}
    CommitId = {1}
    MaxStaged <- MCMax
    Offered <- MCOffered
    None = None
    Gone = Gone
    plain = plain
    chest = chest
    chestType = chestType
    otherType = otherType
    h1 = h1
    h2 = h2
    RowName = {"a", "b", "z"}
    Retired = {"z"}
    Room = {r1, r2}
    Builtins = {0}
    FirstOfficial = 2
    ScopeMask = 4
    StateBits = 4
    Layouts <- MCLayouts
    MaxRows = 2
    Nothing = Nothing
    Extent = 2
    SectionYMax = 1
    CoordMax = 1
    MaxCells = 8
    Absent = Absent
    Unit = 2
    Ticks = 4
    ClassOf <- MCClassOf
    Air = 0
SYMMETRY Symmetry
CHECK_DEADLOCK FALSE
SPECIFICATION MCSpec
INVARIANTS SweepNormals
