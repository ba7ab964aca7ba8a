---------------------------- MODULE BlockStorage ----------------------------
(***************************************************************************)
(* The blocks of one section in three encodings: Uniform, Palette with a   *)
(* bounded table, Raw.  A writer changes `storage` cell by cell; a second  *)
(* holder of the section follows it by full payloads and by deltas, so its *)
(* `peer` storage reaches the same cells along another history of palette  *)
(* slots.  A wire payload has the shape of a storage; the digest and the   *)
(* length of its bytes are checked before and are not modelled.            *)
(***************************************************************************)
EXTENDS Naturals, FiniteSets

CONSTANTS
    Block,
    CellCount,      \* SECTION_CELLS
    Capacity,       \* PALETTE_MAX_ENTRIES
    Wire            \* bound: payloads that arrive from elsewhere

Cell == 0..(CellCount - 1)
Slot == 0..(Capacity - 1)
Cells == [Cell -> Block]

Uniform(b) == [kind |-> "Uniform", block |-> b]
Palette(entries, index) == [kind |-> "Palette", entries |-> entries, index |-> index]
Raw(f) == [kind |-> "Raw", cells |-> f]

Table(n) == [0..(n - 1) -> Block]
PalettesOf(n) == {Palette(e, i) : e \in Table(n), i \in [Cell -> 0..(n - 1)]}
Palettes == UNION {PalettesOf(n) : n \in 2..Capacity}
Storage == {Uniform(b) : b \in Block} \cup Palettes \cup {Raw(f) : f \in Cells}

ASSUME StorageAssumption ==
    /\ CellCount \in Nat \ {0} /\ Capacity \in Nat /\ Capacity >= 2
    /\ Block # {}
    /\ \A p \in Wire :
          \/ \E b \in Block : p = Uniform(b)
          \/ p.kind = "Palette" /\ p.index \in [Cell -> Nat] /\ p.entries \in [DOMAIN p.entries -> Block]
          \/ \E f \in Cells : p = Raw(f)

ReadCell(s, c) ==
    CASE s.kind = "Uniform" -> s.block
      [] s.kind = "Palette" -> s.entries[s.index[c]]
      [] s.kind = "Raw" -> s.cells[c]

Contents(s) == [c \in Cell |-> ReadCell(s, c)]

----------------------------------------------------------------------------
(* The encoding chosen for given cells: table entries in the order of      *)
(* their first cell, Raw only if they do not fit.                          *)

Kinds(f) == {f[c] : c \in Cell}
FirstCell(f, b) == CHOOSE c \in Cell : f[c] = b /\ \A d \in Cell : d < c => f[d] # b
Place(f, b) == Cardinality({a \in Kinds(f) : FirstCell(f, a) < FirstCell(f, b)})

PaletteOf(f) ==
    Palette([i \in 0..(Cardinality(Kinds(f)) - 1) |-> CHOOSE b \in Kinds(f) : Place(f, b) = i],
            [c \in Cell |-> Place(f, f[c])])

Optimal(f) ==
    IF Cardinality(Kinds(f)) = 1 THEN Uniform(f[0])
    ELSE IF Cardinality(Kinds(f)) <= Capacity THEN PaletteOf(f)
    ELSE Raw(f)

----------------------------------------------------------------------------
(* Writing a cell.                                                         *)

TableSize(p) == Cardinality(DOMAIN p.entries)

(* Mutant: one entry too many.                                             *)
RoomOffByOne(p) == TableSize(p) <= Capacity

Room(p) == TableSize(p) < Capacity

(* Mutant: the written cell's own slot is taken without a scan.            *)
NoScan(p, c) == {}

LiveSlots(p, c) == {p.index[d] : d \in Cell \ {c}}
DeadSlots(p, c) == Slot \ LiveSlots(p, c)

(* The cell's old slot if nothing else uses it, else the first dead slot.  *)
ReusedSlot(p, c) ==
    IF p.index[c] \in DeadSlots(p, c) THEN p.index[c]
    ELSE CHOOSE k \in DeadSlots(p, c) : \A j \in DeadSlots(p, c) : k <= j

SetSlot(p, c, k, b) ==
    Palette([j \in DOMAIN p.entries \cup {k} |-> IF j = k THEN b ELSE p.entries[j]],
            [p.index EXCEPT ![c] = k])

WritePalette(p, c, b) ==
    IF \E k \in DOMAIN p.entries : p.entries[k] = b
    THEN Palette(p.entries,
                 [p.index EXCEPT ![c] = CHOOSE k \in DOMAIN p.entries : p.entries[k] = b])
    ELSE IF Room(p) THEN SetSlot(p, c, TableSize(p), b)
    ELSE IF DeadSlots(p, c) # {} THEN SetSlot(p, c, ReusedSlot(p, c), b)
    ELSE Raw([Contents(p) EXCEPT ![c] = b])

(* Mutant: a Raw storage stays Raw.                                        *)
WriteRawKept(s, c, b) == Raw([s.cells EXCEPT ![c] = b])

WriteRaw(s, c, b) == Optimal([s.cells EXCEPT ![c] = b])

WriteUniform(s, c, b) ==
    Palette([k \in 0..1 |-> IF k = 0 THEN s.block ELSE b],
            [d \in Cell |-> IF d = c THEN 1 ELSE 0])

WriteCell(s, c, b) ==
    CASE ReadCell(s, c) = b -> s
      [] ReadCell(s, c) # b /\ s.kind = "Uniform" -> WriteUniform(s, c, b)
      [] ReadCell(s, c) # b /\ s.kind = "Palette" -> WritePalette(s, c, b)
      [] ReadCell(s, c) # b /\ s.kind = "Raw" -> WriteRaw(s, c, b)

----------------------------------------------------------------------------
(* Payloads.                                                               *)

(* Mutant: the payload is the storage as it is, dead entries included.     *)
PayloadUncompacted(s) == s

Payload(s) == Optimal(Contents(s))

WellFormed(p) ==
    \/ p.kind = "Uniform"
    \/ /\ p.kind = "Palette"
       /\ TableSize(p) \in 2..Capacity
       /\ \A j, k \in DOMAIN p.entries : p.entries[j] = p.entries[k] => j = k
       /\ {p.index[c] : c \in Cell} = DOMAIN p.entries
    \/ p.kind = "Raw"

(* The decoded cells must themselves ask for the encoding they came in.    *)
Accepts(p) == WellFormed(p) /\ Optimal(Contents(p)).kind = p.kind

Decode(p) == Optimal(Contents(p))

----------------------------------------------------------------------------

VARIABLES
    storage,    \* the writer's storage
    peer,       \* the follower's storage
    pending,    \* cells written since the follower was up to date
    applying    \* the follower is in the loop of apply_delta

vars == <<storage, peer, pending, applying>>

NoChange == [c \in {} |-> CHOOSE b \in Block : TRUE]

Init ==
    /\ \E b \in Block : storage = Uniform(b) /\ peer = Uniform(b)
    /\ pending = NoChange /\ applying = FALSE

(* Mutant: of several writes to a cell the delta keeps the first.          *)
WriteFirstWins(c, b) ==
    /\ ~applying
    /\ storage' = WriteCell(storage, c, b)
    /\ pending' = [d \in DOMAIN pending \cup {c} |-> IF d \in DOMAIN pending THEN pending[d] ELSE b]
    /\ UNCHANGED <<peer, applying>>

Write(c, b) ==
    /\ ~applying
    /\ storage' = WriteCell(storage, c, b)
    /\ pending' = [d \in DOMAIN pending \cup {c} |-> IF d = c THEN b ELSE pending[d]]
    /\ UNCHANGED <<peer, applying>>

SendFull ==
    /\ ~applying
    /\ Accepts(Payload(storage))
    /\ peer' = Decode(Payload(storage))
    /\ pending' = NoChange
    /\ UNCHANGED <<storage, applying>>

(* The entries of a delta are written one by one in the order of offsets.  *)
SendDelta ==
    /\ ~applying
    /\ pending # NoChange
    /\ applying' = TRUE
    /\ UNCHANGED <<storage, peer, pending>>

ApplyEntry(c) ==
    /\ applying
    /\ c \in DOMAIN pending /\ \A d \in DOMAIN pending : c <= d
    /\ peer' = WriteCell(peer, c, pending[c])
    /\ pending' = [d \in DOMAIN pending \ {c} |-> pending[d]]
    /\ applying' = (DOMAIN pending # {c})
    /\ UNCHANGED storage

(* A payload from elsewhere replaces both; a refused one changes nothing.  *)
Load(p) ==
    /\ ~applying
    /\ Accepts(p)
    /\ storage' = Decode(p) /\ peer' = Decode(p)
    /\ pending' = NoChange
    /\ UNCHANGED applying

Next ==
    \/ \E c \in Cell : ApplyEntry(c) \/ \E b \in Block : Write(c, b)
    \/ SendFull \/ SendDelta
    \/ \E p \in Wire : Load(p)

Spec == Init /\ [][Next]_vars

----------------------------------------------------------------------------

(* Storage and peer have a legal shape: a table of at least two different  *)
(* entries within the capacity, and indices inside it.                     *)
Distinct(s) ==
    s.kind = "Palette" => \A j, k \in DOMAIN s.entries : s.entries[j] = s.entries[k] => j = k

TypeOK ==
    /\ storage \in Storage /\ peer \in Storage
    /\ pending \in UNION {[S -> Block] : S \in SUBSET Cell}
    /\ applying \in BOOLEAN /\ (applying => pending # NoChange)
    /\ Distinct(storage) /\ Distinct(peer)

(* Raw is used only by cells that no palette can hold: section storage     *)
(* comes back from Raw as soon as it can.                                  *)
RawOnlyWhenFull ==
    storage.kind = "Raw" => Cardinality(Kinds(Contents(storage))) > Capacity

(* Whatever dead slots the writes have left behind, the writer's own full  *)
(* payload is one that every decoder accepts, and it decodes to its cells. *)
PayloadAccepted ==
    /\ Accepts(Payload(storage))
    /\ Contents(Decode(Payload(storage))) = Contents(storage)

(* A follower that is up to date has the same canonical payload, and so    *)
(* the same digest, though its palette has another history.                *)
PeerAgrees == pending = NoChange => Payload(peer) = Payload(storage)

(* Writer and follower are arrays of blocks, in whatever encoding: a step  *)
(* of either changes one cell of it, or brings the follower up to date.    *)
Array == INSTANCE CellArray WITH cells <- Contents(storage), copy <- Contents(peer)
ImplementsArray == Array!Spec
=============================================================================
