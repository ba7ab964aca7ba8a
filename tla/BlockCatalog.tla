---------------------------- MODULE BlockCatalog ----------------------------
(***************************************************************************)
(* Block types: the official catalog, the catalogs of rooms and what one   *)
(* room imports from another; block ids, and the state fields in them.     *)
(*                                                                         *)
(* A type is a number: below ScopeMask it is global, from there on local   *)
(* to a room.  The widths of the code (24 bits of type, 8 bits of state)   *)
(* are constants.  A row is complete or is refused before anything is      *)
(* looked up; its layout stands for its material, template and asset too.  *)
(***************************************************************************)
EXTENDS Naturals, Sequences, FiniteSets

CONSTANTS
    RowName, Retired,         \* names, and those of them that are retired
    Room,
    Builtins,       \* BUILTIN_BLOCK_TYPES
    FirstOfficial,  \* SYSTEM_RESERVED_TYPE_MAX + 1
    ScopeMask,      \* BLOCK_TYPE_SCOPE_MASK; types go up to 2 * ScopeMask - 1
    StateBits,      \* BLOCK_STATE_BITS
    Layouts,        \* bound: layouts the rows declare, sequences of widths
    MaxRows,        \* bound: rows of a catalog
    Nothing         \* no definition

(* Built-ins are reserved types and reserved types are global.  A room's   *)
(* rows are so few that an index or-ed into the scope bit is added to it.  *)
ASSUME CatalogAssumption ==
    /\ FirstOfficial \in Nat /\ ScopeMask \in Nat /\ FirstOfficial <= ScopeMask
    /\ Builtins \subseteq 0 .. FirstOfficial - 1
    /\ MaxRows \in 0 .. ScopeMask
    /\ StateBits \in Nat /\ Layouts \subseteq Seq(Nat)

Type == 0 .. 2 * ScopeMask - 1

VARIABLES
    official,   \* OfficialCatalog.rows from FirstOfficial on
    rooms,      \* Room -> RoomLocalCatalog.rows
    handed,     \* history: types given out, where and for which definition
    cell        \* a cell's block id, its room, and what was last written to
                \* each of its fields

catalogVars == <<official, rooms, handed, cell>>

NoCell == [room |-> Nothing, type |-> 0, state |-> 0, layout |-> <<>>, written |-> <<>>]

CatalogInit ==
    /\ official = <<>>
    /\ rooms = [r \in Room |-> <<>>]
    /\ handed = {}
    /\ cell = NoCell

----------------------------------------------------------------------------
(* Fields of a block's state.                                              *)

WidthOf(layout) == LET sum[i \in 0..Len(layout)] == IF i = 0 THEN 0 ELSE sum[i - 1] + layout[i]
                   IN  sum[Len(layout)]

(* StateLayout::new.                                                       *)
LayoutFits(layout) == (\A i \in 1..Len(layout) : layout[i] > 0) /\ WidthOf(layout) <= StateBits

(* A definition has a layout that StateLayout::new made.                   *)
Definition == [name : RowName, layout : {layout \in Layouts : LayoutFits(layout)}]

Offset(layout, i) == WidthOf(SubSeq(layout, 1, i - 1))

(* 1 << n.                                                                 *)
Pow2[n \in Nat] == IF n = 0 THEN 1 ELSE 2 * Pow2[n - 1]

(* (state >> offset) & mask.                                               *)
ReadField(layout, state, i) == (state \div Pow2[Offset(layout, i)]) % Pow2[layout[i]]

(* Mutant: the old value of the field is not masked out.                   *)
WriteFieldUnmasked(layout, state, i, v) == (state + v * Pow2[Offset(layout, i)]) % Pow2[StateBits]

(* (state & ~(mask << offset)) | (value << offset).                        *)
WriteField(layout, state, i, v) ==
    state - ReadField(layout, state, i) * Pow2[Offset(layout, i)] + v * Pow2[Offset(layout, i)]

----------------------------------------------------------------------------
(* Catalogs.                                                               *)

IsLocal(t) == t >= ScopeMask
NamesIn(rows) == {rows[i].name : i \in 1..Len(rows)}

(* Mutant: a row the room has under this name is taken for the new one.    *)
RoomTypeByName(rows, d) ==
    ScopeMask + (IF \E i \in 1..Len(rows) : rows[i].name = d.name
                 THEN (CHOOSE i \in 1..Len(rows) : rows[i].name = d.name) - 1
                 ELSE Len(rows))

(* RoomLocalCatalog::register: the next index, whatever its name.          *)
RoomType(rows, d) == ScopeMask + Len(rows)

(* get of either catalog, and resolve_ordinary over both.                  *)
Row(rows, i) == IF i < Len(rows) THEN rows[i + 1] ELSE Nothing

Resolve(r, t) ==
    IF t \in Builtins THEN Nothing
    ELSE IF IsLocal(t) THEN Row(rooms[r], t - ScopeMask)
    ELSE IF t < FirstOfficial THEN Nothing
    ELSE Row(official, t - FirstOfficial)

(* OfficialCatalog::register: the type in the row must be the next one.    *)
RegisterOfficial(t, d) ==
    /\ Len(official) < MaxRows
    /\ t >= FirstOfficial /\ ~IsLocal(t)
    /\ t = FirstOfficial + Len(official)
    /\ d.name \notin Retired \cup NamesIn(official)
    /\ official' = Append(official, d)
    /\ handed' = handed \cup {[room |-> r, type |-> t, is |-> d] : r \in Room}
    /\ UNCHANGED <<rooms, cell>>

(* A row of a player's, refused if it brings a behavior of its own.        *)
RegisterLocal(r, d) ==
    /\ Len(rooms[r]) < MaxRows
    /\ rooms' = [rooms EXCEPT ![r] = Append(@, d)]
    /\ handed' = handed \cup {[room |-> r, type |-> RoomType(rooms[r], d), is |-> d]}
    /\ UNCHANGED <<official, cell>>

(* import_from registers the rows of another room, or of the same one, in  *)
(* a staged copy; the caller gets the pairs of old and new types.          *)
Staged(r, from, n) == rooms[r] \o SubSeq(rooms[from], 1, n)
Remap(r, from) ==
    {<<ScopeMask + n - 1, RoomType(Staged(r, from, n - 1), rooms[from][n])>>
        : n \in 1..Len(rooms[from])}

Import(r, from) ==
    /\ Len(rooms[r]) + Len(rooms[from]) <= MaxRows
    /\ rooms' = [rooms EXCEPT ![r] = Staged(r, from, Len(rooms[from]))]
    /\ handed' = handed \cup {[room |-> r, type |-> m[2], is |-> Resolve(from, m[1])]
                                : m \in Remap(r, from)}
    /\ UNCHANGED <<official, cell>>

(* A block of a resolved type is placed in a room, its state at zero.      *)
PlaceBlock(r, t) ==
    /\ cell = NoCell
    /\ Resolve(r, t) # Nothing
    /\ LET layout == Resolve(r, t).layout IN
       cell' = [room |-> r, type |-> t, state |-> 0, layout |-> layout,
                written |-> [i \in 1..Len(layout) |-> 0]]
    /\ UNCHANGED <<official, rooms, handed>>

(* StateLayout::write by the layout that its type resolves to; a value too *)
(* large for the field is refused.                                         *)
SetField(i, v) ==
    /\ i \in 1..Len(cell.layout)
    /\ LET layout == Resolve(cell.room, cell.type).layout IN
       /\ v < Pow2[layout[i]]
       /\ cell' = [cell EXCEPT !.state = WriteField(layout, @, i, v), !.written[i] = v]
    /\ UNCHANGED <<official, rooms, handed>>

CatalogNext ==
    \/ \E t \in Type, d \in Definition : RegisterOfficial(t, d)
    \/ \E r \in Room, d \in Definition : RegisterLocal(r, d)
    \/ \E r, from \in Room : Import(r, from)
    \/ \E r \in Room, t \in Type : PlaceBlock(r, t)
    \/ \E i \in 1..StateBits, v \in 0..Pow2[StateBits] - 1 : SetField(i, v)

CatalogSpec == CatalogInit /\ [][CatalogNext]_catalogVars

----------------------------------------------------------------------------
(* Properties.                                                             *)

(* A block keeps its meaning: every type a registration or an import has   *)
(* ever handed out still resolves to the definition it was handed out for, *)
(* whatever was registered or imported since, under whichever names; it is *)
(* neither a built-in nor a reserved type.                                 *)
TypesKeepMeaning ==
    \A h \in handed :
        /\ Resolve(h.room, h.type) = h.is
        /\ h.type >= FirstOfficial

(* The fields of a block's state are independent: each reads back what was *)
(* last written to it, whatever was written to the others, and no write    *)
(* spills out of the state's bits into those of the type.                  *)
FieldsIndependent ==
    /\ \A i \in 1..Len(cell.layout) :
          ReadField(cell.layout, cell.state, i) = cell.written[i]
    /\ cell.state \in 0 .. Pow2[StateBits] - 1
=============================================================================
