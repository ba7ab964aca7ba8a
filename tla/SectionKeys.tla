---------------------------- MODULE SectionKeys ----------------------------
(***************************************************************************)
(* Coordinates and keys.  A cell is a triple <<x, y, z>> of the world; a   *)
(* section is the triple of its own coordinates, and the text of its key   *)
(* is what sections are asked for by.                                      *)
(*                                                                         *)
(* The text between two colons is "" or a record of what the parser looks  *)
(* at: a minus sign, leading zeros, the number, characters that are not    *)
(* digits.                                                                 *)
(***************************************************************************)
EXTENDS Integers, Sequences, FiniteSets, SequencesExt

CONSTANTS
    Extent,         \* SECTION_EXTENT
    SectionYMax,    \* SECTION_Y_MAX
    CoordMax        \* SECTION_COORD_MAX; the least coordinate is -CoordMax - 1

ASSUME KeysAssumption == Extent \in Nat \ {0} /\ SectionYMax \in Nat /\ CoordMax \in Nat

WorldYMax == Extent * (SectionYMax + 1) - 1
Coord == -CoordMax - 1 .. CoordMax
IsWorldY(y) == y \in 0..WorldYMax

(* div_euclid; SectionId::new after WorldY.                                *)
SectionOf(c) == [i \in 1..3 |-> c[i] \div Extent]

(* CellOffset::from_world, from 0.                                         *)
OffsetOf(c) == (c[2] % Extent) * Extent * Extent + (c[3] % Extent) * Extent + (c[1] % Extent)

CellOffset == 0 .. Extent * Extent * Extent - 1

(* The derived order of SectionId: by x, then y, then z.                   *)
IdBefore(s, t) ==
    \/ s[1] < t[1]
    \/ s[1] = t[1] /\ s[2] < t[2]
    \/ s[1] = t[1] /\ s[2] = t[2] /\ s[3] < t[3]

(* ChunkId: the column of a section, and its sections from the bottom up.  *)
ChunkOf(s) == <<s[1], s[3]>>
SectionsOf(ch) == [n \in 1 .. SectionYMax + 1 |-> <<ch[1], n - 1, ch[2]>>]

(* section_keys_for_region: the sections of a box of cells, for a pin.     *)
RegionSpan(lo, hi) == [i \in 1..3 |-> SectionOf(hi)[i] - SectionOf(lo)[i] + 1]

RegionAdmitted(lo, hi, budget) ==
    /\ \A i \in 1..3 : lo[i] <= hi[i]
    /\ IsWorldY(lo[2]) /\ IsWorldY(hi[2])
    /\ RegionSpan(lo, hi)[1] * RegionSpan(lo, hi)[2] * RegionSpan(lo, hi)[3] <= budget

RegionSections(lo, hi) ==
    LET Along(i) == SectionOf(lo)[i] .. SectionOf(hi)[i] IN Along(1) \X Along(2) \X Along(3)

----------------------------------------------------------------------------
(* Keys.                                                                   *)

Empty == [minus |-> FALSE, zeros |-> 0, number |-> -1, other |-> FALSE]
Numeral(v) ==
    [minus |-> v < 0, zeros |-> 0, number |-> IF v < 0 THEN -v ELSE v, other |-> FALSE]

(* SectionId::key.                                                         *)
KeyOf(s) == [prefix |-> "s", parts |-> [i \in 1..3 |-> Numeral(s[i])]]

DigitsOf[n \in Nat] == IF n < 10 THEN 1 ELSE 1 + DigitsOf[n \div 10]

(* parse_decimal: "0" has no leading zero; "-0" is refused.                *)
Canonical(p) ==
    /\ p # Empty
    /\ ~p.other /\ p.zeros = 0
    /\ ~(p.minus /\ p.number = 0)

Value(p) == IF p.minus THEN -p.number ELSE p.number

(* parse_i32 also bounds the number of digits, by that of the least one.   *)
ParsesAsCoord(p) ==
    /\ Canonical(p)
    /\ p.zeros + DigitsOf[p.number] <= DigitsOf[CoordMax + 1]
    /\ Value(p) \in Coord

ParsesAsLayer(p) == Canonical(p) /\ Value(p) \in 0..SectionYMax

(* SectionId::parse, split_key and check_section_y.  A key with a "c" and  *)
(* three parts, of the old form, is refused like any other prefix.         *)
IsSectionKey(k) ==
    /\ k.prefix = "s" /\ Len(k.parts) = 3
    /\ ParsesAsCoord(k.parts[1]) /\ ParsesAsLayer(k.parts[2]) /\ ParsesAsCoord(k.parts[3])

IdOf(k) == [i \in 1..3 |-> Value(k.parts[i])]

(* ChunkId::key and ChunkId::parse.                                        *)
ChunkKeyOf(ch) == [prefix |-> "c", parts |-> <<Numeral(ch[1]), Numeral(ch[2])>>]

IsChunkKey(k) ==
    /\ k.prefix = "c" /\ Len(k.parts) = 2
    /\ ParsesAsCoord(k.parts[1]) /\ ParsesAsCoord(k.parts[2])

ChunkIdOf(k) == <<Value(k.parts[1]), Value(k.parts[2])>>
=============================================================================
