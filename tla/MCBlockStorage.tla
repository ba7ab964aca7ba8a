--------------------------- MODULE MCBlockStorage ---------------------------
(* Bounds for TLC.  Four cells and a table of two: Raw needs three kinds.   *)
EXTENDS BlockStorage, TLC

(* Palettes with repeated, missing or dead entries, Raw cells that a       *)
(* palette could hold, and legal payloads whose table is in another order. *)
MCWire ==
    {Uniform(b) : b \in Block}
    \cup UNION {{Palette(e, i) : e \in Table(n), i \in {j \in [Cell -> 0..2] : j[2] = 0 /\ j[3] = 1}}
              : n \in 1..3}
    \cup {Raw(f) : f \in Cells}

Symmetry == Permutations(Block)
=============================================================================
