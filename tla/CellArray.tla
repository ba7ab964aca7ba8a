----------------------------- MODULE CellArray -----------------------------
(***************************************************************************)
(* What the storage of a section promises: one block per cell, whatever    *)
(* the encoding.  A write changes one cell of the writer's array, a delta  *)
(* brings the follower's array up to it one cell at a time, a full payload *)
(* at once; only a load from elsewhere replaces both.                      *)
(***************************************************************************)
CONSTANTS Cell, Block

VARIABLES cells, copy

vars == <<cells, copy>>

Init == \E b \in Block : cells = [c \in Cell |-> b] /\ copy = cells

Write(c, b) == cells' = [cells EXCEPT ![c] = b] /\ UNCHANGED copy

Follow(c) == copy' = [copy EXCEPT ![c] = cells[c]] /\ UNCHANGED cells

CatchUp == copy' = cells /\ UNCHANGED cells

Load(f) == cells' = f /\ copy' = f

Next ==
    \/ \E c \in Cell : Follow(c) \/ \E b \in Block : Write(c, b)
    \/ CatchUp
    \/ \E f \in [Cell -> Block] : Load(f)

Spec == Init /\ [][Next]_vars
=============================================================================
