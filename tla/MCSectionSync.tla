--------------------------- MODULE MCSectionSync ---------------------------
(* Bounds for TLC.  Entries in order and out of order, one cell or both,    *)
(* and one cell written twice, back to b1 or away from it.                  *)
EXTENDS SectionSync, TLC

CONSTANTS b1, b2

MCLoaded == {[c \in Cell |-> b2]}

DeltaOf(c, b) == [cell |-> c, block |-> b]

MCBatches ==
    {<<DeltaOf(0, b1)>>, <<DeltaOf(1, b1)>>, <<DeltaOf(1, b2), DeltaOf(0, b1)>>,
     <<DeltaOf(0, b1), DeltaOf(0, b2)>>, <<DeltaOf(0, b2), DeltaOf(0, b1)>>}
=============================================================================
