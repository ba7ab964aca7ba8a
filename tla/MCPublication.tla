--------------------------- MODULE MCPublication ---------------------------
(* Model values and bounds for TLC.                                        *)
EXTENDS Publication, TLC

CONSTANTS Other, b1

MCOwner == {Self, Other}
MCRoot(o, r) == [stamp |-> [owner |-> o, rev |-> r], body |-> b1]
MCInitRoot == MCRoot(Self, 0)

(* One token of another world that uses an id of this authority.           *)
MCForeignTokens ==
    {[id |-> 0, owner |-> Other, base |-> MCRoot(Other, 0), root |-> MCRoot(Other, 1), pin |-> None]}

Symmetry == Permutations(Thread)
=============================================================================
