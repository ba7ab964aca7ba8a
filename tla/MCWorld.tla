------------------------------ MODULE MCWorld ------------------------------
(* Bounds for TLC: transactions, sections and handles are interchangeable. *)
EXTENDS World, TLC

Symmetry == Permutations(Txn) \cup Permutations(Handle) \cup Permutations(Section)
=============================================================================
