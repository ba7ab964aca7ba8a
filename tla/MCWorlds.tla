------------------------------ MODULE MCWorlds ------------------------------
(* Bounds for TLC.                                                          *)
EXTENDS Worlds, TLC

MCSymmetry == Permutations(Slot)
=============================================================================
