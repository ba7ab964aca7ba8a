--------------------------- MODULE MCPinnedWorld ---------------------------
(* Bounds for TLC.                                                          *)
EXTENDS PinnedWorld, TLC

MCBudget == {[caller |-> 1, host |-> 2], [caller |-> 2, host |-> 2]}
MCOneSection == {[caller |-> 1, host |-> 1]}
=============================================================================
