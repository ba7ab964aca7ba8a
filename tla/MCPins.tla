------------------------------- MODULE MCPins -------------------------------
(* Two bounds in one run: many pins over a world that hardly changes, or    *)
(* one pin per manager over a world with writes, acks and unloads.          *)
EXTENDS MCPinnedWorld

VARIABLE focus

MCInit == PinnedInit /\ focus \in {"pins", "world"}

FewWrites == root'.world <= 1 /\ tokens' = tokens /\ acks' = acks

FewPins == \A m \in {attached', desk'} : m.next <= 2 /\ m.budget.caller \in {0, 2}

MCNext ==
    /\ PinnedNext
    /\ focus = "pins" => FewWrites
    /\ focus = "world" => FewPins
    /\ UNCHANGED focus

MCSpec == MCInit /\ [][MCNext]_<<pinnedVars, focus>>
=============================================================================
