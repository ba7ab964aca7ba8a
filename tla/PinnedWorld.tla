---------------------------- MODULE PinnedWorld ----------------------------
(***************************************************************************)
(* A world and its region pins.  A caller keeps a manager of its own, the  *)
(* desk, which it can clone from the world's and attach to the world; only *)
(* the desk can look at the world's cut, for the attached manager is part  *)
(* of the world.  unload_section asks the attached manager and then the    *)
(* caller's hook, which is the desk: callers with residency state pass     *)
(* their manager.  A world without a manager is one whose manager has no   *)
(* budget: it pins nothing and lets everything unload.                     *)
(***************************************************************************)
EXTENDS World

CONSTANTS
    Budget,         \* the pairs of budgets that callers and Hosts use
    MaxPin          \* bound: pins of one manager

VARIABLES
    attached,       \* the world's region_pins
    desk            \* the caller's manager

P == INSTANCE RegionPins

pinnedVars == <<vars, attached, desk>>

ASSUME PinnedAssumption ==
    /\ Budget \subseteq P!PinBudget
    /\ MaxPin \in Nat
    /\ None \notin P!RegionPin

NoManager == P!NewManager([caller |-> 0, host |-> 0])

PinnedInit == Init /\ attached = NoManager /\ desk = NoManager

(* Mutant: a pin protects its sections once it is ready.                   *)
EvictableUntilReady(s) ==
    \A m \in {attached, desk} : \A p \in P!PinId : P!Settles(m, p) => s \notin m.pins[p].sections

(* check_pin_exemption; another hook of the caller may refuse more.        *)
Evictable(s) == \A m \in {attached, desk} : ~P!IsPinned(m, s)

(* The one call of the world that pins restrict is unload_section.         *)
WorldStep ==
    /\ Next
    /\ \A s \in Section : Unload(s) => Evictable(s)
    /\ UNCHANGED <<attached, desk>>

(* Mutant: one resident section is enough.                                 *)
AnyReady(m, p) == \E s \in m.pins[p].sections : root.slot[s] = "Ready"

(* mark_ready_from_world, or mark_ready by a caller that has seen all the  *)
(* sections Ready in the current cut, as its comment requires.             *)
SectionsReady(m, p) == \A s \in m.pins[p].sections : root.slot[s] = "Ready"

(* One call on manager m turns it into k.                                  *)
PinCall(m, k) ==
    \/ \E S \in SUBSET Section, b \in Budget : P!MayDeclare(m, S, b) /\ k = P!AfterDeclare(m, S)
    \/ \E p \in P!PinId : P!MayBecomeReady(m, p) /\ SectionsReady(m, p) /\ k = P!AfterReady(m, p)
    \/ \E p \in P!PinId : P!MayRelease(m, p) /\ k = P!AfterRelease(m, p)

NewDesk == (\E b \in Budget : desk' = P!NewManager(b)) /\ UNCHANGED attached
CloneToDesk == desk' = attached /\ UNCHANGED attached

(* set_region_pin_manager takes the desk or a clone of it; the manager it  *)
(* replaces is gone with its pins.                                         *)
Attach == attached' = desk /\ desk' \in {desk, NoManager}

PinStep ==
    /\ \/ PinCall(attached, attached') /\ UNCHANGED desk
       \/ PinCall(desk, desk') /\ UNCHANGED attached
       \/ NewDesk \/ CloneToDesk \/ Attach
    /\ UNCHANGED vars

PinnedNext == WorldStep \/ PinStep

PinnedSpec == PinnedInit /\ [][PinnedNext]_pinnedVars

----------------------------------------------------------------------------
(* Properties.                                                             *)

(* A manager knows the pins it has given ids to, and no others.            *)
Numbered(m) ==
    m \in P!RegionPinManager /\ \A p \in P!PinId : m.pins[p] # None <=> p < m.next

PinsTyped == Numbered(attached) /\ Numbered(desk)

(* However pins overlap, are declared with budgets of their own and are    *)
(* released in any order, all that a manager pins fits both its budgets.   *)
WithinBudgets == \A m \in {attached, desk} : P!Within(P!ActiveSections(m), m.budget)

(* A settled pin keeps its promise until a restore: every read of its      *)
(* sections finds them resident, whatever is written, acknowledged,        *)
(* unloaded and reloaded around them and whenever the manager was made     *)
(* ready, cloned and attached.                                             *)
PromiseKept ==
    restores = 0 =>
        \A p \in P!PinId, s \in Section :
            P!Settles(attached, p) /\ P!PinnedReadValid(attached, p, s, "Ready")
                => root.slot[s] = "Ready"

(* A pin protects from its declaration on, attached or not: a section of   *)
(* it that is resident stays resident and keeps its writes.                *)
PinnedStaysResident ==
    [][restores' = restores =>
        \A m \in {attached, desk}, s \in Section :
            P!IsPinned(m, s) /\ root.slot[s] = "Ready" =>
                root'.slot[s] = "Ready" /\ root.body[s] \subseteq root'.body[s]]_pinnedVars

(* voxel-world-v1.json:691: once a pin is ready a caller gets a definite   *)
(* result in the same tick, and need not wait.                             *)
AlwaysDefinite == \A s \in Section :
    root.slot[s] # None => P!PresenceValid(attached, s, root.slot[s])
=============================================================================
