----------------------------- MODULE RegionPins -----------------------------
(***************************************************************************)
(* The region pin manager: pins on sets of sections, declared within the   *)
(* caller's and the Host's budgets, ready once, released once.  A declared *)
(* pin counts against the budgets until it is released, ready or not.  A   *)
(* manager is a value that callers own, clone and attach to a world.       *)
(***************************************************************************)
EXTENDS Naturals, FiniteSets

CONSTANTS
    Section,
    MaxPin,         \* bound: pins of one manager
    None

PinId == 1..MaxPin
PinBudget == [caller : Nat, host : Nat]
RegionPin == [sections : SUBSET Section, readiness : {"NotReady", "Ready", "Released"}]
RegionPinManager ==
    [budget : PinBudget, next : 1..(MaxPin + 1), pins : [PinId -> RegionPin \cup {None}]]

NewManager(b) == [budget |-> b, next |-> 1, pins |-> [p \in PinId |-> None]]

Active(m, p) == m.pins[p] # None /\ m.pins[p].readiness # "Released"
ActiveSections(m) == UNION {m.pins[p].sections : p \in {q \in PinId : Active(m, q)}}
IsPinned(m, s) == s \in ActiveSections(m)

----------------------------------------------------------------------------
(* Declaring, settling and releasing.                                      *)

Least(x, y) == IF x <= y THEN x ELSE y
Effective(m, b) ==
    [caller |-> Least(b.caller, m.budget.caller), host |-> Least(b.host, m.budget.host)]
Within(S, b) == Cardinality(S) <= b.caller /\ Cardinality(S) <= b.host

(* Mutant: what is pinned already is not counted.                          *)
FitsAlone(m, S, b) == Within(S, b)

Fits(m, S, b) == Within(S, b) /\ Within(ActiveSections(m) \cup S, b)

(* declare_pin_with_budget: all of S or nothing.  A key that is malformed  *)
(* or given twice is refused like the empty set.                           *)
MayDeclare(m, S, b) == S # {} /\ Fits(m, S, Effective(m, b)) /\ m.next \in PinId

(* Mutant: the id is given out again.                                      *)
AfterDeclareStuck(m, S) ==
    [m EXCEPT !.pins[m.next] = [sections |-> S, readiness |-> "NotReady"]]

AfterDeclare(m, S) ==
    [budget |-> m.budget, next |-> m.next + 1,
     pins |-> [m.pins EXCEPT ![m.next] = [sections |-> S, readiness |-> "NotReady"]]]

MayBecomeReady(m, p) == m.pins[p] # None /\ m.pins[p].readiness = "NotReady"
AfterReady(m, p) == [m EXCEPT !.pins[p].readiness = "Ready"]

MayRelease(m, p) == Active(m, p)
AfterRelease(m, p) == [m EXCEPT !.pins[p].readiness = "Released"]

----------------------------------------------------------------------------
(* What pins say of reads and of gameplay.                                 *)

(* settle, ensure_gameplay_ready: gameplay may start on the pin.           *)
Settles(m, p) == m.pins[p] # None /\ m.pins[p].readiness = "Ready"

(* validate_presence: what a read of s may answer.                         *)
PresenceValid(m, s, presence) ==
    (\E p \in PinId : Settles(m, p) /\ s \in m.pins[p].sections) => presence = "Ready"

(* validate_pinned_read: what a read of s on behalf of pin p may answer.   *)
PinnedReadValid(m, p, s, presence) ==
    /\ Active(m, p) /\ s \in m.pins[p].sections
    /\ Settles(m, p) => presence = "Ready"
=============================================================================
