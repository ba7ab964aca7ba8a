---------------------------- MODULE SectionSync ----------------------------
(***************************************************************************)
(* One section in the modification layer of a room, and one receiver that  *)
(* follows it over a channel that loses, repeats and reorders.  The room   *)
(* dispatches what it believes the receiver needs; the receiver decodes    *)
(* against the baseline it has.  The receiver and the reports that bring   *)
(* its state back to the room are outside the engine: they are modelled    *)
(* from what decode requires of them.                                      *)
(***************************************************************************)
EXTENDS Naturals, FiniteSets, Sequences

CONSTANTS
    CellCount, Block,
    Loaded,         \* bound: cells the room sets the section to
    MaxRevision,    \* bound: section revisions
    MaxEntries,     \* bound: entries submitted at once
    Batches,        \* bound: the submissions themselves
    MaxInFlight,    \* bound: messages in the channel
    None

Cell == 0..(CellCount - 1)
Cells == [Cell -> Block]
Rev == 1..MaxRevision
DeltaEntry == [cell : Cell, block : Block]
Submission == UNION {[1..n -> DeltaEntry] : n \in 1..MaxEntries}

Delta == [kind : {"Delta"}, base : Rev, rev : Rev, entries : Submission]
Full == [kind : {"Full"}, rev : Rev, cells : Cells]
Ticket == [kind : {"Unchanged", "Pending", "Unavailable"}]
Modification == [rev : Rev, cells : Cells, delta : Delta \cup {None}]
Baseline == [rev : Rev, cells : Cells]
Ready(r) == [state |-> "Ready", rev |-> r]
Other(b) == [state |-> b, rev |-> 0]
Missing == {"Pending", "Unavailable"}
Belief == {Ready(r) : r \in Rev} \cup {Other(b) : b \in {"FirstDelivery", "Resync"} \cup Missing}

ASSUME SyncAssumption ==
    /\ CellCount \in Nat \ {0} /\ MaxRevision \in Nat /\ MaxEntries \in Nat /\ MaxInFlight \in Nat
    /\ Loaded \subseteq Cells /\ Batches \subseteq Submission
    /\ None \notin Cells /\ None \notin Modification /\ None \notin Baseline /\ None \notin Delta

VARIABLES
    layer,      \* None, or the section's modification
    belief,     \* SectionDeliveryState the room dispatches by
    wire,       \* messages on their way
    baseline,   \* what the receiver holds: None (the original map), or a full state
    refused,    \* the receiver has refused a payload since its last report
    versions    \* history: the cells of every revision issued

vars == <<layer, belief, wire, baseline, refused, versions>>

Init ==
    /\ layer = None /\ belief = Other("FirstDelivery") /\ wire = {}
    /\ baseline = None /\ refused = FALSE
    /\ versions = [r \in Rev |-> None]

----------------------------------------------------------------------------
(* Deltas.                                                                 *)

(* Mutant: entries of one cell end up in reverse.                          *)
BeforeUnstable(e, i, j) == e[i].cell < e[j].cell \/ (e[i].cell = e[j].cell /\ i > j)

(* Sorting is stable: among entries of one cell the submitted order stays. *)
Before(e, i, j) == e[i].cell < e[j].cell \/ (e[i].cell = e[j].cell /\ i < j)

Position(e, i) == Cardinality({j \in DOMAIN e : Before(e, j, i)}) + 1
Ordered(e) == [k \in DOMAIN e |-> e[CHOOSE i \in DOMAIN e : Position(e, i) = k]]

(* Entries are written in turn, so the last one for a cell counts.         *)
Touches(e, c) == {i \in DOMAIN e : e[i].cell = c}
LastOf(e, c) == CHOOSE i \in Touches(e, c) : \A j \in Touches(e, c) : j <= i
Patch(f, e) == [c \in Cell |-> IF Touches(e, c) = {} THEN f[c] ELSE e[LastOf(e, c)].block]

----------------------------------------------------------------------------
(* The layer.                                                              *)

(* Revisions the caller hands in are new: the callers that own the section *)
(* number its states upwards, whatever the layer has seen of them.         *)
New(r) == \A q \in Rev : versions[q] # None => q < r

Issue(r, f) == versions' = [versions EXCEPT ![r] = f]

SetReady(r, f) ==
    /\ New(r)
    /\ layer' = [rev |-> r, cells |-> f, delta |-> None]
    /\ Issue(r, f)
    /\ UNCHANGED <<belief, wire, baseline, refused>>

(* The envelope is decoded against the layer itself before it is kept; one *)
(* that is not newer is refused and changes nothing.                       *)
RecordDelta(r, e) ==
    /\ layer # None
    /\ r > layer.rev /\ New(r)
    /\ LET d == [kind |-> "Delta", base |-> layer.rev, rev |-> r, entries |-> Ordered(e)]
           f == Patch(layer.cells, d.entries)
       IN  /\ layer' = [rev |-> r, cells |-> f, delta |-> d]
           /\ Issue(r, f)
    /\ UNCHANGED <<belief, wire, baseline, refused>>

MarkUnchanged ==
    /\ layer # None
    /\ layer' = None
    /\ UNCHANGED <<belief, wire, baseline, refused, versions>>

----------------------------------------------------------------------------
(* Dispatch.                                                               *)

FullPayload == [kind |-> "Full", rev |-> layer.rev, cells |-> layer.cells]

(* Mutants: whoever has or has not a baseline gets the delta; the layer is *)
(* not asked whether it has one.                                           *)
DeltaForAnyone == layer.delta # None
DeltaForReady == belief.state = "Ready"

DeltaFits == layer.delta # None /\ Ready(layer.delta.base) = belief

Dispatched ==
    CASE belief.state \in Missing -> [kind |-> belief.state]
      [] belief.state \notin Missing /\ layer = None -> [kind |-> "Unchanged"]
      [] belief.state \notin Missing /\ layer # None -> IF DeltaFits THEN layer.delta ELSE FullPayload

Dispatch ==
    /\ Cardinality(wire \cup {Dispatched}) <= MaxInFlight
    /\ wire' = wire \cup {Dispatched}
    /\ UNCHANGED <<layer, belief, baseline, refused, versions>>

----------------------------------------------------------------------------
(* The receiver.                                                           *)

(* Mutants: a full payload replaces a newer state; a delta is applied to   *)
(* whatever state there is.                                                *)
FullOfAnyAge(m) == TRUE
DeltaOnAnyBase(m) == baseline # None /\ m.rev > baseline.rev

FullAccepted(m) == baseline # None => m.rev > baseline.rev
DeltaAccepted(m) == baseline # None /\ m.base = baseline.rev /\ m.rev > baseline.rev

Receive(m) ==
    \/ /\ m.kind = "Full" /\ FullAccepted(m)
       /\ baseline' = [rev |-> m.rev, cells |-> m.cells]
       /\ refused' = FALSE
    \/ /\ m.kind = "Delta" /\ DeltaAccepted(m)
       /\ baseline' = [rev |-> m.rev, cells |-> Patch(baseline.cells, m.entries)]
       /\ refused' = FALSE
    \/ /\ \/ m.kind = "Full" /\ ~FullAccepted(m)
          \/ m.kind = "Delta" /\ ~DeltaAccepted(m)
       /\ refused' = TRUE /\ UNCHANGED baseline
    \/ /\ m.kind = "Unchanged"
       /\ baseline' = None /\ refused' = FALSE
    \/ m.kind \in Missing /\ UNCHANGED <<baseline, refused>>

(* A delivered message may stay in the channel and be delivered again.     *)
Deliver(m) ==
    /\ Receive(m)
    /\ wire' \in {wire, wire \ {m}}
    /\ UNCHANGED <<layer, belief, versions>>

Lose(m) ==
    /\ wire' = wire \ {m}
    /\ UNCHANGED <<layer, belief, baseline, refused, versions>>

(* The room learns what the receiver has; it may be old when it is used.   *)
Report ==
    /\ belief' = IF baseline = None THEN Other("FirstDelivery")
                 ELSE IF refused THEN Other("Resync") ELSE Ready(baseline.rev)
    /\ refused' = FALSE
    /\ UNCHANGED <<layer, wire, baseline, versions>>

(* The section is being streamed, or cannot be served.                     *)
Withhold(b) ==
    /\ belief' = Other(b)
    /\ UNCHANGED <<layer, wire, baseline, refused, versions>>

----------------------------------------------------------------------------

LayerStep ==
    \/ \E r \in Rev : \/ \E f \in Loaded : SetReady(r, f)
                      \/ \E e \in Batches : RecordDelta(r, e)
    \/ MarkUnchanged
    \/ \E b \in Missing : Withhold(b)

ChannelStep == Dispatch \/ \E m \in wire : Deliver(m) \/ Lose(m)

Next == LayerStep \/ ChannelStep \/ Report

Spec == Init /\ [][Next]_vars

(* Reports and dispatches go on; what the room would send now arrives if   *)
(* it is sent again and again; what it would no longer send, whatever it   *)
(* believed, is not held in the channel for ever.                          *)
DeliverCurrent == Dispatched \in wire /\ Deliver(Dispatched)

Outdated(m) ==
    /\ m # Dispatched
    /\ layer # None => m # FullPayload /\ m # layer.delta

FairSpec ==
    /\ Spec
    /\ WF_vars(Report)
    /\ SF_vars(Dispatch)
    /\ SF_vars(DeliverCurrent)
    /\ WF_vars(\E m \in wire : Outdated(m) /\ Lose(m))

----------------------------------------------------------------------------
(* Properties.                                                             *)

TypeOK ==
    /\ layer \in Modification \cup {None}
    /\ belief \in Belief
    /\ wire \subseteq Delta \cup Full \cup Ticket /\ Cardinality(wire) <= MaxInFlight
    /\ baseline \in Baseline \cup {None} /\ refused \in BOOLEAN
    /\ versions \in [Rev -> Cells \cup {None}]

(* Whatever arrives late, twice or not at all, the receiver shows exactly  *)
(* the cells some revision had, and knows which revision that is.          *)
NoMixing == baseline # None => versions[baseline.rev] = baseline.cells

(* A payload never takes the receiver back: only the short ticket does,    *)
(* which carries no revision.                                              *)
NoRollback ==
    [][baseline # None /\ baseline' # None => baseline'.rev >= baseline.rev]_vars

(* record_delta keeps the last value submitted for each cell, though the   *)
(* entries are sorted by cell first.                                       *)
LastSubmittedWins ==
    [][\A r \in Rev, e \in Batches :
          RecordDelta(r, e) => layer'.cells = Patch(layer.cells, e)]_layer

(* Once the section stops changing and is served, the receiver comes to    *)
(* show it, and goes on showing it.                                        *)
InSync == IF layer = None THEN baseline = None ELSE baseline # None /\ baseline.rev = layer.rev
Served == belief.state \notin Missing
Converges == <>[]Served => <>[]InSync
=============================================================================
