------------------------- MODULE SectionSyncProofs -------------------------
(***************************************************************************)
(* Theorems about SectionSync for any number of cells, any blocks, and any *)
(* bounds on revisions, entries and messages.                              *)
(***************************************************************************)
EXTENDS SectionSync, FiniteSetTheorems, WellFoundedInduction, TLAPS

(* A non-empty set of indices has a largest one.                           *)
LEMMA LargestIndex ==
    ASSUME NEW n \in Nat, NEW T, T \subseteq 1..n, T # {}
    PROVE  \E m \in T : \A k \in T : k <= m
<1> DEFINE S == {n - i : i \in T}
<1>1. S \subseteq Nat /\ S # {}
  <2>1. \A i \in T : n - i \in Nat
    OBVIOUS
  <2> QED BY <2>1
<1>2. IsWellFoundedOn(OpToRel(<, Nat), Nat)
  BY NatLessThanWellFounded
<1>3. PICK s \in S : \A k \in S : ~ (<<k, s>> \in OpToRel(<, Nat))
  <2> HIDE DEF S
  <2> QED BY <1>1, <1>2, WFMin, Zenon
<1>4. \A k \in S : ~ (k < s)
  BY <1>1, <1>3 DEF OpToRel
<1>5. PICK m \in T : s = n - m
  OBVIOUS
<1>6. \A k \in T : n - k \in S /\ k \in Nat /\ k <= n
  OBVIOUS
<1>7. \A k \in T : k <= m
  <2> TAKE k \in T
  <2>1. n - k \in S /\ k \in Nat /\ m \in Nat
    BY <1>6
  <2>2. ~ (n - k < n - m)
    BY <1>4, <1>5, <2>1
  <2> QED BY <2>1, <2>2
<1> QED BY <1>7

----------------------------------------------------------------------------
(* Sorting entries.                                                        *)

(* A submission is a sequence of entries for cells.                        *)
LEMMA SubmissionShape ==
    ASSUME NEW e \in Submission
    PROVE  \E n \in Nat \ {0} :
              /\ DOMAIN e = 1..n /\ e \in [1..n -> DeltaEntry]
              /\ \A i \in 1..n : e[i].cell \in Nat /\ e[i].cell \in Cell /\ e[i].block \in Block
              /\ \A f \in [1..n -> DeltaEntry] : f \in Submission
<1>1. PICK n \in 1..MaxEntries : e \in [1..n -> DeltaEntry]
  BY DEF Submission
<1>2. n \in Nat \ {0} /\ Cell \subseteq Nat
  BY SyncAssumption DEF Cell
<1>3. \A f \in [1..n -> DeltaEntry] : f \in Submission
  BY <1>1 DEF Submission
<1> QED BY <1>1, <1>2, <1>3 DEF DeltaEntry

(* Sorting renumbers the entries one to one, and among entries of one cell *)
(* it keeps their order.                                                   *)
LEMMA PositionFacts ==
    ASSUME NEW e \in Submission, NEW n \in Nat \ {0},
           DOMAIN e = 1..n, \A i \in 1..n : e[i].cell \in Nat
    PROVE  /\ \A i \in 1..n : Position(e, i) \in 1..n
           /\ \A i, j \in 1..n : Before(e, i, j) => Position(e, i) < Position(e, j)
           /\ \A k \in 1..n : \E i \in 1..n : Position(e, i) = k
           /\ \A i, j \in 1..n : Position(e, i) = Position(e, j) => i = j
<1> DEFINE D == 1..n
           B(i) == {j \in D : Before(e, j, i)}
<1>1. IsFiniteSet(D) /\ Cardinality(D) = n
  BY FS_Interval
<1>2. \A i \in D : IsFiniteSet(B(i)) /\ Cardinality(B(i)) \in Nat /\ B(i) \subseteq D
  BY <1>1, FS_Subset, FS_CardinalityType
<1>3. \A i \in D : ~Before(e, i, i)
  BY DEF Before
<1>4. \A i, j, k \in D : Before(e, i, j) /\ Before(e, j, k) => Before(e, i, k)
  BY DEF Before
<1>5. \A i, j \in D : i # j => Before(e, i, j) \/ Before(e, j, i)
  BY DEF Before
<1>6. \A i \in D : Cardinality(B(i)) < n
  <2> TAKE i \in D
  <2>1. B(i) \in SUBSET D /\ B(i) # D
    BY <1>3
  <2>2. IsFiniteSet(B(i)) /\ Cardinality(B(i)) \in Nat
    BY <1>2
  <2> HIDE DEF B, D
  <2>3. Cardinality(B(i)) <= Cardinality(D) /\ Cardinality(B(i)) # Cardinality(D)
    BY <1>1, <2>1, FS_Subset
  <2> QED BY <1>1, <2>2, <2>3
<1>7. ASSUME NEW i \in D, NEW j \in D, Before(e, i, j)
      PROVE  Cardinality(B(i)) < Cardinality(B(j))
  <2>1. B(i) \subseteq B(j) /\ i \in B(j) /\ i \notin B(i)
    BY <1>3, <1>4, <1>7
  <2>2. /\ IsFiniteSet(B(j)) /\ Cardinality(B(i)) \in Nat /\ Cardinality(B(j)) \in Nat
        /\ B(i) \in SUBSET B(j) /\ B(i) # B(j)
    BY <1>2, <2>1
  <2> HIDE DEF B
  <2>3. Cardinality(B(i)) <= Cardinality(B(j)) /\ Cardinality(B(i)) # Cardinality(B(j))
    BY <2>2, FS_Subset
  <2> QED BY <2>2, <2>3
<1>8. \A i \in D : Position(e, i) = Cardinality(B(i)) + 1
  BY DEF Position
<1>9. \A i \in 1..n : Position(e, i) \in 1..n
  <2> TAKE i \in 1..n
  <2>1. Cardinality(B(i)) \in Nat /\ Cardinality(B(i)) < n /\ Position(e, i) = Cardinality(B(i)) + 1
    BY <1>2, <1>6, <1>8
  <2> HIDE DEF B
  <2> QED BY <2>1
<1>10. ASSUME NEW i \in D, NEW j \in D, Before(e, i, j)
       PROVE  Position(e, i) < Position(e, j)
  <2>1. /\ Cardinality(B(i)) < Cardinality(B(j))
        /\ Cardinality(B(i)) \in Nat /\ Cardinality(B(j)) \in Nat
        /\ Position(e, i) = Cardinality(B(i)) + 1 /\ Position(e, j) = Cardinality(B(j)) + 1
    BY <1>2, <1>7, <1>8, <1>10
  <2> HIDE DEF B
  <2> QED BY <2>1
<1>11. ASSUME NEW i \in D, NEW j \in D, Position(e, i) = Position(e, j)
       PROVE  i = j
  <2>1. Position(e, i) \in Nat /\ Position(e, j) \in Nat
    BY <1>9
  <2>2. ~Before(e, i, j) /\ ~Before(e, j, i)
    BY <1>10, <1>11, <2>1
  <2> QED BY <1>5, <2>2
<1>12. \A k \in D : \E i \in D : Position(e, i) = k
  <2> DEFINE g == [i \in D |-> Position(e, i)]
  <2>1. g \in [D -> D]
    BY <1>9
  <2>2. g \in Injection(D, D)
    BY <1>11, <2>1 DEF Injection, IsInjective
  <2>3. g \in Surjection(D, D)
    BY <1>1, <2>2, FS_Injection
  <2> QED BY <2>3 DEF Surjection
<1> QED BY <1>9, <1>10, <1>11, <1>12

(* The sorted entries are the submitted ones.                              *)
LEMMA OrderedFacts ==
    ASSUME NEW e \in Submission, NEW n \in Nat \ {0},
           DOMAIN e = 1..n, \A i \in 1..n : e[i].cell \in Nat
    PROVE  /\ DOMAIN Ordered(e) = 1..n
           /\ \A i \in 1..n : Ordered(e)[Position(e, i)] = e[i]
<1>1. Ordered(e) = [k \in 1..n |-> e[CHOOSE i \in 1..n : Position(e, i) = k]]
  BY DEF Ordered
<1>2. ASSUME NEW i \in 1..n PROVE Ordered(e)[Position(e, i)] = e[i]
  <2> DEFINE k == Position(e, i)
             j == CHOOSE x \in 1..n : Position(e, x) = k
  <2>1. k \in 1..n
    BY PositionFacts
  <2>2. j \in 1..n /\ Position(e, j) = k
    BY Zenon
  <2>3. j = i
    BY <2>2, PositionFacts
  <2>4. Ordered(e)[k] = e[j]
    BY <1>1, <2>1
  <2> QED BY <2>3, <2>4
<1> QED BY <1>1, <1>2

(* A sorted submission is a submission.                                    *)
LEMMA OrderedSubmission ==
    ASSUME NEW e \in Submission
    PROVE  Ordered(e) \in Submission
<1>1. PICK n \in Nat \ {0} :
              /\ DOMAIN e = 1..n /\ e \in [1..n -> DeltaEntry]
              /\ \A i \in 1..n : e[i].cell \in Nat
              /\ \A f \in [1..n -> DeltaEntry] : f \in Submission
  BY SubmissionShape
<1>2. Ordered(e) = [k \in 1..n |-> Ordered(e)[k]]
  BY <1>1 DEF Ordered
<1>3. \A k \in 1..n : Ordered(e)[k] \in DeltaEntry
  <2> TAKE k \in 1..n
  <2>1. PICK i \in 1..n : Position(e, i) = k
    BY <1>1, PositionFacts
  <2>2. Ordered(e)[k] = e[i]
    BY <1>1, <2>1, OrderedFacts
  <2> QED BY <1>1, <2>2
<1>4. Ordered(e) \in [1..n -> DeltaEntry]
  BY <1>2, <1>3
<1> QED BY <1>1, <1>4

(* The last entry of a cell that a submission touches.                     *)
LEMMA LastOfFacts ==
    ASSUME NEW e \in Submission, NEW c \in Cell, Touches(e, c) # {}
    PROVE  /\ LastOf(e, c) \in Touches(e, c)
           /\ \A j \in Touches(e, c) : j <= LastOf(e, c)
           /\ e[LastOf(e, c)].block \in Block
<1>1. PICK n \in Nat \ {0} : DOMAIN e = 1..n /\ \A i \in 1..n : e[i].block \in Block
  BY SubmissionShape
<1>2. Touches(e, c) \subseteq 1..n
  BY <1>1 DEF Touches
<1>3. \E m \in Touches(e, c) : \A k \in Touches(e, c) : k <= m
  BY <1>1, <1>2, LargestIndex
<1>4. LastOf(e, c) \in Touches(e, c) /\ \A j \in Touches(e, c) : j <= LastOf(e, c)
  BY <1>3, Zenon DEF LastOf
<1> QED BY <1>1, <1>2, <1>4

(* Patched cells are cells.                                                *)
LEMMA PatchType ==
    ASSUME NEW f \in Cells, NEW e \in Submission
    PROVE  Patch(f, e) \in Cells
BY LastOfFacts DEF Patch, Cells

(* A sorted submission writes what the submission writes.                  *)
LEMMA SortingKeepsLast ==
    ASSUME NEW f, NEW e \in Submission
    PROVE  Patch(f, Ordered(e)) = Patch(f, e)
<1> DEFINE o == Ordered(e)
<1>1. PICK n \in Nat \ {0} : DOMAIN e = 1..n /\ \A i \in 1..n : e[i].cell \in Nat
  BY SubmissionShape
<1>2. o \in Submission /\ DOMAIN o = 1..n /\ \A i \in 1..n : o[Position(e, i)] = e[i]
  BY <1>1, OrderedSubmission, OrderedFacts
<1>3. ASSUME NEW c \in Cell
      PROVE  /\ Touches(o, c) = {} <=> Touches(e, c) = {}
             /\ Touches(e, c) # {} => o[LastOf(o, c)] = e[LastOf(e, c)]
  <2>1. \A i \in 1..n : i \in Touches(e, c) => Position(e, i) \in Touches(o, c)
    BY <1>1, <1>2, PositionFacts DEF Touches
  <2>2. \A k \in Touches(o, c) : \E i \in Touches(e, c) : Position(e, i) = k
    <3> TAKE k \in Touches(o, c)
    <3>1. k \in 1..n /\ o[k].cell = c
      BY <1>2 DEF Touches
    <3>2. PICK i \in 1..n : Position(e, i) = k
      BY <1>1, <3>1, PositionFacts
    <3> QED BY <1>1, <1>2, <3>1, <3>2 DEF Touches
  <2>3. Touches(o, c) = {} <=> Touches(e, c) = {}
    BY <1>1, <2>1, <2>2 DEF Touches
  <2>4. ASSUME Touches(e, c) # {} PROVE o[LastOf(o, c)] = e[LastOf(e, c)]
    <3> DEFINE i == LastOf(e, c)
               k == LastOf(o, c)
    <3>1. i \in Touches(e, c) /\ i \in 1..n /\ e[i].cell = c /\ \A j \in Touches(e, c) : j <= i
      BY <1>1, <2>4, LastOfFacts DEF Touches
    <3>2. k \in Touches(o, c) /\ \A j \in Touches(o, c) : j <= k
      BY <1>2, <2>3, <2>4, LastOfFacts
    <3>3. PICK m \in Touches(e, c) : Position(e, m) = k
      BY <2>2, <3>2
    <3>4. m \in 1..n /\ e[m].cell = c /\ m <= i
      BY <1>1, <3>1, <3>3 DEF Touches
    <3>5. Position(e, i) \in Touches(o, c) /\ Position(e, i) <= k
      BY <2>1, <3>1, <3>2
    <3> HIDE DEF i, k
    <3>6. ~ (m < i)
      <4>1. SUFFICES ASSUME m < i PROVE FALSE
        OBVIOUS
      <4>2. Before(e, m, i)
        BY <3>1, <3>4, <4>1 DEF Before
      <4>3. Position(e, m) < Position(e, i) /\ Position(e, i) \in Nat /\ Position(e, m) \in Nat
        <5>1. \A x, y \in 1..n : Before(e, x, y) => Position(e, x) < Position(e, y)
          BY <1>1, PositionFacts
        <5>2. \A x \in 1..n : Position(e, x) \in 1..n
          BY <1>1, PositionFacts
        <5> QED BY <3>1, <3>4, <4>2, <5>1, <5>2
      <4> QED BY <3>3, <3>5, <4>3
    <3>7. m = i
      BY <3>1, <3>4, <3>6
    <3>8. o[k] = e[i]
      BY <1>2, <3>1, <3>3, <3>7
    <3> QED BY <3>8 DEF i, k
  <2> QED BY <2>3, <2>4
<1> QED BY <1>3 DEF Patch

----------------------------------------------------------------------------
(* The inductive invariant: every payload on its way, the layer and the    *)
(* baseline are sound with regard to the revisions issued, and an issued   *)
(* revision is never issued again.                                         *)

SoundDelta(d) ==
    versions[d.base] # None /\ versions[d.rev] = Patch(versions[d.base], d.entries)

LayerSound ==
    layer # None => /\ versions[layer.rev] = layer.cells
                    /\ layer.delta # None => SoundDelta(layer.delta)

WireSound ==
    \A m \in wire : /\ m.kind = "Full" => versions[m.rev] = m.cells
                    /\ m.kind = "Delta" => SoundDelta(m)

SyncInv == TypeOK /\ IsFiniteSet(wire) /\ LayerSound /\ WireSound /\ NoMixing

(* The fields of the three kinds of payload.                               *)
LEMMA Kinds ==
    /\ \A m \in Full : m.kind = "Full" /\ m.rev \in Rev /\ m.cells \in Cells
    /\ \A m \in Delta : /\ m.kind = "Delta" /\ m.base \in Rev /\ m.rev \in Rev
                       /\ m.entries \in Submission
    /\ \A m \in Ticket : m.kind \in {"Unchanged", "Pending", "Unavailable"}
BY DEF Full, Delta, Ticket

(* Revisions are numbers.                                                  *)
LEMMA RevNat == \A r \in Rev : r \in Nat
BY SyncAssumption DEF Rev

(* Issuing a new revision changes none that was issued.                    *)
LEMMA IssueKeeps ==
    ASSUME TypeOK, NEW r \in Rev, NEW f \in Cells, New(r), Issue(r, f)
    PROVE  /\ versions' \in [Rev -> Cells \cup {None}]
           /\ versions'[r] = f
           /\ \A q \in Rev : versions[q] # None => versions'[q] = versions[q]
<1>1. \A q \in Rev : versions[q] # None => q # r
  BY RevNat DEF New
<1> QED BY <1>1 DEF Issue, TypeOK

(* What was sound stays sound.                                             *)
LEMMA SoundnessKept ==
    ASSUME SyncInv,
           \A q \in Rev : versions[q] # None => versions'[q] = versions[q],
           UNCHANGED <<wire, baseline>>
    PROVE  WireSound' /\ NoMixing'
<1>1. WireSound'
  <2>1. ASSUME NEW m \in wire
        PROVE  /\ m.kind = "Full" => versions'[m.rev] = m.cells
               /\ m.kind = "Delta" =>
                    /\ versions'[m.base] # None
                    /\ versions'[m.rev] = Patch(versions'[m.base], m.entries)
    <3>1. m \in Delta \cup Full \cup Ticket
      BY DEF SyncInv, TypeOK
    <3>2. ASSUME m.kind = "Full" PROVE versions'[m.rev] = m.cells
      <4>1. m.rev \in Rev /\ m.cells \in Cells /\ versions[m.rev] = m.cells
        BY <3>1, <3>2, Kinds DEF SyncInv, WireSound
      <4> QED BY <4>1, SyncAssumption
    <3>3. ASSUME m.kind = "Delta"
          PROVE  /\ versions'[m.base] # None
                 /\ versions'[m.rev] = Patch(versions'[m.base], m.entries)
      <4>1. /\ m.base \in Rev /\ m.rev \in Rev /\ m.entries \in Submission
            /\ versions[m.base] # None /\ versions[m.rev] = Patch(versions[m.base], m.entries)
        BY <3>1, <3>3, Kinds DEF SyncInv, WireSound, SoundDelta
      <4>2. versions[m.base] \in Cells
        BY <4>1 DEF SyncInv, TypeOK
      <4>3. versions[m.rev] # None
        BY <4>1, <4>2, PatchType, SyncAssumption
      <4> QED BY <4>1, <4>3
    <3> QED BY <3>2, <3>3
  <2> QED BY <2>1 DEF WireSound, SoundDelta
<1>2. NoMixing'
  <2>1. ASSUME baseline # None PROVE versions'[baseline.rev] = baseline.cells
    <3>1. baseline.rev \in Rev /\ baseline.cells \in Cells /\ versions[baseline.rev] = baseline.cells
      BY <2>1 DEF SyncInv, TypeOK, NoMixing, Baseline
    <3> QED BY <3>1, SyncAssumption
  <2> QED BY <2>1 DEF NoMixing
<1> QED BY <1>1, <1>2

(* A full load issues its revision with what it loads.                     *)
LEMMA SetReadyKeeps ==
    ASSUME SyncInv, NEW r \in Rev, NEW f \in Loaded, SetReady(r, f)
    PROVE  SyncInv'
<1>1. f \in Cells /\ New(r) /\ Issue(r, f)
  BY SyncAssumption DEF SetReady
<1>2. /\ versions' \in [Rev -> Cells \cup {None}]
      /\ versions'[r] = f
      /\ \A q \in Rev : versions[q] # None => versions'[q] = versions[q]
  BY <1>1, IssueKeeps DEF SyncInv
<1>3. layer' \in Modification /\ layer'.rev = r /\ layer'.cells = f /\ layer'.delta = None
  BY <1>1 DEF SetReady, Modification
<1>4. TypeOK' /\ IsFiniteSet(wire)'
  BY <1>2, <1>3 DEF SyncInv, TypeOK, SetReady
<1>5. LayerSound'
  BY <1>2, <1>3 DEF LayerSound
<1>6. WireSound' /\ NoMixing'
  BY <1>2, SoundnessKept DEF SetReady
<1> QED BY <1>4, <1>5, <1>6 DEF SyncInv

(* A record issues the revision its delta leads to.                        *)
LEMMA RecordDeltaKeeps ==
    ASSUME SyncInv, NEW r \in Rev, NEW e \in Submission, RecordDelta(r, e)
    PROVE  SyncInv'
<1> DEFINE d == [kind |-> "Delta", base |-> layer.rev, rev |-> r, entries |-> Ordered(e)]
           f == Patch(layer.cells, d.entries)
<1>1. layer \in Modification /\ layer.rev \in Rev /\ layer.cells \in Cells
  BY DEF SyncInv, TypeOK, RecordDelta, Modification
<1>2. d \in Delta /\ d.entries \in Submission
  BY <1>1, OrderedSubmission DEF Delta
<1>3. f \in Cells
  BY <1>1, <1>2, PatchType
<1>4. New(r) /\ Issue(r, f) /\ layer' = [rev |-> r, cells |-> f, delta |-> d]
  BY DEF RecordDelta
<1>5. UNCHANGED <<belief, wire, baseline, refused>> /\ layer # None
  BY DEF RecordDelta
<1>6. d.base = layer.rev /\ d.rev = r
  OBVIOUS
<1>7. f = Patch(layer.cells, d.entries)
  OBVIOUS
<1> HIDE DEF d, f
<1>8. /\ versions' \in [Rev -> Cells \cup {None}]
      /\ versions'[r] = f
      /\ \A q \in Rev : versions[q] # None => versions'[q] = versions[q]
  BY <1>3, <1>4, IssueKeeps DEF SyncInv
<1>9. layer' \in Modification /\ layer'.rev = r /\ layer'.cells = f /\ layer'.delta = d
  BY <1>2, <1>3, <1>4 DEF Modification
<1>10. TypeOK' /\ IsFiniteSet(wire)'
  BY <1>5, <1>8, <1>9 DEF SyncInv, TypeOK
<1>11. versions[layer.rev] = layer.cells /\ layer.cells # None
  BY <1>1, <1>5, SyncAssumption DEF SyncInv, LayerSound
<1>12. versions'[layer.rev] = layer.cells
  BY <1>1, <1>8, <1>11
<1>13. LayerSound'
  BY <1>6, <1>7, <1>8, <1>9, <1>11, <1>12 DEF LayerSound, SoundDelta
<1>14. WireSound' /\ NoMixing'
  BY <1>5, <1>8, SoundnessKept
<1> QED BY <1>10, <1>13, <1>14 DEF SyncInv

(* What is sent is of issued revisions.                                    *)
LEMMA DispatchKeeps ==
    ASSUME SyncInv, Dispatch
    PROVE  SyncInv'
<1> DEFINE t == Dispatched
<1>1. /\ wire' = wire \cup {t} /\ Cardinality(wire \cup {t}) <= MaxInFlight
      /\ UNCHANGED <<layer, belief, baseline, refused, versions>>
  BY DEF Dispatch
<1>2. /\ t \in Delta \cup Full \cup Ticket
      /\ t.kind = "Full" => versions[t.rev] = t.cells
      /\ t.kind = "Delta" => SoundDelta(t)
  <2>1. CASE belief.state \in Missing
    <3>1. t = [kind |-> belief.state]
      BY <2>1 DEF Dispatched
    <3> QED BY <2>1, <3>1 DEF Missing, Ticket
  <2>2. CASE belief.state \notin Missing /\ layer = None
    <3>1. t = [kind |-> "Unchanged"]
      BY <2>2 DEF Dispatched
    <3> QED BY <3>1 DEF Ticket
  <2>3. CASE belief.state \notin Missing /\ layer # None
    <3>1. t = IF DeltaFits THEN layer.delta ELSE FullPayload
      BY <2>3 DEF Dispatched
    <3>2. layer \in Modification
      BY <2>3 DEF SyncInv, TypeOK
    <3>3. CASE DeltaFits
      <4>1. t = layer.delta /\ layer.delta # None
        BY <3>1, <3>3 DEF DeltaFits
      <4>2. t \in Delta
        BY <3>2, <4>1 DEF Modification
      <4>3. SoundDelta(t)
        BY <2>3, <4>1 DEF SyncInv, LayerSound
      <4> QED BY <4>2, <4>3, Kinds
    <3>4. CASE ~DeltaFits
      <4>1. t = FullPayload
        BY <3>1, <3>4
      <4>2. t \in Full /\ t.rev = layer.rev /\ t.cells = layer.cells
        BY <3>2, <4>1 DEF FullPayload, Full, Modification
      <4> QED BY <2>3, <4>2, Kinds DEF SyncInv, LayerSound
    <3> QED BY <3>3, <3>4
  <2> QED BY <2>1, <2>2, <2>3
<1> HIDE DEF t
<1>3. IsFiniteSet(wire \cup {t})
  BY FS_AddElement DEF SyncInv
<1>4. TypeOK'
  BY <1>1, <1>2 DEF SyncInv, TypeOK
<1>5. WireSound'
  BY <1>1, <1>2 DEF SyncInv, WireSound, SoundDelta
<1>6. LayerSound' /\ NoMixing'
  BY <1>1 DEF SyncInv, LayerSound, NoMixing, SoundDelta
<1> QED BY <1>1, <1>3, <1>4, <1>5, <1>6 DEF SyncInv

(* A smaller channel is a channel.                                         *)
LEMMA WireShrinks ==
    ASSUME SyncInv, NEW m \in wire, wire' \in {wire, wire \ {m}}
    PROVE  /\ wire' \subseteq wire /\ IsFiniteSet(wire')
           /\ Cardinality(wire') <= MaxInFlight
<1>1. wire' \in SUBSET wire /\ IsFiniteSet(wire)
  BY DEF SyncInv
<1>2. /\ IsFiniteSet(wire') /\ Cardinality(wire') <= Cardinality(wire)
      /\ Cardinality(wire') \in Nat /\ Cardinality(wire) \in Nat
  BY <1>1, FS_Subset, FS_CardinalityType
<1> QED BY <1>1, <1>2, SyncAssumption DEF SyncInv, TypeOK

(* A receiver comes from an issued revision to an issued one.              *)
LEMMA DeliverKeeps ==
    ASSUME SyncInv, NEW m \in wire, Deliver(m)
    PROVE  SyncInv'
<1>1. Receive(m) /\ wire' \in {wire, wire \ {m}} /\ UNCHANGED <<layer, belief, versions>>
  BY DEF Deliver
<1>2. wire' \subseteq wire /\ IsFiniteSet(wire') /\ Cardinality(wire') <= MaxInFlight
  BY <1>1, WireShrinks
<1>3. /\ m \in Delta \cup Full \cup Ticket
      /\ m.kind = "Full" => versions[m.rev] = m.cells
      /\ m.kind = "Delta" => SoundDelta(m)
  BY DEF SyncInv, TypeOK, WireSound
<1>4. /\ baseline' \in Baseline \cup {None} /\ refused' \in BOOLEAN
      /\ baseline' # None => versions[baseline'.rev] = baseline'.cells
  <2>1. CASE m.kind = "Full" /\ FullAccepted(m) /\ refused' = FALSE
             /\ baseline' = [rev |-> m.rev, cells |-> m.cells]
    BY <1>3, <2>1, Kinds DEF Baseline
  <2>2. CASE m.kind = "Delta" /\ DeltaAccepted(m) /\ refused' = FALSE
             /\ baseline' = [rev |-> m.rev, cells |-> Patch(baseline.cells, m.entries)]
    <3>1. baseline # None /\ m.base = baseline.rev
      BY <2>2 DEF DeltaAccepted
    <3>2. /\ m.rev \in Rev /\ m.entries \in Submission /\ baseline.cells \in Cells
          /\ versions[m.rev] = Patch(versions[m.base], m.entries)
          /\ versions[baseline.rev] = baseline.cells
      BY <1>3, <2>2, <3>1, Kinds DEF SyncInv, TypeOK, NoMixing, Baseline, SoundDelta
    <3>3. Patch(baseline.cells, m.entries) \in Cells
      BY <3>2, PatchType
    <3> QED BY <2>2, <3>1, <3>2, <3>3 DEF Baseline
  <2>3. CASE refused' = TRUE /\ UNCHANGED baseline
    BY <1>1, <2>3 DEF SyncInv, TypeOK, NoMixing
  <2>4. CASE baseline' = None /\ refused' = FALSE
    BY <2>4
  <2>5. CASE UNCHANGED <<baseline, refused>>
    BY <1>1, <2>5 DEF SyncInv, TypeOK, NoMixing
  <2> QED BY <1>1, <2>1, <2>2, <2>3, <2>4, <2>5 DEF Receive
<1>5. TypeOK'
  BY <1>1, <1>2, <1>4 DEF SyncInv, TypeOK
<1>6. WireSound' /\ LayerSound' /\ NoMixing'
  BY <1>1, <1>2, <1>4 DEF SyncInv, WireSound, LayerSound, SoundDelta, NoMixing
<1> QED BY <1>2, <1>5, <1>6 DEF SyncInv

(* A lost payload leaves the others.                                       *)
LEMMA LoseKeeps ==
    ASSUME SyncInv, NEW m \in wire, Lose(m)
    PROVE  SyncInv'
<1>1. wire' = wire \ {m} /\ UNCHANGED <<layer, belief, baseline, refused, versions>>
  BY DEF Lose
<1>2. wire' \subseteq wire /\ IsFiniteSet(wire') /\ Cardinality(wire') <= MaxInFlight
  BY <1>1, WireShrinks
<1>3. TypeOK'
  BY <1>1, <1>2 DEF SyncInv, TypeOK
<1> QED BY <1>1, <1>2, <1>3 DEF SyncInv, WireSound, LayerSound, SoundDelta, NoMixing

(* The steps that touch neither the channel nor the revisions.             *)
LEMMA RestKeeps ==
    ASSUME SyncInv, MarkUnchanged \/ Report \/ (\E b \in Missing : Withhold(b)) \/ UNCHANGED vars
    PROVE  SyncInv'
<1>1. UNCHANGED <<wire, baseline, versions>> /\ layer' \in {layer, None}
  BY DEF MarkUnchanged, Report, Withhold, vars
<1>2. belief' \in Belief /\ refused' \in BOOLEAN
  BY DEF SyncInv, TypeOK, MarkUnchanged, Report, Withhold, vars, Belief, Missing, Baseline
<1>3. TypeOK'
  BY <1>1, <1>2 DEF SyncInv, TypeOK
<1> QED BY <1>1, <1>3 DEF SyncInv, WireSound, LayerSound, SoundDelta, NoMixing

(* Nothing is issued at first.                                             *)
LEMMA InitSync == Init => SyncInv
<1> SUFFICES ASSUME Init PROVE SyncInv
  OBVIOUS
<1>1. IsFiniteSet(wire) /\ Cardinality(wire) = 0
  BY FS_EmptySet DEF Init
<1>2. Other("FirstDelivery") \in Belief
  BY DEF Belief
<1>3. versions \in [Rev -> Cells \cup {None}]
  BY DEF Init
<1>4. wire \subseteq Delta \cup Full \cup Ticket /\ Cardinality(wire) <= MaxInFlight
  BY <1>1, SyncAssumption DEF Init
<1>5. TypeOK
  BY <1>2, <1>3, <1>4 DEF Init, TypeOK
<1> QED BY <1>1, <1>5 DEF Init, SyncInv, WireSound, LayerSound, NoMixing

(* Every step of the layer, the channel and the receiver keeps it.         *)
LEMMA StepSync == SyncInv /\ [Next]_vars => SyncInv'
<1> SUFFICES ASSUME SyncInv, [Next]_vars PROVE SyncInv'
  OBVIOUS
<1>1. CASE LayerStep
  BY <1>1, SyncAssumption, SetReadyKeeps, RecordDeltaKeeps, RestKeeps DEF LayerStep
<1>2. CASE ChannelStep
  BY <1>2, DispatchKeeps, DeliverKeeps, LoseKeeps DEF ChannelStep
<1>3. CASE Report \/ UNCHANGED vars
  BY <1>3, RestKeeps
<1> QED BY <1>1, <1>2, <1>3 DEF Next

(* All that a layer holds, sends or has received is of issued revisions.   *)
THEOREM SyncInvariant == Spec => []SyncInv
BY InitSync, StepSync, PTL DEF Spec

(* The layer, the channel and the receiver keep their types, and the       *)
(* channel its bound.                                                      *)
THEOREM SyncTyped == Spec => []TypeOK
<1>1. SyncInv => TypeOK
  BY DEF SyncInv
<1> QED BY <1>1, SyncInvariant, PTL

(* Whatever is lost, repeated or late, the receiver shows the cells of the *)
(* revision it names.                                                      *)
THEOREM NeverMixed == Spec => []NoMixing
<1>1. SyncInv => NoMixing
  BY DEF SyncInv
<1> QED BY <1>1, SyncInvariant, PTL

(* No payload takes the receiver to an older revision.                     *)
THEOREM NeverBack == Spec => NoRollback
<1>1. ASSUME SyncInv, [Next]_vars, baseline # None, baseline' # None
      PROVE  baseline'.rev >= baseline.rev
  <2>1. baseline.rev \in Nat
    BY <1>1, RevNat DEF SyncInv, TypeOK, Baseline
  <2>2. CASE baseline' = baseline
    BY <2>1, <2>2
  <2>3. CASE \E m \in wire : Deliver(m)
    <3>1. PICK m \in wire : Receive(m)
      BY <2>3 DEF Deliver
    <3>2. m \in Delta \cup Full \cup Ticket
      BY <1>1 DEF SyncInv, TypeOK
    <3>3. \/ baseline' = baseline
          \/ baseline'.rev = m.rev /\ m.rev > baseline.rev /\ m.rev \in Nat
      BY <1>1, <3>1, <3>2, Kinds, RevNat DEF Receive, FullAccepted, DeltaAccepted
    <3> QED BY <2>1, <3>3
  <2>4. baseline' = baseline \/ \E m \in wire : Deliver(m)
    BY <1>1 DEF Next, LayerStep, ChannelStep, SetReady, RecordDelta, MarkUnchanged, Withhold,
                Dispatch, Lose, Report, vars
  <2> QED BY <2>2, <2>3, <2>4
<1>2. SyncInv /\ [Next]_vars => [baseline # None /\ baseline' # None => baseline'.rev >= baseline.rev]_vars
  BY <1>1
<1> QED BY <1>2, SyncInvariant, PTL DEF Spec, NoRollback

(* However the entries of a delta repeat a cell, the cell ends up with the *)
(* value submitted last.                                                   *)
THEOREM LastOneWins == Spec => LastSubmittedWins
<1>1. ASSUME NEW r \in Rev, NEW e \in Batches, RecordDelta(r, e)
      PROVE  layer'.cells = Patch(layer.cells, e)
  <2>1. layer'.cells = Patch(layer.cells, Ordered(e))
    BY <1>1 DEF RecordDelta
  <2> QED BY <2>1, SortingKeepsLast, SyncAssumption
<1>2. [Next]_vars => [\A r \in Rev, e \in Batches :
          RecordDelta(r, e) => layer'.cells = Patch(layer.cells, e)]_layer
  BY <1>1
<1> QED BY <1>2, PTL DEF Spec, LastSubmittedWins
=============================================================================
