---------------------------- MODULE WorldProofs ----------------------------
(***************************************************************************)
(* Theorems about World for any sections, transactions, handles, batches,  *)
(* budgets and bounds: its types, and what it never does, which is to      *)
(* apply twice, forget a receipt, write after the drain, lose a write or   *)
(* show part of one.  Then theorems about a world and its region pins, for *)
(* any budgets and numbers of pins; what is shown of a step of the world   *)
(* is taken from the proofs about World.                                   *)
(***************************************************************************)
EXTENDS PinnedWorld, FiniteSetTheorems, TLAPS

----------------------------------------------------------------------------
(* Types.                                                                  *)

(* No section of a stamp is ahead of its world.                            *)
Within(v) == \A s \in Section : v.rev[s] # None => v.rev[s] <= v.world

RevInv ==
    /\ Within(root)
    /\ \A c \in captures : Within(c.root)
    /\ \A n \in snapshots : Within(n)

(* Disposal is final, so the generation is bumped once.                    *)
GenInv == session # "Disposed" => generation = 1

TypeInv == TypeOK /\ RevInv /\ GenInv

(* What the constants say about types.                                     *)
LEMMA ConstantFacts ==
    /\ 0 \in Rev /\ Rev \subseteq Nat
    /\ \A n \in Rev : n + 1 \in Nat /\ n <= n /\ n < n + 1
    /\ 0 \in Pin
    /\ None \notin Rev /\ None \notin Presence /\ None \notin Span
    /\ None \notin Evidence /\ None \notin Entry /\ None \notin Token
BY WorldAssumption DEF Rev, Pin

(* A request names a transaction and some sections of the world.           *)
LEMMA RequestParts ==
    ASSUME NEW q \in Request
    PROVE  /\ q.txn \in Txn
           /\ Writes(q) \subseteq Section
           /\ \A s \in Writes(q) : q.expect[s] \in Rev
<1>1. PICK S \in Batch : q.expect \in [S -> Rev]
  BY DEF Request
<1>2. S \subseteq Section
  BY WorldAssumption
<1> QED BY <1>1, <1>2 DEF Request, Writes

(* The pin table has a free slot whenever CanPin says so.                  *)
LEMMA FreePin ==
    ASSUME TypeOK, CanPin
    PROVE  \E p \in Pin : p \notin PinsHeld
<1>1. PinsHeld \subseteq Pin
  BY DEF PinsHeld, TypeOK, Capture
<1>2. IsFiniteSet(Pin) /\ Cardinality(Pin) = MaxPins
  BY FS_Interval, WorldAssumption DEF Pin
<1>3. SUFFICES ASSUME PinsHeld = Pin PROVE FALSE
  BY <1>1
<1> QED BY <1>2, <1>3, WorldAssumption DEF CanPin

(* seal and publish_once keep the cell typed.                              *)
LEMMA PublishType ==
    ASSUME TypeOK, NEW r, r \in Root, Publish(r)
    PROVE  root' \in Root /\ pin' \in Pin /\ pin' \notin PinsHeld
BY FreePin DEF Publish

(* The successor cuts are cuts within their world revision.                *)
LEMMA OverlayType ==
    ASSUME NEW r \in Root, Within(r), NEW q \in Request, NextWorld(r) \in Rev
    PROVE  Overlay(r, q) \in Root /\ Within(Overlay(r, q))
<1> USE ConstantFacts
<1>1. r.world \in Rev /\ NextWorld(r) = r.world + 1
  BY DEF Root, NextWorld
<1>2. \A s \in Section : NextRev(r, s) \in Rev /\ NextRev(r, s) <= NextWorld(r)
  <2> TAKE s \in Section
  <2>1. CurrentRev(r, s) \in Rev /\ CurrentRev(r, s) <= r.world
    BY <1>1 DEF CurrentRev, Within, Root, PerSection
  <2>2. MaxRevision \in Nat /\ r.world + 1 \in Rev
    BY <1>1, WorldAssumption
  <2> QED BY <1>1, <2>1, <2>2 DEF NextRev, Rev
<1>3. \A s \in Section : RecordDirty(r.dirty[s], NextRev(r, s)) \in Span
  <2> TAKE s \in Section
  <2>1. r.dirty[s] \in Span \cup {None}
    BY DEF Root, PerSection
  <2> QED BY <1>2, <2>1 DEF RecordDirty, Span
<1>4. r.rev \in PerSection(Rev) /\ r.slot \in PerSection(Presence) /\ r.body \in [Section -> SUBSET Txn]
      /\ r.dirty \in PerSection(Span)
  BY DEF Root
<1>5. Overlay(r, q).rev \in PerSection(Rev)
  BY <1>2, <1>4 DEF Overlay, PerSection
<1>6. Overlay(r, q).slot \in PerSection(Presence)
  BY <1>4 DEF Overlay, PerSection, Overlaid, Presence
<1>7. Overlay(r, q).body \in [Section -> SUBSET Txn]
  BY <1>4, RequestParts DEF Overlay, Overlaid
<1>8. Overlay(r, q).dirty \in PerSection(Span)
  BY <1>3, <1>4 DEF Overlay, PerSection
<1>9. Overlay(r, q) \in Root
  <2>1. Overlay(r, q).delta \in (SUBSET Section) \cup {None}
    BY RequestParts DEF Overlay
  <2>2. Overlay(r, q).world \in Rev
    BY DEF Overlay
  <2> QED BY <1>5, <1>6, <1>7, <1>8, <2>1, <2>2 DEF Overlay, Root
<1>10. Within(Overlay(r, q))
  <2> SUFFICES ASSUME NEW s \in Section, Overlay(r, q).rev[s] # None
              PROVE  Overlay(r, q).rev[s] <= Overlay(r, q).world
    BY DEF Within
  <2>1. CASE s \in Writes(q)
    BY <2>1, <1>2 DEF Overlay
  <2>2. CASE s \notin Writes(q)
    <3>1. Overlay(r, q).rev[s] = r.rev[s] /\ Overlay(r, q).world = r.world + 1
      BY <2>2, <1>1 DEF Overlay
    <3>2. r.rev[s] \in Rev /\ r.rev[s] <= r.world
      BY <3>1, <1>4 DEF Within, PerSection
    <3> QED BY <3>1, <3>2, <1>1 DEF Rev
  <2> QED BY <2>1, <2>2
<1> QED BY <1>9, <1>10

(* The Host's cut, the cut of an ack, of an unload and of a restore.       *)
LEMMA HostCutType ==
    ASSUME TypeInv, NEW s \in Section, NEW to \in LoadTargets, HostPublish(s, to)
    PROVE  root' \in Root /\ pin' \in Pin /\ Within(root')
<1> DEFINE r == [world |-> root.world + 1,
                 rev |-> [root.rev EXCEPT ![s] = root.world + 1],
                 slot |-> [root.slot EXCEPT ![s] = to],
                 body |-> [root.body EXCEPT ![s] = IF to = "Ready" THEN persisted[s] ELSE {}],
                 dirty |-> root.dirty,
                 delta |-> {s}]
<1>1. Publish(r) /\ r.world \in Rev
  BY DEF HostPublish, Publish
<1>2. root \in Root /\ persisted[s] \in SUBSET Txn /\ to \in Presence
  BY WorldAssumption DEF TypeInv, TypeOK
<1>3. r \in Root
  BY <1>1, <1>2, ConstantFacts DEF Root, PerSection
<1>4. Within(r)
  <2> SUFFICES ASSUME NEW u \in Section, r.rev[u] # None PROVE r.rev[u] <= r.world
    BY DEF Within
  <2>1. root.world \in Rev /\ root.rev \in [Section -> Rev \cup {None}]
    BY <1>2 DEF Root, PerSection
  <2>2. CASE u = s
    BY <2>1, <2>2, <1>1, ConstantFacts DEF Rev
  <2>3. CASE u # s
    <3>1. root.rev[u] \in Rev /\ root.rev[u] <= root.world
      BY <2>1, <2>3 DEF TypeInv, RevInv, Within
    <3> QED BY <3>1, <2>1, <2>3, WorldAssumption DEF Rev
  <2> QED BY <2>2, <2>3
<1>5. root' = r
  BY <1>1 DEF Publish
<1> HIDE DEF r
<1> QED BY <1>1, <1>3, <1>4, <1>5, PublishType DEF TypeInv

(* apply_durability_ack: a typed cut at the same revisions.                *)
LEMMA AckCutType ==
    ASSUME TypeInv, NEW a \in acks, DeliverAck(a)
    PROVE  root' \in Root /\ pin' \in Pin /\ Within(root')
<1> DEFINE r == [root EXCEPT !.dirty = [s \in Section |-> IF s \in Named(a) THEN None ELSE @[s]],
                             !.delta = {}]
<1>1. Publish(r)
  BY DEF DeliverAck
<1>2. root \in Root
  BY DEF TypeInv, TypeOK
<1>3. r \in Root /\ r.world = root.world /\ r.rev = root.rev
  BY <1>2 DEF Root, PerSection
<1>4. Within(r)
  BY <1>3 DEF TypeInv, RevInv, Within
<1>5. root' = r
  BY <1>1 DEF Publish
<1> HIDE DEF r
<1> QED BY <1>1, <1>3, <1>4, <1>5, PublishType DEF TypeInv

(* unload_section: a typed cut at the same revisions.                      *)
LEMMA UnloadCutType ==
    ASSUME TypeInv, NEW s \in Section, Unload(s)
    PROVE  root' \in Root /\ pin' \in Pin /\ Within(root')
<1> DEFINE r == [root EXCEPT !.slot[s] = "Unchanged", !.body[s] = {}, !.delta = {s}]
<1>1. Publish(r)
  BY DEF Unload
<1>2. root \in Root
  BY DEF TypeInv, TypeOK
<1>3. r \in Root /\ r.world = root.world /\ r.rev = root.rev
  BY <1>2 DEF Root, PerSection, Presence
<1>4. Within(r)
  BY <1>3 DEF TypeInv, RevInv, Within
<1>5. root' = r
  BY <1>1 DEF Publish
<1> HIDE DEF r
<1> QED BY <1>1, <1>3, <1>4, <1>5, PublishType DEF TypeInv

(* RestoreShadowBuilder::build: a snapshot's shadow is a typed cut.        *)
LEMMA ShadowType ==
    ASSUME NEW n \in Snapshot, Within(n)
    PROVE  Shadow(n) \in Root /\ Within(Shadow(n))
BY DEF Snapshot, Shadow, Root, PerSection, Presence, Within

(* Only prepare adds to the ledger, and only where there is room.          *)
LEMMA AddEntry ==
    ASSUME TypeOK, Room, NEW t \in Txn, NEW e \in Entry, ledger' = [ledger EXCEPT ![t] = e]
    PROVE  ledger' \in [Txn -> Entry \cup {None}] /\ Cardinality(Entries') <= MaxReceipts
<1>1. ledger' \in [Txn -> Entry \cup {None}]
  BY DEF TypeOK
<1>2. Entries' = Entries \cup {t}
  BY ConstantFacts DEF TypeOK, Entries
<1>3. IsFiniteSet(Entries)
  BY FS_Subset, WorldAssumption DEF Entries
<1>4. Cardinality(Entries) \in Nat
  BY <1>3, FS_CardinalityType
<1>5. Cardinality(Entries') = Cardinality(Entries) \/ Cardinality(Entries') = Cardinality(Entries) + 1
  BY <1>2, <1>3, FS_AddElement
<1> QED BY <1>1, <1>4, <1>5, WorldAssumption DEF Room

(* Calls that add no entry keep the ledger's budget.                       *)
LEMMA KeepEntries ==
    ASSUME TypeOK, ledger' \in [Txn -> Entry \cup {None}],
           \A t \in Txn : ledger'[t] # None => ledger[t] # None
    PROVE  Cardinality(Entries') <= MaxReceipts
<1>1. Entries' \subseteq Entries
  BY DEF Entries
<1>2. IsFiniteSet(Entries)
  BY FS_Subset, WorldAssumption DEF Entries
<1>3. Cardinality(Entries') <= Cardinality(Entries) /\ IsFiniteSet(Entries')
  BY <1>1, <1>2, FS_Subset
<1>4. Cardinality(Entries) \in Nat /\ Cardinality(Entries') \in Nat
  BY <1>2, <1>3, FS_CardinalityType
<1> QED BY <1>3, <1>4, WorldAssumption DEF TypeOK

(* abort_in_flight keeps the ledger typed and in its budget.               *)
LEMMA AbortInFlightType ==
    ASSUME TypeOK, ledger' = AbortInFlight(ledger)
    PROVE  ledger' \in [Txn -> Entry \cup {None}] /\ Cardinality(Entries') <= MaxReceipts
<1>1. ledger' \in [Txn -> Entry \cup {None}]
  BY DEF TypeOK, AbortInFlight
<1>2. \A t \in Txn : ledger'[t] # None => ledger[t] # None
  BY DEF TypeOK, AbortInFlight
<1> QED BY <1>1, <1>2, KeepEntries

(* A new world is typed: its cut is empty and its ledger has no entry.     *)
LEMMA InitType == Init => TypeInv
<1> SUFFICES ASSUME Init PROVE TypeInv
  OBVIOUS
<1> USE ConstantFacts DEF Init
<1>1. root \in Root
  <2>1. InitialRoot.rev \in PerSection(Rev) /\ InitialRoot.slot \in PerSection(Presence)
    BY DEF InitialRoot, PerSection
  <2>2. InitialRoot.body \in [Section -> SUBSET Txn] /\ InitialRoot.dirty \in PerSection(Span)
    BY DEF InitialRoot, PerSection
  <2> QED BY <2>1, <2>2 DEF InitialRoot, Root
<1>2. Cardinality(Entries) <= MaxReceipts
  <2>1. Entries = {}
    BY DEF Entries
  <2> QED BY <2>1, FS_EmptySet, WorldAssumption
<1>3. "Created" \in SessionState
  BY DEF SessionState, Edges
<1>4. TypeOK
  BY <1>1, <1>2, <1>3, WorldAssumption DEF TypeOK
<1>5. RevInv
  BY DEF RevInv, Within, InitialRoot
<1> QED BY <1>4, <1>5 DEF TypeInv, GenInv

(* Prepared tokens and receipts of mutations.                              *)
LEMMA MutationType == TypeInv /\ MutationStep => TypeInv'
<1> SUFFICES ASSUME TypeInv, NEW h \in Handle,
                    \/ \E q \in Request : Prepare(h, q) \/ PrepareReplay(h, q)
                    \/ CommitReplay(h) \/ CommitApply(h) \/ CommitRefuse(h) \/ DropToken(h)
             PROVE  TypeInv'
  BY DEF MutationStep
<1> USE ConstantFacts
<1>1. ASSUME NEW q \in Request, Prepare(h, q) PROVE TypeInv'
  <2>1. [req |-> q, receipt |-> None] \in Entry /\ [req |-> q, base |-> root, replay |-> None] \in Token
    BY DEF Entry, Token, TypeInv, TypeOK
  <2>2. ledger' \in [Txn -> Entry \cup {None}] /\ Cardinality(Entries') <= MaxReceipts
    BY <1>1, <2>1, AddEntry, RequestParts DEF Prepare, TypeInv
  <2>3. TypeOK'
    BY <1>1, <2>1, <2>2 DEF Prepare, TypeInv, TypeOK, hostVars, historyVars
  <2> QED BY <1>1, <2>3 DEF Prepare, TypeInv, RevInv, GenInv
<1>2. ASSUME NEW q \in Request, PrepareReplay(h, q) PROVE TypeInv'
  <2>1. ledger[q.txn] \in Entry
    BY <1>2, RequestParts DEF PrepareReplay, Completed, TypeInv, TypeOK
  <2>2. [req |-> q, base |-> root, replay |-> ledger[q.txn].receipt] \in Token
    BY <1>2, <2>1 DEF PrepareReplay, Token, Entry, TypeInv, TypeOK
  <2>3. TypeOK'
    BY <1>2, <2>2 DEF PrepareReplay, TypeInv, TypeOK, Entries, hostVars, historyVars
  <2> QED BY <1>2, <2>3 DEF PrepareReplay, TypeInv, RevInv, GenInv
<1>3. ASSUME CommitReplay(h) PROVE TypeInv'
  <2>1. tokens[h] \in Token /\ tokens[h].req.txn \in Txn
    BY <1>3, RequestParts DEF CommitReplay, TypeInv, TypeOK, Token
  <2>2. ledger[tokens[h].req.txn] \in Entry /\ ledger[tokens[h].req.txn].receipt \in Evidence
    BY <1>3, <2>1 DEF CommitReplay, Completed, TypeInv, TypeOK, Entry
  <2>3. ReplayedReceipt(tokens[h]) \in Evidence /\ ReplayedEvidence(tokens[h]) \in Evidence
    BY <2>1, <2>2 DEF ReplayedReceipt, ReplayedEvidence, Evidenced, Evidence, Token, Root
  <2>4. answers' \in [Txn -> SUBSET [receipt : Evidence, evidence : Evidence]]
    BY <1>3, <2>1, <2>3 DEF CommitReplay, Answer, TypeInv, TypeOK
  <2>5. TypeOK'
    BY <1>3, <2>4 DEF CommitReplay, Consume, TypeInv, TypeOK, Entries, hostVars
  <2> QED BY <1>3, <2>5 DEF CommitReplay, TypeInv, RevInv, GenInv
<1>4. ASSUME CommitApply(h) PROVE TypeInv'
  <2> DEFINE k == tokens[h]
             r == Overlay(root, k.req)
             evidence == Evidenced(k.base, r)
             t == k.req.txn
  <2>1. k \in Token /\ k.req \in Request /\ t \in Txn /\ root \in Root
    BY <1>4, RequestParts DEF CommitApply, TypeInv, TypeOK, Token
  <2>2. r \in Root /\ Within(r)
    BY <1>4, <2>1, OverlayType DEF CommitApply, Publish, Overlay, TypeInv, RevInv
  <2>3. root' = r /\ root' \in Root /\ pin' \in Pin
    BY <1>4, <2>2, PublishType DEF CommitApply, Publish, TypeInv
  <2>4. evidence \in Evidence
    BY <2>1, <2>2 DEF Evidenced, Evidence, Token, Root
  <2>5. ledger[t] \in Entry
    BY <1>4, <2>1 DEF CommitApply, Reserved, TypeInv, TypeOK
  <2>6. ledger' = [ledger EXCEPT ![t].receipt = evidence]
    BY <1>4 DEF CommitApply
  <2>7. answers' = [answers EXCEPT ![t] = @ \cup {[receipt |-> evidence, evidence |-> evidence]}]
    BY <1>4 DEF CommitApply, Answer
  <2>8. tokens' = [tokens EXCEPT ![h] = None] /\ applied' = [applied EXCEPT ![t] = @ + 1]
        /\ live' = live \cup {t}
        /\ UNCHANGED <<session, generation, captures, snapshots, hostVars, restores>>
    BY <1>4 DEF CommitApply, Consume
  <2> HIDE DEF k, r, evidence, t
  <2>9. ledger' \in [Txn -> Entry \cup {None}]
    BY <2>1, <2>4, <2>5, <2>6 DEF TypeInv, TypeOK, Entry
  <2>10. Cardinality(Entries') <= MaxReceipts
    <3>1. \A u \in Txn : ledger'[u] # None => ledger[u] # None
      BY <2>1, <2>5, <2>6 DEF TypeInv, TypeOK
    <3> QED BY <2>9, <3>1, KeepEntries DEF TypeInv
  <2>11. answers' \in [Txn -> SUBSET [receipt : Evidence, evidence : Evidence]]
    BY <2>1, <2>4, <2>7 DEF TypeInv, TypeOK
  <2>12. applied' \in [Txn -> Nat]
    BY <2>1, <2>8 DEF TypeInv, TypeOK
  <2>13. TypeOK'
    BY <2>1, <2>3, <2>8, <2>9, <2>10, <2>11, <2>12 DEF TypeInv, TypeOK, hostVars
  <2> QED BY <2>2, <2>3, <2>8, <2>13 DEF TypeInv, RevInv, GenInv
<1>5. ASSUME CommitRefuse(h) PROVE TypeInv'
  <2>1. TypeOK'
    BY <1>5 DEF CommitRefuse, Consume, TypeInv, TypeOK, Entries, hostVars, historyVars
  <2> QED BY <1>5, <2>1 DEF CommitRefuse, TypeInv, RevInv, GenInv
<1>6. ASSUME DropToken(h) PROVE TypeInv'
  <2>1. TypeOK'
    BY <1>6 DEF DropToken, Consume, TypeInv, TypeOK, Entries, hostVars, historyVars
  <2> QED BY <1>6, <2>1 DEF DropToken, TypeInv, RevInv, GenInv
<1> QED BY <1>1, <1>2, <1>3, <1>4, <1>5, <1>6

(* abort takes an entry away.                                              *)
LEMMA AbortType == TypeInv /\ AbortStep => TypeInv'
<1> SUFFICES ASSUME TypeInv, NEW q \in Request, Abort(q) PROVE TypeInv'
  BY DEF AbortStep
<1>1. ledger' \in [Txn -> Entry \cup {None}] /\ \A t \in Txn : ledger'[t] # None => ledger[t] # None
  BY RequestParts DEF Abort, TypeInv, TypeOK
<1>2. Cardinality(Entries') <= MaxReceipts
  BY <1>1, KeepEntries DEF TypeInv
<1>3. TypeOK'
  BY <1>1, <1>2 DEF Abort, TypeInv, TypeOK, callerVars, hostVars, historyVars
<1> QED BY <1>3 DEF Abort, callerVars, TypeInv, RevInv, GenInv

(* Cuts of the Host, acks and unloads.                                     *)
LEMMA ResidencyType == TypeInv /\ ResidencyStep => TypeInv'
<1> SUFFICES ASSUME TypeInv, ResidencyStep PROVE TypeInv'
  OBVIOUS
<1>1. ASSUME NEW s \in Section, Unload(s) PROVE TypeInv'
  <2>1. TypeOK'
    BY <1>1, UnloadCutType DEF Unload, TypeInv, TypeOK, Entries, callerVars, hostVars, historyVars
  <2> QED BY <1>1, <2>1, UnloadCutType DEF Unload, callerVars, TypeInv, RevInv, GenInv
<1>2. ASSUME NEW s \in Section, NEW to \in LoadTargets, HostPublish(s, to) PROVE TypeInv'
  <2>1. TypeOK'
    BY <1>2, HostCutType DEF HostPublish, TypeInv, TypeOK, Entries, callerVars, hostVars, historyVars
  <2> QED BY <1>2, <2>1, HostCutType DEF HostPublish, callerVars, TypeInv, RevInv, GenInv
<1>3. ASSUME NEW S \in SUBSET Section, HostPersist(S) PROVE TypeInv'
  <2>1. persisted' \in [Section -> SUBSET Txn]
    BY <1>3 DEF HostPersist, TypeInv, TypeOK, Root
  <2>2. acks' \in SUBSET Ack
    BY <1>3 DEF HostPersist, TypeInv, TypeOK, Root, Ack, PerSection
  <2>3. TypeOK'
    BY <1>3, <2>1, <2>2 DEF HostPersist, TypeInv, TypeOK, Entries, callerVars, historyVars
  <2> QED BY <1>3, <2>3 DEF HostPersist, callerVars, TypeInv, RevInv, GenInv
<1>4. ASSUME NEW a \in acks, DeliverAck(a) PROVE TypeInv'
  <2>1. TypeOK'
    BY <1>4, AckCutType DEF DeliverAck, TypeInv, TypeOK, Entries, callerVars, hostVars, historyVars
  <2> QED BY <1>4, <2>1, AckCutType DEF DeliverAck, callerVars, TypeInv, RevInv, GenInv
<1>5. ASSUME NEW a \in acks, LoseAck(a) PROVE TypeInv'
  <2>1. TypeOK'
    BY <1>5 DEF LoseAck, TypeInv, TypeOK, Entries, callerVars, historyVars
  <2> QED BY <1>5, <2>1 DEF LoseAck, callerVars, TypeInv, RevInv, GenInv
<1> QED BY <1>1, <1>2, <1>3, <1>4, <1>5 DEF ResidencyStep

(* Captures and snapshots keep their cut's shape, a restore publishes it.  *)
LEMMA CaptureType == TypeInv /\ CaptureStep => TypeInv'
<1> SUFFICES ASSUME TypeInv, CaptureStep PROVE TypeInv'
  OBVIOUS
<1>1. ASSUME CaptureCut PROVE TypeInv'
  <2>1. TypeOK'
    BY <1>1 DEF CaptureCut, Capture, TypeInv, TypeOK, Entries, hostVars, historyVars
  <2> QED BY <1>1, <2>1 DEF CaptureCut, TypeInv, RevInv, GenInv
<1>2. ASSUME NEW c \in captures, DropCapture(c) PROVE TypeInv'
  <2>1. TypeOK'
    BY <1>2 DEF DropCapture, TypeInv, TypeOK, Entries, hostVars, historyVars
  <2> QED BY <1>2, <2>1 DEF DropCapture, TypeInv, RevInv, GenInv
<1>3. ASSUME NEW c \in captures, Encode(c) PROVE TypeInv'
  <2> DEFINE n == [world |-> c.root.world, rev |-> c.root.rev]
  <2>1. n \in Snapshot /\ Within(n)
    BY DEF TypeInv, TypeOK, RevInv, Capture, Root, Snapshot, Within
  <2>2. snapshots' = snapshots \cup {n}
    BY <1>3 DEF Encode
  <2> HIDE DEF n
  <2>3. TypeOK'
    BY <1>3, <2>1, <2>2 DEF Encode, TypeInv, TypeOK, Entries, hostVars, historyVars
  <2> QED BY <1>3, <2>1, <2>2, <2>3 DEF Encode, TypeInv, RevInv, GenInv
<1>4. ASSUME NEW n \in snapshots, Restore(n) PROVE TypeInv'
  <2>1. Shadow(n) \in Root /\ Within(Shadow(n))
    BY ShadowType DEF TypeInv, TypeOK, RevInv
  <2>2. root' = Shadow(n) /\ root' \in Root /\ pin' \in Pin
    BY <1>4, <2>1, PublishType DEF Restore, Publish, TypeInv
  <2>3. ledger' \in [Txn -> Entry \cup {None}] /\ Cardinality(Entries') <= MaxReceipts
    BY <1>4, AbortInFlightType DEF Restore, TypeInv
  <2>4. restores' \in 0..MaxRestores
    BY <1>4, WorldAssumption DEF Restore, TypeInv, TypeOK
  <2>5. TypeOK'
    BY <1>4, <2>2, <2>3, <2>4 DEF Restore, TypeInv, TypeOK, callerVars
  <2> QED BY <1>4, <2>1, <2>2, <2>5 DEF Restore, callerVars, TypeInv, RevInv, GenInv
<1> QED BY <1>1, <1>2, <1>3, <1>4 DEF CaptureStep

(* The generation is bumped where the session is disposed.                 *)
LEMMA SessionType == TypeInv /\ SessionStep => TypeInv'
<1> SUFFICES ASSUME TypeInv, SessionStep PROVE TypeInv'
  OBVIOUS
<1>0. /\ "Draining" \in SessionState /\ "Snapshotted" \in SessionState /\ "Disposed" \in SessionState
      /\ \A e \in Edges : e[1] # "Disposed"
  BY DEF SessionState, Edges
<1>1. ASSUME NEW to \in SessionState, Lifecycle(to) PROVE TypeInv'
  <2>1. session # "Disposed"
    BY <1>0, <1>1 DEF Lifecycle
  <2>2. TypeOK'
    BY <1>1 DEF Lifecycle, TypeInv, TypeOK, Entries, callerVars, hostVars, historyVars
  <2> QED BY <1>1, <2>1, <2>2 DEF Lifecycle, callerVars, TypeInv, RevInv, GenInv
<1>2. ASSUME ShutdownBegin PROVE TypeInv'
  <2>1. session # "Disposed"
    BY <1>0, <1>2 DEF ShutdownBegin
  <2>2. TypeOK'
    BY <1>0, <1>2 DEF ShutdownBegin, TypeInv, TypeOK, Entries, callerVars, hostVars, historyVars
  <2> QED BY <1>2, <2>1, <2>2 DEF ShutdownBegin, callerVars, TypeInv, RevInv, GenInv
<1>3. ASSUME ShutdownDrain PROVE TypeInv'
  <2>1. TypeOK'
    BY <1>0, <1>3, AbortInFlightType DEF ShutdownDrain, TypeInv, TypeOK, callerVars, hostVars, historyVars
  <2> QED BY <1>3, <2>1 DEF ShutdownDrain, callerVars, TypeInv, RevInv, GenInv
<1>4. ASSUME ShutdownFinalize PROVE TypeInv'
  <2>1. generation' \in {1, 2}
    BY <1>4 DEF ShutdownFinalize, TypeInv, GenInv
  <2>2. TypeOK'
    BY <1>0, <1>4, <2>1 DEF ShutdownFinalize, TypeInv, TypeOK, Entries, callerVars, hostVars, historyVars
  <2> QED BY <1>4, <2>2 DEF ShutdownFinalize, callerVars, TypeInv, RevInv, GenInv
<1>5. ASSUME FaultTrip PROVE TypeInv'
  <2>1. generation' \in {1, 2}
    BY <1>5 DEF FaultTrip, TypeInv, GenInv
  <2>2. ledger' \in [Txn -> Entry \cup {None}] /\ Cardinality(Entries') <= MaxReceipts
    <3>1. CASE session = "Snapshotted"
      BY <1>5, <3>1 DEF FaultTrip, TypeInv, TypeOK, Entries
    <3>2. CASE session # "Snapshotted"
      BY <1>5, <3>2, AbortInFlightType DEF FaultTrip, TypeInv
    <3> QED BY <3>1, <3>2
  <2>3. TypeOK'
    BY <1>0, <1>5, <2>1, <2>2 DEF FaultTrip, TypeInv, TypeOK, callerVars, hostVars, historyVars
  <2> QED BY <1>5, <2>3 DEF FaultTrip, callerVars, TypeInv, RevInv, GenInv
<1> QED BY <1>1, <1>2, <1>3, <1>4, <1>5 DEF SessionStep

(* Nothing happens.                                                        *)
LEMMA StutterType == TypeInv /\ UNCHANGED vars => TypeInv'
BY DEF vars, callerVars, hostVars, historyVars, TypeInv, TypeOK, RevInv, GenInv, Entries

(* One case per group of entry points.                                     *)
LEMMA TypeStep == TypeInv /\ [Next]_vars => TypeInv'
BY MutationType, AbortType, ResidencyType, CaptureType, SessionType, StutterType DEF Next

(* Every entry point of VoxelWorld keeps every variable's type, the ledger *)
(* within max_receipts, and no section revision ahead of its world's.      *)
THEOREM TypeInvariant == Spec => []TypeInv
BY InitType, TypeStep, PTL DEF Spec

(* The variables of a world always have their types: in particular the     *)
(* ledger never holds more than max_receipts entries, prepared or applied. *)
THEOREM TypeCorrect == Spec => []TypeOK
BY TypeInvariant, PTL DEF TypeInv

----------------------------------------------------------------------------
(* The ledger, the drain, the revisions and the writes.                    *)

(* The ledger under every step: receipts stay, and only a commit makes one. *)
Kept ==
    \A t \in Txn : /\ Completed(t) => ledger'[t] = ledger[t]
                   /\ Completed(t)' => Completed(t)

(* Steps that publish no cut, store nothing and apply nothing.             *)
Quiet ==
    /\ UNCHANGED <<root, persisted, applied, live, restores>>
    /\ acks' \subseteq acks
    /\ captures' \subseteq captures \cup {[root |-> root, pin |-> pin]}

(* abort_in_flight takes reservations only.                                *)
LEMMA AbortKeeps ==
    ASSUME TypeInv, ledger' = AbortInFlight(ledger)
    PROVE  Kept
BY DEF Kept, AbortInFlight, Completed, TypeInv, TypeOK

(* A call that does not touch the ledger keeps its receipts.               *)
LEMMA SameLedgerKeeps ==
    ASSUME UNCHANGED ledger
    PROVE  Kept
BY DEF Kept, Completed

(* What a commit does to the ledger.                                       *)
LEMMA CommitLedger ==
    ASSUME TypeInv, NEW h \in Handle, CommitApply(h), NEW t, t = tokens[h].req.txn
    PROVE  /\ tokens[h] \in Token /\ tokens[h].req \in Request /\ t \in Txn
           /\ Reserved(t) /\ ledger[t].req = tokens[h].req
           /\ ledger'[t] = [req |-> tokens[h].req, receipt |-> Evidenced(tokens[h].base, root')]
           /\ Completed(t)'
           /\ \A u \in Txn \ {t} : ledger'[u] = ledger[u]
<1> DEFINE e == Evidenced(tokens[h].base, root')
<1>1. tokens[h] \in Token /\ tokens[h].req \in Request /\ t \in Txn
  BY RequestParts DEF CommitApply, TypeInv, TypeOK, Token
<1>2. Reserved(t) /\ ledger[t].req = tokens[h].req /\ ledger' = [ledger EXCEPT ![t].receipt = e]
  BY DEF CommitApply, Matches, Publish
<1>3. ledger[t] \in Entry /\ ledger \in [Txn -> Entry \cup {None}]
  BY <1>1, <1>2 DEF Reserved, TypeInv, TypeOK
<1>4. e \in Evidence
  <2>1. root' \in Root
    BY MutationType DEF MutationStep, TypeInv, TypeOK
  <2> QED BY <1>1, <2>1 DEF Evidenced, Evidence, Token, Root
<1> HIDE DEF e
<1>5. ledger'[t] = [req |-> tokens[h].req, receipt |-> e] /\ \A u \in Txn \ {t} : ledger'[u] = ledger[u]
  BY <1>1, <1>2, <1>3 DEF Entry
<1>6. Completed(t)'
  <2>1. ledger'[t] \in Entry
    BY <1>1, <1>4, <1>5 DEF Entry
  <2>2. ledger'[t] # None /\ ledger'[t].receipt # None
    BY <2>1, <1>4, <1>5, ConstantFacts
  <2> QED BY <2>2 DEF Completed
<1> QED BY <1>1, <1>2, <1>5, <1>6 DEF e

CommitStep == \E h \in Handle, t \in Txn : CommitApply(h) /\ t = tokens[h].req.txn

(* Every step is a commit, a publication without one, a store by the Host  *)
(* or quiet.                                                               *)
LEMMA Classify ==
    ASSUME TypeInv, [Next]_vars
    PROVE  \/ CommitStep
           \/ /\ Kept
              /\ \/ Quiet
                 \/ \E s \in Section, to \in LoadTargets : HostPublish(s, to)
                 \/ \E S \in SUBSET Section : HostPersist(S)
                 \/ \E a \in acks : DeliverAck(a)
                 \/ \E s \in Section : Unload(s)
                 \/ \E n \in snapshots : Restore(n)
<1> DEFINE Goal == \/ Quiet
                   \/ \E s \in Section, to \in LoadTargets : HostPublish(s, to)
                   \/ \E S \in SUBSET Section : HostPersist(S)
                   \/ \E a \in acks : DeliverAck(a)
                   \/ \E s \in Section : Unload(s)
                   \/ \E n \in snapshots : Restore(n)
<1> SUFFICES CommitStep \/ (Kept /\ Goal)
  OBVIOUS
<1>1. CASE UNCHANGED vars
  BY <1>1, SameLedgerKeeps DEF vars, callerVars, hostVars, historyVars, Quiet
<1>2. CASE MutationStep
  <2>1. PICK h \in Handle :
            \/ \E q \in Request : Prepare(h, q) \/ PrepareReplay(h, q)
            \/ CommitReplay(h) \/ CommitApply(h) \/ CommitRefuse(h) \/ DropToken(h)
    BY <1>2 DEF MutationStep
  <2>2. ASSUME NEW q \in Request, Prepare(h, q) PROVE Kept /\ Quiet
    <3>1. Kept
      BY <2>2, RequestParts DEF Prepare, Kept, Completed, TypeInv, TypeOK
    <3> QED BY <2>2, <3>1 DEF Prepare, Quiet, hostVars, historyVars
  <2>3. ASSUME NEW q \in Request, PrepareReplay(h, q) PROVE Kept /\ Quiet
    BY <2>3, SameLedgerKeeps DEF PrepareReplay, Quiet, hostVars, historyVars
  <2>4. CASE CommitReplay(h)
    BY <2>4, SameLedgerKeeps DEF CommitReplay, Quiet, hostVars
  <2>5. CASE CommitApply(h)
    BY <2>5, CommitLedger DEF CommitStep
  <2>6. CASE CommitRefuse(h)
    BY <2>6, SameLedgerKeeps DEF CommitRefuse, Quiet, hostVars, historyVars
  <2>7. CASE DropToken(h)
    BY <2>7, SameLedgerKeeps DEF DropToken, Quiet, hostVars, historyVars
  <2> QED BY <2>1, <2>2, <2>3, <2>4, <2>5, <2>6, <2>7
<1>3. CASE AbortStep
  <2>1. PICK q \in Request : Abort(q)
    BY <1>3 DEF AbortStep
  <2>2. Kept
    BY <2>1, RequestParts DEF Abort, Kept, Completed, Reserved, TypeInv, TypeOK
  <2> QED BY <2>1, <2>2 DEF Abort, Quiet, callerVars, hostVars, historyVars
<1>4. CASE ResidencyStep
  <2>1. ASSUME NEW a \in acks, LoseAck(a) PROVE Kept /\ Quiet
    BY <2>1, SameLedgerKeeps DEF LoseAck, Quiet, callerVars, historyVars
  <2>2. (\E a \in acks : LoseAck(a)) \/ (Goal /\ UNCHANGED ledger)
    BY <1>4 DEF ResidencyStep, Unload, HostPublish, HostPersist, DeliverAck
  <2> QED BY <2>1, <2>2, SameLedgerKeeps
<1>5. CASE CaptureStep
  <2>1. CASE CaptureCut
    BY <2>1, SameLedgerKeeps DEF CaptureCut, Quiet, hostVars, historyVars
  <2>2. ASSUME NEW c \in captures, DropCapture(c) \/ Encode(c) PROVE Kept /\ Quiet
    BY <2>2, SameLedgerKeeps DEF DropCapture, Encode, Quiet, hostVars, historyVars
  <2>3. ASSUME NEW n \in snapshots, Restore(n) PROVE Kept /\ Goal
    BY <2>3, AbortKeeps DEF Restore
  <2> QED BY <1>5, <2>1, <2>2, <2>3 DEF CaptureStep
<1>6. CASE SessionStep
  <2>1. Quiet
    BY <1>6 DEF SessionStep, Lifecycle, ShutdownBegin, ShutdownDrain, ShutdownFinalize, FaultTrip,
                Quiet, callerVars, hostVars, historyVars
  <2>2. ledger' = ledger \/ ledger' = AbortInFlight(ledger)
    BY <1>6 DEF SessionStep, Lifecycle, ShutdownBegin, ShutdownDrain, ShutdownFinalize, FaultTrip
  <2> QED BY <2>1, <2>2, AbortKeeps, SameLedgerKeeps
<1> QED BY <1>1, <1>2, <1>3, <1>4, <1>5, <1>6 DEF Next

(* Commits keep the receipts of other transactions.                        *)
LEMMA ReceiptsKept ==
    ASSUME TypeInv, [Next]_vars, NEW t \in Txn, Completed(t)
    PROVE  ledger'[t] = ledger[t] /\ Completed(t)'
<1>1. CASE Kept
  BY <1>1 DEF Kept, Completed
<1>2. CASE CommitStep
  <2>1. PICK h \in Handle, u \in Txn : CommitApply(h) /\ u = tokens[h].req.txn
    BY <1>2 DEF CommitStep
  <2>2. Reserved(u) /\ \A v \in Txn \ {u} : ledger'[v] = ledger[v]
    BY <2>1, CommitLedger
  <2>3. t # u
    BY <2>2 DEF Reserved, Completed
  <2> QED BY <2>2, <2>3 DEF Completed
<1> QED BY <1>1, <1>2, Classify

(* No call ever removes or replaces the receipt of an applied transaction: *)
(* not abort, not restore, not the drain of a shutdown, not a fault.       *)
THEOREM ReceiptsArePermanent == Spec => ReceiptsForever
<1>1. TypeInv /\ [Next]_vars => [\A t \in Txn : Completed(t) => ledger'[t] = ledger[t]]_vars
  BY ReceiptsKept
<1> QED BY <1>1, TypeInvariant, PTL DEF Spec, ReceiptsForever

(* What counts as applied under every step.                                *)
LEMMA StepOnce == TypeInv /\ AtMostOnce /\ [Next]_vars => AtMostOnce'
<1> SUFFICES ASSUME TypeInv, AtMostOnce, [Next]_vars, NEW t \in Txn
             PROVE  applied'[t] = IF Completed(t)' THEN 1 ELSE 0
  BY DEF AtMostOnce
<1>1. CASE CommitStep
  <2>1. PICK h \in Handle, u \in Txn : CommitApply(h) /\ u = tokens[h].req.txn
    BY <1>1 DEF CommitStep
  <2>2. Reserved(u) /\ Completed(u)' /\ \A v \in Txn \ {u} : ledger'[v] = ledger[v]
    BY <2>1, CommitLedger
  <2>3. applied' = [applied EXCEPT ![u] = @ + 1]
    BY <2>1 DEF CommitApply
  <2>4. CASE t = u
    <3>1. ~Completed(t)
      BY <2>2, <2>4 DEF Reserved, Completed
    <3>2. applied[t] = 0
      BY <3>1 DEF AtMostOnce
    <3>3. applied'[t] = 1
      BY <2>3, <2>4, <3>2 DEF TypeInv, TypeOK
    <3> QED BY <2>2, <2>4, <3>3
  <2>5. CASE t # u
    <3>1. Completed(t)' <=> Completed(t)
      BY <2>2, <2>5 DEF Completed
    <3>2. applied'[t] = applied[t]
      BY <2>3, <2>5 DEF TypeInv, TypeOK
    <3> QED BY <3>1, <3>2 DEF AtMostOnce
  <2> QED BY <2>4, <2>5
<1>2. CASE Kept /\ UNCHANGED applied
  <2>1. Completed(t)' <=> Completed(t)
    BY <1>2 DEF Kept, Completed
  <2> QED BY <1>2, <2>1 DEF AtMostOnce
<1>3. CommitStep \/ (Kept /\ UNCHANGED applied)
  BY Classify DEF Quiet, HostPublish, HostPersist, DeliverAck, Unload, Restore, historyVars
<1> QED BY <1>1, <1>2, <1>3

(* However often a transaction is prepared, aborted, prepared again,       *)
(* committed from twin tokens and restored over, it changes the published  *)
(* cut once, exactly when the ledger gets its receipt.                     *)
THEOREM AppliedAtMostOnce == Spec => []AtMostOnce
<1>1. Init => AtMostOnce
  BY DEF Init, AtMostOnce, Completed
<1> QED BY <1>1, StepOnce, TypeInvariant, PTL DEF Spec

----------------------------------------------------------------------------
(* One receipt per transaction.                                            *)

(* Answers and replay tokens carry the receipt of the ledger.              *)
ReceiptInv ==
    /\ \A t \in Txn : \A a \in answers[t] : Completed(t) /\ a.receipt = ledger[t].receipt
    /\ \A h \in Handle :
          (tokens[h] # None /\ tokens[h].replay # None) =>
              /\ Completed(tokens[h].req.txn)
              /\ tokens[h].replay = ledger[tokens[h].req.txn].receipt

(* Steps that give no answer and prepare no replay.                        *)
LEMMA SilentReceipts ==
    ASSUME TypeInv, ReceiptInv, [Next]_vars,
           \A t \in Txn : answers'[t] \subseteq answers[t],
           \A h \in Handle : tokens'[h] = tokens[h] \/ tokens'[h] = None \/ tokens'[h].replay = None
    PROVE  ReceiptInv'
<1>1. ASSUME NEW t \in Txn, NEW a \in answers'[t]
      PROVE  Completed(t)' /\ a.receipt = ledger'[t].receipt
  <2>1. Completed(t) /\ a.receipt = ledger[t].receipt
    BY <1>1 DEF ReceiptInv
  <2> QED BY <2>1, ReceiptsKept
<1>2. ASSUME NEW h \in Handle, tokens'[h] # None, tokens'[h].replay # None, NEW t, t = tokens'[h].req.txn
      PROVE  Completed(t)' /\ tokens'[h].replay = ledger'[t].receipt
  <2>1. tokens'[h] = tokens[h]
    BY <1>2
  <2>2. t \in Txn
    BY <1>2, <2>1, RequestParts DEF TypeInv, TypeOK, Token
  <2>3. Completed(t) /\ tokens[h].replay = ledger[t].receipt
    BY <1>2, <2>1 DEF ReceiptInv
  <2> QED BY <2>1, <2>2, <2>3, ReceiptsKept
<1> QED BY <1>1, <1>2 DEF ReceiptInv, Completed

(* A step answers from a commit, answers from a replay or gives no answer. *)
LEMMA StepReceipts == TypeInv /\ ReceiptInv /\ [Next]_vars => ReceiptInv'
<1> SUFFICES ASSUME TypeInv, ReceiptInv, [Next]_vars PROVE ReceiptInv'
  OBVIOUS
<1>1. ASSUME NEW h \in Handle, NEW q \in Request, PrepareReplay(h, q) PROVE ReceiptInv'
  <2>1. q.txn \in Txn /\ Completed(q.txn) /\ UNCHANGED <<ledger, answers>>
    BY <1>1, RequestParts DEF PrepareReplay, historyVars
  <2>2. tokens' = [tokens EXCEPT ![h] = [req |-> q, base |-> root, replay |-> ledger[q.txn].receipt]]
    BY <1>1 DEF PrepareReplay
  <2> QED BY <2>1, <2>2 DEF ReceiptInv, Completed, TypeInv, TypeOK
<1>2. ASSUME NEW h \in Handle, CommitReplay(h) PROVE ReceiptInv'
  <2> DEFINE t == tokens[h].req.txn
             receipt == ReplayedReceipt(tokens[h])
             evidence == ReplayedEvidence(tokens[h])
  <2>1. t \in Txn /\ Completed(t) /\ receipt = ledger[t].receipt
    BY <1>2, RequestParts DEF CommitReplay, ReplayedReceipt, ReceiptInv, TypeInv, TypeOK, Token
  <2>2. UNCHANGED ledger /\ tokens' = [tokens EXCEPT ![h] = None]
        /\ answers' = [answers EXCEPT ![t] = @ \cup {[receipt |-> receipt, evidence |-> evidence]}]
    BY <1>2 DEF CommitReplay, Answer, Consume
  <2> HIDE DEF t, receipt, evidence
  <2> QED BY <2>1, <2>2 DEF ReceiptInv, Completed, TypeInv, TypeOK
<1>3. ASSUME NEW h \in Handle, CommitApply(h) PROVE ReceiptInv'
  <2>0. PICK t \in Txn : t = tokens[h].req.txn
    BY <1>3, CommitLedger
  <2> DEFINE e == Evidenced(tokens[h].base, root')
  <2>1. ledger'[t].receipt = e /\ Completed(t)' /\ ~Completed(t)
    <3>1. ledger'[t] = [req |-> tokens[h].req, receipt |-> e] /\ Completed(t)' /\ Reserved(t)
      BY <1>3, <2>0, CommitLedger
    <3> QED BY <3>1 DEF Reserved, Completed
  <2>2. tokens' = [tokens EXCEPT ![h] = None]
        /\ answers' = [answers EXCEPT ![t] = @ \cup {[receipt |-> e, evidence |-> e]}]
    BY <1>3, <2>0 DEF CommitApply, Answer, Consume, Publish
  <2> HIDE DEF e
  <2>3. ASSUME NEW u \in Txn, NEW a \in answers'[u]
        PROVE  Completed(u)' /\ a.receipt = ledger'[u].receipt
    <3>1. CASE a \in answers[u]
      <4>1. Completed(u) /\ a.receipt = ledger[u].receipt
        BY <3>1 DEF ReceiptInv
      <4> QED BY <4>1, ReceiptsKept
    <3>2. CASE a \notin answers[u]
      <4>1. u = t /\ a = [receipt |-> e, evidence |-> e]
        BY <2>2, <2>3, <3>2 DEF TypeInv, TypeOK
      <4> QED BY <2>1, <4>1
    <3> QED BY <3>1, <3>2
  <2>4. ASSUME NEW g \in Handle, tokens'[g] # None, tokens'[g].replay # None, NEW u, u = tokens'[g].req.txn
        PROVE  Completed(u)' /\ tokens'[g].replay = ledger'[u].receipt
    <3>1. tokens'[g] = tokens[g]
      BY <2>2, <2>4 DEF TypeInv, TypeOK
    <3>2. u \in Txn /\ Completed(u) /\ tokens[g].replay = ledger[u].receipt
      BY <2>4, <3>1, RequestParts DEF ReceiptInv, TypeInv, TypeOK, Token
    <3> QED BY <3>1, <3>2, ReceiptsKept
  <2> QED BY <2>3, <2>4 DEF ReceiptInv, Completed
<1>4. CASE UNCHANGED answers /\ \A h \in Handle :
             tokens'[h] = tokens[h] \/ tokens'[h] = None \/ tokens'[h].replay = None
  BY <1>4, SilentReceipts
<1>5. ASSUME NEW h \in Handle, NEW q \in Request, Prepare(h, q) PROVE ReceiptInv'
  <2>1. UNCHANGED answers /\ \A g \in Handle : tokens'[g] = tokens[g] \/ tokens'[g].replay = None
    BY <1>5 DEF Prepare, historyVars, TypeInv, TypeOK
  <2> QED BY <2>1, <1>4
<1>6. ASSUME NEW h \in Handle, CommitRefuse(h) \/ DropToken(h) PROVE ReceiptInv'
  <2>1. UNCHANGED answers /\ \A g \in Handle : tokens'[g] = tokens[g] \/ tokens'[g] = None
    BY <1>6 DEF CommitRefuse, DropToken, Consume, historyVars, TypeInv, TypeOK
  <2> QED BY <2>1, <1>4
<1>7. CASE ~MutationStep
  <2>1. UNCHANGED <<answers, tokens>>
    BY <1>7 DEF Next, vars, AbortStep, ResidencyStep, CaptureStep, SessionStep, Abort, Unload, HostPublish,
                HostPersist, DeliverAck, LoseAck, CaptureCut, DropCapture, Encode, Restore, Lifecycle,
                ShutdownBegin, ShutdownDrain, ShutdownFinalize, FaultTrip, callerVars, historyVars
  <2> QED BY <2>1, <1>4
<1> QED BY <1>1, <1>2, <1>3, <1>5, <1>6, <1>7 DEF MutationStep

(* A duplicate is answered with the receipt of the one application, by     *)
(* whichever of the two paths of duplicate_receipt it is found.            *)
THEOREM OneReceipt == Spec => []ReceiptsAgree
<1>1. Init => ReceiptInv
  BY DEF Init, ReceiptInv
<1>2. ReceiptInv => ReceiptsAgree
  BY DEF ReceiptInv, ReceiptsAgree
<1> QED BY <1>1, <1>2, StepReceipts, TypeInvariant, PTL DEF Spec

----------------------------------------------------------------------------
(* The drain.                                                              *)

(* What a step may do to a world that closes.                              *)
LEMMA StepClosing ==
    ASSUME TypeInv, [Next]_vars, Closing
    PROVE  /\ Closing'
           /\ applied' = applied /\ restores' = restores
           /\ \A s \in Section :
                 /\ root'.dirty[s] = root.dirty[s]
                 /\ (root.slot[s] = "Ready" => root'.slot[s] = "Ready")
<1>0. ~WriteAdmissible
  BY DEF Closing, WriteAdmissible
<1>1. ASSUME NEW s \in Section, NEW to \in LoadTargets, HostPublish(s, to)
      PROVE  /\ root'.dirty = root.dirty
             /\ \A u \in Section : root.slot[u] = "Ready" => root'.slot[u] = "Ready"
  <2>1. root'.dirty = root.dirty /\ root'.slot = [root.slot EXCEPT ![s] = to]
    BY <1>1 DEF HostPublish, Publish
  <2>2. root.slot[s] # "Ready"
    BY <1>1, ConstantFacts DEF HostPublish, Convertible, Presence
  <2> QED BY <2>1, <2>2 DEF TypeInv, TypeOK, Root, PerSection
<1>2. CASE \E s \in Section, to \in LoadTargets : HostPublish(s, to)
  BY <1>1, <1>2 DEF HostPublish, historyVars, Closing
<1>3. CASE SessionStep
  BY <1>3 DEF SessionStep, Lifecycle, ShutdownBegin, ShutdownDrain, ShutdownFinalize, FaultTrip, Edges,
              historyVars, Closing
<1>4. CASE ~SessionStep /\ ~\E s \in Section, to \in LoadTargets : HostPublish(s, to)
  <2>1. UNCHANGED <<session, root, applied, restores>>
    BY <1>0, <1>4 DEF Next, vars, MutationStep, AbortStep, ResidencyStep, CaptureStep,
        Prepare, PrepareReplay, CommitReplay, CommitApply, CommitRefuse, DropToken, Abort, Unload,
        HostPersist, DeliverAck, LoseAck, CaptureCut, DropCapture, Encode, Restore, historyVars
  <2> QED BY <2>1 DEF Closing
<1> QED BY <1>2, <1>3, <1>4

(* Once a world drains it stays closed and no prepared mutation, ack,      *)
(* unload or restore that is still on its way changes it.                  *)
THEOREM DrainIsFinal == Spec => NoWriteAfterDrain
<1>1. TypeInv /\ [Next]_vars =>
        [Closing =>
           /\ Closing'
           /\ applied' = applied /\ restores' = restores
           /\ \A s \in Section :
                 /\ root'.dirty[s] = root.dirty[s]
                 /\ (root.slot[s] = "Ready" => root'.slot[s] = "Ready")]_vars
  BY StepClosing
<1> QED BY <1>1, TypeInvariant, PTL DEF Spec, NoWriteAfterDrain

----------------------------------------------------------------------------
(* What the publications do to a section.                                  *)

SameSection(s) ==
    /\ root'.rev[s] = root.rev[s] /\ root'.slot[s] = root.slot[s]
    /\ root'.body[s] = root.body[s] /\ root'.dirty[s] = root.dirty[s]

(* The parts of the published cut and their types.                         *)
LEMMA RootParts ==
    ASSUME TypeInv
    PROVE  /\ root.world \in Nat
           /\ \A s \in Section :
                 /\ root.rev[s] # None => root.rev[s] \in Nat /\ root.rev[s] <= root.world
                 /\ root.dirty[s] # None => root.dirty[s] \in Span
                 /\ root.slot[s] \in Presence \cup {None}
                 /\ root.body[s] \in SUBSET Txn
                 /\ CurrentRev(root, s) \in Nat
BY ConstantFacts DEF TypeInv, TypeOK, RevInv, Within, Root, PerSection, CurrentRev

(* commit: every section written advances and carries the transaction.     *)
LEMMA CommitCut ==
    ASSUME TypeInv, NEW h \in Handle, CommitApply(h), NEW q, q = tokens[h].req
    PROVE  /\ root'.world = root.world + 1
           /\ live' = live \cup {q.txn} /\ UNCHANGED <<captures, persisted, acks, restores>>
           /\ \A s \in Section \ Writes(q) : SameSection(s)
           /\ \A s \in Writes(q) :
                 /\ s \in Section /\ q.expect[s] = CurrentRev(root, s)
                 /\ root'.rev[s] = CurrentRev(root, s) + 1 /\ root'.rev[s] \in Rev
                 /\ root.slot[s] = "Ready" /\ root'.slot[s] = "Ready"
                 /\ root'.body[s] = root.body[s] \cup {q.txn}
                 /\ root'.dirty[s] = RecordDirty(root.dirty[s], root'.rev[s])
<1>1. root' = Overlay(root, q) /\ Fresh(root, q) /\ AllReady(root, q) /\ live' = live \cup {q.txn}
      /\ UNCHANGED <<captures, persisted, acks, restores>>
  BY DEF CommitApply, Publish, Recheck, hostVars
<1>2. q \in Request /\ Writes(q) \subseteq Section
  <2>1. q \in Request
    BY DEF CommitApply, TypeInv, TypeOK, Token
  <2> QED BY <2>1, RequestParts
<1>3. \A s \in Section : CurrentRev(root, s) + 1 \in Rev
  <2>1. root.world + 1 \in Rev /\ root.world \in Rev
    BY <1>1 DEF CommitApply, Publish, Overlay, NextWorld, TypeInv, TypeOK, Root
  <2>2. \A s \in Section : CurrentRev(root, s) \in Nat /\ CurrentRev(root, s) <= root.world
    BY <2>1, RootParts, ConstantFacts DEF CurrentRev
  <2> QED BY <2>1, <2>2, WorldAssumption DEF Rev
<1> QED BY <1>1, <1>2, <1>3 DEF Overlay, Overlaid, NextRev, NextWorld, Fresh, AllReady, SameSection

(* DirtyFrontier::record never lowers the latest revision of a mark.       *)
LEMMA DirtyGrows ==
    ASSUME NEW n \in Rev, NEW d, d # None => d \in Span
    PROVE  /\ RecordDirty(d, n) \in Span /\ RecordDirty(d, n) # None
           /\ RecordDirty(d, n).latest >= n
           /\ d # None => RecordDirty(d, n).latest >= d.latest
<1>1. RecordDirty(d, n) \in Span
  BY DEF RecordDirty, Span
<1>2. d # None => d.latest \in Nat
  BY ConstantFacts DEF Span
<1> QED BY <1>1, <1>2, ConstantFacts DEF RecordDirty

(* The Host: one section that was not resident, at a fresh revision.       *)
LEMMA HostCut ==
    ASSUME TypeInv, NEW s \in Section, NEW to \in LoadTargets, HostPublish(s, to)
    PROVE  /\ root'.world = root.world + 1
           /\ UNCHANGED <<captures, persisted, acks, live, restores>>
           /\ \A u \in Section \ {s} : SameSection(u)
           /\ root.slot[s] # "Ready"
           /\ root'.rev[s] = root.world + 1 /\ root'.rev[s] \in Rev /\ root'.slot[s] = to
           /\ root'.body[s] = IF to = "Ready" THEN persisted[s] ELSE {}
           /\ root'.dirty[s] = root.dirty[s]
<1>1. /\ root' = [world |-> root.world + 1,
                  rev |-> [root.rev EXCEPT ![s] = root.world + 1],
                  slot |-> [root.slot EXCEPT ![s] = to],
                  body |-> [root.body EXCEPT ![s] = IF to = "Ready" THEN persisted[s] ELSE {}],
                  dirty |-> root.dirty,
                  delta |-> {s}]
      /\ root.world + 1 \in Rev
      /\ UNCHANGED <<captures, persisted, acks, live, restores>>
  BY DEF HostPublish, Publish, callerVars, hostVars, historyVars
<1>2. root.slot[s] # "Ready"
  BY ConstantFacts DEF HostPublish, Convertible, Presence
<1>3. /\ root.rev \in [Section -> Rev \cup {None}] /\ root.slot \in [Section -> Presence \cup {None}]
      /\ root.body \in [Section -> SUBSET Txn]
  BY DEF TypeInv, TypeOK, Root, PerSection
<1> QED BY <1>1, <1>2, <1>3 DEF SameSection

(* apply_durability_ack: only covered marks are cleared.                   *)
LEMMA AckCut ==
    ASSUME TypeInv, NEW a \in acks, DeliverAck(a)
    PROVE  /\ UNCHANGED <<captures, persisted, acks, live, restores>>
           /\ root'.world = root.world
           /\ \A s \in Section :
                 /\ root'.rev[s] = root.rev[s] /\ root'.slot[s] = root.slot[s]
                 /\ root'.body[s] = root.body[s]
                 /\ \/ root'.dirty[s] = root.dirty[s]
                    \/ /\ root'.dirty[s] = None /\ root.dirty[s] # None /\ a.upTo[s] # None
                       /\ root.dirty[s].latest <= a.upTo[s]
<1>1. /\ root' = [root EXCEPT !.dirty = [s \in Section |-> IF s \in Named(a) THEN None ELSE @[s]],
                              !.delta = {}]
      /\ \A s \in Named(a) : root.dirty[s].latest <= a.upTo[s]
      /\ UNCHANGED <<captures, persisted, acks, live, restores>>
  BY DEF DeliverAck, AckAdmissible, Publish, callerVars, hostVars, historyVars
<1>2. root \in Root
  BY DEF TypeInv, TypeOK
<1>3. /\ root'.world = root.world /\ root'.rev = root.rev /\ root'.slot = root.slot /\ root'.body = root.body
      /\ root'.dirty = [s \in Section |-> IF s \in Named(a) THEN None ELSE root.dirty[s]]
  BY <1>1, <1>2 DEF Root
<1> QED BY <1>1, <1>3 DEF Named

(* unload_section: one clean section loses its payload.                    *)
LEMMA UnloadCut ==
    ASSUME TypeInv, NEW s \in Section, Unload(s)
    PROVE  /\ UNCHANGED <<captures, persisted, acks, live, restores>>
           /\ root'.world = root.world
           /\ \A u \in Section \ {s} : SameSection(u)
           /\ root.dirty[s] = None /\ root'.dirty[s] = None
           /\ root'.rev[s] = root.rev[s] /\ root'.slot[s] = "Unchanged" /\ root'.body[s] = {}
<1>1. /\ root' = [root EXCEPT !.slot[s] = "Unchanged", !.body[s] = {}, !.delta = {s}]
      /\ root.dirty[s] = None
      /\ UNCHANGED <<captures, persisted, acks, live, restores>>
  BY DEF Unload, Publish, callerVars, hostVars, historyVars
<1>2. root \in Root
  BY DEF TypeInv, TypeOK
<1>3. /\ root'.world = root.world /\ root'.rev = root.rev /\ root'.dirty = root.dirty
      /\ root'.slot = [root.slot EXCEPT ![s] = "Unchanged"] /\ root'.body = [root.body EXCEPT ![s] = {}]
  BY <1>1, <1>2 DEF Root
<1>4. root.slot \in [Section -> Presence \cup {None}] /\ root.body \in [Section -> SUBSET Txn]
  BY <1>2 DEF Root, PerSection
<1> QED BY <1>1, <1>3, <1>4 DEF SameSection

(* Only unload_section and a restore take a resident section away, and     *)
(* nothing else takes a write out of its payload.                          *)
LEMMA StaysReady ==
    ASSUME TypeInv, [Next]_vars, restores' = restores,
           NEW s \in Section, root.slot[s] = "Ready", ~Unload(s)
    PROVE  root'.slot[s] = "Ready" /\ root.body[s] \subseteq root'.body[s]
<1> USE RootParts, ConstantFacts
<1> DEFINE Goal == root'.slot[s] = "Ready" /\ root.body[s] \subseteq root'.body[s]
<1>1. CASE CommitStep
  <2>1. PICK h \in Handle : CommitApply(h)
    BY <1>1 DEF CommitStep
  <2>2. PICK q : q = tokens[h].req
    OBVIOUS
  <2>3. CASE s \in Writes(q)
    BY <2>1, <2>2, <2>3, CommitCut
  <2>4. CASE s \notin Writes(q)
    <3>1. SameSection(s)
      BY <2>1, <2>2, <2>4, CommitCut
    <3> QED BY <3>1 DEF SameSection
  <2> QED BY <2>3, <2>4
<1>2. CASE Quiet
  BY <1>2 DEF Quiet
<1>3. ASSUME NEW u \in Section, NEW to \in LoadTargets, HostPublish(u, to) PROVE Goal
  <2>1. u # s
    BY <1>3, HostCut
  <2> QED BY <1>3, <2>1, HostCut DEF SameSection
<1>4. ASSUME NEW S \in SUBSET Section, HostPersist(S) PROVE Goal
  BY <1>4 DEF HostPersist
<1>5. ASSUME NEW a \in acks, DeliverAck(a) PROVE Goal
  BY <1>5, AckCut
<1>6. ASSUME NEW u \in Section, Unload(u) PROVE Goal
  <2>1. u # s
    BY <1>6
  <2> QED BY <1>6, <2>1, UnloadCut DEF SameSection
<1>7. ASSUME NEW n \in snapshots, Restore(n) PROVE FALSE
  BY <1>7 DEF Restore, TypeInv, TypeOK
<1> QED BY <1>1, <1>2, <1>3, <1>4, <1>5, <1>6, <1>7, Classify

----------------------------------------------------------------------------
(* Revisions.                                                              *)

(* One step of RevisionsAdvance.                                           *)
Advance ==
    /\ root'.world >= root.world
    /\ live' # live => root'.world > root.world
    /\ \A s \in Section : root.rev[s] # None =>
          /\ root'.rev[s] # None /\ root'.rev[s] >= root.rev[s]
          /\ (root.slot[s] = "Ready" /\ root'.slot[s] = "Ready" /\ root'.body[s] # root.body[s])
                => root'.rev[s] > root.rev[s]

(* Every publication but a restore's advances what it changes.             *)
LEMMA StepAdvance == TypeInv /\ [Next]_vars /\ restores' = restores => Advance
<1> SUFFICES ASSUME TypeInv, [Next]_vars, restores' = restores PROVE Advance
  OBVIOUS
<1> USE RootParts, ConstantFacts
<1>1. CASE CommitStep
  <2>1. PICK h \in Handle : CommitApply(h)
    BY <1>1 DEF CommitStep
  <2>2. PICK q : q = tokens[h].req
    OBVIOUS
  <2>3. root'.world = root.world + 1
    BY <2>1, <2>2, CommitCut
  <2>4. ASSUME NEW s \in Section, root.rev[s] # None
        PROVE  /\ root'.rev[s] # None /\ root'.rev[s] >= root.rev[s]
               /\ root'.body[s] # root.body[s] => root'.rev[s] > root.rev[s]
    <3>1. CASE s \in Writes(q)
      <4>1. root'.rev[s] = CurrentRev(root, s) + 1 /\ root'.rev[s] \in Rev
        BY <2>1, <2>2, <3>1, CommitCut
      <4>2. CurrentRev(root, s) = root.rev[s]
        BY <2>4 DEF CurrentRev
      <4> QED BY <4>1, <4>2, <2>4
    <3>2. CASE s \notin Writes(q)
      <4>1. SameSection(s)
        BY <2>1, <2>2, <3>2, CommitCut
      <4> QED BY <4>1, <2>4 DEF SameSection
    <3> QED BY <3>1, <3>2
  <2> QED BY <2>3, <2>4 DEF Advance
<1>2. CASE Quiet
  BY <1>2 DEF Quiet, Advance
<1>3. ASSUME NEW s \in Section, NEW to \in LoadTargets, HostPublish(s, to) PROVE Advance
  BY <1>3, HostCut DEF SameSection, Advance
<1>4. ASSUME NEW S \in SUBSET Section, HostPersist(S) PROVE Advance
  BY <1>4 DEF HostPersist, historyVars, Advance
<1>5. ASSUME NEW a \in acks, DeliverAck(a) PROVE Advance
  BY <1>5, AckCut DEF Advance
<1>6. ASSUME NEW s \in Section, Unload(s) PROVE Advance
  BY <1>6, UnloadCut DEF SameSection, Advance
<1>7. ASSUME NEW n \in snapshots, Restore(n) PROVE FALSE
  BY <1>7 DEF Restore, TypeInv, TypeOK
<1> QED BY <1>1, <1>2, <1>3, <1>4, <1>5, <1>6, <1>7, Classify

(* Outside a restore no call takes a revision back, every applied          *)
(* transaction advances the world, and no resident payload changes under   *)
(* the section revision that a writer may already have read.               *)
THEOREM RevisionsOnlyGrow == Spec => RevisionsAdvance
<1>1. TypeInv /\ [Next]_vars => [restores' = restores => Advance]_vars
  BY StepAdvance
<1> QED BY <1>1, TypeInvariant, PTL DEF Spec, RevisionsAdvance, Advance

----------------------------------------------------------------------------
(* Revisions name contents.                                                *)

(* A resident section has a revision; without a restore, no capture is     *)
(* ahead of the published cut, and at one revision they agree.             *)
SlotInv == \A s \in Section : root.slot[s] = "Ready" => root.rev[s] # None

Ahead(c, s) == c.root.rev[s] # None /\ (root.rev[s] = None \/ c.root.rev[s] > root.rev[s])

ContentInv ==
    /\ SlotInv
    /\ \A c \in captures, s \in Section : c.root.slot[s] = "Ready" => c.root.rev[s] # None
    /\ restores = 0 => \A c \in captures, s \in Section : ~Ahead(c, s)
    /\ RevisionNamesContent

(* A section that is resident after a step was resident with the same      *)
(* payload and revision, or has a revision it never had.                   *)
Untouched(s) ==
    root.slot[s] = "Ready" /\ root'.rev[s] = root.rev[s] /\ root'.body[s] = root.body[s]
Renewed(s) ==
    root'.rev[s] \in Rev /\ (root.rev[s] # None => root'.rev[s] > root.rev[s])

(* Only a commit and a load make a payload resident, at a new revision.    *)
LEMMA StepContent ==
    ASSUME TypeInv, [Next]_vars, NEW s \in Section, root'.slot[s] = "Ready"
    PROVE  Untouched(s) \/ Renewed(s)
<1> USE RootParts, ConstantFacts
<1>1. CASE CommitStep
  <2>1. PICK h \in Handle : CommitApply(h)
    BY <1>1 DEF CommitStep
  <2>2. PICK q : q = tokens[h].req
    OBVIOUS
  <2>3. CASE s \in Writes(q)
    <3>1. root'.rev[s] = CurrentRev(root, s) + 1 /\ root'.rev[s] \in Rev
      BY <2>1, <2>2, <2>3, CommitCut
    <3> QED BY <3>1 DEF CurrentRev, Renewed
  <2>4. CASE s \notin Writes(q)
    <3>1. SameSection(s)
      BY <2>1, <2>2, <2>4, CommitCut
    <3> QED BY <3>1 DEF SameSection, Untouched
  <2> QED BY <2>3, <2>4
<1>2. CASE Quiet
  BY <1>2 DEF Quiet, Untouched
<1>3. ASSUME NEW u \in Section, NEW to \in LoadTargets, HostPublish(u, to) PROVE Untouched(s) \/ Renewed(s)
  BY <1>3, HostCut DEF SameSection, Untouched, Renewed
<1>4. ASSUME NEW S \in SUBSET Section, HostPersist(S) PROVE Untouched(s)
  BY <1>4 DEF HostPersist, Untouched
<1>5. ASSUME NEW a \in acks, DeliverAck(a) PROVE Untouched(s)
  BY <1>5, AckCut DEF Untouched
<1>6. ASSUME NEW u \in Section, Unload(u) PROVE Untouched(s)
  BY <1>6, UnloadCut DEF SameSection, Untouched
<1>7. ASSUME NEW n \in snapshots, Restore(n) PROVE FALSE
  <2>1. root'.slot[s] \in {None, "Unchanged"}
    BY <1>7 DEF Restore, Publish, Shadow
  <2> QED BY <2>1 DEF Presence
<1> QED BY <1>1, <1>2, <1>3, <1>4, <1>5, <1>6, <1>7, Classify

(* Captures come from the published cut and are never changed.             *)
LEMMA StepCaptures ==
    ASSUME TypeInv, [Next]_vars, NEW c \in captures'
    PROVE  c \in captures \/ (c.root = root /\ root' = root /\ restores' = restores)
<1>1. CASE CommitStep
  BY <1>1 DEF CommitStep, CommitApply
<1>2. CASE Quiet
  BY <1>2 DEF Quiet
<1>3. ASSUME ~CommitStep, ~Quiet PROVE captures' = captures
  BY <1>3, Classify DEF HostPublish, HostPersist, DeliverAck, Unload, Restore, callerVars
<1> QED BY <1>1, <1>2, <1>3

(* restores is only counted up.                                            *)
LEMMA StepRestores ==
    ASSUME TypeInv, [Next]_vars
    PROVE  restores' = restores \/ restores' = restores + 1
BY Classify DEF CommitStep, CommitApply, Quiet, HostPublish, HostPersist, DeliverAck, Unload, Restore, historyVars

(* Captures stay behind the cut, so new revisions are new to all of them.  *)
LEMMA StepNames == TypeInv /\ TypeInv' /\ ContentInv /\ [Next]_vars => ContentInv'
<1> SUFFICES ASSUME TypeInv, TypeInv', ContentInv, [Next]_vars PROVE ContentInv'
  OBVIOUS
<1> USE ConstantFacts
<1>1. SlotInv'
  BY StepContent DEF SlotInv, ContentInv, Untouched, Renewed
<1>2. \A c \in captures', s \in Section : c.root.slot[s] = "Ready" => c.root.rev[s] # None
  BY StepCaptures DEF SlotInv, ContentInv
<1>3. ASSUME restores' = 0
      PROVE  \A c \in captures', s \in Section :
                ~Ahead(c, s)' /\ ((c.root.slot[s] = "Ready" /\ root'.slot[s] = "Ready"
                                    /\ c.root.rev[s] = root'.rev[s]) => c.root.body[s] = root'.body[s])
  <2>1. restores = 0 /\ restores' = restores
    BY <1>3, StepRestores DEF TypeInv, TypeOK
  <2>2. Advance
    BY <2>1, StepAdvance
  <2> TAKE c \in captures', s \in Section
  <2>3. CASE c \notin captures
    <3>1. c.root = root /\ root' = root
      BY <2>3, StepCaptures
    <3>2. root.rev[s] = None \/ root.rev[s] \in Nat
      BY RootParts
    <3> QED BY <3>1, <3>2 DEF Ahead
  <2>4. CASE c \in captures
    <3>1. c.root.rev[s] # None => c.root.rev[s] \in Nat
      <4>1. c.root \in Root
        BY <2>4 DEF TypeInv, TypeOK, Capture
      <4>2. c.root.rev \in [Section -> Rev \cup {None}]
        BY <4>1 DEF Root, PerSection
      <4> QED BY <4>2
    <3>2. root.rev[s] # None => root.rev[s] \in Nat /\ root'.rev[s] # None /\ root'.rev[s] >= root.rev[s]
      BY <2>2, RootParts DEF Advance
    <3>3. root'.rev[s] # None => root'.rev[s] \in Nat
      BY DEF TypeInv, TypeOK, Root, PerSection
    <3>4. ~Ahead(c, s)
      BY <2>1, <2>4 DEF ContentInv
    <3>5. ~Ahead(c, s)'
      BY <3>1, <3>2, <3>3, <3>4 DEF Ahead
    <3>6. ASSUME c.root.slot[s] = "Ready", root'.slot[s] = "Ready", c.root.rev[s] = root'.rev[s]
          PROVE  c.root.body[s] = root'.body[s]
      <4>1. c.root.rev[s] # None
        BY <2>4, <3>6 DEF ContentInv
      <4>2. ~Renewed(s)
        BY <3>1, <3>2, <3>4, <3>6, <4>1 DEF Ahead, Renewed
      <4>3. Untouched(s)
        BY <3>6, <4>2, StepContent
      <4> QED BY <2>1, <2>4, <3>6, <4>3 DEF ContentInv, RevisionNamesContent, Untouched
    <3> QED BY <3>5, <3>6
  <2> QED BY <2>3, <2>4
<1> QED BY <1>1, <1>2, <1>3 DEF ContentInv, RevisionNamesContent

(* As long as nothing is restored, a section revision is issued for one    *)
(* payload only, through unloads and reloads too: a writer's expected      *)
(* revision identifies what it has read.                                   *)
THEOREM RevisionsIdentify == Spec => []RevisionNamesContent
<1>1. Init => ContentInv
  <2> SUFFICES ASSUME Init PROVE ContentInv
    OBVIOUS
  <2>1. captures = {} /\ \A s \in Section : root.slot[s] # "Ready"
    BY ConstantFacts DEF Init, InitialRoot, Presence
  <2> QED BY <2>1 DEF ContentInv, SlotInv, RevisionNamesContent
<1>2. ContentInv => RevisionNamesContent
  BY DEF ContentInv
<1> QED BY <1>1, <1>2, StepNames, TypeInvariant, PTL DEF Spec

----------------------------------------------------------------------------
(* Applied writes are never lost and never seen in part, if the Host does  *)
(* not deliver an ack that it issued before a restore.                     *)

(* An ack never covers more of a section than has been published.          *)
AckInv ==
    \A a \in acks, s \in Section :
        a.upTo[s] # None => root.rev[s] # None /\ a.upTo[s] <= root.rev[s]

(* Transaction t wrote section s at revision e: it is in the resident      *)
(* payload; as long as it is not in the store the section stays resident   *)
(* and dirty at e or later; and only an ack for a store that has it covers *)
(* that much.                                                              *)
Safe(t, s, e) ==
    /\ root.slot[s] = "Ready" => t \in root.body[s]
    /\ t \notin persisted[s] =>
          root.slot[s] = "Ready" /\ root.dirty[s] # None /\ root.dirty[s].latest >= e
    /\ \A a \in acks : (a.upTo[s] # None /\ a.upTo[s] >= e) => t \in persisted[s]

SafeTxn(t) ==
    /\ Completed(t)
    /\ \A s \in Writes(ledger[t].req) : Safe(t, s, ledger[t].req.expect[s] + 1)

WriteInv == AckInv /\ \A t \in live : SafeTxn(t)

(* The numbers in acks and dirty marks.                                    *)
LEMMA AckParts ==
    ASSUME TypeInv, NEW a \in acks, NEW s \in Section
    PROVE  a.upTo[s] # None => a.upTo[s] \in Nat
<1>1. a.upTo \in [Section -> Rev \cup {None}]
  BY DEF TypeInv, TypeOK, Ack, PerSection
<1> QED BY <1>1, ConstantFacts

(* HostPersist: the ack's revision is that of the payload it stored.       *)
LEMMA PersistParts ==
    ASSUME TypeInv, NEW S \in SUBSET Section, HostPersist(S), NEW s \in Section
    PROVE  /\ UNCHANGED <<root, live, restores, captures>>
           /\ s \in S => root.slot[s] = "Ready" /\ persisted'[s] = root.body[s]
           /\ s \notin S => persisted'[s] = persisted[s]
           /\ \A a \in acks' \ acks : a.upTo[s] # None => s \in S /\ a.upTo[s] = root.rev[s]
BY DEF HostPersist, callerVars, historyVars

(* Between restores revisions grow above the acks; a restore drops acks.   *)
LEMMA StepAck ==
    ASSUME ~AcksOutliveRestore, TypeInv, TypeInv', AckInv, [Next]_vars
    PROVE  AckInv'
<1> SUFFICES ASSUME NEW a \in acks', NEW s \in Section, a.upTo[s] # None
             PROVE  root'.rev[s] # None /\ a.upTo[s] <= root'.rev[s]
  BY DEF AckInv
<1>1. ASSUME NEW S \in SUBSET Section, HostPersist(S), a \notin acks
      PROVE  root'.rev[s] # None /\ a.upTo[s] <= root'.rev[s]
  BY <1>1, PersistParts, RootParts
<1>2. ASSUME NEW n \in snapshots, Restore(n) PROVE FALSE
  BY <1>2 DEF Restore
<1>3. CASE a \in acks /\ restores' = restores
  <2>1. root.rev[s] # None /\ a.upTo[s] <= root.rev[s] /\ a.upTo[s] \in Nat /\ root.rev[s] \in Nat
    BY <1>3, AckParts, RootParts DEF AckInv
  <2>2. root'.rev[s] # None /\ root'.rev[s] >= root.rev[s]
    BY <1>3, <2>1, StepAdvance DEF Advance
  <2>3. root'.rev[s] \in Nat
    <3>1. root'.rev \in [Section -> Rev \cup {None}]
      BY DEF TypeInv, TypeOK, Root, PerSection
    <3> QED BY <2>2, <3>1, ConstantFacts
  <2> QED BY <2>1, <2>2, <2>3
<1>4. \/ \E n \in snapshots : Restore(n)
      \/ a \in acks /\ restores' = restores
      \/ \E S \in SUBSET Section : HostPersist(S) /\ a \notin acks
  <2>1. CASE CommitStep
    BY <2>1 DEF CommitStep, CommitApply, hostVars
  <2>2. CASE ~CommitStep
    BY <2>2, Classify DEF Quiet, HostPublish, HostPersist, DeliverAck, Unload, hostVars, historyVars
  <2> QED BY <2>1, <2>2
<1> QED BY <1>1, <1>2, <1>3, <1>4

(* A write that is safe stays safe, except over a restore.                 *)
LEMMA StepSafe ==
    ASSUME TypeInv, [Next]_vars, restores' = restores,
           NEW t \in Txn, NEW s \in Section, NEW e \in Nat, Safe(t, s, e)
    PROVE  Safe(t, s, e)'
<1>1. ASSUME NEW h \in Handle, CommitApply(h) PROVE Safe(t, s, e)'
  <2>1. PICK q : q = tokens[h].req
    OBVIOUS
  <2>2. UNCHANGED <<persisted, acks>>
    BY <1>1, <2>1, CommitCut
  <2>3. CASE s \in Writes(q)
    <3>1. /\ root'.rev[s] \in Rev /\ root.slot[s] = "Ready" /\ root'.slot[s] = "Ready"
          /\ root'.body[s] = root.body[s] \cup {q.txn}
          /\ root'.dirty[s] = RecordDirty(root.dirty[s], root'.rev[s])
      BY <1>1, <2>1, <2>3, CommitCut
    <3>2. /\ root'.dirty[s] \in Span /\ root'.dirty[s] # None
          /\ (root.dirty[s] # None => root'.dirty[s].latest >= root.dirty[s].latest)
      BY <3>1, RootParts, DirtyGrows
    <3>3. t \notin persisted[s] => root'.dirty[s].latest >= e
      <4> SUFFICES ASSUME t \notin persisted[s] PROVE root'.dirty[s].latest >= e
        OBVIOUS
      <4>1. root.dirty[s] # None /\ root.dirty[s].latest >= e
        BY DEF Safe
      <4>2. root.dirty[s].latest \in Nat
        BY <4>1, RootParts, ConstantFacts DEF Span
      <4>3. root'.dirty[s].latest \in Nat
        BY <3>2, ConstantFacts DEF Span
      <4> QED BY <3>2, <4>1, <4>2, <4>3
    <3> QED BY <2>2, <3>1, <3>2, <3>3 DEF Safe
  <2>4. CASE s \notin Writes(q)
    <3>1. SameSection(s)
      BY <1>1, <2>1, <2>4, CommitCut
    <3> QED BY <2>2, <3>1 DEF SameSection, Safe
  <2> QED BY <2>3, <2>4
<1>2. CASE Quiet
  BY <1>2 DEF Quiet, Safe
<1>3. ASSUME NEW u \in Section, NEW to \in LoadTargets, HostPublish(u, to) PROVE Safe(t, s, e)'
  BY <1>3, HostCut DEF SameSection, Safe
<1>4. ASSUME NEW S \in SUBSET Section, HostPersist(S) PROVE Safe(t, s, e)'
  BY <1>4, PersistParts DEF Safe
<1>5. ASSUME NEW a \in acks, DeliverAck(a) PROVE Safe(t, s, e)'
  <2>1. UNCHANGED <<persisted, acks>> /\ root'.slot[s] = root.slot[s] /\ root'.body[s] = root.body[s]
    BY <1>5, AckCut
  <2>2. CASE root'.dirty[s] = root.dirty[s]
    BY <2>1, <2>2 DEF Safe
  <2>3. CASE root'.dirty[s] # root.dirty[s]
    <3>1. root.dirty[s] # None /\ a.upTo[s] # None /\ root.dirty[s].latest <= a.upTo[s]
      BY <1>5, <2>3, AckCut
    <3>2. root.dirty[s].latest \in Nat /\ a.upTo[s] \in Nat
      BY <3>1, RootParts, AckParts, ConstantFacts DEF Span
    <3>3. t \in persisted[s]
      BY <3>1, <3>2 DEF Safe
    <3> QED BY <2>1, <3>3 DEF Safe
  <2> QED BY <2>2, <2>3
<1>6. ASSUME NEW u \in Section, Unload(u) PROVE Safe(t, s, e)'
  BY <1>6, UnloadCut DEF SameSection, Safe
<1>7. ASSUME NEW n \in snapshots, Restore(n) PROVE FALSE
  BY <1>7 DEF Restore, TypeInv, TypeOK
<1> QED BY <1>1, <1>2, <1>3, <1>4, <1>5, <1>6, <1>7, Classify DEF CommitStep

(* A write is safe when it is applied: it is dirty at its own revision,    *)
(* which no ack can have covered.                                          *)
LEMMA NewWriteSafe ==
    ASSUME TypeInv, AckInv, NEW h \in Handle, CommitApply(h),
           NEW q, q = tokens[h].req, NEW s \in Writes(q)
    PROVE  Safe(q.txn, s, q.expect[s] + 1)'
<1> DEFINE t == q.txn
<1>1. /\ s \in Section /\ q.expect[s] = CurrentRev(root, s)
      /\ root'.rev[s] = CurrentRev(root, s) + 1 /\ root'.rev[s] \in Rev
      /\ root'.slot[s] = "Ready" /\ root'.body[s] = root.body[s] \cup {t}
      /\ root'.dirty[s] = RecordDirty(root.dirty[s], root'.rev[s])
      /\ UNCHANGED <<persisted, acks>>
  BY CommitCut
<1>2. root'.dirty[s] # None /\ root'.dirty[s].latest >= q.expect[s] + 1
  BY <1>1, RootParts, DirtyGrows
<1>3. ASSUME NEW a \in acks, a.upTo[s] # None PROVE ~(a.upTo[s] >= q.expect[s] + 1)
  <2>1. root.rev[s] # None /\ a.upTo[s] <= root.rev[s] /\ a.upTo[s] \in Nat /\ root.rev[s] \in Nat
    BY <1>1, <1>3, AckParts, RootParts DEF AckInv
  <2>2. q.expect[s] = root.rev[s]
    BY <1>1, <2>1 DEF CurrentRev
  <2> QED BY <2>1, <2>2
<1> QED BY <1>1, <1>2, <1>3 DEF Safe

(* Old writes stay safe, the new one is safe.                              *)
LEMMA StepWrites ==
    ASSUME ~AcksOutliveRestore
    PROVE  TypeInv /\ TypeInv' /\ WriteInv /\ [Next]_vars => WriteInv'
<1> SUFFICES ASSUME TypeInv, TypeInv', WriteInv, [Next]_vars PROVE WriteInv'
  OBVIOUS
<1>1. AckInv'
  BY StepAck DEF WriteInv
<1>2. ASSUME NEW t \in live, restores' = restores PROVE SafeTxn(t)'
  <2>1. t \in Txn /\ Completed(t)
    BY <1>2 DEF WriteInv, SafeTxn, TypeInv, TypeOK
  <2>2. Completed(t)' /\ ledger'[t] = ledger[t]
    BY <2>1, ReceiptsKept
  <2>3. PICK q \in Request : q = ledger[t].req
    BY <2>1 DEF Completed, TypeInv, TypeOK, Entry
  <2>4. ASSUME NEW s \in Writes(q), NEW e, e = q.expect[s] + 1 PROVE Safe(t, s, e)'
    <3>1. s \in Section /\ e \in Nat
      BY <2>4, RequestParts, ConstantFacts
    <3>2. Safe(t, s, e)
      BY <1>2, <2>3, <2>4 DEF WriteInv, SafeTxn
    <3> QED BY <1>2, <2>1, <3>1, <3>2, StepSafe
  <2>5. \A s \in Writes(q) : Safe(t, s, q.expect[s] + 1)'
    BY <2>4
  <2> QED BY <2>2, <2>3, <2>5 DEF SafeTxn
<1>3. CASE CommitStep
  <2>1. PICK h \in Handle, u \in Txn : CommitApply(h) /\ u = tokens[h].req.txn
    BY <1>3 DEF CommitStep
  <2>2. PICK q : q = tokens[h].req
    OBVIOUS
  <2>3. live' = live \cup {u} /\ restores' = restores
    BY <2>1, <2>2, CommitCut
  <2>4. Completed(u)'
    BY <2>1, CommitLedger
  <2>5. ledger'[u].req = q
    <3>1. ledger'[u] = [req |-> tokens[h].req, receipt |-> Evidenced(tokens[h].base, root')]
      BY <2>1, CommitLedger
    <3> QED BY <2>2, <3>1
  <2>6. \A s \in Writes(q) : Safe(u, s, q.expect[s] + 1)'
    BY <2>1, <2>2, NewWriteSafe DEF WriteInv
  <2>7. SafeTxn(u)'
    BY <2>4, <2>5, <2>6 DEF SafeTxn
  <2> QED BY <1>1, <1>2, <2>3, <2>7 DEF WriteInv
<1>4. CASE live' = {}
  BY <1>1, <1>4 DEF WriteInv
<1>5. CASE live' = live /\ restores' = restores
  BY <1>1, <1>2, <1>5 DEF WriteInv
<1> QED BY <1>3, <1>4, <1>5, Classify DEF Quiet, HostPublish, HostPersist, DeliverAck, Unload, Restore, historyVars

(* What the ledger has a receipt for is what WriteInv speaks of.           *)
LEMMA SafeIsNotLost == WriteInv => NoLostWrite
BY DEF WriteInv, SafeTxn, Safe, NoLostWrite

(* Every write applied since the last restore is in the resident payload   *)
(* or, when its section is not resident, in the Host's store: through      *)
(* late, lost and repeated acks, unloads and reloads.                      *)
THEOREM WritesSurvive ==
    ASSUME ~AcksOutliveRestore
    PROVE  Spec => []NoLostWrite
<1>1. Init => WriteInv
  BY DEF Init, WriteInv, AckInv
<1>2. TypeInv /\ TypeInv' /\ WriteInv /\ [Next]_vars => WriteInv'
  BY StepWrites
<1> QED BY <1>1, <1>2, SafeIsNotLost, TypeInvariant, PTL DEF Spec

----------------------------------------------------------------------------
(* Whole batches.                                                          *)

(* Nobody holds a write of a transaction that has no receipt.              *)
Unseen(t) ==
    /\ \A s \in Section : t \notin root.body[s] /\ t \notin persisted[s]
    /\ \A c \in captures, s \in Section : t \notin c.root.body[s]

(* Captures show whole batches of the transactions applied since the last  *)
(* restore.                                                                *)
WholeCaptures ==
    \A c \in captures : \A t \in live :
        \A s, u \in {x \in Writes(ledger[t].req) : c.root.slot[x] = "Ready"} :
            t \in c.root.body[s] => t \in c.root.body[u]

BatchInv ==
    /\ \A t \in Txn : ~Completed(t) => Unseen(t)
    /\ WholeCaptures

(* Only its commit brings a transaction into a payload.                    *)
LEMMA StepUnseen ==
    ASSUME TypeInv, [Next]_vars, NEW t \in Txn, ~Completed(t), ~Completed(t)', Unseen(t)
    PROVE  Unseen(t)'
<1> SUFFICES \A s \in Section : t \notin root'.body[s] /\ t \notin persisted'[s]
  BY StepCaptures DEF Unseen
<1> TAKE s \in Section
<1>0. t \notin root.body[s] /\ t \notin persisted[s]
  BY DEF Unseen
<1>1. CASE CommitStep
  <2>1. PICK h \in Handle, u \in Txn : CommitApply(h) /\ u = tokens[h].req.txn
    BY <1>1 DEF CommitStep
  <2>2. PICK q : q = tokens[h].req
    OBVIOUS
  <2>3. t # q.txn
    BY <2>1, <2>2, CommitLedger
  <2>4. persisted' = persisted /\ (root'.body[s] = root.body[s] \/ root'.body[s] = root.body[s] \cup {q.txn})
    BY <2>1, <2>2, CommitCut DEF SameSection
  <2> QED BY <1>0, <2>3, <2>4
<1>2. CASE Quiet
  BY <1>0, <1>2 DEF Quiet
<1>3. ASSUME NEW u \in Section, NEW to \in LoadTargets, HostPublish(u, to)
      PROVE  t \notin root'.body[s] /\ t \notin persisted'[s]
  BY <1>0, <1>3, HostCut DEF SameSection
<1>4. ASSUME NEW S \in SUBSET Section, HostPersist(S)
      PROVE  t \notin root'.body[s] /\ t \notin persisted'[s]
  BY <1>0, <1>4, PersistParts
<1>5. ASSUME NEW a \in acks, DeliverAck(a)
      PROVE  t \notin root'.body[s] /\ t \notin persisted'[s]
  BY <1>0, <1>5, AckCut
<1>6. ASSUME NEW u \in Section, Unload(u)
      PROVE  t \notin root'.body[s] /\ t \notin persisted'[s]
  BY <1>0, <1>6, UnloadCut DEF SameSection
<1>7. ASSUME NEW n \in snapshots, Restore(n)
      PROVE  t \notin root'.body[s] /\ t \notin persisted'[s]
  BY <1>0, <1>7 DEF Restore, Publish, Shadow
<1> QED BY <1>1, <1>2, <1>3, <1>4, <1>5, <1>6, <1>7, Classify

(* live grows by the transaction that gets its receipt, or is emptied.     *)
LEMMA StepLive ==
    ASSUME TypeInv, [Next]_vars, NEW t \in live'
    PROVE  t \in Txn /\ (t \in live \/ ~Completed(t))
<1>1. CASE CommitStep
  <2>1. PICK h \in Handle, u \in Txn : CommitApply(h) /\ u = tokens[h].req.txn
    BY <1>1 DEF CommitStep
  <2>2. live' = live \cup {u}
    BY <2>1 DEF CommitApply
  <2>3. ~Completed(u)
    <3>1. Reserved(u)
      BY <2>1, CommitLedger
    <3> QED BY <3>1 DEF Reserved, Completed
  <2> QED BY <2>2, <2>3 DEF TypeInv, TypeOK
<1>2. CASE live' \subseteq live
  BY <1>2 DEF TypeInv, TypeOK
<1> QED BY <1>1, <1>2, Classify DEF Quiet, HostPublish, HostPersist, DeliverAck, Unload, Restore, historyVars

(* A new capture is the whole cut; an old one has nothing of a new commit. *)
LEMMA StepBatch == TypeInv /\ WriteInv /\ BatchInv /\ [Next]_vars => BatchInv'
<1> SUFFICES ASSUME TypeInv, WriteInv, BatchInv, [Next]_vars PROVE BatchInv'
  OBVIOUS
<1>1. ASSUME NEW t \in Txn, ~Completed(t)' PROVE Unseen(t)'
  <2>1. ~Completed(t)
    BY <1>1, ReceiptsKept
  <2> QED BY <1>1, <2>1, StepUnseen DEF BatchInv
<1>2. ASSUME NEW c \in captures', NEW t \in live',
             NEW s \in Writes(ledger'[t].req), NEW u \in Writes(ledger'[t].req),
             c.root.slot[s] = "Ready", c.root.slot[u] = "Ready", t \in c.root.body[s]
      PROVE  t \in c.root.body[u]
  <2>0. t \in Txn /\ (t \in live \/ ~Completed(t))
    BY StepLive
  <2>1. CASE t \in live
    <3>1. Completed(t) /\ ledger'[t] = ledger[t]
      BY <2>0, <2>1, ReceiptsKept DEF WriteInv, SafeTxn
    <3>2. s \in Writes(ledger[t].req) /\ u \in Writes(ledger[t].req)
      BY <3>1
    <3>3. CASE c \in captures
      BY <1>2, <2>1, <3>2, <3>3 DEF BatchInv, WholeCaptures
    <3>4. CASE c \notin captures
      <4>1. c.root = root
        BY <3>4, StepCaptures
      <4> QED BY <1>2, <2>1, <3>2, <4>1 DEF WriteInv, SafeTxn, Safe
    <3> QED BY <3>3, <3>4
  <2>2. CASE t \notin live
    <3>1. Unseen(t)
      BY <2>0, <2>2 DEF BatchInv
    <3>2. s \in Section
      <4>1. Completed(t)'
        <5>1. CASE CommitStep
          <6>1. PICK h \in Handle, v \in Txn : CommitApply(h) /\ v = tokens[h].req.txn
            BY <5>1 DEF CommitStep
          <6>2. t = v
            BY <2>2, <6>1 DEF CommitApply
          <6> QED BY <6>1, <6>2, CommitLedger
        <5>2. CASE ~CommitStep
          BY <2>2, <5>2, Classify DEF Quiet, HostPublish, HostPersist, DeliverAck, Unload, Restore, historyVars
        <5> QED BY <5>1, <5>2
      <4>2. ledger'[t] \in Entry
        BY <2>0, <4>1, TypeStep DEF Completed, TypeInv, TypeOK
      <4> QED BY <4>2, RequestParts DEF Entry
    <3>3. c \in captures \/ c.root = root
      BY StepCaptures
    <3> QED BY <1>2, <3>1, <3>2, <3>3 DEF Unseen
  <2> QED BY <2>1, <2>2
<1> QED BY <1>1, <1>2 DEF BatchInv, WholeCaptures, Writes

(* No reader ever sees part of a batch, in the published cut or in one     *)
(* that was captured between any two calls.                                *)
THEOREM BatchesAreWhole ==
    ASSUME ~AcksOutliveRestore
    PROVE  Spec => []AtomicCuts
<1>1. Init => WriteInv /\ BatchInv
  BY DEF Init, InitialRoot, WriteInv, AckInv, BatchInv, Unseen, WholeCaptures
<1>2. TypeInv /\ TypeInv' /\ WriteInv /\ BatchInv /\ [Next]_vars => WriteInv' /\ BatchInv'
  BY StepWrites, StepBatch
<1>3. WriteInv /\ BatchInv => AtomicCuts
  BY DEF WriteInv, SafeTxn, Safe, BatchInv, WholeCaptures, AtomicCuts
<1> QED BY <1>1, <1>2, <1>3, TypeInvariant, PTL DEF Spec

----------------------------------------------------------------------------
(* Region pins.                                                            *)

Sound(m) == Numbered(m) /\ P!Within(P!ActiveSections(m), m.budget)
PinInv == TypeInv /\ Sound(attached) /\ Sound(desk)

(* Ids and budgets are in the range of the manager they are given to.      *)
LEMMA PinFacts ==
    /\ P!PinId \subseteq Nat
    /\ \A p \in P!PinId : p + 1 \in 1..(MaxPin + 1) /\ p \in 1..(MaxPin + 1)
    /\ 1 \in 1..(MaxPin + 1)
    /\ \A b \in Budget : b.caller \in Nat /\ b.host \in Nat /\ b \in P!PinBudget
BY PinnedAssumption DEF P!PinId, P!PinBudget

(* The fields of a manager.                                                *)
LEMMA Fields ==
    ASSUME NEW m, Numbered(m)
    PROVE  /\ m.budget \in [caller : Nat, host : Nat] /\ m.next \in 1..(MaxPin + 1)
           /\ m.pins \in [P!PinId -> P!RegionPin \cup {None}]
           /\ m = [budget |-> m.budget, next |-> m.next, pins |-> m.pins]
           /\ \A p \in P!PinId : m.pins[p] # None <=> p < m.next
BY DEF Numbered, P!RegionPinManager, P!PinBudget

(* Everything pinned is a finite set of sections.                          *)
LEMMA ActiveFinite ==
    ASSUME NEW m, Numbered(m)
    PROVE  /\ P!ActiveSections(m) \subseteq Section
           /\ \A S : S \subseteq Section => IsFiniteSet(S) /\ Cardinality(S) \in Nat
<1>1. P!ActiveSections(m) \subseteq Section
  BY Fields DEF P!ActiveSections, P!Active, P!RegionPin
<1>2. ASSUME NEW S, S \subseteq Section PROVE IsFiniteSet(S) /\ Cardinality(S) \in Nat
  BY <1>2, FS_Subset, FS_CardinalityType, WorldAssumption
<1> QED BY <1>1, <1>2

(* The managers count as the worlds do.                                    *)
LEMMA SameCardinality == \A S : P!Cardinality(S) = Cardinality(S)
BY DEF P!Cardinality, Cardinality, P!IsFiniteSet, IsFiniteSet

(* A part of what is pinned fits where all of it does.                     *)
LEMMA FewerFit ==
    ASSUME NEW S, NEW T, T \subseteq Section, S \subseteq T,
           NEW b, b \in [caller : Nat, host : Nat], P!Within(T, b)
    PROVE  P!Within(S, b)
<1>1. IsFiniteSet(T)
  BY FS_Subset, WorldAssumption
<1>2. /\ Cardinality(S) <= Cardinality(T)
      /\ Cardinality(S) \in Nat /\ Cardinality(T) \in Nat
  BY <1>1, FS_Subset, FS_CardinalityType
<1> QED BY <1>2, SameCardinality DEF P!Within

(* A declaration that fits leaves a manager within its budget.             *)
LEMMA DeclareSound ==
    ASSUME NEW m, Sound(m), NEW S \in SUBSET Section, NEW b \in Budget, P!MayDeclare(m, S, b)
    PROVE  Sound(P!AfterDeclare(m, S))
<1> DEFINE k == P!AfterDeclare(m, S)
           new == [sections |-> S, readiness |-> "NotReady"]
<1>1. /\ S # {} /\ P!Fits(m, S, P!Effective(m, b)) /\ m.next \in P!PinId
  BY DEF P!MayDeclare
<1>2. Numbered(m) /\ m.pins \in [P!PinId -> P!RegionPin \cup {None}]
      /\ m.budget \in [caller : Nat, host : Nat]
  BY Fields DEF Sound
<1>3. new \in P!RegionPin /\ new # None
  BY PinnedAssumption DEF P!RegionPin
<1>4. /\ k.budget = m.budget /\ k.next = m.next + 1 /\ k.pins = [m.pins EXCEPT ![m.next] = new]
      /\ k = [budget |-> k.budget, next |-> k.next, pins |-> k.pins]
  BY DEF P!AfterDeclare
<1>5. k.pins \in [P!PinId -> P!RegionPin \cup {None}]
  BY <1>2, <1>3, <1>4
<1>6. \A p \in P!PinId : k.pins[p] # None <=> p < k.next
  <2> SUFFICES ASSUME NEW p \in P!PinId PROVE k.pins[p] # None <=> p < m.next + 1
    BY <1>4
  <2>1. p \in Nat /\ m.next \in Nat /\ (m.pins[p] # None <=> p < m.next)
    BY <1>1, <1>2, Fields, PinFacts
  <2>2. CASE p = m.next
    BY <1>2, <1>3, <1>4, <2>1, <2>2
  <2>3. CASE p # m.next
    BY <1>2, <1>4, <2>1, <2>3
  <2> QED BY <2>2, <2>3
<1>7. k \in P!RegionPinManager
  <2>1. k.next \in 1..(MaxPin + 1) /\ k.budget \in [caller : Nat, host : Nat]
    BY <1>1, <1>2, <1>4, PinFacts
  <2> QED BY <1>4, <1>5, <2>1 DEF P!RegionPinManager, P!PinBudget
<1>8. P!ActiveSections(k) \subseteq P!ActiveSections(m) \cup S
  BY <1>1, <1>2, <1>4 DEF P!ActiveSections, P!Active
<1>9. P!Within(P!ActiveSections(m) \cup S, m.budget)
  <2>1. P!Within(P!ActiveSections(m) \cup S, P!Effective(m, b))
    BY <1>1 DEF P!Fits
  <2>2. Cardinality(P!ActiveSections(m) \cup S) \in Nat
    BY <1>2, ActiveFinite
  <2>3. /\ P!Effective(m, b).caller <= m.budget.caller /\ P!Effective(m, b).caller \in Nat
        /\ P!Effective(m, b).host <= m.budget.host /\ P!Effective(m, b).host \in Nat
    BY <1>2, PinFacts DEF P!Effective, P!Least
  <2> QED BY <1>2, <2>1, <2>2, <2>3, SameCardinality DEF P!Within
<1>10. P!Within(P!ActiveSections(k), k.budget)
  <2>1. k.budget = m.budget
    BY <1>4
  <2>2. P!ActiveSections(m) \cup S \subseteq Section
    BY <1>2, ActiveFinite
  <2> QED BY <1>2, <1>8, <1>9, <2>1, <2>2, FewerFit
<1> QED BY <1>6, <1>7, <1>10 DEF Sound, Numbered

(* A pin that changes its readiness keeps its sections, and none is added. *)
LEMMA ReadinessSound ==
    ASSUME NEW m, Sound(m), NEW p \in P!PinId, NEW r \in {"Ready", "Released"}, P!Active(m, p)
    PROVE  Sound([m EXCEPT !.pins[p].readiness = r])
<1> DEFINE k == [m EXCEPT !.pins[p].readiness = r]
<1>1. /\ Numbered(m) /\ m.pins \in [P!PinId -> P!RegionPin \cup {None}]
      /\ m.budget \in [caller : Nat, host : Nat]
      /\ m.pins[p] \in P!RegionPin /\ m.pins[p] # None /\ None \notin P!RegionPin
  BY PinnedAssumption, Fields DEF Sound, P!Active
<1>2. k = [budget |-> m.budget, next |-> m.next,
           pins |-> [m.pins EXCEPT ![p] = [m.pins[p] EXCEPT !.readiness = r]]]
  BY <1>1, Fields
<1>3. /\ k.pins[p] \in P!RegionPin /\ k.pins[p].sections = m.pins[p].sections
      /\ \A q \in P!PinId \ {p} : k.pins[q] = m.pins[q]
  BY <1>1, <1>2 DEF P!RegionPin
<1>4. k.pins \in [P!PinId -> P!RegionPin \cup {None}]
  BY <1>1, <1>2, <1>3
<1>5. k \in P!RegionPinManager
  BY <1>1, <1>2, <1>4, Fields DEF P!RegionPinManager, P!PinBudget
<1>6. \A q \in P!PinId : k.pins[q] # None <=> m.pins[q] # None
  BY <1>1, <1>3
<1>7. Numbered(k)
  BY <1>1, <1>2, <1>5, <1>6, Fields DEF Numbered
<1>8. P!ActiveSections(k) \subseteq P!ActiveSections(m)
  BY <1>3 DEF P!ActiveSections, P!Active
<1>9. P!Within(P!ActiveSections(k), k.budget)
  <2>1. k.budget = m.budget /\ P!Within(P!ActiveSections(m), m.budget)
    BY <1>2 DEF Sound
  <2>2. P!ActiveSections(m) \subseteq Section
    BY <1>1, ActiveFinite
  <2> QED BY <1>1, <1>8, <2>1, <2>2, FewerFit
<1> QED BY <1>7, <1>9 DEF Sound

(* A manager begins with nothing pinned.                                   *)
LEMMA NewSound ==
    ASSUME NEW b, b \in [caller : Nat, host : Nat]
    PROVE  Sound(P!NewManager(b))
<1> DEFINE k == P!NewManager(b)
<1>1. k.budget = b /\ k.next = 1 /\ k.pins = [p \in P!PinId |-> None]
  BY DEF P!NewManager
<1>2. P!ActiveSections(k) = {}
  BY <1>1 DEF P!ActiveSections, P!Active
<1>3. P!Within(P!ActiveSections(k), k.budget)
  <2>1. Cardinality(P!ActiveSections(k)) = 0
    BY <1>2, FS_EmptySet
  <2> QED BY <1>1, <2>1, SameCardinality DEF P!Within
<1>4. k \in P!RegionPinManager
  BY PinFacts DEF P!NewManager, P!RegionPinManager, P!PinBudget
<1>5. \A p \in P!PinId : k.pins[p] # None <=> p < k.next
  <2>1. \A p \in P!PinId : p \in Nat /\ ~(p < 1)
    BY PinnedAssumption DEF P!PinId
  <2> QED BY <1>1, <2>1
<1> QED BY <1>3, <1>4, <1>5 DEF Sound, Numbered

(* Every call of a manager keeps it so.                                    *)
LEMMA CallSound ==
    ASSUME NEW m, NEW k, Sound(m), PinCall(m, k)
    PROVE  Sound(k)
<1>1. ASSUME NEW p \in P!PinId, P!MayBecomeReady(m, p) PROVE Sound(P!AfterReady(m, p))
  <2>1. P!Active(m, p)
    BY <1>1 DEF P!MayBecomeReady, P!Active
  <2> QED BY <2>1, ReadinessSound DEF P!AfterReady
<1>2. ASSUME NEW p \in P!PinId, P!MayRelease(m, p) PROVE Sound(P!AfterRelease(m, p))
  BY <1>2, ReadinessSound DEF P!MayRelease, P!AfterRelease
<1> QED BY <1>1, <1>2, DeclareSound DEF PinCall

(* The manager that stands for none is one.                                *)
LEMMA NothingSound == Sound(NoManager)
BY NewSound DEF NoManager

(* A step of the world leaves the managers alone, a call changes one.      *)
LEMMA StepPins == PinInv /\ [PinnedNext]_pinnedVars => PinInv'
<1> SUFFICES ASSUME PinInv, [PinnedNext]_pinnedVars PROVE PinInv'
  OBVIOUS
<1>1. CASE WorldStep \/ UNCHANGED pinnedVars
  <2>1. [Next]_vars /\ attached' = attached /\ desk' = desk
    BY <1>1 DEF WorldStep, pinnedVars
  <2>2. TypeInv'
    BY <2>1, TypeStep DEF PinInv
  <2> QED BY <2>1, <2>2 DEF PinInv, Sound, Numbered
<1>2. CASE PinStep
  <2>1. TypeInv'
    BY <1>2, StutterType DEF PinStep, PinInv
  <2>2. Sound(attached) /\ Sound(desk) /\ Sound(NoManager)
    BY NothingSound DEF PinInv
  <2>3. \A b \in Budget : Sound(P!NewManager(b))
    BY NewSound, PinFacts DEF P!PinBudget
  <2>4. CASE PinCall(attached, attached') /\ UNCHANGED desk
    BY <2>1, <2>2, <2>4, CallSound DEF PinInv, Sound, Numbered
  <2>5. CASE PinCall(desk, desk') /\ UNCHANGED attached
    BY <2>1, <2>2, <2>5, CallSound DEF PinInv, Sound, Numbered
  <2>6. CASE NewDesk \/ CloneToDesk \/ Attach
    BY <2>1, <2>2, <2>3, <2>6 DEF PinInv, NewDesk, CloneToDesk, Attach, Sound, Numbered
  <2> QED BY <1>2, <2>4, <2>5, <2>6 DEF PinStep
<1> QED BY <1>1, <1>2 DEF PinnedNext

(* There is no manager at first.                                           *)
LEMMA InitPins == PinnedInit => PinInv
<1> SUFFICES ASSUME PinnedInit PROVE PinInv
  OBVIOUS
<1>1. TypeInv
  BY InitType DEF PinnedInit
<1> QED BY <1>1, NothingSound DEF PinnedInit, PinInv

(* Both managers stay numbered and within their budgets.                   *)
THEOREM PinInvariant == PinnedSpec => []PinInv
BY InitPins, StepPins, PTL DEF PinnedSpec

(* The managers' pins keep their types and an id is never given out twice. *)
THEOREM PinsKeepTypes == PinnedSpec => []PinsTyped
<1>1. PinInv => PinsTyped
  BY DEF PinInv, PinsTyped, Sound
<1> QED BY <1>1, PinInvariant, PTL

(* However pins overlap and are released, both budgets hold.               *)
THEOREM BudgetsHold == PinnedSpec => []WithinBudgets
<1>1. PinInv => WithinBudgets
  BY DEF PinInv, WithinBudgets, Sound
<1> QED BY <1>1, PinInvariant, PTL

----------------------------------------------------------------------------
(* What a pin promises.                                                    *)

(* A section under a declared pin is neither unloaded nor emptied.         *)
LEMMA Protected ==
    ASSUME PinInv, [PinnedNext]_pinnedVars, restores' = restores, NEW m \in {attached, desk},
           NEW s \in Section, P!IsPinned(m, s), root.slot[s] = "Ready"
    PROVE  root'.slot[s] = "Ready" /\ root.body[s] \subseteq root'.body[s]
<1>1. CASE WorldStep
  <2>1. [Next]_vars /\ ~Unload(s)
    BY <1>1 DEF WorldStep, Evictable
  <2> QED BY <2>1, StaysReady DEF PinInv
<1>2. CASE PinStep \/ UNCHANGED pinnedVars
  BY <1>2 DEF PinStep, pinnedVars, vars
<1> QED BY <1>1, <1>2 DEF PinnedNext

(* From its declaration until its release a pin keeps what is resident.    *)
THEOREM PinsProtect == PinnedSpec => PinnedStaysResident
<1>1. PinInv /\ [PinnedNext]_pinnedVars =>
        [restores' = restores =>
          \A m \in {attached, desk}, s \in Section :
            P!IsPinned(m, s) /\ root.slot[s] = "Ready" =>
                root'.slot[s] = "Ready" /\ root.body[s] \subseteq root'.body[s]]_pinnedVars
  BY Protected
<1> QED BY <1>1, PinInvariant, PTL DEF PinnedSpec, PinnedStaysResident

(* The sections of a pin that may settle are resident.                     *)
HoldsPins(m) == \A p \in P!PinId : P!Settles(m, p) => SectionsReady(m, p)
SettledReady == restores = 0 => HoldsPins(attached) /\ HoldsPins(desk)

(* A pin that a call settles has only sections that are Ready.             *)
LEMMA CallKeeps ==
    ASSUME NEW m, NEW k, Sound(m), HoldsPins(m), PinCall(m, k)
    PROVE  HoldsPins(k)
<1> SUFFICES ASSUME NEW p \in P!PinId, P!Settles(k, p) PROVE SectionsReady(k, p)
  BY DEF HoldsPins
<1>1. /\ m.pins \in [P!PinId -> P!RegionPin \cup {None}] /\ None \notin P!RegionPin
      /\ m = [budget |-> m.budget, next |-> m.next, pins |-> m.pins]
  BY PinnedAssumption, Fields DEF Sound
<1>2. CASE P!Settles(m, p) /\ k.pins[p] = m.pins[p]
  BY <1>2 DEF HoldsPins, SectionsReady
<1>3. ASSUME NEW q \in P!PinId, P!MayBecomeReady(m, q), SectionsReady(m, q), k = P!AfterReady(m, q)
      PROVE  SectionsReady(k, p)
  <2>1. k.pins[q].sections = m.pins[q].sections /\ \A x \in P!PinId \ {q} : k.pins[x] = m.pins[x]
    BY <1>1, <1>3 DEF P!MayBecomeReady, P!AfterReady, P!RegionPin
  <2>2. CASE p = q
    BY <1>3, <2>1, <2>2 DEF SectionsReady
  <2>3. CASE p # q
    BY <1>2, <2>1, <2>3 DEF P!Settles
  <2> QED BY <2>2, <2>3
<1>4. ASSUME NEW q \in P!PinId, P!MayRelease(m, q), k = P!AfterRelease(m, q)
      PROVE  SectionsReady(k, p)
  <2>1. k.pins[q].readiness = "Released" /\ \A x \in P!PinId \ {q} : k.pins[x] = m.pins[x]
    BY <1>1, <1>4 DEF P!MayRelease, P!AfterRelease, P!Active, P!RegionPin
  <2> QED BY <1>2, <2>1 DEF P!Settles
<1>5. ASSUME NEW S \in SUBSET Section, NEW b \in Budget, P!MayDeclare(m, S, b), k = P!AfterDeclare(m, S)
      PROVE  SectionsReady(k, p)
  <2>1. /\ k.pins[m.next].readiness = "NotReady"
        /\ \A x \in P!PinId \ {m.next} : k.pins[x] = m.pins[x]
    BY <1>1, <1>5 DEF P!MayDeclare, P!AfterDeclare
  <2> QED BY <1>2, <2>1 DEF P!Settles
<1> QED BY <1>3, <1>4, <1>5 DEF PinCall

(* A new manager has no pin to keep.                                       *)
LEMMA NewKeeps ==
    ASSUME NEW b
    PROVE  HoldsPins(P!NewManager(b))
BY DEF HoldsPins, P!NewManager, P!Settles

(* What a step of the world leaves resident under pins.                    *)
LEMMA WorldKeeps ==
    ASSUME PinInv, [PinnedNext]_pinnedVars, restores' = restores, NEW m \in {attached, desk},
           HoldsPins(m), NEW p \in P!PinId, P!Settles(m, p), NEW s \in m.pins[p].sections
    PROVE  root'.slot[s] = "Ready"
<1>1. root.slot[s] = "Ready"
  BY DEF HoldsPins, SectionsReady
<1>2. P!IsPinned(m, s)
  BY DEF P!IsPinned, P!ActiveSections, P!Active, P!Settles
<1>3. s \in Section
  BY <1>2, ActiveFinite DEF P!IsPinned, PinInv, Sound
<1> QED BY <1>1, <1>2, <1>3, Protected

(* What is settled stays Ready over steps of the world and calls.          *)
LEMMA StepSettled ==
    ASSUME PinInv, SettledReady, [PinnedNext]_pinnedVars
    PROVE  SettledReady'
<1> SUFFICES ASSUME restores' = 0 PROVE HoldsPins(attached)' /\ HoldsPins(desk)'
  BY DEF SettledReady
<1>1. CASE PinStep
  <2>1. UNCHANGED vars /\ restores = 0 /\ root' = root
    BY <1>1 DEF PinStep, vars, historyVars
  <2>2. HoldsPins(attached) /\ HoldsPins(desk) /\ HoldsPins(NoManager) /\ Sound(attached) /\ Sound(desk)
    BY <2>1, NewKeeps DEF SettledReady, PinInv, NoManager
  <2>3. \A m : HoldsPins(m) => HoldsPins(m)'
    BY <2>1 DEF HoldsPins, SectionsReady
  <2>4. HoldsPins(attached') /\ HoldsPins(desk')
    <3>1. CASE PinCall(attached, attached') /\ UNCHANGED desk
      BY <2>2, <3>1, CallKeeps
    <3>2. CASE PinCall(desk, desk') /\ UNCHANGED attached
      BY <2>2, <3>2, CallKeeps
    <3>3. CASE NewDesk \/ CloneToDesk \/ Attach
      BY <2>2, <3>3, NewKeeps DEF NewDesk, CloneToDesk, Attach
    <3> QED BY <1>1, <3>1, <3>2, <3>3 DEF PinStep
  <2> QED BY <2>1, <2>4 DEF HoldsPins, SectionsReady
<1>2. CASE WorldStep \/ UNCHANGED pinnedVars
  <2>1. attached' = attached /\ desk' = desk /\ [Next]_vars
    BY <1>2 DEF WorldStep, pinnedVars
  <2>2. restores' = restores /\ restores = 0
    <3>1. restores' = restores \/ restores' = restores + 1
      BY <2>1, StepRestores DEF PinInv
    <3>2. restores \in Nat
      BY WorldAssumption DEF PinInv, TypeInv, TypeOK
    <3> QED BY <3>1, <3>2
  <2>3. HoldsPins(attached) /\ HoldsPins(desk)
    BY <2>2 DEF SettledReady
  <2> QED BY <2>1, <2>2, <2>3, WorldKeeps DEF HoldsPins, SectionsReady
<1> QED BY <1>1, <1>2 DEF PinnedNext

(* Until a restore every read under a settled pin finds its section.       *)
THEOREM PromisesKept == PinnedSpec => []PromiseKept
<1>1. PinnedInit => SettledReady
  BY NewKeeps DEF PinnedInit, NoManager, SettledReady
<1>2. PinInv /\ SettledReady /\ [PinnedNext]_pinnedVars => SettledReady'
  BY StepSettled
<1>3. PinInv /\ SettledReady => PromiseKept
  BY DEF PromiseKept, SettledReady, HoldsPins, SectionsReady, P!PinnedReadValid
<1> QED BY <1>1, <1>2, <1>3, PinInvariant, PTL DEF PinnedSpec
=============================================================================
