------------------------------- MODULE World -------------------------------
(***************************************************************************)
(* One VoxelWorld: the session, the published cut, the receipt ledger and  *)
(* everything that publishes a new cut: committed mutations, durability    *)
(* acks, unloads, restores, and the Host that loads sections.  Every entry *)
(* point takes `&mut VoxelWorld`, so a call is one step; what interleaves  *)
(* is the order of calls, with tokens, captures, snapshots and acks that   *)
(* outlive the state they were made from.                                  *)
(*                                                                         *)
(* A cut's identity digest covers every field of Root, so the cut is its   *)
(* own identity.  The content of a section is the set of transactions      *)
(* whose writes it carries.                                                *)
(***************************************************************************)
EXTENDS Naturals, FiniteSets, SessionTable

CONSTANTS
    Section, Txn,
    Handle,             \* places where callers keep prepared tokens
    MaxReceipts,        \* ledger capacity (WorldLimits.max_receipts)
    MaxPins,            \* pin capacity (WorldLimits.max_pinned_revisions)
    Batch,              \* bound: sets of sections a request may write
    LoadTargets,        \* presences the Host publishes when it streams a section
    SessionBound,       \* bound: session states a behaviour may enter
    AcksOutliveRestore, \* may the Host deliver an ack it issued before a restore?
    MaxRevision,        \* bound: world revisions
    MaxSnapshots,       \* bound: encoded snapshots
    MaxRestores,        \* bound: restores
    MaxAcks,            \* bound: acks in flight
    None

Presence == {"Unchanged", "Pending", "Ready", "Unavailable"}
Rev == 0..MaxRevision
Span == [first : Rev, latest : Rev]
PerSection(T) == [Section -> T \cup {None}]

Root == [world : Rev, rev : PerSection(Rev), slot : PerSection(Presence),
         body : [Section -> SUBSET Txn], dirty : PerSection(Span),
         delta : (SUBSET Section) \cup {None}]

(* A request names the sections it writes and the revision it expects.     *)
Request == [txn : Txn, expect : UNION {[S -> Rev] : S \in Batch}]
Writes(q) == DOMAIN q.expect

(* Of the two cut identities in a receipt only the world revisions are     *)
(* kept: enough to tell the cuts of one publication from another's.        *)
Evidence == [old : Rev, new : Rev]
Evidenced(r, n) == [old |-> r.world, new |-> n.world]

Entry == [req : Request, receipt : Evidence \cup {None}]
Token == [req : Request, base : Root, replay : Evidence \cup {None}]
Pin == 0..(MaxPins - 1)
Capture == [root : Root, pin : Pin]
Snapshot == [world : Rev, rev : PerSection(Rev)]
Ack == [world : Rev, upTo : PerSection(Rev)]

ASSUME WorldAssumption ==
    /\ IsFiniteSet(Section) /\ IsFiniteSet(Txn)
    /\ MaxReceipts \in Nat \ {0} /\ MaxPins \in Nat /\ MaxPins >= 2
    /\ MaxRevision \in Nat /\ MaxSnapshots \in Nat /\ MaxRestores \in Nat /\ MaxAcks \in Nat
    /\ Batch \subseteq SUBSET Section
    /\ LoadTargets \subseteq Presence
    /\ AcksOutliveRestore \in BOOLEAN
    /\ None \notin Rev /\ None \notin Presence /\ None \notin Span
    /\ None \notin Evidence /\ None \notin Entry /\ None \notin Token

VARIABLES
    session,        \* SimulationSession state
    generation,     \* instance generation
    root, pin,      \* the published cut and the pin slot that keeps it
    ledger,         \* TxnId -> entry: a reservation, later its receipt
    tokens,         \* Handle -> PreparedMutation kept by a caller
    captures,       \* VoxelCaptureRefs alive
    snapshots,      \* encoded captures
    persisted,      \* the Host's store: content per section
    acks,           \* durability acks on their way
    applied,        \* history: how often each transaction was published
    live,           \* history: transactions published since the last restore
    restores,       \* history: number of restores
    answers         \* history: results of successful commits, per transaction

callerVars == <<tokens, captures, snapshots>>
hostVars == <<persisted, acks>>
historyVars == <<applied, live, restores, answers>>
vars == <<session, generation, root, pin, ledger, callerVars, hostVars, historyVars>>

InitialRoot ==
    [world |-> 0, rev |-> [s \in Section |-> None], slot |-> [s \in Section |-> None],
     body |-> [s \in Section |-> {}], dirty |-> [s \in Section |-> None], delta |-> None]

Init ==
    /\ session = "Created" /\ generation = 1
    /\ root = InitialRoot /\ pin = 0
    /\ ledger = [t \in Txn |-> None]
    /\ tokens = [h \in Handle |-> None]
    /\ captures = {} /\ snapshots = {}
    /\ persisted = [s \in Section |-> {}] /\ acks = {}
    /\ applied = [t \in Txn |-> 0] /\ live = {} /\ restores = 0
    /\ answers = [t \in Txn |-> {}]

(* Mutant: a draining world still takes writes.                            *)
WriteWhileDraining == session \in {"Running", "Draining"}

WriteAdmissible == session = "Running"
QueryAdmissible == session \in {"Ready", "Running", "Paused"}

----------------------------------------------------------------------------
(* Publication: seal takes a pin beside the ones that are held, the swap   *)
(* gives the old cut's pin up unless a capture still shares it.            *)

PinsHeld == {pin} \cup {c.pin : c \in captures}
CanPin == Cardinality(PinsHeld) < MaxPins

Publish(r) ==
    /\ r.world \in Rev
    /\ CanPin
    /\ root' = r
    /\ pin' = CHOOSE p \in Pin : p \notin PinsHeld

----------------------------------------------------------------------------
(* The receipt ledger.                                                     *)

Reserved(t) == ledger[t] # None /\ ledger[t].receipt = None
Completed(t) == ledger[t] # None /\ ledger[t].receipt # None
Entries == {t \in Txn : ledger[t] # None}

(* Mutant: reserve does not count entries.                                 *)
RoomUnchecked == TRUE
Room == Cardinality(Entries) < MaxReceipts

(* Mutant: the restore forgets applied transactions too.                   *)
AbortAll(l) == [t \in Txn |-> None]

(* ReceiptLedger::abort_in_flight.                                         *)
AbortInFlight(l) ==
    [t \in Txn |-> IF l[t] # None /\ l[t].receipt = None THEN None ELSE l[t]]

----------------------------------------------------------------------------
(* Mutations.                                                              *)

(* A section the stamp does not list is at the world revision.             *)
CurrentRev(r, s) == IF r.rev[s] = None THEN r.world ELSE r.rev[s]

Fresh(r, q) == \A s \in Writes(q) : q.expect[s] = CurrentRev(r, s)

AllReady(r, q) == \A s \in Writes(q) : r.slot[s] = "Ready"

(* DirtyFrontier::record.                                                  *)
RecordDirty(d, n) ==
    IF d = None THEN [first |-> n, latest |-> n]
    ELSE [first |-> IF n < d.first THEN n ELSE d.first,
          latest |-> IF n > d.latest THEN n ELSE d.latest]

(* Mutants: a section revision or the world revision does not advance; of  *)
(* a batch only one section reaches the new directory.                     *)
NextRevStuck(r, s) == CurrentRev(r, s)
NextWorldStuck(r) == r.world
OverlaidOne(q) == {CHOOSE s \in Writes(q) : TRUE}

NextRev(r, s) == CurrentRev(r, s) + 1
NextWorld(r) == r.world + 1
Overlaid(q) == Writes(q)

(* The cut a mutation publishes: the staged payloads over the base.        *)
Overlay(r, q) ==
    [world |-> NextWorld(r),
     rev |-> [s \in Section |-> IF s \in Writes(q) THEN NextRev(r, s) ELSE r.rev[s]],
     slot |-> [s \in Section |-> IF s \in Overlaid(q) THEN "Ready" ELSE r.slot[s]],
     body |-> [s \in Section |-> IF s \in Overlaid(q) THEN r.body[s] \cup {q.txn} ELSE r.body[s]],
     dirty |-> [s \in Section |-> IF s \in Writes(q) THEN RecordDirty(r.dirty[s], NextRev(r, s))
                                  ELSE r.dirty[s]],
     delta |-> Writes(q)]

(* prepare: a vacant transaction is checked against the current cut, its   *)
(* payloads are staged privately, and it takes a place in the ledger.      *)
Prepare(h, q) ==
    /\ WriteAdmissible
    /\ tokens[h] = None
    /\ ledger[q.txn] = None
    /\ Fresh(root, q) /\ AllReady(root, q)
    /\ Room
    /\ ledger' = [ledger EXCEPT ![q.txn] = [req |-> q, receipt |-> None]]
    /\ tokens' = [tokens EXCEPT ![h] = [req |-> q, base |-> root, replay |-> None]]
    /\ UNCHANGED <<session, generation, root, pin, captures, snapshots, hostVars, historyVars>>

(* prepare of a completed transaction: no check of the cut, no new entry;  *)
(* the token carries the stored receipt.                                   *)
PrepareReplay(h, q) ==
    /\ WriteAdmissible
    /\ tokens[h] = None
    /\ Completed(q.txn) /\ ledger[q.txn].req = q
    /\ tokens' = [tokens EXCEPT ![h] = [req |-> q, base |-> root, replay |-> ledger[q.txn].receipt]]
    /\ UNCHANGED <<session, generation, root, pin, ledger, captures, snapshots, hostVars, historyVars>>

Consume(h) == tokens' = [tokens EXCEPT ![h] = None]

(* The ledger still holds the reservation this token was prepared under.   *)
Matches(k) == ledger[k.req.txn] # None /\ ledger[k.req.txn].req = k.req

Answer(t, receipt, evidence) ==
    answers' = [answers EXCEPT ![t] = @ \cup {[receipt |-> receipt, evidence |-> evidence]}]

(* Mutant: the receipt of a duplicate is made anew from the token's base.  *)
ReplayedAnew(k) == IF k.replay # None THEN k.replay ELSE Evidenced(k.base, k.base)

(* duplicate_receipt: the receipt is the token's or the ledger's, but the  *)
(* evidence of a token that was not prepared as a replay is its own base.  *)
ReplayedReceipt(k) == IF k.replay # None THEN k.replay ELSE ledger[k.req.txn].receipt
ReplayedEvidence(k) == IF k.replay # None THEN k.replay ELSE Evidenced(k.base, k.base)

CommitReplay(h) ==
    /\ WriteAdmissible
    /\ tokens[h] # None
    /\ Matches(tokens[h]) /\ Completed(tokens[h].req.txn)
    /\ Answer(tokens[h].req.txn, ReplayedReceipt(tokens[h]), ReplayedEvidence(tokens[h]))
    /\ Consume(h)
    /\ UNCHANGED <<session, generation, root, pin, ledger, captures, snapshots, hostVars,
                   applied, live, restores>>

(* recheck_prepared and recheck_presence against the current cut.          *)
Recheck(k) ==
    /\ k.base = root
    /\ Fresh(root, k.req) /\ AllReady(root, k.req)

(* commit of a reservation: one publication, then the receipt.             *)
CommitApply(h) ==
    LET k == tokens[h]
        evidence == Evidenced(k.base, Overlay(root, k.req))
    IN  /\ WriteAdmissible
        /\ k # None
        /\ Matches(k) /\ Reserved(k.req.txn)
        /\ Recheck(k)
        /\ Publish(Overlay(root, k.req))
        /\ ledger' = [ledger EXCEPT ![k.req.txn].receipt = evidence]
        /\ Answer(k.req.txn, evidence, evidence)
        /\ Consume(h)
        /\ applied' = [applied EXCEPT ![k.req.txn] = @ + 1]
        /\ live' = live \cup {k.req.txn}
        /\ UNCHANGED <<session, generation, captures, snapshots, hostVars, restores>>

(* Any refusal consumes the token and leaves the ledger as it is: a        *)
(* reservation whose commit was refused stays reserved.                    *)
CommitRefuse(h) ==
    /\ WriteAdmissible
    /\ tokens[h] # None
    /\ \/ ~Matches(tokens[h])
       \/ Reserved(tokens[h].req.txn) /\ ~(Recheck(tokens[h]) /\ CanPin)
    /\ Consume(h)
    /\ UNCHANGED <<session, generation, root, pin, ledger, captures, snapshots, hostVars, historyVars>>

(* A caller that gives up drops its token; the reservation stays.          *)
DropToken(h) ==
    /\ tokens[h] # None
    /\ Consume(h)
    /\ UNCHANGED <<session, generation, root, pin, ledger, captures, snapshots, hostVars, historyVars>>

(* Mutant: abort removes completed entries as well.                        *)
AbortCompleted(q) ==
    /\ WriteAdmissible
    /\ ledger[q.txn] # None /\ ledger[q.txn].req = q
    /\ ledger' = [ledger EXCEPT ![q.txn] = None]
    /\ UNCHANGED <<session, generation, root, pin, callerVars, hostVars, historyVars>>

(* abort: releases the reservation; a receipt is kept.                     *)
Abort(q) ==
    /\ WriteAdmissible
    /\ Reserved(q.txn) /\ ledger[q.txn].req = q
    /\ ledger' = [ledger EXCEPT ![q.txn] = None]
    /\ UNCHANGED <<session, generation, root, pin, callerVars, hostVars, historyVars>>

----------------------------------------------------------------------------
(* Durability and residency.                                               *)

(* The Host streams sections by publishing cuts of its own: a section that *)
(* is not resident becomes Pending or Ready (SectionSlot::try_convert      *)
(* forbids Unchanged -> Ready), with the stored content, at a new world    *)
(* revision that the section takes over.  No session check guards this.    *)
Convertible(from, to) ==
    \/ from = None
    \/ from = "Unchanged" /\ to = "Pending"
    \/ from = "Pending" /\ to \in {"Ready", "Unavailable", "Unchanged"}
    \/ from = "Unavailable" /\ to \in {"Pending", "Unchanged"}

HostPublish(s, to) ==
    /\ to \in LoadTargets
    /\ Convertible(root.slot[s], to)
    /\ Publish([world |-> root.world + 1,
                rev |-> [root.rev EXCEPT ![s] = root.world + 1],
                slot |-> [root.slot EXCEPT ![s] = to],
                body |-> [root.body EXCEPT ![s] = IF to = "Ready" THEN persisted[s] ELSE {}],
                dirty |-> root.dirty,
                delta |-> {s}])
    /\ UNCHANGED <<session, generation, ledger, callerVars, hostVars, historyVars>>

(* The Host writes resident sections to its store and issues the ack.      *)
HostPersist(S) ==
    /\ S # {} /\ \A s \in S : root.slot[s] = "Ready"
    /\ Cardinality(acks) < MaxAcks
    /\ persisted' = [s \in Section |-> IF s \in S THEN root.body[s] ELSE persisted[s]]
    /\ acks' = acks \cup {[world |-> root.world,
                           upTo |-> [s \in Section |-> IF s \in S THEN root.rev[s] ELSE None]]}
    /\ UNCHANGED <<session, generation, root, pin, ledger, callerVars, historyVars>>

(* covered_by: sections the ack names that are dirty; a named section that *)
(* is dirty beyond its bound makes the whole ack a StaleSectionRevision.   *)
Named(a) == {s \in Section : a.upTo[s] # None /\ root.dirty[s] # None}

(* Mutant: the latest dirty revision is not compared with the bound.       *)
AckAnyBound(a) == a.world <= root.world
AckAdmissible(a) ==
    /\ a.world <= root.world
    /\ \A s \in Named(a) : root.dirty[s].latest <= a.upTo[s]

(* Delivery leaves the ack in flight, so it may be delivered again, late.  *)
DeliverAck(a) ==
    /\ WriteAdmissible
    /\ AckAdmissible(a)
    /\ Named(a) # {}
    /\ Publish([root EXCEPT !.dirty = [s \in Section |-> IF s \in Named(a) THEN None ELSE @[s]],
                            !.delta = {}])
    /\ UNCHANGED <<session, generation, ledger, callerVars, hostVars, historyVars>>

LoseAck(a) ==
    /\ acks' = acks \ {a}
    /\ UNCHANGED <<session, generation, root, pin, ledger, callerVars, persisted, historyVars>>

(* unload_section: a clean Ready section becomes Unchanged; no revision    *)
(* moves.  Every other presence is refused or already unloaded.            *)
Unload(s) ==
    /\ WriteAdmissible
    /\ root.slot[s] = "Ready"
    /\ root.dirty[s] = None
    /\ Publish([root EXCEPT !.slot[s] = "Unchanged", !.body[s] = {}, !.delta = {s}])
    /\ UNCHANGED <<session, generation, ledger, callerVars, hostVars, historyVars>>

----------------------------------------------------------------------------
(* Capture and restore.                                                    *)

(* A capture shares the cut that is current and keeps its pin.             *)
CaptureCut ==
    /\ QueryAdmissible
    /\ captures' = captures \cup {[root |-> root, pin |-> pin]}
    /\ UNCHANGED <<session, generation, root, pin, ledger, tokens, snapshots, hostVars, historyVars>>

DropCapture(c) ==
    /\ captures' = captures \ {c}
    /\ UNCHANGED <<session, generation, root, pin, ledger, tokens, snapshots, hostVars, historyVars>>

(* encode_capture: stamps only; needs no world and no session.             *)
Encode(c) ==
    /\ snapshots' = snapshots \cup {[world |-> c.root.world, rev |-> c.root.rev]}
    /\ Cardinality(snapshots') <= MaxSnapshots
    /\ UNCHANGED <<session, generation, root, pin, ledger, tokens, captures, hostVars, historyVars>>

(* RestoreShadowBuilder::build: every section of the stamp is Unchanged    *)
(* and nothing is dirty.                                                   *)
Shadow(n) ==
    [world |-> n.world, rev |-> n.rev,
     slot |-> [s \in Section |-> IF n.rev[s] = None THEN None ELSE "Unchanged"],
     body |-> [s \in Section |-> {}], dirty |-> [s \in Section |-> None], delta |-> {}]

(* restore: one publication, then every reservation is aborted; receipts   *)
(* stay.  Whether the Host drops the acks it issued before is its choice.  *)
Restore(n) ==
    /\ WriteAdmissible
    /\ restores < MaxRestores
    /\ Publish(Shadow(n))
    /\ ledger' = AbortInFlight(ledger)
    /\ acks' = IF AcksOutliveRestore THEN acks ELSE {}
    /\ live' = {} /\ restores' = restores + 1
    /\ UNCHANGED <<session, generation, callerVars, persisted, applied, answers>>

----------------------------------------------------------------------------
(* Session lifecycle.                                                      *)

(* A Lifecycle command applies one edge of the table and nothing else.     *)
Lifecycle(to) ==
    /\ <<session, to>> \in Edges /\ to \in SessionBound
    /\ session' = to
    /\ UNCHANGED <<generation, root, pin, ledger, callerVars, hostVars, historyVars>>

ShutdownBegin ==
    /\ <<session, "Draining">> \in Edges /\ "Draining" \in SessionBound
    /\ session' = "Draining"
    /\ UNCHANGED <<generation, root, pin, ledger, callerVars, hostVars, historyVars>>

ShutdownDrain ==
    /\ session = "Draining"
    /\ ledger' = AbortInFlight(ledger)
    /\ session' = "Snapshotted"
    /\ UNCHANGED <<generation, root, pin, callerVars, hostVars, historyVars>>

ShutdownFinalize ==
    /\ session = "Snapshotted"
    /\ session' = "Disposed"
    /\ generation' = generation + 1
    /\ UNCHANGED <<root, pin, ledger, callerVars, hostVars, historyVars>>

(* A tripped fault runs what is left of the shutdown in one call.          *)
FaultTrip ==
    /\ session \in {"Running", "Paused", "Draining", "Snapshotted"} /\ "Disposed" \in SessionBound
    /\ session' = "Disposed"
    /\ ledger' = IF session = "Snapshotted" THEN ledger ELSE AbortInFlight(ledger)
    /\ generation' = generation + 1
    /\ UNCHANGED <<root, pin, callerVars, hostVars, historyVars>>

----------------------------------------------------------------------------

MutationStep ==
    \E h \in Handle :
        \/ \E q \in Request : Prepare(h, q) \/ PrepareReplay(h, q)
        \/ CommitReplay(h) \/ CommitApply(h) \/ CommitRefuse(h) \/ DropToken(h)

AbortStep == \E q \in Request : Abort(q)

ResidencyStep ==
    \/ \E s \in Section : Unload(s) \/ \E to \in LoadTargets : HostPublish(s, to)
    \/ \E S \in SUBSET Section : HostPersist(S)
    \/ \E a \in acks : DeliverAck(a) \/ LoseAck(a)

CaptureStep ==
    \/ CaptureCut
    \/ \E c \in captures : DropCapture(c) \/ Encode(c)
    \/ \E n \in snapshots : Restore(n)

SessionStep ==
    \/ \E to \in SessionState : Lifecycle(to)
    \/ ShutdownBegin \/ ShutdownDrain \/ ShutdownFinalize \/ FaultTrip

Next == MutationStep \/ AbortStep \/ ResidencyStep \/ CaptureStep \/ SessionStep

Spec == Init /\ [][Next]_vars

----------------------------------------------------------------------------
(* Properties.                                                             *)

(* Every variable has its type and the ledger keeps its budget.             *)
TypeOK ==
    /\ session \in SessionState /\ generation \in {1, 2}
    /\ root \in Root /\ pin \in Pin
    /\ ledger \in [Txn -> Entry \cup {None}] /\ Cardinality(Entries) <= MaxReceipts
    /\ tokens \in [Handle -> Token \cup {None}]
    /\ captures \in SUBSET Capture
    /\ snapshots \in SUBSET Snapshot
    /\ persisted \in [Section -> SUBSET Txn] /\ acks \in SUBSET Ack
    /\ applied \in [Txn -> Nat] /\ live \in SUBSET Txn /\ restores \in 0..MaxRestores
    /\ answers \in [Txn -> SUBSET [receipt : Evidence, evidence : Evidence]]

(* A transaction changes the published cut at most once, however often it  *)
(* is prepared, aborted, retried and restored over, and a receipt exists   *)
(* exactly for the transactions that changed it.                           *)
AtMostOnce == \A t \in Txn : applied[t] = IF Completed(t) THEN 1 ELSE 0

(* A section's write since the last restore is never lost: it is in the    *)
(* resident payload or, once the section is not resident, in the store.    *)
NoLostWrite ==
    \A t \in live : \A s \in Writes(ledger[t].req) :
        t \in IF root.slot[s] = "Ready" THEN root.body[s] ELSE persisted[s]

(* No cut that anybody holds shows part of a batch: of the resident        *)
(* sections a transaction wrote, a cut shows all writes or none.           *)
AtomicCuts ==
    \A r \in {root} \cup {c.root : c \in captures} : \A t \in live :
        \A s, u \in {x \in Writes(ledger[t].req) : r.slot[x] = "Ready"} :
            t \in r.body[s] => t \in r.body[u]

(* Until a restore, a section revision names one content: two resident     *)
(* payloads of a section at one revision are the same payload, so an       *)
(* expected revision identifies what the writer has read.                  *)
RevisionNamesContent ==
    restores = 0 =>
        \A c \in captures, s \in Section :
            (c.root.slot[s] = "Ready" /\ root.slot[s] = "Ready" /\ c.root.rev[s] = root.rev[s])
                => c.root.body[s] = root.body[s]

(* Whatever is answered for a transaction, the receipt is the same one.    *)
ReceiptsAgree ==
    \A t \in Txn : \A a, b \in answers[t] : a.receipt = b.receipt

(* A receipt is never changed or dropped, not even by abort, restore,      *)
(* shutdown or a tripped fault.                                            *)
ReceiptsForever ==
    [][\A t \in Txn : Completed(t) => ledger'[t] = ledger[t]]_vars

(* Outside a restore revisions only grow, the world's with every applied   *)
(* transaction and a section's with every change of its resident payload.  *)
RevisionsAdvance ==
    [][restores' = restores =>
        /\ root'.world >= root.world
        /\ live' # live => root'.world > root.world
        /\ \A s \in Section : root.rev[s] # None =>
              /\ root'.rev[s] # None /\ root'.rev[s] >= root.rev[s]
              /\ (root.slot[s] = "Ready" /\ root'.slot[s] = "Ready" /\ root'.body[s] # root.body[s])
                    => root'.rev[s] > root.rev[s]]_vars

(* From Drain on nothing is applied, no dirty mark is cleared and nothing  *)
(* is unloaded or restored: the final snapshot of the session stays final  *)
(* for whatever mutations, acks and restores are still on their way.  The  *)
(* Host's own publications do not pass a session check.                    *)
Closing == session \in {"Draining", "Snapshotted", "Disposed"}

NoWriteAfterDrain ==
    [][Closing =>
        /\ Closing'
        /\ applied' = applied /\ restores' = restores
        /\ \A s \in Section :
              /\ root'.dirty[s] = root.dirty[s]
              /\ (root.slot[s] = "Ready" => root'.slot[s] = "Ready")]_vars

(* Statements of the documents that the code does not keep.                *)

(* README.md:88: a repeated commit returns the original result.            *)
AnswersAgree == \A t \in Txn : Cardinality(answers[t]) <= 1

(* voxel-world-v1.json:686: a dirty section that no ack covers must not be *)
(* unloaded: what is not resident is in the store.                         *)
EvictionFence ==
    \A t \in live : \A s \in Writes(ledger[t].req) :
        root.slot[s] # "Ready" => t \in persisted[s]
=============================================================================
