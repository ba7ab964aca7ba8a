---------------------------- MODULE Publication ----------------------------
(***************************************************************************)
(* PublicationAuthority and the PinRegistry behind it, at the grain at     *)
(* which threads interleave: the RwLock around the published cell, the     *)
(* mutex around the pin table (each of its critical sections is one step), *)
(* and the steps publish_once takes outside the lock.                      *)
(*                                                                         *)
(* A cut (PublishedStateRoot) is a stamp and a body; its identity digest   *)
(* is the cut itself, so comparing identities is comparing cuts.           *)
(***************************************************************************)
EXTENDS Naturals, FiniteSets

CONSTANTS
    Thread,         \* callers that share the authority
    Owner,          \* (world, context, generation) triples
    Self,           \* the triple of this authority
    Revision,       \* world revisions a stamp may carry
    Body,           \* directory and dirty frontier of a cut
    InitRoot,       \* the cut the authority is created with
    ForeignTokens,  \* sealed tokens of other authorities a caller may hand in
    MaxPins,        \* max_pins of the registry
    MaxTokens,      \* bound: publications prepared in a behaviour
    None            \* no value

Stamp == [owner : Owner, rev : Revision]
Root == [stamp : Stamp, body : Body]
TokenId == 0..(MaxTokens - 1)
PinId == 0..MaxTokens
Token == [id : TokenId, owner : Owner, base : Root, root : Root, pin : PinId \cup {None}]
PreparedRec == [base : Root, root : Root, sealed : BOOLEAN]
OfferRec == [base : Root, root : Root, spent : BOOLEAN]
View == [root : Root, pin : PinId]

(* A token of another authority carries that authority's triple, a base    *)
(* stamped with it (the identity digest covers the stamp), and a pin of    *)
(* another registry.                                                       *)
ASSUME PublicationAssumption ==
    /\ Self \in Owner
    /\ InitRoot \in Root
    /\ InitRoot.stamp.owner = Self
    /\ MaxTokens \in Nat \ {0}
    /\ MaxPins \in Nat \ {0}
    /\ IsFiniteSet(Thread)
    /\ None \notin Thread \cup PinId \cup Token \cup PreparedRec \cup OfferRec \cup View \cup Root
    /\ ForeignTokens \subseteq Token
    /\ \A k \in ForeignTokens : k.owner # Self /\ k.base.stamp.owner = k.owner /\ k.pin = None

VARIABLES
    cellRoot, cellPin,          \* the PublishedCell: current cut and its pin
    nextTokenId,                \* PublishedCell.next_token_id
    prepared,                   \* TokenId -> PreparedPublication or None
    tokens,                     \* sealed PublicationTokens nobody has used yet
    refs, pinStamp, nextPinId,  \* RegistryState: references and stamp per slot
    readers, writer,            \* holders of the RwLock
    pc, arg, got, retired,      \* per thread: program point and locals of its call
    view,                       \* per thread: the PublishedReadView it keeps
    times                       \* history: how often each token took effect

cellVars == <<cellRoot, cellPin, nextTokenId>>
pinVars == <<refs, pinStamp, nextPinId>>
lockVars == <<readers, writer>>
callVars == <<pc, arg, got, retired>>
vars == <<cellVars, prepared, tokens, pinVars, lockVars, callVars, view, times>>

Point == {"idle", "capRoot", "capPin", "pubCheck", "pubClone", "pubRoot",
          "pubPin", "pubRetire", "pubRefused"}

Init ==
    /\ cellRoot = InitRoot /\ cellPin = 0 /\ nextTokenId = 0
    /\ prepared = [i \in TokenId |-> None]
    /\ tokens = {}
    /\ refs = [p \in PinId |-> IF p = 0 THEN 1 ELSE 0]
    /\ pinStamp = [p \in PinId |-> InitRoot.stamp]
    /\ nextPinId = 1
    /\ readers = {} /\ writer = None
    /\ pc = [t \in Thread |-> "idle"]
    /\ arg = [t \in Thread |-> None]
    /\ got = [t \in Thread |-> None]
    /\ retired = [t \in Thread |-> None]
    /\ view = [t \in Thread |-> None]
    /\ times = [i \in TokenId |-> 0]

----------------------------------------------------------------------------
(* The pin registry.                                                       *)

LiveSlots == {p \in PinId : refs[p] > 0}

(* Mutants: a clone that forgets to count itself, a drop that counts twice.*)
CloneUncounted(r, p) == r
DropTwice(r, p) == [r EXCEPT ![p] = IF @ > 0 THEN @ - 2 ELSE 0]

(* RevisionPin::clone and ::drop: a slot that is gone is left alone, and   *)
(* the last reference removes the slot.                                    *)
AfterClone(r, p) == [r EXCEPT ![p] = IF @ > 0 THEN @ + 1 ELSE 0]
AfterDrop(r, p) == [r EXCEPT ![p] = IF @ > 0 THEN @ - 1 ELSE 0]

(* PinRegistry::try_pin: refused when the table is full.                   *)
TryPin(stamp) ==
    /\ nextPinId \in PinId
    /\ Cardinality(LiveSlots) < MaxPins
    /\ refs' = [refs EXCEPT ![nextPinId] = 1]
    /\ pinStamp' = [pinStamp EXCEPT ![nextPinId] = stamp]
    /\ nextPinId' = nextPinId + 1

----------------------------------------------------------------------------
(* Preparing and sealing.                                                  *)

(* PublicationAuthority::prepare: the base is the cut that is current when *)
(* the write lock is held, whatever cut the caller built the new one from. *)
Prepare(t, r) ==
    /\ pc[t] = "idle"
    /\ r.stamp.owner = Self
    /\ readers = {} /\ writer = None
    /\ nextTokenId < MaxTokens
    /\ nextTokenId' = nextTokenId + 1
    /\ prepared' = [prepared EXCEPT ![nextTokenId] =
                        [base |-> cellRoot, root |-> r, sealed |-> FALSE]]
    /\ UNCHANGED <<cellRoot, cellPin, tokens, pinVars, lockVars, callVars, view, times>>

(* PreparedPublication::seal: one token only; a refused pin leaves the     *)
(* publication unsealed, so sealing may be tried again.                    *)
Seal(i) ==
    /\ prepared[i] # None
    /\ ~prepared[i].sealed
    /\ TryPin(prepared[i].root.stamp)
    /\ prepared' = [prepared EXCEPT ![i].sealed = TRUE]
    /\ tokens' = tokens \cup {[id |-> i, owner |-> Self, base |-> prepared[i].base,
                               root |-> prepared[i].root, pin |-> nextPinId]}
    /\ UNCHANGED <<cellVars, lockVars, callVars, view, times>>

(* A sealed token that is dropped unused gives its pin back.               *)
DropToken(k) ==
    /\ k \in tokens
    /\ tokens' = tokens \ {k}
    /\ refs' = AfterDrop(refs, k.pin)
    /\ UNCHANGED <<cellVars, prepared, pinStamp, nextPinId, lockVars, callVars, view, times>>

----------------------------------------------------------------------------
(* capture(): clone the root and then the pin under one read lock.         *)

CaptureLock(t) ==
    /\ pc[t] = "idle" /\ view[t] = None
    /\ writer = None
    /\ readers' = readers \cup {t}
    /\ pc' = [pc EXCEPT ![t] = "capRoot"]
    /\ UNCHANGED <<cellVars, prepared, tokens, pinVars, writer, arg, got, retired, view, times>>

(* Mutant: the read guard ends with the clone of the root.                 *)
CaptureRootUnguarded(t) ==
    /\ pc[t] = "capRoot"
    /\ got' = [got EXCEPT ![t] = cellRoot]
    /\ readers' = readers \ {t}
    /\ pc' = [pc EXCEPT ![t] = "capPin"]
    /\ UNCHANGED <<cellVars, prepared, tokens, pinVars, writer, arg, retired, view, times>>

CaptureRoot(t) ==
    /\ pc[t] = "capRoot"
    /\ got' = [got EXCEPT ![t] = cellRoot]
    /\ pc' = [pc EXCEPT ![t] = "capPin"]
    /\ UNCHANGED <<cellVars, prepared, tokens, pinVars, lockVars, arg, retired, view, times>>

CapturePin(t) ==
    /\ pc[t] = "capPin"
    /\ refs' = AfterClone(refs, cellPin)
    /\ view' = [view EXCEPT ![t] = [root |-> got[t], pin |-> cellPin]]
    /\ got' = [got EXCEPT ![t] = None]
    /\ readers' = readers \ {t}
    /\ pc' = [pc EXCEPT ![t] = "idle"]
    /\ UNCHANGED <<cellVars, prepared, tokens, pinStamp, nextPinId, writer, arg, retired, times>>

DropView(t) ==
    /\ pc[t] = "idle" /\ view[t] # None
    /\ refs' = AfterDrop(refs, view[t].pin)
    /\ view' = [view EXCEPT ![t] = None]
    /\ UNCHANGED <<cellVars, prepared, tokens, pinStamp, nextPinId, lockVars, callVars, times>>

----------------------------------------------------------------------------
(* publish_once(token).                                                    *)

PublishLock(t, k) ==
    /\ pc[t] = "idle" /\ view[t] = None
    /\ k \in tokens \cup ForeignTokens
    /\ readers = {} /\ writer = None
    /\ writer' = t
    /\ arg' = [arg EXCEPT ![t] = k]
    /\ tokens' = tokens \ {k}
    /\ pc' = [pc EXCEPT ![t] = "pubCheck"]
    /\ UNCHANGED <<cellVars, prepared, pinVars, readers, got, retired, view, times>>

(* Mutant: the owner is checked, the base is not.                          *)
PublishableAnyBase(k) == k.owner = Self

(* Owner, generation and base are compared while the lock is held.         *)
Publishable(k) == k.owner = Self /\ k.base = cellRoot

(* Mutant: the refusal returns with the guard still held.                  *)
PublishRefuseLocked(t) ==
    /\ pc[t] = "pubCheck"
    /\ ~Publishable(arg[t])
    /\ pc' = [pc EXCEPT ![t] = "pubRefused"]
    /\ UNCHANGED <<cellVars, prepared, tokens, pinVars, lockVars, arg, got, retired, view, times>>

PublishRefuse(t) ==
    /\ pc[t] = "pubCheck"
    /\ ~Publishable(arg[t])
    /\ writer' = None
    /\ pc' = [pc EXCEPT ![t] = "pubRefused"]
    /\ UNCHANGED <<cellVars, prepared, tokens, pinVars, readers, arg, got, retired, view, times>>

(* The guard is released before the refused token, a parameter, is dropped.*)
PublishDropArg(t) ==
    /\ pc[t] = "pubRefused"
    /\ refs' = IF arg[t].pin = None THEN refs ELSE AfterDrop(refs, arg[t].pin)
    /\ arg' = [arg EXCEPT ![t] = None]
    /\ pc' = [pc EXCEPT ![t] = "idle"]
    /\ UNCHANGED <<cellVars, prepared, tokens, pinStamp, nextPinId, lockVars, got, retired, view, times>>

PublishAccept(t) ==
    /\ pc[t] = "pubCheck"
    /\ Publishable(arg[t])
    /\ pc' = [pc EXCEPT ![t] = "pubClone"]
    /\ UNCHANGED <<cellVars, prepared, tokens, pinVars, lockVars, arg, got, retired, view, times>>

PublishClone(t) ==
    /\ pc[t] = "pubClone"
    /\ refs' = AfterClone(refs, arg[t].pin)
    /\ pc' = [pc EXCEPT ![t] = "pubRoot"]
    /\ UNCHANGED <<cellVars, prepared, tokens, pinStamp, nextPinId, lockVars, arg, got, retired, view, times>>

SwapRoot(t) ==
    /\ pc[t] = "pubRoot"
    /\ cellRoot' = arg[t].root
    /\ times' = [times EXCEPT ![arg[t].id] = @ + 1]
    /\ pc' = [pc EXCEPT ![t] = "pubPin"]
    /\ UNCHANGED <<cellPin, nextTokenId, prepared, tokens, pinVars, lockVars, arg, got, retired, view>>

(* The second half of the swap, and the guard is dropped.                  *)
SwapPin(t) ==
    /\ pc[t] = "pubPin"
    /\ retired' = [retired EXCEPT ![t] = cellPin]
    /\ cellPin' = arg[t].pin
    /\ writer' = None
    /\ pc' = [pc EXCEPT ![t] = "pubRetire"]
    /\ UNCHANGED <<cellRoot, nextTokenId, prepared, tokens, pinVars, readers, arg, got, view, times>>

(* Mutant: the retired pin is forgotten instead of dropped.                *)
RetireLeak(t) ==
    /\ pc[t] = "pubRetire"
    /\ retired' = [retired EXCEPT ![t] = None]
    /\ view' = [view EXCEPT ![t] = [root |-> arg[t].root, pin |-> arg[t].pin]]
    /\ arg' = [arg EXCEPT ![t] = None]
    /\ pc' = [pc EXCEPT ![t] = "idle"]
    /\ UNCHANGED <<cellVars, prepared, tokens, pinVars, lockVars, got, times>>

(* The old root and its pin are dropped outside the lock, then the view of *)
(* the new cut is returned.                                                *)
Retire(t) ==
    /\ pc[t] = "pubRetire"
    /\ refs' = AfterDrop(refs, retired[t])
    /\ retired' = [retired EXCEPT ![t] = None]
    /\ view' = [view EXCEPT ![t] = [root |-> arg[t].root, pin |-> arg[t].pin]]
    /\ arg' = [arg EXCEPT ![t] = None]
    /\ pc' = [pc EXCEPT ![t] = "idle"]
    /\ UNCHANGED <<cellVars, prepared, tokens, pinStamp, nextPinId, lockVars, got, times>>

----------------------------------------------------------------------------

(* Steps of a call that has passed its lock acquisition.                   *)
Inside(t) ==
    \/ CaptureRoot(t) \/ CapturePin(t)
    \/ PublishRefuse(t) \/ PublishDropArg(t)
    \/ PublishAccept(t) \/ PublishClone(t) \/ SwapRoot(t) \/ SwapPin(t) \/ Retire(t)

Next ==
    \/ \E t \in Thread :
        \/ \E r \in Root : Prepare(t, r)
        \/ CaptureLock(t)
        \/ \E k \in tokens \cup ForeignTokens : PublishLock(t, k)
        \/ DropView(t)
        \/ Inside(t)
    \/ \E i \in TokenId : Seal(i)
    \/ \E k \in tokens : DropToken(k)

(* Threads keep running inside a call; nothing is assumed about lock       *)
(* acquisition (std::sync::RwLock gives no order) or about callers.        *)
Fairness == \A t \in Thread : WF_vars(Inside(t))

Spec == Init /\ [][Next]_vars
FairSpec == Spec /\ Fairness

----------------------------------------------------------------------------
(* Properties.                                                             *)

(* Every variable holds a value of its type.                               *)
TypeOK ==
    /\ cellRoot \in Root /\ cellPin \in PinId /\ nextTokenId \in 0..MaxTokens
    /\ prepared \in [TokenId -> PreparedRec \cup {None}]
    /\ tokens \in SUBSET Token
    /\ refs \in [PinId -> Nat] /\ pinStamp \in [PinId -> Stamp]
    /\ nextPinId \in 1..(MaxTokens + 1)
    /\ readers \in SUBSET Thread /\ writer \in Thread \cup {None}
    /\ pc \in [Thread -> Point]
    /\ arg \in [Thread -> Token \cup {None}]
    /\ got \in [Thread -> Root \cup {None}]
    /\ retired \in [Thread -> PinId \cup {None}]
    /\ view \in [Thread -> View \cup {None}]
    /\ times \in [TokenId -> Nat]

(* No reader ever holds the cut of one publication with the pin of         *)
(* another: a view's pin carries the stamp of the very root the view shows *)
(* (a capture made between the two halves of the swap would not).          *)
NoTornView ==
    \A t \in Thread : view[t] # None => pinStamp[view[t].pin] = view[t].root.stamp

(* Threads inside publish_once that own a reference to the new pin besides *)
(* the token's: the clone kept for the returned view.                      *)
ResultHolders(p) ==
    {t \in Thread : pc[t] \in {"pubRoot", "pubPin", "pubRetire"} /\ arg[t].pin = p}
ArgHolders(p) ==
    {t \in Thread : pc[t] \in {"pubCheck", "pubClone", "pubRoot", "pubPin", "pubRefused"}
                    /\ arg[t].pin = p}
CellHolders(p) == IF cellPin = p THEN 1 ELSE 0
TokenHolders(p) == {k \in tokens : k.pin = p}
ViewHolders(p) == {t \in Thread : view[t] # None /\ view[t].pin = p}
RetiredHolders(p) == {t \in Thread : retired[t] = p}

(* The reference count of every pin slot is exactly the number of values   *)
(* that own the pin, at every interleaving of captures, publications and   *)
(* drops: no slot is freed under a reader, none outlives its last owner.   *)
RefsExact ==
    \A p \in PinId :
        refs[p] = CellHolders(p) + Cardinality(TokenHolders(p)) + Cardinality(ViewHolders(p))
                  + Cardinality(ResultHolders(p)) + Cardinality(ArgHolders(p))
                  + Cardinality(RetiredHolders(p))

(* A caller still owns the pin: the cell, an unused token or a view.       *)
HeldByCaller(p) == CellHolders(p) = 1 \/ TokenHolders(p) # {} \/ ViewHolders(p) # {}

(* Every lock holder lets go of the RwLock, with no help from other calls. *)
LockReleased ==
    \A t \in Thread : (writer = t \/ t \in readers) ~> (writer # t /\ t \notin readers)

(* A pin that only calls in progress still own (the retired one of a       *)
(* publication, the one of a refused token) is given back: the pin budget  *)
(* that a publication holds twice is transient.                            *)
PinReclaimed ==
    \A p \in PinId : (refs[p] > 0 /\ ~HeldByCaller(p)) ~> (refs[p] = 0 \/ HeldByCaller(p))

(* The authority implements the atomic register: a publication takes       *)
(* effect when the root is swapped, a capture when the root is cloned.     *)
SeenCut(t) ==
    IF pc[t] = "capPin" THEN got[t]
    ELSE IF pc[t] \in {"pubPin", "pubRetire"} THEN arg[t].root
    ELSE IF view[t] = None THEN None ELSE view[t].root

OfferOf(i) ==
    IF prepared[i] = None THEN None
    ELSE [base |-> prepared[i].base, root |-> prepared[i].root, spent |-> times[i] > 0]

Register == INSTANCE CutRegister WITH
    OfferId <- TokenId, Nothing <- None, current <- cellRoot,
    offer <- [i \in TokenId |-> OfferOf(i)],
    seen <- [t \in Thread |-> SeenCut(t)]

(* No update is lost, none is applied twice, and captures and publications *)
(* are atomic: every step of the locked, pinned implementation is a step   *)
(* of CutRegister or leaves its variables alone.                           *)
ImplementsRegister == Register!Spec
=============================================================================
