------------------------- MODULE PublicationProofs -------------------------
(***************************************************************************)
(* Theorems about Publication for any set of threads, any cuts, any pin    *)
(* budget and any number of publications.                                  *)
(***************************************************************************)
EXTENDS Publication, FiniteSetTheorems, TLAPS

WritePoints == {"pubCheck", "pubClone", "pubRoot", "pubPin"}
PublishPoints == WritePoints \cup {"pubRetire", "pubRefused"}
ReadPoints == {"capRoot", "capPin"}

(* A program point says exactly which lock its thread holds, and a writer  *)
(* excludes readers.                                                       *)
LockInv ==
    /\ writer # None => readers = {}
    /\ \A t \in Thread : pc[t] \in WritePoints <=> writer = t
    /\ \A t \in Thread : pc[t] \in ReadPoints <=> t \in readers

(* The locals of a call are set where its later steps read them.           *)
LocalInv ==
    /\ \A t \in Thread : pc[t] = "capPin" => got[t] \in Root
    /\ \A t \in Thread : pc[t] \in PublishPoints => arg[t] \in Token
    /\ \A t \in Thread : pc[t] \in {"pubClone", "pubRoot", "pubPin", "pubRetire"}
                            => arg[t].owner = Self
    /\ \A t \in Thread : pc[t] = "pubRetire" => retired[t] \in PinId
    /\ \A k \in tokens : k.owner = Self

(* A token of this authority has a pin of this registry.                   *)
TokenInv ==
    /\ \A k \in tokens : k.pin \in PinId
    /\ \A t \in Thread : (arg[t] # None /\ arg[t].owner = Self) => arg[t].pin \in PinId

TypeInv == TypeOK /\ LockInv /\ LocalInv /\ TokenInv

(* What a step may read of the constants.                                  *)
LEMMA ConstantFacts ==
    /\ 0 \in PinId /\ InitRoot \in Root /\ InitRoot.stamp \in Stamp
    /\ MaxTokens \in Nat /\ MaxTokens > 0
    /\ None \notin Thread /\ None \notin PinId /\ None \notin Token
    /\ None \notin PreparedRec /\ None \notin OfferRec /\ None \notin View /\ None \notin Root
    /\ \A k \in ForeignTokens : k \in Token /\ k.owner # Self /\ k.pin = None
BY PublicationAssumption DEF PinId, Root, Stamp

(* PublicationAuthority::new establishes the strengthened type invariant.   *)
LEMMA InitType == Init => TypeInv
<1> SUFFICES ASSUME Init PROVE TypeInv
  OBVIOUS
<1> USE ConstantFacts DEF Init
<1>1. TypeOK
  BY DEF TypeOK, PinId, TokenId, Point
<1>2. LockInv /\ LocalInv /\ TokenInv
  BY DEF LockInv, LocalInv, TokenInv, WritePoints, PublishPoints, ReadPoints
<1> QED BY <1>1, <1>2 DEF TypeInv

(* Reference counts stay natural numbers.                                  *)
LEMMA CountsStayNatural ==
    ASSUME NEW r \in [PinId -> Nat], NEW p
    PROVE  AfterClone(r, p) \in [PinId -> Nat] /\ AfterDrop(r, p) \in [PinId -> Nat]
<1>1. ASSUME NEW n \in Nat
      PROVE  (IF n > 0 THEN n + 1 ELSE 0) \in Nat /\ (IF n > 0 THEN n - 1 ELSE 0) \in Nat
  OBVIOUS
<1>2. CASE p \in PinId
  <2>1. r[p] \in Nat
    BY <1>2
  <2> QED BY <1>1, <2>1 DEF AfterClone, AfterDrop
<1>3. CASE p \notin PinId
  <2>1. AfterClone(r, p) = r /\ AfterDrop(r, p) = r
    BY <1>3 DEF AfterClone, AfterDrop
  <2> QED BY <2>1
<1> QED BY <1>2, <1>3

(* Every step of every thread keeps it: one step per action below.         *)
LEMMA StepType == TypeInv /\ [Next]_vars => TypeInv'
<1> SUFFICES ASSUME TypeInv, [Next]_vars PROVE TypeInv'
  OBVIOUS
<1> USE ConstantFacts
<1> USE DEF TypeInv
<1>1. CASE UNCHANGED vars
  BY <1>1 DEF vars, cellVars, pinVars, lockVars, callVars, TypeOK, LockInv, LocalInv, TokenInv
<1>2. ASSUME NEW t \in Thread, NEW r \in Root, Prepare(t, r) PROVE TypeInv'
  <2>1. TypeOK'
    BY <1>2 DEF Prepare, TypeOK, cellVars, pinVars, lockVars, callVars, TokenId, PreparedRec
  <2>2. (LockInv /\ LocalInv /\ TokenInv)'
    BY <1>2 DEF Prepare, LockInv, LocalInv, TokenInv, lockVars, callVars
  <2> QED BY <2>1, <2>2
<1>3. ASSUME NEW t \in Thread, CaptureLock(t) PROVE TypeInv'
  <2>1. TypeOK'
    BY <1>3 DEF CaptureLock, TypeOK, cellVars, pinVars, Point
  <2>2. (LockInv /\ LocalInv /\ TokenInv)'
    BY <1>3 DEF CaptureLock, TypeOK, LockInv, LocalInv, TokenInv, WritePoints, PublishPoints, ReadPoints
  <2> QED BY <2>1, <2>2
<1>4. ASSUME NEW t \in Thread, NEW k \in tokens \cup ForeignTokens, PublishLock(t, k) PROVE TypeInv'
  <2>0. k \in Token
    BY DEF TypeOK
  <2>1. TypeOK'
    BY <1>4, <2>0 DEF PublishLock, TypeOK, cellVars, pinVars, Point
  <2>2. (LockInv /\ LocalInv)'
    BY <1>4, <2>0 DEF PublishLock, TypeOK, LockInv, LocalInv, WritePoints, PublishPoints, ReadPoints
  <2>3. TokenInv'
    BY <1>4, <2>0 DEF PublishLock, TypeOK, TokenInv
  <2> QED BY <2>1, <2>2, <2>3
<1>5. ASSUME NEW t \in Thread, DropView(t) PROVE TypeInv'
  <2>1. TypeOK'
    BY <1>5, CountsStayNatural DEF DropView, TypeOK, cellVars, pinVars, lockVars, callVars
  <2>2. (LockInv /\ LocalInv /\ TokenInv)'
    BY <1>5 DEF DropView, LockInv, LocalInv, TokenInv, lockVars, callVars
  <2> QED BY <2>1, <2>2
<1>6. ASSUME NEW t \in Thread, Inside(t) PROVE TypeInv'
  <2>1. CASE CaptureRoot(t)
    <3>1. TypeOK'
      BY <2>1 DEF CaptureRoot, TypeOK, cellVars, pinVars, lockVars, Point
    <3>2. (LockInv /\ LocalInv /\ TokenInv)'
      BY <2>1 DEF CaptureRoot, TypeOK, LockInv, LocalInv, TokenInv, lockVars, WritePoints, PublishPoints, ReadPoints
    <3> QED BY <3>1, <3>2
  <2>2. CASE CapturePin(t)
    <3>1. TypeOK'
      <4>1. [root |-> got[t], pin |-> cellPin] \in View
        BY <2>2 DEF CapturePin, TypeOK, LocalInv, View
      <4> QED BY <2>2, <4>1, CountsStayNatural DEF CapturePin, TypeOK, cellVars, Point
    <3>2. (LockInv /\ LocalInv /\ TokenInv)'
      BY <2>2 DEF CapturePin, TypeOK, LockInv, LocalInv, TokenInv, WritePoints, PublishPoints, ReadPoints
    <3> QED BY <3>1, <3>2
  <2>3. CASE PublishRefuse(t)
    <3>1. TypeOK'
      BY <2>3 DEF PublishRefuse, TypeOK, cellVars, pinVars, Point
    <3>2. (LockInv /\ LocalInv /\ TokenInv)'
      BY <2>3 DEF PublishRefuse, TypeOK, LockInv, LocalInv, TokenInv, WritePoints, PublishPoints, ReadPoints
    <3> QED BY <3>1, <3>2
  <2>4. CASE PublishDropArg(t)
    <3>1. TypeOK'
      BY <2>4, CountsStayNatural DEF PublishDropArg, TypeOK, cellVars, lockVars, Point
    <3>2. (LockInv /\ LocalInv /\ TokenInv)'
      BY <2>4 DEF PublishDropArg, TypeOK, LockInv, LocalInv, TokenInv, lockVars, WritePoints, PublishPoints, ReadPoints
    <3> QED BY <3>1, <3>2
  <2>5. CASE PublishAccept(t)
    <3>1. TypeOK'
      BY <2>5 DEF PublishAccept, TypeOK, cellVars, pinVars, lockVars, Point
    <3>2. (LockInv /\ LocalInv /\ TokenInv)'
      BY <2>5 DEF PublishAccept, Publishable, TypeOK, LockInv, LocalInv, TokenInv, lockVars, WritePoints, PublishPoints, ReadPoints
    <3> QED BY <3>1, <3>2
  <2>6. CASE PublishClone(t)
    <3>1. TypeOK'
      BY <2>6, CountsStayNatural DEF PublishClone, TypeOK, cellVars, lockVars, Point
    <3>2. (LockInv /\ LocalInv /\ TokenInv)'
      BY <2>6 DEF PublishClone, TypeOK, LockInv, LocalInv, TokenInv, lockVars, WritePoints, PublishPoints, ReadPoints
    <3> QED BY <3>1, <3>2
  <2>7. CASE SwapRoot(t)
    <3>0. arg[t] \in Token /\ arg[t].root \in Root /\ arg[t].id \in TokenId
      BY <2>7 DEF SwapRoot, LocalInv, WritePoints, PublishPoints, Token
    <3>1. TypeOK'
      BY <2>7, <3>0 DEF SwapRoot, TypeOK, pinVars, lockVars, Point
    <3>2. (LockInv /\ LocalInv /\ TokenInv)'
      BY <2>7 DEF SwapRoot, TypeOK, LockInv, LocalInv, TokenInv, lockVars, WritePoints, PublishPoints, ReadPoints
    <3> QED BY <3>1, <3>2
  <2>8. CASE SwapPin(t)
    <3>0. arg[t].pin \in PinId /\ cellPin \in PinId
      BY <2>8 DEF SwapPin, LocalInv, TokenInv, TypeOK, WritePoints, PublishPoints
    <3>1. TypeOK'
      BY <2>8, <3>0 DEF SwapPin, TypeOK, pinVars, Point
    <3>2. (LockInv /\ LocalInv /\ TokenInv)'
      BY <2>8, <3>0 DEF SwapPin, TypeOK, LockInv, LocalInv, TokenInv, WritePoints, PublishPoints, ReadPoints
    <3> QED BY <3>1, <3>2
  <2>9. CASE Retire(t)
    <3>0. arg[t] \in Token /\ arg[t].pin \in PinId
      BY <2>9 DEF Retire, LocalInv, TokenInv, WritePoints, PublishPoints
    <3>1. [root |-> arg[t].root, pin |-> arg[t].pin] \in View
      BY <3>0 DEF Token, View
    <3>2. TypeOK'
      BY <2>9, <3>1, CountsStayNatural DEF Retire, TypeOK, cellVars, lockVars, Point
    <3>3. (LockInv /\ LocalInv /\ TokenInv)'
      BY <2>9 DEF Retire, TypeOK, LockInv, LocalInv, TokenInv, lockVars, WritePoints, PublishPoints, ReadPoints
    <3> QED BY <3>2, <3>3
  <2> QED BY <1>6, <2>1, <2>2, <2>3, <2>4, <2>5, <2>6, <2>7, <2>8, <2>9 DEF Inside
<1>7. ASSUME NEW i \in TokenId, Seal(i) PROVE TypeInv'
  <2>0. prepared[i] \in PreparedRec /\ nextPinId \in PinId
    BY <1>7 DEF Seal, TryPin, TypeOK
  <2>1. [id |-> i, owner |-> Self, base |-> prepared[i].base, root |-> prepared[i].root,
         pin |-> nextPinId] \in Token
    BY <2>0, PublicationAssumption DEF PreparedRec, Token
  <2>2. prepared[i].root.stamp \in Stamp
    BY <2>0 DEF PreparedRec, Root
  <2>3. TypeOK'
    <3>1. prepared' \in [TokenId -> PreparedRec \cup {None}]
      BY <1>7, <2>0 DEF Seal, TypeOK, PreparedRec
    <3>2. refs' \in [PinId -> Nat] /\ pinStamp' \in [PinId -> Stamp] /\ nextPinId' \in 1..(MaxTokens + 1)
      BY <1>7, <2>0, <2>2 DEF Seal, TryPin, TypeOK, PinId
    <3> QED BY <1>7, <2>1, <3>1, <3>2 DEF Seal, TypeOK, cellVars, lockVars, callVars
  <2>4. (LockInv /\ LocalInv /\ TokenInv)'
    BY <1>7, <2>0 DEF Seal, LockInv, LocalInv, TokenInv, lockVars, callVars
  <2> QED BY <2>3, <2>4
<1>8. ASSUME NEW k \in tokens, DropToken(k) PROVE TypeInv'
  <2>1. TypeOK'
    BY <1>8, CountsStayNatural DEF DropToken, TypeOK, cellVars, lockVars, callVars
  <2>2. (LockInv /\ LocalInv /\ TokenInv)'
    BY <1>8 DEF DropToken, LockInv, LocalInv, TokenInv, lockVars, callVars
  <2> QED BY <2>1, <2>2
<1> QED BY <1>1, <1>2, <1>3, <1>4, <1>5, <1>6, <1>7, <1>8 DEF Next

(* Every variable of the publication authority and its pin registry keeps  *)
(* its type, and every program point its lock and its locals.              *)
THEOREM TypeInvariant == Spec => []TypeInv
BY InitType, StepType, PTL DEF Spec

(* The authority's variables always have their types: in particular no     *)
(* clone or drop of a RevisionPin takes a reference count below zero.      *)
THEOREM TypeCorrect == Spec => []TypeOK
BY TypeInvariant, PTL DEF TypeInv

----------------------------------------------------------------------------
(* Untorn captures.                                                        *)

(* A pin that has been handed out, with the stamp it was issued for.       *)
Stamped(p, r) == p \in PinId /\ p < nextPinId /\ pinStamp[p] = r.stamp

OwnPublisher(t) == pc[t] \in PublishPoints /\ arg[t].owner = Self

(* Whoever carries a root and a pin carries a pair, the cell excepted      *)
(* between the two halves of a swap, when its publisher still holds both.  *)
StampInv ==
    /\ cellPin < nextPinId
    /\ (\A t \in Thread : pc[t] # "pubPin") => Stamped(cellPin, cellRoot)
    /\ \A t \in Thread : pc[t] = "pubPin" => arg[t].root = cellRoot
    /\ \A t \in Thread : pc[t] = "capPin" => got[t] = cellRoot
    /\ \A k \in tokens : Stamped(k.pin, k.root)
    /\ \A t \in Thread : OwnPublisher(t) => Stamped(arg[t].pin, arg[t].root)
    /\ \A t \in Thread : view[t] # None => Stamped(view[t].pin, view[t].root)

(* The first cut is published with the pin of its own stamp.               *)
LEMMA InitStamp == Init => StampInv
<1> SUFFICES ASSUME Init PROVE StampInv
  OBVIOUS
<1> QED BY ConstantFacts DEF Init, StampInv, Stamped, OwnPublisher, PublishPoints, WritePoints

(* seal stamps a new slot, no step changes the stamp of a slot in use, and *)
(* between the two halves of the swap only the writer can look.            *)
LEMMA StepStamp == TypeInv /\ TypeInv' /\ StampInv /\ [Next]_vars => StampInv'
<1> SUFFICES ASSUME TypeInv, TypeInv', StampInv, [Next]_vars PROVE StampInv'
  OBVIOUS
<1> USE ConstantFacts
<1> USE DEF TypeInv, StampInv, Stamped, OwnPublisher, PublishPoints, WritePoints, ReadPoints
<1>1. CASE UNCHANGED vars
  BY <1>1 DEF vars, cellVars, pinVars, lockVars, callVars
<1>2. ASSUME NEW t \in Thread, NEW r \in Root, Prepare(t, r) PROVE StampInv'
  BY <1>2 DEF Prepare, pinVars, lockVars, callVars
<1>3. ASSUME NEW t \in Thread, CaptureLock(t) PROVE StampInv'
  BY <1>3 DEF CaptureLock, TypeOK, cellVars, pinVars
<1>4. ASSUME NEW t \in Thread, NEW k \in tokens \cup ForeignTokens, PublishLock(t, k) PROVE StampInv'
  BY <1>4 DEF PublishLock, TypeOK, cellVars, pinVars
<1>5. ASSUME NEW t \in Thread, DropView(t) PROVE StampInv'
  BY <1>5 DEF DropView, TypeOK, cellVars, lockVars, callVars
<1>6. ASSUME NEW t \in Thread, Inside(t) PROVE StampInv'
  <2>1. CASE CaptureRoot(t)
    BY <2>1 DEF CaptureRoot, TypeOK, cellVars, pinVars, lockVars
  <2>2. CASE CapturePin(t)
    <3>1. \A u \in Thread : pc[u] # "pubPin"
      BY <2>2 DEF CapturePin, LockInv
    <3>2. Stamped(cellPin, got[t])
      BY <2>2, <3>1 DEF CapturePin
    <3> QED BY <2>2, <3>1, <3>2 DEF CapturePin, TypeOK, cellVars
  <2>3. CASE PublishRefuse(t)
    BY <2>3 DEF PublishRefuse, TypeOK, cellVars, pinVars
  <2>4. CASE PublishDropArg(t)
    BY <2>4 DEF PublishDropArg, TypeOK, cellVars, lockVars
  <2>5. CASE PublishAccept(t)
    BY <2>5 DEF PublishAccept, TypeOK, cellVars, pinVars, lockVars
  <2>6. CASE PublishClone(t)
    BY <2>6 DEF PublishClone, TypeOK, cellVars, lockVars
  <2>7. CASE SwapRoot(t)
    <3>1. \A u \in Thread : pc[u] # "capPin" /\ (u # t => pc[u] # "pubPin")
      BY <2>7 DEF SwapRoot, LockInv
    <3> QED BY <2>7, <3>1 DEF SwapRoot, TypeOK, pinVars, lockVars
  <2>8. CASE SwapPin(t)
    <3>1. Stamped(arg[t].pin, cellRoot)
      BY <2>8 DEF SwapPin, LocalInv
    <3> QED BY <2>8, <3>1 DEF SwapPin, TypeOK, LockInv, pinVars
  <2>9. CASE Retire(t)
    <3>1. Stamped(arg[t].pin, arg[t].root)
      BY <2>9 DEF Retire, LocalInv
    <3> QED BY <2>9, <3>1 DEF Retire, TypeOK, cellVars, lockVars
  <2> QED BY <1>6, <2>1, <2>2, <2>3, <2>4, <2>5, <2>6, <2>7, <2>8, <2>9 DEF Inside
<1>7. ASSUME NEW i \in TokenId, Seal(i) PROVE StampInv'
  <2>0. nextPinId \in PinId /\ nextPinId \in Nat /\ nextPinId' = nextPinId + 1
    BY <1>7 DEF Seal, TryPin, PinId
  <2>1. \A p \in PinId : p < nextPinId => p < nextPinId' /\ pinStamp'[p] = pinStamp[p]
    BY <1>7, <2>0 DEF Seal, TryPin, TypeOK, PinId
  <2>2. nextPinId < nextPinId' /\ pinStamp'[nextPinId] = prepared[i].root.stamp
    BY <1>7, <2>0 DEF Seal, TryPin, TypeOK
  <2>3. \A k \in tokens' : Stamped(k.pin, k.root)'
    BY <1>7, <2>0, <2>1, <2>2 DEF Seal, TypeOK, Token
  <2> QED BY <1>7, <2>0, <2>1, <2>3 DEF Seal, TypeOK, cellVars, lockVars, callVars, Token, View
<1>8. ASSUME NEW k \in tokens, DropToken(k) PROVE StampInv'
  BY <1>8 DEF DropToken, cellVars, lockVars, callVars
<1> QED BY <1>1, <1>2, <1>3, <1>4, <1>5, <1>6, <1>7, <1>8 DEF Next

(* PublicationAuthority::capture never returns the root of one publication *)
(* with the pin of another, whatever the number of threads, readers and    *)
(* writers and whatever the order in which publish_once swaps the two.     *)
THEOREM UntornViews == Spec => []NoTornView
<1>1. Init => TypeInv /\ StampInv
  BY InitType, InitStamp
<1>2. (TypeInv /\ StampInv) /\ [Next]_vars => (TypeInv /\ StampInv)'
  BY StepType, StepStamp
<1>3. StampInv => NoTornView
  BY DEF StampInv, Stamped, NoTornView
<1> QED BY <1>1, <1>2, <1>3, PTL DEF Spec

----------------------------------------------------------------------------
(* Exact counts.                                                           *)

(* Besides exactness: a slot that was not handed out yet has no reference, *)
(* a thread inside a call keeps no view, and only a publication that has   *)
(* swapped the cell holds a retired pin.                                   *)
CountInv ==
    /\ IsFiniteSet(tokens)
    /\ RefsExact
    /\ \A p \in PinId : p >= nextPinId => refs[p] = 0
    /\ \A t \in Thread : pc[t] # "idle" => view[t] = None
    /\ \A t \in Thread : pc[t] # "pubRetire" => retired[t] = None

One(b) == IF b THEN 1 ELSE 0

(* A set of threads has one element more for a thread that is in it.       *)
LEMMA CountOne ==
    ASSUME NEW H, IsFiniteSet(H), NEW t
    PROVE  Cardinality(H \ {t}) \in Nat /\ Cardinality(H) = Cardinality(H \ {t}) + One(t \in H)
<1>1. IsFiniteSet(H \ {t}) /\ Cardinality(H \ {t}) \in Nat /\ Cardinality(H) \in Nat
  BY FS_RemoveElement, FS_CardinalityType
<1>2. CASE t \in H
  BY <1>1, <1>2, FS_RemoveElement DEF One
<1>3. CASE t \notin H
  <2>1. Cardinality(H \ {t}) = Cardinality(H)
    <3>1. H \ {t} = H
      BY <1>3
    <3> QED BY <3>1
  <2>2. One(t \in H) = 0
    BY <1>3 DEF One
  <2> QED BY <1>1, <2>1, <2>2
<1> QED BY <1>2, <1>3

(* What the threads but one hold of a pin stays as it is in a step of that *)
(* one.                                                                    *)
OnlyThread(t) ==
    \A u \in Thread \ {t} :
        pc'[u] = pc[u] /\ arg'[u] = arg[u] /\ view'[u] = view[u] /\ retired'[u] = retired[u]

(* Each set of owners is what the other threads hold, and this one.        *)
LEMMA ThreadHolders ==
    ASSUME NEW t \in Thread, NEW p, OnlyThread(t)
    PROVE  \E v, s, a, r \in Nat :
              /\ Cardinality(ViewHolders(p)) = v + One(t \in ViewHolders(p))
              /\ Cardinality(ViewHolders(p)') = v + One(t \in ViewHolders(p)')
              /\ Cardinality(ResultHolders(p)) = s + One(t \in ResultHolders(p))
              /\ Cardinality(ResultHolders(p)') = s + One(t \in ResultHolders(p)')
              /\ Cardinality(ArgHolders(p)) = a + One(t \in ArgHolders(p))
              /\ Cardinality(ArgHolders(p)') = a + One(t \in ArgHolders(p)')
              /\ Cardinality(RetiredHolders(p)) = r + One(t \in RetiredHolders(p))
              /\ Cardinality(RetiredHolders(p)') = r + One(t \in RetiredHolders(p)')
<1>1. \A H : H \subseteq Thread => IsFiniteSet(H)
  BY PublicationAssumption, FS_Subset
<1>2. ASSUME NEW H, NEW G, H \subseteq Thread, G \subseteq Thread, H \ {t} = G \ {t}
      PROVE  \E n \in Nat : /\ Cardinality(H) = n + One(t \in H)
                            /\ Cardinality(G) = n + One(t \in G)
  <2>1. Cardinality(H \ {t}) \in Nat /\ Cardinality(H) = Cardinality(H \ {t}) + One(t \in H)
    BY <1>1, <1>2, CountOne
  <2>2. Cardinality(G) = Cardinality(G \ {t}) + One(t \in G)
    BY <1>1, <1>2, CountOne
  <2> QED BY <1>2, <2>1, <2>2
<1>3. PICK v \in Nat : /\ Cardinality(ViewHolders(p)) = v + One(t \in ViewHolders(p))
                       /\ Cardinality(ViewHolders(p)') = v + One(t \in ViewHolders(p)')
  <2>1. /\ ViewHolders(p) \subseteq Thread /\ ViewHolders(p)' \subseteq Thread
        /\ ViewHolders(p) \ {t} = ViewHolders(p)' \ {t}
    BY DEF OnlyThread, ViewHolders
  <2> QED BY <1>2, <2>1
<1>4. PICK s \in Nat : /\ Cardinality(ResultHolders(p)) = s + One(t \in ResultHolders(p))
                       /\ Cardinality(ResultHolders(p)') = s + One(t \in ResultHolders(p)')
  <2>1. /\ ResultHolders(p) \subseteq Thread /\ ResultHolders(p)' \subseteq Thread
        /\ ResultHolders(p) \ {t} = ResultHolders(p)' \ {t}
    BY DEF OnlyThread, ResultHolders
  <2> QED BY <1>2, <2>1
<1>5. PICK a \in Nat : /\ Cardinality(ArgHolders(p)) = a + One(t \in ArgHolders(p))
                       /\ Cardinality(ArgHolders(p)') = a + One(t \in ArgHolders(p)')
  <2>1. /\ ArgHolders(p) \subseteq Thread /\ ArgHolders(p)' \subseteq Thread
        /\ ArgHolders(p) \ {t} = ArgHolders(p)' \ {t}
    BY DEF OnlyThread, ArgHolders
  <2> QED BY <1>2, <2>1
<1>6. PICK r \in Nat : /\ Cardinality(RetiredHolders(p)) = r + One(t \in RetiredHolders(p))
                       /\ Cardinality(RetiredHolders(p)') = r + One(t \in RetiredHolders(p)')
  <2>1. /\ RetiredHolders(p) \subseteq Thread /\ RetiredHolders(p)' \subseteq Thread
        /\ RetiredHolders(p) \ {t} = RetiredHolders(p)' \ {t}
    BY DEF OnlyThread, RetiredHolders
  <2> QED BY <1>2, <2>1
<1> QED BY <1>3, <1>4, <1>5, <1>6

(* The count of a pin as a sum.                                            *)
Held(p) ==
    CellHolders(p) + Cardinality(TokenHolders(p)) + Cardinality(ViewHolders(p))
        + Cardinality(ResultHolders(p)) + Cardinality(ArgHolders(p))
        + Cardinality(RetiredHolders(p))

(* What one thread owns of a pin.                                          *)
Own(t, p) ==
    One(t \in ViewHolders(p)) + One(t \in ResultHolders(p)) + One(t \in ArgHolders(p))
        + One(t \in RetiredHolders(p))

(* That is a natural number, before and after a step.                      *)
LEMMA OwnNat ==
    ASSUME NEW t, NEW p
    PROVE  Own(t, p) \in Nat /\ Own(t, p)' \in Nat
BY DEF Own, One

(* In a step of a thread the sum changes by what the thread, the cell and  *)
(* the unused tokens own.                                                  *)
LEMMA HeldByThread ==
    ASSUME NEW t \in Thread, NEW p, OnlyThread(t), IsFiniteSet(tokens), IsFiniteSet(tokens')
    PROVE  \E n \in Nat :
              /\ Held(p) = CellHolders(p) + Cardinality(TokenHolders(p)) + n + Own(t, p)
              /\ Held(p)' = CellHolders(p)' + Cardinality(TokenHolders(p))' + n + Own(t, p)'
<1>1. PICK v, s, a, r \in Nat :
              /\ Cardinality(ViewHolders(p)) = v + One(t \in ViewHolders(p))
              /\ Cardinality(ViewHolders(p)') = v + One(t \in ViewHolders(p)')
              /\ Cardinality(ResultHolders(p)) = s + One(t \in ResultHolders(p))
              /\ Cardinality(ResultHolders(p)') = s + One(t \in ResultHolders(p)')
              /\ Cardinality(ArgHolders(p)) = a + One(t \in ArgHolders(p))
              /\ Cardinality(ArgHolders(p)') = a + One(t \in ArgHolders(p)')
              /\ Cardinality(RetiredHolders(p)) = r + One(t \in RetiredHolders(p))
              /\ Cardinality(RetiredHolders(p)') = r + One(t \in RetiredHolders(p)')
  BY ThreadHolders
<1>2. /\ \A b : One(b) \in Nat
      /\ CellHolders(p) \in Nat /\ CellHolders(p)' \in Nat
  BY DEF One, CellHolders
<1>3. Cardinality(TokenHolders(p)) \in Nat /\ Cardinality(TokenHolders(p))' \in Nat
  <2>1. IsFiniteSet(TokenHolders(p)) /\ IsFiniteSet(TokenHolders(p)')
    BY FS_Subset DEF TokenHolders
  <2> QED BY <2>1, FS_CardinalityType
<1>4. v + s + a + r \in Nat
  OBVIOUS
<1>5. Held(p) = CellHolders(p) + Cardinality(TokenHolders(p)) + (v + s + a + r) + Own(t, p)
  BY <1>1, <1>2, <1>3 DEF Held, Own
<1>6. Held(p)' = CellHolders(p)' + Cardinality(TokenHolders(p))' + (v + s + a + r) + Own(t, p)'
  BY <1>1, <1>2, <1>3 DEF Held, Own
<1> QED BY <1>4, <1>5, <1>6

(* What is added to one side of a sum is added to the other.               *)
LEMMA Balance ==
    ASSUME NEW c \in Nat, NEW c2 \in Nat, NEW k \in Nat, NEW k2 \in Nat,
           NEW o \in Nat, NEW o2 \in Nat, NEW n \in Nat, NEW x \in Nat, NEW x2 \in Nat,
           x2 + c + k + o = x + c2 + k2 + o2, x = c + k + n + o
    PROVE  x2 = c2 + k2 + n + o2
OBVIOUS

(* So a step of a thread keeps the counts exact if the count of each pin   *)
(* changes as much as what the three own of it.                            *)
LEMMA ExactStep ==
    ASSUME CountInv, TypeInv, TypeInv', NEW t \in Thread, OnlyThread(t), IsFiniteSet(tokens'),
           \A p \in PinId :
              refs'[p] + CellHolders(p) + Cardinality(TokenHolders(p)) + Own(t, p)
                = refs[p] + CellHolders(p)' + Cardinality(TokenHolders(p))' + Own(t, p)'
    PROVE  RefsExact'
<1> SUFFICES ASSUME NEW p \in PinId PROVE refs'[p] = Held(p)'
  BY DEF RefsExact, Held
<1>1. PICK n \in Nat :
         /\ Held(p) = CellHolders(p) + Cardinality(TokenHolders(p)) + n + Own(t, p)
         /\ Held(p)' = CellHolders(p)' + Cardinality(TokenHolders(p))' + n + Own(t, p)'
  BY HeldByThread DEF CountInv
<1>2. refs[p] = Held(p)
  BY DEF CountInv, RefsExact, Held
<1>3. /\ refs[p] \in Nat /\ refs'[p] \in Nat
      /\ CellHolders(p) \in Nat /\ CellHolders(p)' \in Nat
      /\ Own(t, p) \in Nat /\ Own(t, p)' \in Nat
  BY OwnNat DEF TypeInv, TypeOK, CellHolders
<1>4. Cardinality(TokenHolders(p)) \in Nat /\ Cardinality(TokenHolders(p))' \in Nat
  <2>1. IsFiniteSet(TokenHolders(p)) /\ IsFiniteSet(TokenHolders(p)')
    BY FS_Subset DEF TokenHolders, CountInv
  <2> QED BY <2>1, FS_CardinalityType
<1>5. refs'[p] + CellHolders(p) + Cardinality(TokenHolders(p)) + Own(t, p)
        = refs[p] + CellHolders(p)' + Cardinality(TokenHolders(p))' + Own(t, p)'
  OBVIOUS
<1>6. refs[p] = CellHolders(p) + Cardinality(TokenHolders(p)) + n + Own(t, p)
  BY <1>1, <1>2, Zenon
<1>7. refs'[p] = CellHolders(p)' + Cardinality(TokenHolders(p))' + n + Own(t, p)'
  BY <1>3, <1>4, <1>5, <1>6, Balance
<1> QED BY <1>1, <1>7, Zenon

(* A pin somebody owns has a count above zero.                             *)
LEMMA OwnedCounts ==
    ASSUME CountInv, TypeInv, NEW p \in PinId
    PROVE  /\ refs[p] \in Nat
           /\ cellPin = p => refs[p] > 0
           /\ \A k \in tokens : k.pin = p => refs[p] > 0
           /\ \A t \in Thread : Own(t, p) > 0 => refs[p] > 0
<1>1. refs[p] \in Nat /\ refs[p] = Held(p)
  BY DEF CountInv, RefsExact, TypeInv, TypeOK, Held
<1>2. /\ IsFiniteSet(TokenHolders(p)) /\ IsFiniteSet(ViewHolders(p)) /\ IsFiniteSet(ResultHolders(p))
      /\ IsFiniteSet(ArgHolders(p)) /\ IsFiniteSet(RetiredHolders(p))
  BY PublicationAssumption, FS_Subset
     DEF TokenHolders, ViewHolders, ResultHolders, ArgHolders, RetiredHolders, CountInv
<1>3. \A H : IsFiniteSet(H) => Cardinality(H) \in Nat /\ (Cardinality(H) = 0 <=> H = {})
  BY FS_CardinalityType, FS_EmptySet
<1>4. /\ Cardinality(TokenHolders(p)) \in Nat /\ Cardinality(ViewHolders(p)) \in Nat
      /\ Cardinality(ResultHolders(p)) \in Nat /\ Cardinality(ArgHolders(p)) \in Nat
      /\ Cardinality(RetiredHolders(p)) \in Nat
      /\ CellHolders(p) \in Nat /\ (cellPin = p => CellHolders(p) = 1)
  BY <1>2, <1>3 DEF CellHolders
<1>5. /\ cellPin = p => refs[p] > 0
      /\ TokenHolders(p) # {} => refs[p] > 0
      /\ ViewHolders(p) # {} => refs[p] > 0
      /\ ResultHolders(p) # {} => refs[p] > 0
      /\ ArgHolders(p) # {} => refs[p] > 0
      /\ RetiredHolders(p) # {} => refs[p] > 0
  <2>1. refs[p] = CellHolders(p) + Cardinality(TokenHolders(p)) + Cardinality(ViewHolders(p))
                  + Cardinality(ResultHolders(p)) + Cardinality(ArgHolders(p))
                  + Cardinality(RetiredHolders(p))
    BY <1>1 DEF Held
  <2>2. /\ TokenHolders(p) # {} => Cardinality(TokenHolders(p)) # 0
        /\ ViewHolders(p) # {} => Cardinality(ViewHolders(p)) # 0
        /\ ResultHolders(p) # {} => Cardinality(ResultHolders(p)) # 0
        /\ ArgHolders(p) # {} => Cardinality(ArgHolders(p)) # 0
        /\ RetiredHolders(p) # {} => Cardinality(RetiredHolders(p)) # 0
    BY <1>2, <1>3
  <2> QED BY <1>4, <2>1, <2>2
<1>6. \A k \in tokens : k.pin = p => TokenHolders(p) # {}
  BY DEF TokenHolders
<1>7. ASSUME NEW t \in Thread, Own(t, p) > 0
      PROVE  \/ ViewHolders(p) # {} \/ ResultHolders(p) # {}
             \/ ArgHolders(p) # {} \/ RetiredHolders(p) # {}
  BY <1>7 DEF Own, One
<1> QED BY <1>1, <1>5, <1>6, <1>7

(* Clone and drop of a pin that has a count.                               *)
LEMMA CloneDrop ==
    ASSUME NEW r \in [PinId -> Nat], NEW p \in PinId, r[p] > 0
    PROVE  /\ \A q \in PinId : AfterClone(r, p)[q] = r[q] + One(q = p)
           /\ \A q \in PinId : r[q] = AfterDrop(r, p)[q] + One(q = p)
           /\ AfterDrop(r, p) \in [PinId -> Nat]
BY DEF AfterClone, AfterDrop, One

(* The first cut's pin is owned by the cell alone.                         *)
LEMMA InitCount == Init => CountInv
<1> SUFFICES ASSUME Init PROVE CountInv
  OBVIOUS
<1>1. IsFiniteSet({}) /\ Cardinality({}) = 0
  BY FS_EmptySet
<1>2. ASSUME NEW p \in PinId PROVE refs[p] = Held(p)
  <2>1. /\ TokenHolders(p) = {} /\ ViewHolders(p) = {} /\ ResultHolders(p) = {}
        /\ ArgHolders(p) = {} /\ RetiredHolders(p) = {}
    BY ConstantFacts DEF Init, TokenHolders, ViewHolders, ResultHolders, ArgHolders, RetiredHolders
  <2>2. Held(p) = CellHolders(p)
    BY <1>1, <2>1 DEF Held, CellHolders
  <2> QED BY <2>2 DEF Init, CellHolders
<1>3. RefsExact
  BY <1>2 DEF RefsExact, Held
<1>4. tokens = {} /\ nextPinId = 1
  BY DEF Init
<1> QED BY <1>1, <1>3, <1>4 DEF Init, CountInv, PinId

(* The steps of a thread that touch no pin.                                *)
LEMMA PinlessStep ==
    ASSUME CountInv, TypeInv, TypeInv', NEW t \in Thread, OnlyThread(t),
           UNCHANGED <<cellPin, tokens, refs, nextPinId>>,
           \A p \in PinId : Own(t, p)' = Own(t, p),
           pc'[t] # "idle" => view'[t] = None,
           pc'[t] # "pubRetire" => retired'[t] = None
    PROVE  CountInv'
<1>1. RefsExact'
  <2>1. \A p \in PinId : CellHolders(p)' = CellHolders(p) /\ TokenHolders(p)' = TokenHolders(p)
    BY DEF CellHolders, TokenHolders
  <2>2. IsFiniteSet(tokens')
    BY DEF CountInv
  <2> QED BY <2>1, <2>2, ExactStep
<1>2. \A u \in Thread : /\ pc'[u] # "idle" => view'[u] = None
                        /\ pc'[u] # "pubRetire" => retired'[u] = None
  BY DEF OnlyThread, CountInv
<1> QED BY <1>1, <1>2 DEF CountInv

(* The steps of a thread that clone or drop one pin it then has one more   *)
(* or one fewer of.                                                        *)
LEMMA PinStep ==
    ASSUME CountInv, TypeInv, TypeInv', NEW t \in Thread, OnlyThread(t), NEW p \in PinId,
           UNCHANGED <<cellPin, tokens, nextPinId>>, refs[p] > 0,
           \/ /\ refs' = AfterClone(refs, p)
              /\ \A q \in PinId : Own(t, q)' = Own(t, q) + One(q = p)
           \/ /\ refs' = AfterDrop(refs, p)
              /\ \A q \in PinId : Own(t, q) = Own(t, q)' + One(q = p),
           pc'[t] # "idle" => view'[t] = None,
           pc'[t] # "pubRetire" => retired'[t] = None
    PROVE  CountInv'
<1>1. \A q \in PinId : refs[q] \in Nat /\ refs'[q] \in Nat /\ One(q = p) \in {0, 1}
  BY DEF TypeInv, TypeOK, One
<1>2. \/ \A q \in PinId : refs'[q] = refs[q] + One(q = p) /\ Own(t, q)' = Own(t, q) + One(q = p)
      \/ \A q \in PinId : refs[q] = refs'[q] + One(q = p) /\ Own(t, q) = Own(t, q)' + One(q = p)
  BY CloneDrop DEF TypeInv, TypeOK
<1>3. \A q \in PinId : CellHolders(q)' = CellHolders(q) /\ TokenHolders(q)' = TokenHolders(q)
  BY DEF CellHolders, TokenHolders
<1>4. \A q \in PinId : Own(t, q) \in Nat /\ Own(t, q)' \in Nat /\ CellHolders(q) \in Nat
  BY OwnNat DEF CellHolders
<1>5. \A q \in PinId : Cardinality(TokenHolders(q)) \in Nat
  <2>1. \A q \in PinId : IsFiniteSet(TokenHolders(q))
    BY FS_Subset DEF TokenHolders, CountInv
  <2> QED BY <2>1, FS_CardinalityType
<1>6. \A q \in PinId :
           refs'[q] + CellHolders(q) + Cardinality(TokenHolders(q)) + Own(t, q)
             = refs[q] + CellHolders(q)' + Cardinality(TokenHolders(q))' + Own(t, q)'
  BY <1>1, <1>2, <1>3, <1>4, <1>5
<1>7. IsFiniteSet(tokens') /\ nextPinId' = nextPinId
  BY DEF CountInv
<1>8. RefsExact'
  BY <1>6, <1>7, ExactStep
<1>9. (\A q \in PinId : q >= nextPinId => refs[q] = 0)'
  <2>1. \A q \in PinId : q >= nextPinId => refs[q] = 0 /\ q # p
    BY DEF CountInv
  <2> QED BY <1>1, <1>2, <1>7, <2>1 DEF One
<1>10. (\A u \in Thread : pc[u] # "idle" => view[u] = None)'
  BY DEF OnlyThread, CountInv
<1>11. IsFiniteSet(tokens)'
  BY <1>7
<1>12. (\A u \in Thread : pc[u] # "pubRetire" => retired[u] = None)'
  BY DEF OnlyThread, CountInv
<1> QED BY <1>8, <1>9, <1>10, <1>11, <1>12, Zenon DEF CountInv

(* Each step moves the count of a pin with the set of its owners.          *)
LEMMA StepCount == CountInv /\ TypeInv /\ TypeInv' /\ [Next]_vars => CountInv'
<1> SUFFICES ASSUME CountInv, TypeInv, TypeInv', [Next]_vars PROVE CountInv'
  OBVIOUS
<1> USE ConstantFacts
<1>1. CASE UNCHANGED vars
  BY <1>1 DEF vars, cellVars, pinVars, lockVars, callVars, CountInv, RefsExact, CellHolders,
              TokenHolders, ViewHolders, ResultHolders, ArgHolders, RetiredHolders
<1>2. ASSUME NEW t \in Thread, NEW r \in Root, Prepare(t, r) PROVE CountInv'
  <2>1. /\ OnlyThread(t) /\ UNCHANGED <<cellPin, tokens, refs, nextPinId>>
        /\ \A p \in PinId : Own(t, p)' = Own(t, p)
    BY <1>2 DEF Prepare, OnlyThread, pinVars, callVars, Own, ViewHolders, ResultHolders, ArgHolders, RetiredHolders
  <2>2. pc'[t] = pc[t] /\ view'[t] = view[t] /\ retired'[t] = retired[t]
    BY <1>2 DEF Prepare, callVars
  <2> QED BY <2>1, <2>2, PinlessStep DEF CountInv
<1>3. ASSUME NEW t \in Thread, CaptureLock(t) PROVE CountInv'
  <2>1. OnlyThread(t) /\ UNCHANGED <<cellPin, tokens, refs, nextPinId>>
    BY <1>3 DEF CaptureLock, OnlyThread, cellVars, pinVars, TypeInv, TypeOK
  <2>2. pc[t] = "idle" /\ pc'[t] = "capRoot" /\ UNCHANGED <<arg, view, retired>> /\ view[t] = None
    BY <1>3 DEF CaptureLock, TypeInv, TypeOK
  <2>3. \A p \in PinId : Own(t, p)' = Own(t, p)
    BY <2>2 DEF Own, ViewHolders, ResultHolders, ArgHolders, RetiredHolders
  <2> QED BY <2>1, <2>2, <2>3, PinlessStep DEF CountInv
<1>4. ASSUME NEW t \in Thread, NEW k \in tokens \cup ForeignTokens, PublishLock(t, k) PROVE CountInv'
  <2>1. OnlyThread(t) /\ UNCHANGED <<cellPin, refs, nextPinId>> /\ tokens' = tokens \ {k}
    BY <1>4 DEF PublishLock, OnlyThread, cellVars, pinVars, TypeInv, TypeOK
  <2>2. /\ pc[t] = "idle" /\ pc'[t] = "pubCheck" /\ UNCHANGED <<view, retired>> /\ view[t] = None
        /\ arg'[t] = k
    BY <1>4 DEF PublishLock, TypeInv, TypeOK
  <2>3. \A p \in PinId : Own(t, p) = One(retired[t] = p) /\ Own(t, p)' = One(k.pin = p) + One(retired[t] = p)
    BY <2>2 DEF Own, One, ViewHolders, ResultHolders, ArgHolders, RetiredHolders
  <2>4. IsFiniteSet(tokens')
    BY <2>1, FS_Subset DEF CountInv
  <2>5. ASSUME NEW p \in PinId
        PROVE  /\ Cardinality(TokenHolders(p)) = Cardinality(TokenHolders(p))' + One(k.pin = p)
               /\ Cardinality(TokenHolders(p))' \in Nat
    <3>1. TokenHolders(p)' = TokenHolders(p) \ {k}
      BY <2>1 DEF TokenHolders
    <3>2. IsFiniteSet(TokenHolders(p))
      BY FS_Subset DEF TokenHolders, CountInv
    <3>3. k \in TokenHolders(p) <=> k.pin = p
      BY DEF TokenHolders
    <3>4. One(k \in TokenHolders(p)) = One(k.pin = p)
      BY <3>3 DEF One
    <3> QED BY <3>1, <3>2, <3>4, CountOne
  <2>6. \A p \in PinId : CellHolders(p)' = CellHolders(p) /\ CellHolders(p) \in Nat
    BY <2>1 DEF CellHolders
  <2>7. RefsExact'
    <3>1. \A p \in PinId : refs[p] \in Nat /\ \A b : One(b) \in Nat
      BY DEF TypeInv, TypeOK, One
    <3>2. \A p \in PinId :
             refs'[p] + CellHolders(p) + Cardinality(TokenHolders(p)) + Own(t, p)
               = refs[p] + CellHolders(p)' + Cardinality(TokenHolders(p))' + Own(t, p)'
      BY <2>1, <2>3, <2>5, <2>6, <3>1
    <3> QED BY <2>1, <2>4, <3>2, ExactStep
  <2>8. \A u \in Thread : /\ pc'[u] # "idle" => view'[u] = None
                          /\ pc'[u] # "pubRetire" => retired'[u] = None
    BY <2>1, <2>2 DEF OnlyThread, CountInv
  <2> QED BY <2>1, <2>4, <2>7, <2>8 DEF CountInv
<1>5. ASSUME NEW t \in Thread, DropView(t) PROVE CountInv'
  <2>1. OnlyThread(t) /\ UNCHANGED <<cellPin, tokens, nextPinId>>
    BY <1>5 DEF DropView, OnlyThread, cellVars, callVars, TypeInv, TypeOK
  <2>2. /\ pc[t] = "idle" /\ UNCHANGED <<pc, arg, retired>> /\ view[t] # None /\ view'[t] = None
        /\ refs' = AfterDrop(refs, view[t].pin) /\ view[t].pin \in PinId
    BY <1>5 DEF DropView, callVars, TypeInv, TypeOK, View
  <2>3. \A q \in PinId : Own(t, q) = Own(t, q)' + One(q = view[t].pin)
    BY <2>2 DEF Own, One, ViewHolders, ResultHolders, ArgHolders, RetiredHolders
  <2>4. refs[view[t].pin] > 0
    <3>1. Own(t, view[t].pin) > 0
      BY <2>2 DEF Own, One, ViewHolders
    <3> QED BY <2>2, <3>1, OwnedCounts
  <2>5. retired'[t] = None
    BY <2>2 DEF CountInv
  <2> QED BY <2>1, <2>2, <2>3, <2>4, <2>5, PinStep
<1>6. ASSUME NEW t \in Thread, Inside(t) PROVE CountInv'
  <2>1. CASE CaptureRoot(t)
    <3>1. OnlyThread(t) /\ UNCHANGED <<cellPin, tokens, refs, nextPinId>>
      BY <2>1 DEF CaptureRoot, OnlyThread, cellVars, pinVars, TypeInv, TypeOK
    <3>2. pc[t] = "capRoot" /\ pc'[t] = "capPin" /\ UNCHANGED <<arg, view, retired>>
      BY <2>1 DEF CaptureRoot, TypeInv, TypeOK
    <3>3. \A p \in PinId : Own(t, p)' = Own(t, p)
      BY <3>2 DEF Own, ViewHolders, ResultHolders, ArgHolders, RetiredHolders
    <3>4. view'[t] = None /\ retired'[t] = None
      BY <3>2 DEF CountInv
    <3> QED BY <3>1, <3>3, <3>4, PinlessStep
  <2>2. CASE CapturePin(t)
    <3>1. OnlyThread(t) /\ UNCHANGED <<cellPin, tokens, nextPinId>>
      BY <2>2 DEF CapturePin, OnlyThread, cellVars, TypeInv, TypeOK
    <3>2. /\ pc[t] = "capPin" /\ pc'[t] = "idle" /\ UNCHANGED <<arg, retired>>
          /\ view'[t] = [root |-> got[t], pin |-> cellPin] /\ refs' = AfterClone(refs, cellPin)
          /\ cellPin \in PinId /\ [root |-> got[t], pin |-> cellPin] \in View
      BY <2>2 DEF CapturePin, TypeInv, LocalInv, TypeOK, View
    <3>3. view[t] = None /\ retired[t] = None
      BY <3>2 DEF CountInv
    <3>4. \A q \in PinId : Own(t, q)' = Own(t, q) + One(q = cellPin)
      BY <3>2, <3>3 DEF Own, One, ViewHolders, ResultHolders, ArgHolders, RetiredHolders
    <3>5. refs[cellPin] > 0
      BY <3>2, OwnedCounts
    <3> QED BY <3>1, <3>2, <3>3, <3>4, <3>5, PinStep
  <2>3. CASE PublishRefuse(t)
    <3>1. OnlyThread(t) /\ UNCHANGED <<cellPin, tokens, refs, nextPinId>>
      BY <2>3 DEF PublishRefuse, OnlyThread, cellVars, pinVars, TypeInv, TypeOK
    <3>2. pc[t] = "pubCheck" /\ pc'[t] = "pubRefused" /\ UNCHANGED <<arg, view, retired>>
      BY <2>3 DEF PublishRefuse, TypeInv, TypeOK
    <3>3. \A p \in PinId : Own(t, p)' = Own(t, p)
      BY <3>2 DEF Own, ViewHolders, ResultHolders, ArgHolders, RetiredHolders
    <3>4. view'[t] = None /\ retired'[t] = None
      BY <3>2 DEF CountInv
    <3> QED BY <3>1, <3>3, <3>4, PinlessStep
  <2>4. CASE PublishDropArg(t)
    <3>1. OnlyThread(t) /\ UNCHANGED <<cellPin, tokens, nextPinId>>
      BY <2>4 DEF PublishDropArg, OnlyThread, cellVars, TypeInv, TypeOK
    <3>2. /\ pc[t] = "pubRefused" /\ pc'[t] = "idle" /\ UNCHANGED <<view, retired>>
          /\ refs' = IF arg[t].pin = None THEN refs ELSE AfterDrop(refs, arg[t].pin)
          /\ arg[t] \in Token
      BY <2>4 DEF PublishDropArg, TypeInv, TypeOK, LocalInv, PublishPoints
    <3>3. view'[t] = None /\ retired'[t] = None
      BY <3>2 DEF CountInv
    <3>4. \A q \in PinId : Own(t, q) = Own(t, q)' + One(q = arg[t].pin)
      BY <3>2 DEF Own, One, ViewHolders, ResultHolders, ArgHolders, RetiredHolders
    <3>5. CASE arg[t].pin = None
      <4>1. \A q \in PinId : Own(t, q)' = Own(t, q)
        BY <3>4, <3>5, OwnNat DEF One
      <4>2. UNCHANGED refs
        BY <3>2, <3>5
      <4> QED BY <3>1, <3>3, <4>1, <4>2, PinlessStep
    <3>6. CASE arg[t].pin # None
      <4>1. arg[t].pin \in PinId /\ refs' = AfterDrop(refs, arg[t].pin)
        BY <3>2, <3>6 DEF Token
      <4>2. refs[arg[t].pin] > 0
        <5>1. Own(t, arg[t].pin) > 0
          BY <3>2 DEF Own, One, ArgHolders
        <5> QED BY <4>1, <5>1, OwnedCounts
      <4> QED BY <3>1, <3>3, <3>4, <4>1, <4>2, PinStep
    <3> QED BY <3>5, <3>6
  <2>5. CASE PublishAccept(t)
    <3>1. OnlyThread(t) /\ UNCHANGED <<cellPin, tokens, refs, nextPinId>>
      BY <2>5 DEF PublishAccept, OnlyThread, cellVars, pinVars, TypeInv, TypeOK
    <3>2. pc[t] = "pubCheck" /\ pc'[t] = "pubClone" /\ UNCHANGED <<arg, view, retired>>
      BY <2>5 DEF PublishAccept, TypeInv, TypeOK
    <3>3. \A p \in PinId : Own(t, p)' = Own(t, p)
      BY <3>2 DEF Own, ViewHolders, ResultHolders, ArgHolders, RetiredHolders
    <3>4. view'[t] = None /\ retired'[t] = None
      BY <3>2 DEF CountInv
    <3> QED BY <3>1, <3>3, <3>4, PinlessStep
  <2>6. CASE PublishClone(t)
    <3>1. OnlyThread(t) /\ UNCHANGED <<cellPin, tokens, nextPinId>>
      BY <2>6 DEF PublishClone, OnlyThread, cellVars, TypeInv, TypeOK
    <3>2. /\ pc[t] = "pubClone" /\ pc'[t] = "pubRoot" /\ UNCHANGED <<arg, view, retired>>
          /\ refs' = AfterClone(refs, arg[t].pin) /\ arg[t].pin \in PinId
      BY <2>6 DEF PublishClone, TypeInv, TypeOK, LocalInv, TokenInv, PublishPoints, WritePoints
    <3>3. view'[t] = None /\ retired'[t] = None
      BY <3>2 DEF CountInv
    <3>4. \A q \in PinId : Own(t, q)' = Own(t, q) + One(q = arg[t].pin)
      BY <3>2 DEF Own, One, ViewHolders, ResultHolders, ArgHolders, RetiredHolders
    <3>5. refs[arg[t].pin] > 0
      <4>1. Own(t, arg[t].pin) > 0
        BY <3>2 DEF Own, One, ArgHolders
      <4> QED BY <3>2, <4>1, OwnedCounts
    <3> QED BY <3>1, <3>2, <3>3, <3>4, <3>5, PinStep
  <2>7. CASE SwapRoot(t)
    <3>1. OnlyThread(t) /\ UNCHANGED <<cellPin, tokens, refs, nextPinId>>
      BY <2>7 DEF SwapRoot, OnlyThread, pinVars, TypeInv, TypeOK
    <3>2. pc[t] = "pubRoot" /\ pc'[t] = "pubPin" /\ UNCHANGED <<arg, view, retired>>
      BY <2>7 DEF SwapRoot, TypeInv, TypeOK
    <3>3. \A p \in PinId : Own(t, p)' = Own(t, p)
      BY <3>2 DEF Own, One, ViewHolders, ResultHolders, ArgHolders, RetiredHolders
    <3>4. view'[t] = None /\ retired'[t] = None
      BY <3>2 DEF CountInv
    <3> QED BY <3>1, <3>3, <3>4, PinlessStep
  <2>8. CASE SwapPin(t)
    <3>1. OnlyThread(t) /\ UNCHANGED <<tokens, refs, nextPinId>>
      BY <2>8 DEF SwapPin, OnlyThread, pinVars, TypeInv, TypeOK
    <3>2. /\ pc[t] = "pubPin" /\ pc'[t] = "pubRetire" /\ UNCHANGED <<arg, view>>
          /\ retired'[t] = cellPin /\ cellPin' = arg[t].pin /\ cellPin # None
      BY <2>8 DEF SwapPin, TypeInv, TypeOK
    <3>3. view[t] = None /\ retired[t] = None
      BY <3>2 DEF CountInv
    <3>4. \A p \in PinId : /\ CellHolders(p) = One(cellPin = p) /\ CellHolders(p)' = One(arg[t].pin = p)
                           /\ Own(t, p) = 2 * One(arg[t].pin = p)
                           /\ Own(t, p)' = One(arg[t].pin = p) + One(cellPin = p)
      BY <3>2, <3>3 DEF CellHolders, Own, One, ViewHolders, ResultHolders, ArgHolders, RetiredHolders
    <3>5. \A p \in PinId : /\ refs[p] \in Nat /\ One(cellPin = p) \in Nat /\ One(arg[t].pin = p) \in Nat
                           /\ TokenHolders(p)' = TokenHolders(p)
      BY <3>1 DEF TypeInv, TypeOK, One, TokenHolders
    <3>6. IsFiniteSet(tokens') /\ \A p \in PinId : Cardinality(TokenHolders(p)) \in Nat
      <4>1. \A p \in PinId : IsFiniteSet(TokenHolders(p))
        BY FS_Subset DEF TokenHolders, CountInv
      <4> QED BY <3>1, <4>1, FS_CardinalityType DEF CountInv
    <3>7. \A p \in PinId :
             refs'[p] + CellHolders(p) + Cardinality(TokenHolders(p)) + Own(t, p)
               = refs[p] + CellHolders(p)' + Cardinality(TokenHolders(p))' + Own(t, p)'
      BY <3>1, <3>4, <3>5, <3>6
    <3>8. RefsExact'
      BY <3>1, <3>6, <3>7, ExactStep
    <3>9. \A u \in Thread : /\ pc'[u] # "idle" => view'[u] = None
                            /\ pc'[u] # "pubRetire" => retired'[u] = None
      BY <3>1, <3>2, <3>3 DEF OnlyThread, CountInv
    <3> QED BY <3>1, <3>6, <3>8, <3>9 DEF CountInv
  <2>9. CASE Retire(t)
    <3>1. OnlyThread(t) /\ UNCHANGED <<cellPin, tokens, nextPinId>>
      BY <2>9 DEF Retire, OnlyThread, cellVars, TypeInv, TypeOK
    <3>2. /\ pc[t] = "pubRetire" /\ pc'[t] = "idle" /\ retired'[t] = None /\ arg'[t] = None
          /\ view'[t] = [root |-> arg[t].root, pin |-> arg[t].pin]
          /\ refs' = AfterDrop(refs, retired[t]) /\ retired[t] \in PinId
      BY <2>9 DEF Retire, TypeInv, TypeOK, LocalInv
    <3>3. /\ view[t] = None
          /\ [root |-> arg[t].root, pin |-> arg[t].pin] \in View
      <4>1. arg[t] \in Token /\ arg[t].pin \in PinId
        BY <3>2 DEF TypeInv, LocalInv, TokenInv, PublishPoints
      <4> QED BY <3>2, <4>1 DEF CountInv, Token, View
    <3>4. \A q \in PinId : Own(t, q) = Own(t, q)' + One(q = retired[t])
      BY <3>2, <3>3 DEF Own, One, ViewHolders, ResultHolders, ArgHolders, RetiredHolders
    <3>5. refs[retired[t]] > 0
      <4>1. Own(t, retired[t]) > 0
        BY <3>2 DEF Own, One, RetiredHolders
      <4> QED BY <3>2, <4>1, OwnedCounts
    <3> QED BY <3>1, <3>2, <3>4, <3>5, PinStep
  <2> QED BY <1>6, <2>1, <2>2, <2>3, <2>4, <2>5, <2>6, <2>7, <2>8, <2>9 DEF Inside
<1>7. ASSUME NEW i \in TokenId, Seal(i) PROVE CountInv'
  <2> DEFINE k == [id |-> i, owner |-> Self, base |-> prepared[i].base,
                   root |-> prepared[i].root, pin |-> nextPinId]
  <2>1. /\ UNCHANGED <<cellPin, pc, arg, view, retired>> /\ tokens' = tokens \cup {k}
        /\ nextPinId \in PinId /\ nextPinId \in Nat /\ nextPinId' = nextPinId + 1
        /\ \A q \in PinId : refs'[q] = IF q = nextPinId THEN 1 ELSE refs[q]
    BY <1>7 DEF Seal, TryPin, cellVars, callVars, TypeInv, TypeOK, PinId
  <2>2. refs[nextPinId] = 0
    BY <2>1 DEF CountInv
  <2>3. k \notin tokens /\ k.pin = nextPinId
    BY <2>1, <2>2, OwnedCounts
  <2> HIDE DEF k
  <2>4. IsFiniteSet(tokens)'
    BY <2>1, FS_AddElement DEF CountInv
  <2>5. ASSUME NEW q \in PinId PROVE refs'[q] = Held(q)'
    <3>1. /\ CellHolders(q)' = CellHolders(q) /\ ViewHolders(q)' = ViewHolders(q)
          /\ ResultHolders(q)' = ResultHolders(q) /\ ArgHolders(q)' = ArgHolders(q)
          /\ RetiredHolders(q)' = RetiredHolders(q)
      BY <2>1 DEF CellHolders, ViewHolders, ResultHolders, ArgHolders, RetiredHolders
    <3>2. refs[q] = Held(q) /\ refs[q] \in Nat
      BY DEF CountInv, RefsExact, Held, TypeInv, TypeOK
    <3>3. CASE q # nextPinId
      <4>1. TokenHolders(q)' = TokenHolders(q)
        BY <2>1, <2>3, <3>3 DEF TokenHolders
      <4> QED BY <2>1, <3>1, <3>2, <3>3, <4>1 DEF Held
    <3>4. CASE q = nextPinId
      <4>1. /\ TokenHolders(q)' = TokenHolders(q) \cup {k}
            /\ TokenHolders(q)' \ {k} = TokenHolders(q) /\ k \in TokenHolders(q)'
        BY <2>1, <2>3, <3>4 DEF TokenHolders
      <4>2. IsFiniteSet(TokenHolders(q)')
        BY <2>1, <2>4, FS_Subset DEF TokenHolders
      <4>3. Cardinality(TokenHolders(q)') = Cardinality(TokenHolders(q)) + 1
        BY <4>1, <4>2, CountOne DEF One
      <4>4. /\ IsFiniteSet(TokenHolders(q)) /\ IsFiniteSet(ViewHolders(q)) /\ IsFiniteSet(ResultHolders(q))
            /\ IsFiniteSet(ArgHolders(q)) /\ IsFiniteSet(RetiredHolders(q))
        BY PublicationAssumption, FS_Subset
           DEF TokenHolders, ViewHolders, ResultHolders, ArgHolders, RetiredHolders, CountInv
      <4>5. /\ Cardinality(TokenHolders(q)) \in Nat /\ Cardinality(ViewHolders(q)) \in Nat
            /\ Cardinality(ResultHolders(q)) \in Nat /\ Cardinality(ArgHolders(q)) \in Nat
            /\ Cardinality(RetiredHolders(q)) \in Nat /\ CellHolders(q) \in Nat
        BY <4>4, FS_CardinalityType DEF CellHolders
      <4>6. Held(q)' = Held(q) + 1
        BY <3>1, <4>3, <4>5 DEF Held
      <4> QED BY <2>1, <2>2, <3>2, <3>4, <4>6
    <3> QED BY <3>3, <3>4
  <2>6. RefsExact'
    BY <2>5 DEF RefsExact, Held
  <2>7. (\A q \in PinId : q >= nextPinId => refs[q] = 0)'
    <3>1. \A q \in PinId : q >= nextPinId' => q >= nextPinId /\ q # nextPinId
      BY <2>1 DEF PinId
    <3> QED BY <2>1, <3>1 DEF CountInv
  <2>8. /\ (\A t \in Thread : pc[t] # "idle" => view[t] = None)'
        /\ (\A t \in Thread : pc[t] # "pubRetire" => retired[t] = None)'
    BY <2>1 DEF CountInv
  <2> QED BY <2>4, <2>6, <2>7, <2>8, Zenon DEF CountInv
<1>8. ASSUME NEW k \in tokens, DropToken(k) PROVE CountInv'
  <2>1. /\ UNCHANGED <<cellPin, pc, arg, view, retired, nextPinId>> /\ tokens' = tokens \ {k}
        /\ refs' = AfterDrop(refs, k.pin) /\ k.pin \in PinId
    BY <1>8 DEF DropToken, cellVars, callVars, TypeInv, TokenInv
  <2>2. refs[k.pin] > 0
    BY <2>1, OwnedCounts
  <2>3. \A q \in PinId : refs[q] = refs'[q] + One(q = k.pin) /\ refs[q] \in Nat /\ refs'[q] \in Nat
    BY <2>1, <2>2, CloneDrop DEF TypeInv, TypeOK
  <2>4. IsFiniteSet(tokens)'
    BY <2>1, FS_Subset DEF CountInv
  <2>5. ASSUME NEW q \in PinId PROVE refs'[q] = Held(q)'
    <3>1. /\ CellHolders(q)' = CellHolders(q) /\ ViewHolders(q)' = ViewHolders(q)
          /\ ResultHolders(q)' = ResultHolders(q) /\ ArgHolders(q)' = ArgHolders(q)
          /\ RetiredHolders(q)' = RetiredHolders(q)
      BY <2>1 DEF CellHolders, ViewHolders, ResultHolders, ArgHolders, RetiredHolders
    <3>2. refs[q] = Held(q)
      BY DEF CountInv, RefsExact, Held
    <3>3. /\ IsFiniteSet(TokenHolders(q)) /\ IsFiniteSet(ViewHolders(q)) /\ IsFiniteSet(ResultHolders(q))
          /\ IsFiniteSet(ArgHolders(q)) /\ IsFiniteSet(RetiredHolders(q))
      BY PublicationAssumption, FS_Subset
         DEF TokenHolders, ViewHolders, ResultHolders, ArgHolders, RetiredHolders, CountInv
    <3>4. TokenHolders(q)' = TokenHolders(q) \ {k} /\ (k \in TokenHolders(q) <=> q = k.pin)
      BY <2>1 DEF TokenHolders
    <3>5. /\ Cardinality(TokenHolders(q)) = Cardinality(TokenHolders(q)') + One(q = k.pin)
          /\ Cardinality(TokenHolders(q)') \in Nat
      <4>1. One(k \in TokenHolders(q)) = One(q = k.pin)
        BY <3>4 DEF One
      <4> QED BY <3>3, <3>4, <4>1, CountOne
    <3>6. /\ Cardinality(ViewHolders(q)) \in Nat
          /\ Cardinality(ResultHolders(q)) \in Nat /\ Cardinality(ArgHolders(q)) \in Nat
          /\ Cardinality(RetiredHolders(q)) \in Nat /\ CellHolders(q) \in Nat /\ One(q = k.pin) \in Nat
      BY <3>3, FS_CardinalityType DEF CellHolders, One
    <3>7. Held(q) = Held(q)' + One(q = k.pin) /\ Held(q)' \in Nat
      BY <3>1, <3>5, <3>6 DEF Held
    <3>8. refs[q] = refs'[q] + One(q = k.pin) /\ refs'[q] \in Nat
      BY <2>3
    <3>9. refs'[q] + One(q = k.pin) = Held(q)' + One(q = k.pin)
      BY <3>2, <3>7, <3>8
    <3> HIDE DEF Held
    <3> QED BY <3>6, <3>7, <3>8, <3>9
  <2>6. RefsExact'
    BY <2>5 DEF RefsExact, Held
  <2>7. (\A q \in PinId : q >= nextPinId => refs[q] = 0)'
    <3>1. \A q \in PinId : q >= nextPinId => refs[q] = 0
      BY DEF CountInv
    <3>2. \A q \in PinId : One(q = k.pin) \in Nat
      BY DEF One
    <3> QED BY <2>1, <2>3, <3>1, <3>2
  <2>8. /\ (\A t \in Thread : pc[t] # "idle" => view[t] = None)'
        /\ (\A t \in Thread : pc[t] # "pubRetire" => retired[t] = None)'
    BY <2>1 DEF CountInv
  <2> QED BY <2>4, <2>6, <2>7, <2>8, Zenon DEF CountInv
<1> QED BY <1>1, <1>2, <1>3, <1>4, <1>5, <1>6, <1>7, <1>8 DEF Next

(* The reference count of every pin slot is exactly the number of values   *)
(* that own the pin, for any number of threads: RevisionPin::clone and     *)
(* drop, each one critical section of the registry, and the handing over   *)
(* of a token's pin through publish_once to the cell, to the view and to   *)
(* the retired cut neither leak a reference nor free a slot in use.        *)
THEOREM CountsExact == Spec => []RefsExact
<1>1. Init => TypeInv /\ CountInv
  BY InitType, InitCount
<1>2. (TypeInv /\ CountInv) /\ [Next]_vars => (TypeInv /\ CountInv)'
  BY StepType, StepCount
<1>3. CountInv => RefsExact
  BY DEF CountInv
<1> QED BY <1>1, <1>2, <1>3, PTL DEF Spec

----------------------------------------------------------------------------
(* The atomic register.                                                    *)

(* A publication that can still be used: its record is the one the token   *)
(* was sealed from, and it has not taken effect.                           *)
Backed(k) ==
    /\ prepared[k.id] # None
    /\ prepared[k.id].sealed
    /\ prepared[k.id].base = k.base
    /\ prepared[k.id].root = k.root
    /\ times[k.id] = 0

(* A call that has taken an own token and not swapped the root yet.        *)
Using(t) == pc[t] \in {"pubCheck", "pubClone", "pubRoot"} /\ arg[t].owner = Self

(* There is one token per sealed publication, in the callers' hands or in  *)
(* the one call that uses it; once the base is checked it stays current.   *)
OfferInv ==
    /\ \A i \in TokenId : i >= nextTokenId => prepared[i] = None
    /\ \A i \in TokenId : (prepared[i] = None \/ ~prepared[i].sealed) => times[i] = 0
    /\ \A k \in tokens : Backed(k)
    /\ \A j, k \in tokens : j.id = k.id => j = k
    /\ \A t \in Thread : Using(t) => Backed(arg[t]) /\ \A k \in tokens : k.id # arg[t].id
    /\ \A t \in Thread : pc[t] \in {"pubClone", "pubRoot"} => arg[t].base = cellRoot

(* No publication is prepared at first.                                    *)
LEMMA InitOffer == Init => OfferInv
BY DEF Init, OfferInv, Backed, Using

(* prepare writes an unused id, seal issues one token per id, publish_once *)
(* takes the token with it, and only the writer moves the root.            *)
LEMMA StepOffer == TypeInv /\ TypeInv' /\ OfferInv /\ [Next]_vars => OfferInv'
<1> SUFFICES ASSUME TypeInv, TypeInv', OfferInv, [Next]_vars PROVE OfferInv'
  OBVIOUS
<1> USE ConstantFacts
<1> USE DEF TypeInv, OfferInv, Backed, Using
<1>1. CASE UNCHANGED vars
  BY <1>1 DEF vars, cellVars, lockVars, callVars
<1>2. ASSUME NEW t \in Thread, NEW r \in Root, Prepare(t, r) PROVE OfferInv'
  <2>1. nextTokenId \in TokenId /\ prepared[nextTokenId] = None /\ nextTokenId' = nextTokenId + 1
    BY <1>2 DEF Prepare, TypeOK, TokenId
  <2>2. \A i \in TokenId : i # nextTokenId => prepared'[i] = prepared[i]
    BY <1>2 DEF Prepare, TypeOK
  <2>3. prepared'[nextTokenId] = [base |-> cellRoot, root |-> r, sealed |-> FALSE]
    BY <1>2, <2>1 DEF Prepare, TypeOK
  <2>4. \A i \in TokenId : i >= nextTokenId' => i >= nextTokenId /\ i # nextTokenId
    BY <2>1 DEF TypeOK, TokenId
  <2>5. \A k \in tokens : k.id \in TokenId /\ k.id # nextTokenId
    BY <2>1 DEF TypeOK, Token
  <2>6. \A u \in Thread : Using(u) => arg[u].id \in TokenId /\ arg[u].id # nextTokenId
    BY <2>1 DEF LocalInv, PublishPoints, WritePoints, Token
  <2>7. UNCHANGED <<tokens, times, pc, arg, cellRoot>>
    BY <1>2 DEF Prepare, callVars
  <2> QED BY <2>1, <2>2, <2>3, <2>4, <2>5, <2>6, <2>7
<1>3. ASSUME NEW t \in Thread, CaptureLock(t) PROVE OfferInv'
  BY <1>3 DEF CaptureLock, TypeOK, cellVars
<1>4. ASSUME NEW t \in Thread, NEW k \in tokens \cup ForeignTokens, PublishLock(t, k) PROVE OfferInv'
  <2>1. k \in tokens \/ k.owner # Self
    OBVIOUS
  <2> QED BY <1>4, <2>1 DEF PublishLock, TypeOK, cellVars
<1>5. ASSUME NEW t \in Thread, DropView(t) PROVE OfferInv'
  BY <1>5 DEF DropView, cellVars, callVars
<1>6. ASSUME NEW t \in Thread, Inside(t) PROVE OfferInv'
  <2>1. CASE CaptureRoot(t)
    BY <2>1 DEF CaptureRoot, TypeOK, cellVars
  <2>2. CASE CapturePin(t)
    BY <2>2 DEF CapturePin, TypeOK, cellVars
  <2>3. CASE PublishRefuse(t)
    BY <2>3 DEF PublishRefuse, TypeOK, cellVars
  <2>4. CASE PublishDropArg(t)
    BY <2>4 DEF PublishDropArg, TypeOK, cellVars
  <2>5. CASE PublishAccept(t)
    BY <2>5 DEF PublishAccept, Publishable, TypeOK, cellVars
  <2>6. CASE PublishClone(t)
    BY <2>6 DEF PublishClone, TypeOK, cellVars
  <2>7. CASE SwapRoot(t)
    <3>1. \A u \in Thread : u # t => pc[u] \notin WritePoints
      BY <2>7 DEF SwapRoot, LockInv, WritePoints
    <3>2. Using(t) /\ arg[t] \in Token /\ arg[t].id \in TokenId
      BY <2>7 DEF SwapRoot, LocalInv, PublishPoints, WritePoints, Token
    <3>3. \A i \in TokenId : i # arg[t].id => times'[i] = times[i]
      BY <2>7 DEF SwapRoot, TypeOK
    <3>4. /\ UNCHANGED <<nextTokenId, prepared, tokens, arg>> /\ pc'[t] = "pubPin"
          /\ \A u \in Thread : u # t => pc'[u] = pc[u]
      BY <2>7 DEF SwapRoot, TypeOK
    <3>5. \A k \in tokens : k.id \in TokenId /\ k.id # arg[t].id
      BY <3>2 DEF TypeOK, Token
    <3>6. \A u \in Thread : ~Using(u)' /\ pc'[u] \notin {"pubClone", "pubRoot"}
      BY <3>1, <3>4 DEF WritePoints
    <3> QED BY <3>2, <3>3, <3>4, <3>5, <3>6
  <2>8. CASE SwapPin(t)
    BY <2>8 DEF SwapPin, TypeOK
  <2>9. CASE Retire(t)
    BY <2>9 DEF Retire, TypeOK, cellVars
  <2> QED BY <1>6, <2>1, <2>2, <2>3, <2>4, <2>5, <2>6, <2>7, <2>8, <2>9 DEF Inside
<1>7. ASSUME NEW i \in TokenId, Seal(i) PROVE OfferInv'
  <2>0. PICK k : k = [id |-> i, owner |-> Self, base |-> prepared[i].base,
                      root |-> prepared[i].root, pin |-> nextPinId]
    OBVIOUS
  <2>1. prepared[i] \in PreparedRec /\ prepared[i] # None /\ ~prepared[i].sealed
    BY <1>7 DEF Seal, TypeOK
  <2>2. /\ prepared'[i] = [base |-> prepared[i].base, root |-> prepared[i].root, sealed |-> TRUE]
        /\ prepared'[i] \in PreparedRec
    BY <1>7, <2>1 DEF Seal, TypeOK, PreparedRec
  <2>3. \A j \in TokenId : j # i => prepared'[j] = prepared[j]
    BY <1>7 DEF Seal, TypeOK
  <2>4. UNCHANGED <<cellRoot, nextTokenId, times, pc, arg>> /\ tokens' = tokens \cup {k}
    BY <1>7, <2>0 DEF Seal, cellVars, callVars
  <2>5. times[i] = 0
    BY <2>1
  <2>6. \A j \in tokens : j.id \in TokenId /\ j.id # i
    BY <2>1 DEF TypeOK, Token
  <2>7. \A t \in Thread : Using(t) => arg[t].id \in TokenId /\ arg[t].id # i
    BY <2>1 DEF LocalInv, PublishPoints, WritePoints, Token
  <2>8. k.id = i /\ k.base = prepared[i].base /\ k.root = prepared[i].root
    BY <2>0
  <2>9. Backed(k)'
    BY <2>2, <2>4, <2>5, <2>8
  <2> QED BY <2>1, <2>2, <2>3, <2>4, <2>5, <2>6, <2>7, <2>8, <2>9
<1>8. ASSUME NEW k \in tokens, DropToken(k) PROVE OfferInv'
  BY <1>8 DEF DropToken, cellVars, callVars
<1> QED BY <1>1, <1>2, <1>3, <1>4, <1>5, <1>6, <1>7, <1>8 DEF Next

(* The mapped variables, for the steps of the refinement.                  *)
Offers == [i \in TokenId |-> OfferOf(i)]
Seen == [t \in Thread |-> SeenCut(t)]

(* A step that leaves the records, the marks and what the threads see      *)
(* alone changes nothing in the register.                                  *)
LEMMA SeenStep ==
    ASSUME NEW t \in Thread, \A u \in Thread \ {t} : SeenCut(u)' = SeenCut(u)
    PROVE  Seen' = [Seen EXCEPT ![t] = SeenCut(t)']
BY DEF Seen

(* A step that touches one record or mark changes one offer.               *)
LEMMA OffersStep ==
    ASSUME NEW i \in TokenId, NEW o, OfferOf(i)' = o,
           \A j \in TokenId : j # i => OfferOf(j)' = OfferOf(j)
    PROVE  Offers' = [Offers EXCEPT ![i] = o]
BY DEF Offers

(* An offer that is marked as spent.                                       *)
LEMMA SpendRecord ==
    ASSUME NEW o, NEW b, NEW r, o = [base |-> b, root |-> r, spent |-> FALSE]
    PROVE  /\ [o EXCEPT !.spent = TRUE] = [base |-> b, root |-> r, spent |-> TRUE]
           /\ ~o.spent /\ o.base = b /\ o.root = r
<1>1. PICK y : y = TRUE
  OBVIOUS
<1>2. [o EXCEPT !.spent = y] = [base |-> b, root |-> r, spent |-> y]
  OBVIOUS
<1>3. [o EXCEPT !.spent = TRUE] = [base |-> b, root |-> r, spent |-> TRUE]
  BY <1>1, <1>2
<1>4. ~o.spent /\ o.base = b /\ o.root = r
  OBVIOUS
<1> QED BY <1>3, <1>4

(* What another thread sees does not change in a step of this one.         *)
LEMMA SeenOthers ==
    ASSUME NEW t \in Thread,
           \A u \in Thread \ {t} : /\ pc'[u] = pc[u] /\ got'[u] = got[u]
                                   /\ arg'[u] = arg[u] /\ view'[u] = view[u]
    PROVE  \A u \in Thread \ {t} : SeenCut(u)' = SeenCut(u)
BY DEF SeenCut

(* The offers change only with the records and the marks.                  *)
LEMMA SameOffers == ASSUME UNCHANGED <<prepared, times>> PROVE Offers' = Offers
BY DEF Offers, OfferOf

(* A step of one thread that moves neither the root nor an offer changes   *)
(* the register by what this thread sees.                                  *)
LEMMA ThreadStutter ==
    ASSUME NEW t \in Thread, UNCHANGED <<cellRoot, prepared, times>>,
           \A u \in Thread \ {t} : SeenCut(u)' = SeenCut(u),
           SeenCut(t)' = SeenCut(t)
    PROVE  UNCHANGED Register!vars
<1>1. Seen' = Seen
  BY DEF Seen
<1>2. Offers' = Offers
  BY SameOffers
<1> QED BY <1>1, <1>2 DEF Register!vars, Seen, Offers

(* A new authority is a new register.                                      *)
LEMMA RegisterInit == Init => Register!Init
BY ConstantFacts DEF Init, Register!Init, OfferOf, SeenCut

(* Every step of the authority is one step of the register or none.        *)
LEMMA RegisterStep ==
    TypeInv /\ TypeInv' /\ StampInv /\ CountInv /\ OfferInv /\ [Next]_vars
        => [Register!Next]_(Register!vars)
<1> SUFFICES ASSUME TypeInv, TypeInv', StampInv, CountInv, OfferInv, [Next]_vars
             PROVE  Register!Next \/ UNCHANGED Register!vars
  BY DEF Register!vars
<1> USE ConstantFacts
<1>1. CASE UNCHANGED vars
  BY <1>1 DEF vars, cellVars, callVars, Register!vars, OfferOf, SeenCut
<1>2. ASSUME NEW t \in Thread, NEW r \in Root, Prepare(t, r) PROVE Register!Next
  <2>0. PICK n : n = nextTokenId
    OBVIOUS
  <2>1. n \in TokenId /\ prepared[n] = None
    BY <1>2, <2>0 DEF Prepare, TypeInv, TypeOK, TokenId, OfferInv
  <2>2. times[n] = 0 /\ UNCHANGED <<cellRoot, times, pc, arg, got, view>>
    BY <1>2, <2>1 DEF Prepare, OfferInv, callVars
  <2>3. /\ \A i \in TokenId : i # n => prepared'[i] = prepared[i]
        /\ prepared'[n] = [base |-> cellRoot, root |-> r, sealed |-> FALSE]
    BY <1>2, <2>0, <2>1 DEF Prepare, TypeInv, TypeOK
  <2>4. prepared'[n] # None
    <3>1. [base |-> cellRoot, root |-> r, sealed |-> FALSE] \in PreparedRec
      BY DEF PreparedRec, TypeInv, TypeOK
    <3> QED BY <2>3, <3>1
  <2>5. Offers' = [Offers EXCEPT ![n] = [base |-> cellRoot, root |-> r, spent |-> FALSE]]
    <3>1. (times'[n] > 0) = FALSE
      BY <2>2
    <3>2. OfferOf(n)' = [base |-> cellRoot, root |-> r, spent |-> FALSE]
      <4>1. prepared'[n].base = cellRoot /\ prepared'[n].root = r
        BY <2>3
      <4> QED BY <2>4, <3>1, <4>1, Zenon DEF OfferOf
    <3>3. \A i \in TokenId : i # n => OfferOf(i)' = OfferOf(i)
      BY <2>2, <2>3 DEF OfferOf
    <3> QED BY <2>1, <3>2, <3>3, OffersStep
  <2>6. Offers[n] = None /\ Seen' = Seen
    BY <2>1, <2>2 DEF Offers, OfferOf, Seen, SeenCut
  <2>7. Register!Propose(n, r)
    BY <2>2, <2>5, <2>6 DEF Register!Propose, Offers, Seen
  <2> QED BY <2>1, <2>7 DEF Register!Next
<1>3. ASSUME NEW t \in Thread, CaptureLock(t) PROVE UNCHANGED Register!vars
  <2>1. SeenCut(t)' = SeenCut(t)
    BY <1>3 DEF CaptureLock, TypeInv, TypeOK, SeenCut
  <2>2. \A u \in Thread \ {t} : SeenCut(u)' = SeenCut(u)
    BY <1>3 DEF CaptureLock, TypeInv, TypeOK, SeenCut
  <2> QED BY <1>3, <2>1, <2>2, ThreadStutter DEF CaptureLock, cellVars
<1>4. ASSUME NEW t \in Thread, NEW k \in tokens \cup ForeignTokens, PublishLock(t, k)
      PROVE UNCHANGED Register!vars
  <2>1. SeenCut(t)' = SeenCut(t)
    BY <1>4 DEF PublishLock, TypeInv, TypeOK, SeenCut
  <2>2. \A u \in Thread \ {t} : SeenCut(u)' = SeenCut(u)
    BY <1>4 DEF PublishLock, TypeInv, TypeOK, SeenCut
  <2> QED BY <1>4, <2>1, <2>2, ThreadStutter DEF PublishLock, cellVars
<1>5. ASSUME NEW t \in Thread, DropView(t) PROVE Register!Next
  <2>1. SeenCut(t)' = None
    BY <1>5 DEF DropView, callVars, TypeInv, TypeOK, SeenCut
  <2>2. \A u \in Thread \ {t} : SeenCut(u)' = SeenCut(u)
    BY <1>5 DEF DropView, callVars, TypeInv, TypeOK, SeenCut
  <2>3. Seen' = [Seen EXCEPT ![t] = None] /\ Offers' = Offers /\ cellRoot' = cellRoot
    BY <1>5, <2>1, <2>2, SeenStep, SameOffers DEF DropView, cellVars
  <2>4. Register!Forget(t)
    BY <2>3 DEF Register!Forget, Seen, Offers
  <2> QED BY <2>4 DEF Register!Next
<1>6. ASSUME NEW t \in Thread, Inside(t) PROVE Register!Next \/ UNCHANGED Register!vars
  <2>1. CASE CaptureRoot(t)
    <3>1. SeenCut(t)' = cellRoot
      BY <2>1 DEF CaptureRoot, TypeInv, TypeOK, SeenCut
    <3>2. \A u \in Thread \ {t} : SeenCut(u)' = SeenCut(u)
      BY <2>1 DEF CaptureRoot, TypeInv, TypeOK, SeenCut
    <3>3. Seen' = [Seen EXCEPT ![t] = cellRoot] /\ Offers' = Offers /\ cellRoot' = cellRoot
      BY <2>1, <3>1, <3>2, SeenStep, SameOffers DEF CaptureRoot, cellVars
    <3>4. Register!Read(t)
      BY <3>3 DEF Register!Read, Seen, Offers
    <3> QED BY <3>4 DEF Register!Next
  <2>2. CASE CapturePin(t)
    <3>1. [root |-> got[t], pin |-> cellPin] \in View
      BY <2>2 DEF CapturePin, TypeInv, LocalInv, TypeOK, View
    <3>2. SeenCut(t)' = SeenCut(t)
      BY <2>2, <3>1 DEF CapturePin, TypeInv, TypeOK, SeenCut
    <3>3. \A u \in Thread \ {t} : SeenCut(u)' = SeenCut(u)
      BY <2>2 DEF CapturePin, TypeInv, TypeOK, SeenCut
    <3> QED BY <2>2, <3>2, <3>3, ThreadStutter DEF CapturePin, cellVars
  <2>3. CASE PublishRefuse(t)
    <3>1. SeenCut(t)' = SeenCut(t)
      BY <2>3 DEF PublishRefuse, TypeInv, TypeOK, SeenCut
    <3>2. \A u \in Thread \ {t} : SeenCut(u)' = SeenCut(u)
      BY <2>3 DEF PublishRefuse, TypeInv, TypeOK, SeenCut
    <3> QED BY <2>3, <3>1, <3>2, ThreadStutter DEF PublishRefuse, cellVars
  <2>4. CASE PublishDropArg(t)
    <3>1. SeenCut(t)' = SeenCut(t)
      BY <2>4 DEF PublishDropArg, TypeInv, TypeOK, SeenCut
    <3>2. \A u \in Thread \ {t} : SeenCut(u)' = SeenCut(u)
      BY <2>4 DEF PublishDropArg, TypeInv, TypeOK, SeenCut
    <3> QED BY <2>4, <3>1, <3>2, ThreadStutter DEF PublishDropArg, cellVars
  <2>5. CASE PublishAccept(t)
    <3>1. SeenCut(t)' = SeenCut(t)
      BY <2>5 DEF PublishAccept, TypeInv, TypeOK, SeenCut
    <3>2. \A u \in Thread \ {t} : SeenCut(u)' = SeenCut(u)
      BY <2>5 DEF PublishAccept, TypeInv, TypeOK, SeenCut
    <3> QED BY <2>5, <3>1, <3>2, ThreadStutter DEF PublishAccept, cellVars
  <2>6. CASE PublishClone(t)
    <3>1. SeenCut(t)' = SeenCut(t)
      BY <2>6 DEF PublishClone, TypeInv, TypeOK, SeenCut
    <3>2. \A u \in Thread \ {t} : SeenCut(u)' = SeenCut(u)
      BY <2>6 DEF PublishClone, TypeInv, TypeOK, SeenCut
    <3> QED BY <2>6, <3>1, <3>2, ThreadStutter DEF PublishClone, cellVars
  <2>7. CASE SwapRoot(t)
    <3>0. PICK k : k = arg[t]
      OBVIOUS
    <3>1. k \in Token /\ k.id \in TokenId /\ Backed(k) /\ k.base = cellRoot
      BY <2>7, <3>0 DEF SwapRoot, TypeInv, LocalInv, OfferInv, Using, PublishPoints, WritePoints, Token
    <3>2. Offers[k.id] = [base |-> cellRoot, root |-> k.root, spent |-> FALSE] /\ Offers[k.id] # None
      <4>1. Offers[k.id] = [base |-> cellRoot, root |-> k.root, spent |-> FALSE]
        <5>1. (times[k.id] > 0) = FALSE
          BY <3>1 DEF Backed
        <5>2. OfferOf(k.id) = [base |-> k.base, root |-> k.root, spent |-> FALSE]
          BY <3>1, <5>1, Zenon DEF Backed, OfferOf
        <5> QED BY <3>1, <5>2 DEF Offers
      <4>2. [base |-> cellRoot, root |-> k.root, spent |-> FALSE] \in OfferRec
        BY <3>1 DEF OfferRec, Token, TypeInv, TypeOK
      <4> QED BY <4>1, <4>2
    <3>3. Offers' = [Offers EXCEPT ![k.id].spent = TRUE]
      <4>1. /\ UNCHANGED prepared /\ times'[k.id] = 1
            /\ \A i \in TokenId : i # k.id => times'[i] = times[i]
        BY <2>7, <3>0, <3>1 DEF SwapRoot, Backed, TypeInv, TypeOK
      <4>2. OfferOf(k.id)' = [base |-> cellRoot, root |-> k.root, spent |-> TRUE]
        <5>1. (times'[k.id] > 0) = TRUE
          BY <4>1
        <5>2. OfferOf(k.id)' = [base |-> k.base, root |-> k.root, spent |-> TRUE]
          BY <3>1, <4>1, <5>1, Zenon DEF Backed, OfferOf
        <5> QED BY <3>1, <5>2
      <4>3. \A i \in TokenId : i # k.id => OfferOf(i)' = OfferOf(i)
        BY <4>1 DEF OfferOf
      <4>4. Offers' = [Offers EXCEPT ![k.id] = [base |-> cellRoot, root |-> k.root, spent |-> TRUE]]
        BY <3>1, <4>2, <4>3, OffersStep
      <4>5. [Offers[k.id] EXCEPT !.spent = TRUE] = [base |-> cellRoot, root |-> k.root, spent |-> TRUE]
        BY <3>2, SpendRecord, Zenon
      <4> QED BY <4>4, <4>5
    <3>4. SeenCut(t)' = k.root
      BY <2>7, <3>0 DEF SwapRoot, TypeInv, TypeOK, SeenCut
    <3>5. \A u \in Thread \ {t} : SeenCut(u)' = SeenCut(u)
      BY <2>7 DEF SwapRoot, TypeInv, TypeOK, SeenCut
    <3>6. Seen' = [Seen EXCEPT ![t] = k.root] /\ cellRoot' = k.root
      BY <2>7, <3>0, <3>4, <3>5, SeenStep DEF SwapRoot
    <3>7. Register!Accept(t, k.id)
      <4>1. /\ ~Offers[k.id].spent /\ Offers[k.id].base = cellRoot
            /\ Offers[k.id].root = k.root
        <5>1. PICK o : o = Offers[k.id]
          OBVIOUS
        <5>2. ~o.spent /\ o.base = cellRoot /\ o.root = k.root
          BY <3>2, <5>1, SpendRecord
        <5> QED BY <5>1, <5>2
      <4> QED BY <3>2, <3>3, <3>6, <4>1 DEF Register!Accept, Seen, Offers
    <3> QED BY <3>1, <3>7 DEF Register!Next
  <2>8. CASE SwapPin(t)
    <3>1. SeenCut(t)' = SeenCut(t)
      BY <2>8 DEF SwapPin, TypeInv, TypeOK, SeenCut
    <3>2. \A u \in Thread \ {t} : SeenCut(u)' = SeenCut(u)
      BY <2>8 DEF SwapPin, TypeInv, TypeOK, SeenCut
    <3> QED BY <2>8, <3>1, <3>2, ThreadStutter DEF SwapPin, cellVars
  <2>9. CASE Retire(t)
    <3>1. [root |-> arg[t].root, pin |-> arg[t].pin] \in View
      BY <2>9 DEF Retire, TypeInv, LocalInv, TokenInv, PublishPoints, Token, View
    <3>2. SeenCut(t)' = SeenCut(t)
      BY <2>9, <3>1 DEF Retire, TypeInv, TypeOK, SeenCut
    <3>3. \A u \in Thread \ {t} : SeenCut(u)' = SeenCut(u)
      BY <2>9 DEF Retire, TypeInv, TypeOK, SeenCut
    <3> QED BY <2>9, <3>2, <3>3, ThreadStutter DEF Retire, cellVars
  <2> QED BY <1>6, <2>1, <2>2, <2>3, <2>4, <2>5, <2>6, <2>7, <2>8, <2>9 DEF Inside
<1>7. ASSUME NEW i \in TokenId, Seal(i) PROVE UNCHANGED Register!vars
  <2>1. prepared[i] \in PreparedRec /\ prepared[i] # None
    BY <1>7 DEF Seal, TypeInv, TypeOK
  <2>2. /\ prepared'[i] = [base |-> prepared[i].base, root |-> prepared[i].root, sealed |-> TRUE]
        /\ prepared'[i] \in PreparedRec
    BY <1>7, <2>1 DEF Seal, TypeInv, TypeOK, PreparedRec
  <2>3. \A j \in TokenId : j # i => prepared'[j] = prepared[j]
    BY <1>7 DEF Seal, TypeInv, TypeOK
  <2>4. UNCHANGED <<cellRoot, times, pc, arg, got, view>>
    BY <1>7 DEF Seal, cellVars, callVars
  <2>5. Offers' = Offers
    BY <2>1, <2>2, <2>3, <2>4 DEF Offers, OfferOf
  <2>6. Seen' = Seen
    BY <2>4 DEF Seen, SeenCut
  <2> QED BY <2>4, <2>5, <2>6 DEF Register!vars, Seen, Offers
<1>8. ASSUME NEW k \in tokens, DropToken(k) PROVE UNCHANGED Register!vars
  <2>1. UNCHANGED <<cellRoot, prepared, times, pc, arg, got, view>>
    BY <1>8 DEF DropToken, cellVars, callVars
  <2>2. Seen' = Seen /\ Offers' = Offers
    BY <2>1 DEF Seen, SeenCut, Offers, OfferOf
  <2> QED BY <2>1, <2>2 DEF Register!vars, Seen, Offers
<1> QED BY <1>1, <1>2, <1>3, <1>4, <1>5, <1>6, <1>7, <1>8 DEF Next

(* PublicationAuthority implements the atomic register for any number of   *)
(* threads: capture and publish_once take effect in one step each, a       *)
(* publication replaces the very cut it was prepared against, and no token *)
(* takes effect twice.                                                     *)
THEOREM AuthorityIsRegister == Spec => ImplementsRegister
<1> DEFINE Inv == TypeInv /\ StampInv /\ CountInv /\ OfferInv
<1>1. Init => Inv
  BY InitType, InitStamp, InitCount, InitOffer
<1>2. Inv /\ [Next]_vars => Inv'
  BY StepType, StepStamp, StepCount, StepOffer
<1>3. Init => Register!Init
  BY RegisterInit
<1>4. Inv /\ Inv' /\ [Next]_vars => [Register!Next]_(Register!vars)
  BY RegisterStep
<1> QED BY <1>1, <1>2, <1>3, <1>4, PTL DEF Spec, ImplementsRegister, Register!Spec
=============================================================================
