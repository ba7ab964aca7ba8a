---------------------------- MODULE WorldsProofs ----------------------------
(* Generations keep the worlds of a process apart, for any number of        *)
(* worlds, names, transactions, calls and generations.                      *)
EXTENDS Worlds, FiniteSetTheorems, SequenceTheorems, TLAPS

(* What is true of an instance: it lost its birth number only by its        *)
(* disposal, and its ledger admits requests under that number only.         *)
Sound(x) ==
    /\ x \in Instance /\ x.born < MaxGeneration
    /\ x.session # "Disposed" => x.generation = x.born
    /\ \A t \in Txn : x.ledger[t] # None => x.ledger[t].generation = x.born

SoundToken(k) == k \in Token /\ k.generation = k.born
SoundCall(c) ==
    /\ c \in Call
    /\ ~c.late => c.generation = c.from
    /\ c.token # None => SoundToken(c.token) /\ c.kind = "commit"
    /\ c.kind = "commit" => c.token # None

ServedTyped == served # None => served.from \in Generation /\ served.by \in Generation

Inv ==
    /\ counter \in Generation /\ issued \subseteq 1..(counter - 1)
    /\ worlds \in [Slot -> Instance \cup {None}]
    /\ \A w \in Slot : worlds[w] # None => Sound(worlds[w])
    /\ \A c \in calls : SoundCall(c)
    /\ \A k \in tokens : SoundToken(k)
    /\ ServedTyped
    /\ OnlyOwnCalls

----------------------------------------------------------------------------
(* Updates of one instance.                                                 *)

(* A sound instance put into a slot leaves every slot sound.                *)
LEMMA PutSound ==
    ASSUME Inv, NEW w \in Slot, NEW x, Sound(x), Put(w, x)
    PROVE  /\ worlds' \in [Slot -> Instance \cup {None}]
           /\ \A v \in Slot : worlds'[v] # None => Sound(worlds'[v])
BY DEF Inv, Put, Sound

(* transition_session of an instance that is not disposed.                  *)
LEMMA SessionSound ==
    ASSUME NEW x, Sound(x), NEW to \in SessionState, x.session # "Disposed"
    PROVE  Sound([x EXCEPT !.session = to])
BY DEF Sound, Instance

(* finalize moves the generation, never the birth number.                   *)
LEMMA BumpSound ==
    ASSUME NEW x, Sound(x)
    PROVE  Sound(Finalized(x))
<1>1. Invalidated(x.generation) \in Generation
  BY WorldsAssumption DEF Sound, Instance, Invalidated, Generation
<1>2. "Disposed" \in SessionState
  BY DEF SessionState, Edges
<1> QED BY <1>1, <1>2 DEF Sound, Instance, Finalized

(* drain takes requests in flight out of the ledger and adds none.          *)
LEMMA DrainSound ==
    ASSUME NEW x, Sound(x), x.session # "Disposed"
    PROVE  Sound(Drained(x))
<1>1. AbortInFlight(x.ledger) \in [Txn -> Entry \cup {None}]
  BY DEF Sound, Instance, AbortInFlight
<1>2. \A t \in Txn : AbortInFlight(x.ledger)[t] # None => AbortInFlight(x.ledger)[t] = x.ledger[t]
  BY DEF AbortInFlight
<1>3. "Snapshotted" \in SessionState
  BY DEF SessionState, Edges
<1> HIDE DEF AbortInFlight
<1> QED BY <1>1, <1>2, <1>3 DEF Sound, Instance, Drained

(* trip and destroy, from any session a shutdown is possible in.            *)
LEMMA ClosedSound ==
    ASSUME NEW x, Sound(x), CanClose(x)
    PROVE  Sound(Closed(x))
<1>1. x.session # "Disposed"
  BY DEF CanClose, CanBegin, Edges
<1> QED BY <1>1, DrainSound, BumpSound DEF Closed

(* A ledger update that keeps to the instance's number.                     *)
LEMMA LedgerSound ==
    ASSUME NEW x, Sound(x), NEW t \in Txn, NEW e \in Entry \cup {None}, NEW r \in Nat,
           e # None => e.generation = x.born,
           NEW y, y = [x EXCEPT !.ledger = [@ EXCEPT ![t] = e], !.rev = r]
    PROVE  Sound(y)
<1>1. /\ y.name = x.name /\ y.generation = x.generation /\ y.born = x.born
      /\ y.session = x.session /\ y.rev = r /\ y.ledger = [x.ledger EXCEPT ![t] = e]
      /\ y \in Instance
  BY DEF Sound, Instance
<1> QED BY <1>1 DEF Sound, Instance

----------------------------------------------------------------------------
(* Only the instance a call was made for serves it.                         *)

(* check_origin and the session gate admit no call to a disposed instance.  *)
LEMMA AdmittedLive ==
    ASSUME NEW x, NEW c, Admitted(x, c), Sound(x), SoundCall(c)
    PROVE  /\ x.session # "Disposed"
           /\ c.generation = x.born
           /\ ~c.late => c.from = x.born
<1>1. x.session # "Disposed"
  BY DEF Admitted, QueryAdmissible, WriteAdmissible, Edges, SoundCall, Call
<1> QED BY <1>1 DEF Admitted, CheckOrigin, Sound, SoundCall

(* What an instance serves was made from its own guard, and with its token. *)
LEMMA ServedOwn ==
    ASSUME Inv, NEW w \in Slot, NEW c \in calls, worlds[w] # None, Admitted(worlds[w], c),
           Served(worlds[w], c),
           c.token # None => c.token.born = worlds[w].born
    PROVE  /\ ServedTyped' /\ OnlyOwnCalls'
           /\ \A d \in calls' : SoundCall(d)
<1>1. Sound(worlds[w]) /\ SoundCall(c)
  BY DEF Inv
<1>2. served' = [from |-> c.from, late |-> c.late, by |-> worlds[w].born,
                 of |-> IF c.token = None THEN None ELSE c.token.born]
  BY DEF Served
<1>3. ~c.late => c.from = worlds[w].born
  BY <1>1, AdmittedLive
<1>4. ServedTyped'
  BY <1>1, <1>2 DEF ServedTyped, Sound, SoundCall, Instance, Call
<1>5. OnlyOwnCalls'
  BY <1>2, <1>3 DEF OnlyOwnCalls
<1> QED BY <1>4, <1>5 DEF Served, Inv

----------------------------------------------------------------------------
(* Every step keeps the invariant.                                          *)

(* A process starts with no world.                                          *)
LEMMA InitInv == Init => Inv
BY WorldsAssumption DEF Init, Inv, ServedTyped, OnlyOwnCalls, Generation

(* Steps that serve no call.                                                *)
LEMMA QuietSteps ==
    ASSUME Inv, Quiet, NEW w \in Slot, NEW x, Sound(x), Put(w, x),
           UNCHANGED <<counter, calls, tokens, issued>>
    PROVE  Inv'
<1>1. ServedTyped' /\ OnlyOwnCalls'
  BY DEF Quiet, ServedTyped, OnlyOwnCalls
<1>2. /\ worlds' \in [Slot -> Instance \cup {None}]
      /\ \A v \in Slot : worlds'[v] # None => Sound(worlds'[v])
  BY PutSound
<1> QED BY <1>1, <1>2 DEF Inv

(* create, lifecycle commands, shutdowns and faults.                        *)
LEMMA InstanceSteps ==
    ASSUME Inv, InstanceStep
    PROVE  Inv'
<1>1. PICK w \in Slot :
         \/ \E name \in Name : Create(w, name)
         \/ \E to \in SessionState : Lifecycle(w, to)
         \/ ShutdownBegin(w) \/ ShutdownDrain(w) \/ ShutdownFinalize(w)
         \/ FaultTrip(w) \/ Destroy(w)
  BY DEF InstanceStep
<1>2. worlds[w] # None => Sound(worlds[w])
  BY DEF Inv
<1>3. ASSUME NEW name \in Name, Create(w, name) PROVE Inv'
  <2> DEFINE x == [name |-> name, generation |-> counter, born |-> counter, session |-> "Created",
                   ledger |-> [t \in Txn |-> None], rev |-> 0]
  <2>1. x.ledger \in [Txn -> Entry \cup {None}] /\ "Created" \in SessionState
    BY DEF SessionState, Edges
  <2>2. Sound(x)
    BY <1>3, <2>1 DEF Sound, Instance, Create, CanAllocate, Inv
  <2>3. Put(w, x) /\ Quiet /\ UNCHANGED <<calls, tokens>>
    BY <1>3 DEF Create
  <2>4. counter' \in Generation /\ issued' \subseteq 1..(counter' - 1)
    BY <1>3, WorldsAssumption DEF Create, CanAllocate, NextCounter, Generation, Inv
  <2> HIDE DEF x
  <2>5. /\ worlds' \in [Slot -> Instance \cup {None}]
        /\ \A v \in Slot : worlds'[v] # None => Sound(worlds'[v])
    BY <2>2, <2>3, PutSound
  <2>6. ServedTyped' /\ OnlyOwnCalls'
    BY <2>3 DEF Quiet, ServedTyped, OnlyOwnCalls
  <2> QED BY <2>3, <2>4, <2>5, <2>6 DEF Inv
<1>4. ASSUME NEW to \in SessionState, Lifecycle(w, to) PROVE Inv'
  <2>1. worlds[w].session # "Disposed"
    BY <1>4 DEF Lifecycle, Edges
  <2>2. Sound([worlds[w] EXCEPT !.session = to])
    BY <1>2, <1>4, <2>1, SessionSound DEF Lifecycle
  <2> QED BY <1>4, <2>2, QuietSteps DEF Lifecycle
<1>5. CASE ShutdownBegin(w)
  <2>1. worlds[w].session # "Disposed" /\ "Draining" \in SessionState
    BY <1>5 DEF ShutdownBegin, CanBegin, Edges, SessionState
  <2>2. Sound(Begun(worlds[w]))
    BY <1>2, <1>5, <2>1, SessionSound DEF ShutdownBegin, Begun
  <2> QED BY <1>5, <2>2, QuietSteps DEF ShutdownBegin
<1>6. CASE ShutdownDrain(w)
  <2>1. Sound(Drained(worlds[w]))
    BY <1>2, <1>6, DrainSound DEF ShutdownDrain
  <2> QED BY <1>6, <2>1, QuietSteps DEF ShutdownDrain
<1>7. CASE ShutdownFinalize(w)
  <2>1. Sound(Finalized(worlds[w]))
    BY <1>2, <1>7, BumpSound DEF ShutdownFinalize
  <2> QED BY <1>7, <2>1, QuietSteps DEF ShutdownFinalize
<1>8. CASE FaultTrip(w) \/ Destroy(w)
  <2>1. Sound(Closed(worlds[w]))
    BY <1>2, <1>8, ClosedSound DEF FaultTrip, Destroy
  <2> QED BY <1>8, <2>1, QuietSteps DEF FaultTrip, Destroy
<1> QED BY <1>1, <1>3, <1>4, <1>5, <1>6, <1>7, <1>8

(* A call is made from the guard as it is, and gives its token away.        *)
LEMMA MakeSteps ==
    ASSUME Inv, MakeStep
    PROVE  Inv'
<1>1. PICK w \in Slot, kind \in {"query", "prepare", "commit", "abort", "pause"}, t \in Txn,
           k \in tokens \cup {None}, basis \in BOOLEAN :
         Make(w, kind, t, k, basis) /\ (kind = "commit" <=> k # None)
  <2>1. \A k \in tokens : k # None /\ k.txn \in Txn
    BY WorldsAssumption DEF Inv, SoundToken, Token
  <2> QED BY <2>1 DEF MakeStep
<1> DEFINE c == [kind |-> kind, name |-> worlds[w].name, generation |-> worlds[w].generation,
                 basis |-> basis, txn |-> t, token |-> k, from |-> worlds[w].born,
                 late |-> worlds[w].session = "Disposed"]
<1>2. Sound(worlds[w]) /\ (k # None => SoundToken(k))
  BY <1>1 DEF Make, Inv
<1>3. k \in Token \cup {None}
  BY <1>2 DEF SoundToken
<1>4. SoundCall(c)
  BY <1>1, <1>2, <1>3 DEF SoundCall, Sound, Call, Instance
<1>5. calls' = calls \cup {c} /\ tokens' \subseteq tokens
  BY <1>1 DEF Make
<1> HIDE DEF c
<1>6. Quiet /\ UNCHANGED <<counter, worlds, issued>>
  BY <1>1 DEF Make
<1>7. ServedTyped' /\ OnlyOwnCalls'
  BY <1>6 DEF Quiet, ServedTyped, OnlyOwnCalls
<1> QED BY <1>4, <1>5, <1>6, <1>7 DEF Inv

(* Queries, pauses, prepares, commits and aborts, delivered or refused.     *)
LEMMA DeliverSteps ==
    ASSUME Inv, DeliverStep
    PROVE  Inv'
<1>1. PICK c \in calls :
         \/ Refuse(c)
         \/ \E w \in {v \in Slot : worlds[v] # None} :
               Query(w, c) \/ Pause(w, c) \/ Prepare(w, c) \/ Commit(w, c) \/ Abort(w, c)
  BY DEF DeliverStep
<1>2. SoundCall(c)
  BY DEF Inv
<1>3. CASE Refuse(c)
  <2>1. ServedTyped' /\ OnlyOwnCalls'
    BY <1>3 DEF Refuse, Quiet, ServedTyped, OnlyOwnCalls
  <2> QED BY <1>3, <2>1 DEF Refuse, Inv
<1>4. ASSUME NEW w \in Slot, worlds[w] # None,
             Query(w, c) \/ Pause(w, c) \/ Prepare(w, c) \/ Commit(w, c) \/ Abort(w, c)
      PROVE  Inv'
  <2> DEFINE x == worlds[w]
  <2>1. Sound(x) /\ Admitted(x, c) /\ Served(x, c)
    BY <1>4 DEF Query, Pause, Prepare, Commit, Abort, Inv
  <2>2. x.session # "Disposed" /\ c.generation = x.born
    BY <2>1, <1>2, AdmittedLive
  <2>3. c.token # None => SoundToken(c.token)
    BY <1>2 DEF SoundCall
  <2>4. c.txn \in Txn /\ c.generation \in Generation
    BY <1>2 DEF SoundCall, Call
  <2>5. c.token # None => c.token.born = x.born
    <3>1. SUFFICES ASSUME c.token # None PROVE c.token.born = x.born
      OBVIOUS
    <3>2. Commit(w, c)
      BY <1>2, <1>4, <3>1 DEF SoundCall, Query, Pause, Prepare, Abort
    <3>3. Matches(x, c.token)
      BY <3>2 DEF Commit
    <3>4. c.token.txn \in Txn /\ c.token.generation = c.token.born
      BY <2>3, <3>1 DEF SoundToken, Token
    <3> QED BY <2>1, <3>3, <3>4 DEF Matches, Sound
  <2>6. ServedTyped' /\ OnlyOwnCalls' /\ \A d \in calls' : SoundCall(d)
    BY <1>4, <2>1, <2>5, ServedOwn
  <2>7. /\ worlds' \in [Slot -> Instance \cup {None}]
        /\ \A v \in Slot : worlds'[v] # None => Sound(worlds'[v])
    <3>1. CASE Query(w, c)
      BY <3>1 DEF Query, Inv
    <3>2. CASE Pause(w, c)
      <4>1. "Paused" \in SessionState
        BY DEF SessionState, Edges
      <4>2. Sound([x EXCEPT !.session = "Paused"])
        BY <2>1, <2>2, <4>1, SessionSound
      <4> QED BY <3>2, <4>2, PutSound DEF Pause
    <3>3. CASE Prepare(w, c)
      <4> DEFINE e == IF x.ledger[c.txn] = None THEN [generation |-> c.generation, done |-> FALSE]
                      ELSE x.ledger[c.txn]
                 y == [x EXCEPT !.ledger[c.txn] = e]
      <4>1. e \in Entry \cup {None} /\ (e # None => e.generation = x.born)
        BY <2>1, <2>2, <2>4 DEF Sound, Instance, Entry
      <4>2. Put(w, y)
        BY <3>3 DEF Prepare
      <4> HIDE DEF e
      <4>3. Sound(y)
        BY <2>1, <2>4, <4>1 DEF Sound, Instance
      <4> QED BY <4>2, <4>3, PutSound
    <3>4. CASE Commit(w, c)
      <4>1. CASE UNCHANGED worlds
        BY <4>1 DEF Inv
      <4>2. CASE Put(w, [x EXCEPT !.ledger[c.token.txn].done = TRUE, !.rev = @ + 1])
        <5>1. c.token.txn \in Txn /\ Matches(x, c.token)
          BY <1>2, <2>3, <3>4 DEF SoundCall, SoundToken, Token, Query, Commit
        <5> DEFINE t == c.token.txn
                   e == [x.ledger[t] EXCEPT !.done = TRUE]
                   y == [x EXCEPT !.ledger = [@ EXCEPT ![t] = e], !.rev = x.rev + 1]
        <5>2. x.ledger[t] \in Entry /\ x.ledger[t].generation = x.born /\ x.rev + 1 \in Nat
          BY <2>1, <5>1 DEF Sound, Instance, Matches
        <5>3. e \in Entry /\ e.generation = x.born
          BY <5>2 DEF Entry
        <5>4. Put(w, y)
          BY <4>2
        <5>5. Sound(y)
          <6> HIDE DEF e, t
          <6> QED BY <2>1, <5>1, <5>2, <5>3, LedgerSound DEF t
        <5> QED BY <5>4, <5>5, PutSound
      <4> QED BY <3>4, <4>1, <4>2 DEF Commit
    <3>5. CASE Abort(w, c)
      <4> DEFINE y == [x EXCEPT !.ledger[c.txn] = None]
      <4>1. Put(w, y)
        BY <3>5 DEF Abort
      <4>2. Sound(y)
        BY <2>1, <2>4 DEF Sound, Instance
      <4> QED BY <4>1, <4>2, PutSound
    <3> QED BY <1>4, <3>1, <3>2, <3>3, <3>4, <3>5
  <2>8. \A k \in tokens' : SoundToken(k)
    <3>1. CASE Prepare(w, c)
      <4> DEFINE k == [txn |-> c.txn, name |-> c.name, generation |-> c.generation,
                       born |-> x.born, rev |-> x.rev]
      <4>1. SoundToken(k)
        BY <1>2, <2>1, <2>2 DEF SoundToken, Token, SoundCall, Call, Sound, Instance
      <4>2. tokens' = tokens \cup {k}
        BY <3>1 DEF Prepare
      <4> QED BY <4>1, <4>2 DEF Inv
    <3>2. CASE ~Prepare(w, c)
      BY <1>4, <3>2 DEF Query, Pause, Commit, Abort, Inv
    <3> QED BY <3>1, <3>2
  <2>9. UNCHANGED <<counter, issued>>
    BY <1>4 DEF Query, Pause, Prepare, Commit, Abort
  <2> QED BY <2>6, <2>7, <2>8, <2>9 DEF Inv
<1> QED BY <1>1, <1>3, <1>4

(* Instances, calls and tokens stay bound to the generation they were born  *)
(* with: create hands it out once and finalize alone moves the guard on.    *)
THEOREM InvHolds == Spec => []Inv
<1>1. Init => Inv
  BY InitInv
<1>2. Inv /\ [Next]_vars => Inv'
  <2>1. ASSUME Inv, UNCHANGED vars PROVE Inv'
    BY <2>1 DEF vars, Inv, ServedTyped, OnlyOwnCalls
  <2> QED BY <2>1, InstanceSteps, MakeSteps, DeliverSteps DEF Next
<1> QED BY <1>1, <1>2, PTL DEF Spec

(* OnlyOwnCalls: no call and no prepared mutation reaches another world     *)
(* than the one it was made for, whatever names the worlds share.           *)
THEOREM CallsStayHome == Spec => []OnlyOwnCalls
<1>1. Inv => OnlyOwnCalls
  BY DEF Inv
<1> QED BY <1>1, InvHolds, PTL

(* Only create makes a Created instance.                                    *)
LEMMA CreatedOnce ==
    ASSUME Inv, Next
    PROVE  UNCHANGED worlds \/ \E v \in Slot : \E x :
             Put(v, x) /\ (x.session # "Created" \/ \E name \in Name : Create(v, name))
<1>1. CASE MakeStep
  BY <1>1 DEF MakeStep, Make
<1>2. CASE InstanceStep
  <2>1. PICK v \in Slot :
         \/ \E name \in Name : Create(v, name)
         \/ \E to \in SessionState : Lifecycle(v, to)
         \/ ShutdownBegin(v) \/ ShutdownDrain(v) \/ ShutdownFinalize(v)
         \/ FaultTrip(v) \/ Destroy(v)
    BY <1>2 DEF InstanceStep
  <2>2. worlds[v] # None => worlds[v] \in Instance
    BY DEF Inv
  <2>3. CASE \E name \in Name : Create(v, name)
    BY <2>3 DEF Create
  <2>4. ASSUME NEW to \in SessionState, Lifecycle(v, to)
        PROVE  \E x : Put(v, x) /\ x.session # "Created"
    BY <2>2, <2>4 DEF Lifecycle, Edges, Instance
  <2>5. CASE ShutdownBegin(v)
    BY <2>2, <2>5 DEF ShutdownBegin, Begun, Instance
  <2>6. CASE ShutdownDrain(v)
    <3>1. worlds[v] \in Instance /\ Put(v, Drained(worlds[v]))
      BY <2>2, <2>6 DEF ShutdownDrain
    <3>2. Drained(worlds[v]).session = "Snapshotted"
      BY <3>1 DEF Drained, Instance
    <3> QED BY <3>1, <3>2
  <2>7. CASE ShutdownFinalize(v)
    <3>1. worlds[v] \in Instance /\ Put(v, Finalized(worlds[v]))
      BY <2>2, <2>7 DEF ShutdownFinalize
    <3>2. Finalized(worlds[v]).session = "Disposed"
      BY <3>1 DEF Finalized, Instance
    <3> QED BY <3>1, <3>2
  <2>8. CASE FaultTrip(v) \/ Destroy(v)
    <3>1. worlds[v] \in Instance /\ Put(v, Closed(worlds[v]))
      BY <2>2, <2>8 DEF FaultTrip, Destroy
    <3>2. Closed(worlds[v]).session = "Disposed"
      BY <3>1 DEF Closed, Finalized, Drained, Instance
    <3> QED BY <3>1, <3>2
  <2> QED BY <2>1, <2>3, <2>4, <2>5, <2>6, <2>7, <2>8
<1>3. CASE DeliverStep
  <2>1. PICK c \in calls :
         \/ Refuse(c)
         \/ \E v \in {u \in Slot : worlds[u] # None} :
               Query(v, c) \/ Pause(v, c) \/ Prepare(v, c) \/ Commit(v, c) \/ Abort(v, c)
    BY <1>3 DEF DeliverStep
  <2>2. CASE Refuse(c)
    BY <2>2 DEF Refuse
  <2>3. ASSUME NEW v \in Slot, worlds[v] # None,
               Query(v, c) \/ Pause(v, c) \/ Prepare(v, c) \/ Commit(v, c) \/ Abort(v, c)
        PROVE  UNCHANGED worlds \/ \E x : Put(v, x) /\ x.session # "Created"
    <3>1. worlds[v] \in Instance
      BY <2>3 DEF Inv
    <3>2. CASE Query(v, c)
      BY <3>2 DEF Query
    <3>3. CASE Pause(v, c)
      BY <3>1, <3>3 DEF Pause, Instance
    <3>4. ASSUME c.kind \in {"prepare", "commit", "abort"}, Admitted(worlds[v], c)
          PROVE  worlds[v].session = "Running"
      BY <3>4 DEF Admitted, WriteAdmissible
    <3>5. CASE Prepare(v, c)
      BY <3>1, <3>4, <3>5 DEF Prepare, Instance
    <3>6. CASE Commit(v, c)
      <4>1. worlds[v].session = "Running"
        BY <3>4, <3>6 DEF Commit
      <4>2. CASE Put(v, [worlds[v] EXCEPT !.ledger[c.token.txn].done = TRUE, !.rev = @ + 1])
        <5>1. [worlds[v] EXCEPT !.ledger[c.token.txn].done = TRUE, !.rev = @ + 1].session = "Running"
          BY <3>1, <4>1 DEF Instance
        <5> QED BY <4>2, <5>1
      <4> QED BY <3>6, <4>2 DEF Commit
    <3>7. CASE Abort(v, c)
      BY <3>1, <3>4, <3>7 DEF Abort, Instance
    <3> QED BY <2>3, <3>2, <3>3, <3>5, <3>6, <3>7
  <2> QED BY <2>1, <2>2, <2>3
<1> QED BY <1>1, <1>2, <1>3 DEF Next

(* NeverReissued: the counter never hands a generation out twice.           *)
THEOREM GenerationsFresh == Spec => NeverReissued
<1>1. Inv /\ [Next]_vars =>
         [\A w \in Slot : (worlds'[w] # worlds[w] /\ worlds'[w].session = "Created")
             => worlds'[w].born \notin issued]_vars
  <2> SUFFICES ASSUME Inv, Next, NEW w \in Slot,
                      worlds'[w] # worlds[w], worlds'[w].session = "Created"
               PROVE  worlds'[w].born \notin issued
    OBVIOUS
  <2>1. CASE \E name \in Name : Create(w, name)
    <3>1. worlds'[w].born = counter
      BY <2>1 DEF Create, Put, Inv
    <3> QED BY <3>1 DEF Inv, Generation
  <2>2. CASE ~\E name \in Name : Create(w, name)
    <3>1. UNCHANGED worlds \/ \E v \in Slot : \E x :
             Put(v, x) /\ (x.session # "Created" \/ \E name \in Name : Create(v, name))
      BY CreatedOnce
    <3>2. worlds \in [Slot -> Instance \cup {None}]
      BY DEF Inv
    <3> QED BY <2>2, <3>1, <3>2 DEF Put
  <2> QED BY <2>1, <2>2
<1> QED BY <1>1, InvHolds, PTL DEF Spec, NeverReissued

----------------------------------------------------------------------------
(* The sink.                                                                *)

SinkInv ==
    /\ sink \in Seq(Event) /\ Len(sink) <= SinkCapacity
    /\ dropped \in Nat /\ (dropped > 0 => Len(sink) = SinkCapacity)

(* What emit appends is a first part of what it was given, and it drops     *)
(* something only when the sink is full then.                               *)
LEMMA EmitAppends ==
    ASSUME SinkInv, NEW es \in Seq(Event), Emit(es)
    PROVE  /\ SinkInv' /\ Len(sink) \in Nat /\ Len(sink') \in Nat
           /\ \A i \in 1..Len(sink') :
                 \/ i \in 1..Len(sink) /\ sink'[i] = sink[i]
                 \/ i > Len(sink) /\ i - Len(sink) \in 1..Len(es) /\ sink'[i] = es[i - Len(sink)]
<1> DEFINE room == SinkCapacity - Len(sink)
           kept == IF Len(es) <= room THEN Len(es) ELSE room
           part == SubSeq(es, 1, kept)
<1>1. Len(sink) \in Nat /\ Len(es) \in Nat /\ SinkCapacity \in Nat /\ room \in Nat
  BY WorldsAssumption, LenProperties DEF SinkInv
<1>2. kept \in Nat /\ kept <= Len(es) /\ kept <= room
  BY <1>1
<1>3. sink' = sink \o part /\ dropped' = dropped + Len(es) - kept
  BY DEF Emit
<1>4. (kept < Len(es)) => (kept = room)
  BY <1>1
<1> HIDE DEF room, kept
<1>5. part \in Seq(Event) /\ Len(part) = kept /\ \A i \in 1..kept : part[i] = es[i]
  <2>1. \A i \in 1..kept : es[i] \in Event
    BY <1>1, <1>2, ElementOfSeq
  <2> QED BY <1>1, <1>2, <2>1, SubSeqProperties
<1> HIDE DEF part
<1>6. /\ sink' \in Seq(Event) /\ Len(sink') = Len(sink) + kept
      /\ \A i \in 1..Len(sink') : sink'[i] = IF i <= Len(sink) THEN sink[i] ELSE part[i - Len(sink)]
  <2>1. sink \in Seq(Event)
    BY DEF SinkInv
  <2>2. /\ sink \o part \in Seq(Event)
        /\ Len(sink \o part) = Len(sink) + Len(part)
        /\ \A i \in 1..Len(sink) + Len(part) :
              (sink \o part)[i] = IF i <= Len(sink) THEN sink[i] ELSE part[i - Len(sink)]
    BY <1>5, <2>1, ConcatProperties, Zenon
  <2> QED BY <1>3, <1>5, <2>2, Zenon
<1>7. SinkInv'
  <2>1. room = SinkCapacity - Len(sink)
    BY DEF room
  <2>2. dropped' \in Nat /\ (dropped' > 0 => dropped > 0 \/ kept < Len(es))
    BY <1>1, <1>2, <1>3 DEF SinkInv
  <2>3. dropped > 0 => room = 0
    BY <1>1, <2>1 DEF SinkInv
  <2>4. dropped' > 0 => Len(sink') = SinkCapacity
    BY <1>1, <1>2, <1>4, <1>6, <2>1, <2>2, <2>3
  <2> QED BY <1>1, <1>2, <1>6, <2>1, <2>2, <2>4 DEF SinkInv
<1>8. ASSUME NEW i \in 1..Len(sink')
      PROVE  \/ i \in 1..Len(sink) /\ sink'[i] = sink[i]
             \/ i > Len(sink) /\ i - Len(sink) \in 1..Len(es) /\ sink'[i] = es[i - Len(sink)]
  <2>1. CASE i <= Len(sink)
    BY <1>1, <1>2, <1>6, <2>1
  <2>2. CASE i > Len(sink)
    <3>1. i - Len(sink) \in 1..kept /\ i - Len(sink) \in 1..Len(es)
      BY <1>1, <1>2, <1>6, <2>2
    <3>2. sink'[i] = part[i - Len(sink)]
      BY <1>1, <1>6, <2>2
    <3> QED BY <1>5, <2>2, <3>1, <3>2
  <2> QED BY <1>1, <1>2, <1>6, <2>1, <2>2
<1> QED BY <1>1, <1>2, <1>6, <1>7, <1>8

(* What the sink may hold of an instance by its session.                    *)
Told(s, e) ==
    \/ s = "Disposed"
    \/ s = "Snapshotted" /\ e \in {"Drain", "FinalSnapshotTaken"}
    \/ s = "Draining" /\ e = "Drain"

(* The order of two events of one generation.                               *)
Before(d, e) ==
    /\ d # e /\ d.event # "Dispose"
    /\ e.event # "Failure" => Rank(d) < Rank(e)

(* Beside the order: the sink tells no generation that was not handed out,  *)
(* nothing an instance has not come to, and one instance per generation.    *)
OrderInv ==
    /\ EventsInOrder
    /\ \A i \in 1..Len(sink) : sink[i].generation < counter
    /\ \A w \in Slot : worlds[w] # None => worlds[w].born < counter
    /\ \A v, w \in Slot : (worlds[v] # None /\ worlds[w] # None /\ v # w)
                            => worlds[v].born # worlds[w].born
    /\ \A w \in Slot : \A i \in 1..Len(sink) :
          (worlds[w] # None /\ sink[i].generation = worlds[w].born)
              => Told(worlds[w].session, sink[i].event)

(* The events a step tells of an instance: ordered, and later than all that *)
(* may have been told of it.                                                *)
Tells(x, es) ==
    /\ es \in Seq(Event)
    /\ \A k \in 1..Len(es) : es[k].generation = x.born
    /\ \A j, k \in 1..Len(es) : j < k => Before(es[j], es[k])
    /\ \A k \in 1..Len(es) : \A d \in Event :
          (d.generation = x.born /\ Told(x.session, d.event)) => Before(d, es[k])

(* A step that tells of an instance and moves it on.                        *)
LEMMA TellStep ==
    ASSUME Inv, SinkInv, OrderInv, NEW w \in Slot, worlds[w] # None, NEW y, y # None, Put(w, y),
           y.born = worlds[w].born, counter' = counter,
           NEW es, Tells(worlds[w], es), Emit(es),
           \A e : Told(worlds[w].session, e) => Told(y.session, e),
           \A k \in 1..Len(es) : Told(y.session, es[k].event)
    PROVE  SinkInv' /\ OrderInv'
<1> DEFINE x == worlds[w]
<1>1. /\ SinkInv' /\ Len(sink) \in Nat /\ Len(sink') \in Nat
      /\ \A i \in 1..Len(sink') :
            \/ i \in 1..Len(sink) /\ sink'[i] = sink[i]
            \/ i > Len(sink) /\ i - Len(sink) \in 1..Len(es) /\ sink'[i] = es[i - Len(sink)]
  BY EmitAppends DEF Tells
<1>2. Len(es) \in Nat /\ \A i \in 1..Len(sink) : sink[i] \in Event
  BY LenProperties, ElementOfSeq DEF Tells, SinkInv
<1>3. x \in Instance /\ x.born < counter /\ worlds \in [Slot -> Instance \cup {None}]
  BY DEF Inv, Sound, OrderInv
<1>4. worlds'[w] = y /\ \A v \in Slot : v # w => worlds'[v] = worlds[v]
  BY <1>3 DEF Put
<1>5. ASSUME NEW i \in 1..Len(sink'), NEW j \in 1..Len(sink'), i < j,
             sink'[i].generation = sink'[j].generation
      PROVE  Before(sink'[i], sink'[j])
  <2>1. CASE j \in 1..Len(sink)
    <3>1. i \in 1..Len(sink) /\ sink'[i] = sink[i] /\ sink'[j] = sink[j]
      BY <1>1, <1>5, <2>1
    <3>2. EventsInOrder /\ sink[i].generation = sink[j].generation
      BY <1>5, <3>1 DEF OrderInv
    <3>3. Before(sink[i], sink[j])
      BY <1>5, <2>1, <3>1, <3>2, Zenon DEF EventsInOrder, Before
    <3> QED BY <3>1, <3>3
  <2>2. CASE j > Len(sink) /\ i \in 1..Len(sink)
    <3>1. j - Len(sink) \in 1..Len(es) /\ sink'[j] = es[j - Len(sink)] /\ sink'[i] = sink[i]
      BY <1>1, <2>2
    <3>2. sink[i].generation = x.born /\ Told(x.session, sink[i].event)
      BY <1>5, <2>2, <3>1 DEF Tells, OrderInv
    <3> QED BY <1>2, <2>2, <3>1, <3>2 DEF Tells
  <2>3. CASE j > Len(sink) /\ i > Len(sink)
    <3>1. /\ j - Len(sink) \in 1..Len(es) /\ sink'[j] = es[j - Len(sink)]
          /\ i - Len(sink) \in 1..Len(es) /\ sink'[i] = es[i - Len(sink)]
      BY <1>1, <2>3
    <3>2. i - Len(sink) < j - Len(sink)
      BY <1>1, <1>5
    <3> QED BY <3>1, <3>2 DEF Tells
  <2> QED BY <1>1, <2>1, <2>2, <2>3
<1>6. EventsInOrder'
  BY <1>5 DEF EventsInOrder, Before
<1>7. ASSUME NEW i \in 1..Len(sink')
      PROVE  \/ i \in 1..Len(sink) /\ sink'[i] = sink[i]
             \/ sink'[i].generation = x.born /\ Told(y.session, sink'[i].event)
  BY <1>1 DEF Tells
<1>8. (\A i \in 1..Len(sink) : sink[i].generation < counter)'
  BY <1>3, <1>7 DEF OrderInv
<1>9. /\ (\A v \in Slot : worlds[v] # None => worlds[v].born < counter)'
      /\ (\A u, v \in Slot : (worlds[u] # None /\ worlds[v] # None /\ u # v)
                            => worlds[u].born # worlds[v].born)'
  BY <1>3, <1>4 DEF OrderInv
<1>10. ASSUME NEW v \in Slot, NEW i \in 1..Len(sink'), worlds'[v] # None,
              sink'[i].generation = worlds'[v].born
       PROVE  Told(worlds'[v].session, sink'[i].event)
  <2>1. CASE v = w
    BY <1>4, <1>7, <1>10, <2>1 DEF OrderInv
  <2>2. CASE v # w
    <3>1. worlds'[v] = worlds[v] /\ worlds[v].born # x.born
      BY <1>4, <1>10, <2>2 DEF OrderInv
    <3> QED BY <1>7, <1>10, <3>1 DEF OrderInv
  <2> QED BY <2>1, <2>2
<1> QED BY <1>1, <1>6, <1>8, <1>9, <1>10 DEF OrderInv

(* A step that tells nothing and moves an instance on.                      *)
LEMMA SilentStep ==
    ASSUME Inv, SinkInv, OrderInv, NEW w \in Slot, worlds[w] # None, NEW y, y # None, Put(w, y),
           y.born = worlds[w].born, UNCHANGED <<counter, sink, dropped>>,
           \A e : Told(worlds[w].session, e) => Told(y.session, e)
    PROVE  SinkInv' /\ OrderInv'
<1>1. worlds \in [Slot -> Instance \cup {None}]
  BY DEF Inv
<1>2. worlds'[w] = y /\ \A v \in Slot : v # w => worlds'[v] = worlds[v]
  BY <1>1 DEF Put
<1>3. SinkInv' /\ EventsInOrder'
  BY DEF SinkInv, OrderInv, EventsInOrder
<1> QED BY <1>2, <1>3 DEF OrderInv

(* The order by the names of two events.                                    *)
Sooner(d, e) ==
    \/ d = "Failure" /\ e \in {"Drain", "FinalSnapshotTaken", "Dispose"}
    \/ d = "Drain" /\ e \in {"Failure", "FinalSnapshotTaken", "Dispose"}
    \/ d = "FinalSnapshotTaken" /\ e \in {"Failure", "Dispose"}

(* Names decide.                                                            *)
LEMMA SoonerBefore ==
    ASSUME NEW d, NEW e, Sooner(d.event, e.event)
    PROVE  Before(d, e)
<1>1. d # e
  BY DEF Sooner
<1>2. /\ d.event = "Drain" => Rank(d) = 1
      /\ d.event = "FinalSnapshotTaken" => Rank(d) = 2
      /\ d.event = "Failure" => Rank(d) = 0
      /\ e.event = "Drain" => Rank(e) = 1
      /\ e.event = "FinalSnapshotTaken" => Rank(e) = 2
      /\ e.event = "Dispose" => Rank(e) = 3
  BY DEF Rank
<1> QED BY <1>1, <1>2 DEF Sooner, Before

(* What a step tells, with the names it tells.                              *)
TellsOf(x, es, E) == Tells(x, es) /\ \A k \in 1..Len(es) : es[k].event \in E

(* One event that comes after all that was told.                            *)
LEMMA TellsOne ==
    ASSUME NEW x, NEW e \in Event, e.generation = x.born,
           \A d : Told(x.session, d) => Sooner(d, e.event)
    PROVE  TellsOf(x, <<e>>, {e.event})
<1>1. <<e>> \in Seq(Event) /\ Len(<<e>>) = 1 /\ <<e>>[1] = e
  OBVIOUS
<1>2. \A k \in 1..Len(<<e>>) : k = 1 /\ <<e>>[k] = e
  BY <1>1
<1>3. \A j, k \in 1..Len(<<e>>) : ~(j < k)
  BY <1>2
<1>4. \A k \in 1..Len(<<e>>) : \A d \in Event :
          (d.generation = x.born /\ Told(x.session, d.event)) => Before(d, <<e>>[k])
  BY <1>2, SoonerBefore
<1> QED BY <1>1, <1>2, <1>3, <1>4 DEF TellsOf, Tells

(* Two lists of which the names of one come before those of the other.      *)
LEMMA TellsBoth ==
    ASSUME NEW x, NEW es, NEW fs, NEW E, NEW F, TellsOf(x, es, E), TellsOf(x, fs, F),
           \A d \in E, e \in F : Sooner(d, e)
    PROVE  TellsOf(x, es \o fs, E \cup F)
<1>1. es \in Seq(Event) /\ fs \in Seq(Event) /\ Len(es) \in Nat /\ Len(fs) \in Nat
  BY LenProperties DEF TellsOf, Tells
<1> DEFINE gs == es \o fs
<1>2. /\ gs \in Seq(Event) /\ Len(gs) = Len(es) + Len(fs)
      /\ \A i \in 1..Len(es) + Len(fs) : gs[i] = IF i <= Len(es) THEN es[i] ELSE fs[i - Len(es)]
  BY <1>1, ConcatProperties, Zenon
<1> HIDE DEF gs
<1>3. \A i \in 1..Len(gs) :
         \/ i \in 1..Len(es) /\ gs[i] = es[i]
         \/ i > Len(es) /\ i - Len(es) \in 1..Len(fs) /\ gs[i] = fs[i - Len(es)]
  BY <1>1, <1>2
<1>4. ASSUME NEW i \in 1..Len(gs) PROVE gs[i].generation = x.born /\ gs[i].event \in E \cup F
  <2>1. CASE i \in 1..Len(es) /\ gs[i] = es[i]
    BY <2>1 DEF TellsOf, Tells
  <2>2. CASE i - Len(es) \in 1..Len(fs) /\ gs[i] = fs[i - Len(es)]
    BY <2>2 DEF TellsOf, Tells
  <2> QED BY <1>3, <2>1, <2>2
<1>5. ASSUME NEW j \in 1..Len(gs), NEW k \in 1..Len(gs), j < k PROVE Before(gs[j], gs[k])
  <2>1. CASE k \in 1..Len(es)
    <3>1. j \in 1..Len(es) /\ gs[j] = es[j] /\ gs[k] = es[k]
      BY <1>1, <1>3, <1>5, <2>1
    <3> QED BY <1>5, <2>1, <3>1 DEF TellsOf, Tells
  <2>2. CASE k > Len(es) /\ j \in 1..Len(es)
    <3>1. gs[j].event \in E /\ gs[k].event \in F
      BY <1>1, <1>3, <2>2 DEF TellsOf
    <3> QED BY <3>1, SoonerBefore
  <2>3. CASE k > Len(es) /\ j > Len(es)
    <3>1. /\ j - Len(es) \in 1..Len(fs) /\ gs[j] = fs[j - Len(es)]
          /\ k - Len(es) \in 1..Len(fs) /\ gs[k] = fs[k - Len(es)] /\ j - Len(es) < k - Len(es)
      <4>1. j \notin 1..Len(es) /\ k \notin 1..Len(es) /\ j - Len(es) < k - Len(es)
        BY <1>1, <1>5, <2>3
      <4> QED BY <1>3, <4>1
    <3> QED BY <3>1 DEF TellsOf, Tells
  <2> QED BY <1>1, <1>3, <2>1, <2>2, <2>3
<1>6. ASSUME NEW k \in 1..Len(gs), NEW d \in Event, d.generation = x.born, Told(x.session, d.event)
      PROVE  Before(d, gs[k])
  BY <1>3, <1>6 DEF TellsOf, Tells
<1> QED BY <1>2, <1>4, <1>5, <1>6 DEF TellsOf, Tells, gs

(* Nothing is told.                                                         *)
LEMMA TellsNone == ASSUME NEW x PROVE TellsOf(x, <<>>, {})
BY DEF TellsOf, Tells

(* Every list of events a shutdown or a fault emits is told in order.       *)
LEMMA Endings ==
    ASSUME NEW x, Sound(x)
    PROVE  /\ CanBegin(x) => TellsOf(x, <<Ev(x, "Drain")>>, {"Drain"})
           /\ x.session = "Draining"
                => TellsOf(x, <<Ev(x, "FinalSnapshotTaken")>>, {"FinalSnapshotTaken"})
           /\ x.session = "Snapshotted" => TellsOf(x, <<DisposeEvent(x)>>, {"Dispose"})
           /\ CanClose(x) => Tells(x, <<Ev(x, "Failure")>> \o Remaining(x))
<1>1. CanBegin(x) <=> x.session \in {"Running", "Paused"}
  BY DEF CanBegin, Edges
<1>2. ASSUME CanClose(x), NEW n \in {"Failure", "Drain", "FinalSnapshotTaken", "Dispose"}
      PROVE  Ev(x, n) \in Event /\ Ev(x, n).generation = x.born /\ Ev(x, n).event = n
  BY <1>1, <1>2 DEF CanClose, Sound, Instance, Ev, Event
<1>3. ASSUME CanClose(x), NEW n \in {"Failure", "Drain", "FinalSnapshotTaken", "Dispose"},
             \A d : Told(x.session, d) => Sooner(d, n)
      PROVE  TellsOf(x, <<Ev(x, n)>>, {n})
  BY <1>2, <1>3, TellsOne
<1>4. CanBegin(x) => TellsOf(x, <<Ev(x, "Drain")>>, {"Drain"})
  BY <1>1, <1>3 DEF CanClose, Told
<1>5. CanBegin(x) \/ x.session = "Draining"
        => TellsOf(x, <<Ev(x, "FinalSnapshotTaken")>>, {"FinalSnapshotTaken"})
  BY <1>1, <1>3 DEF CanClose, Told, Sooner
<1>6. CanClose(x) => TellsOf(x, <<DisposeEvent(x)>>, {"Dispose"})
  BY <1>1, <1>3 DEF CanClose, Told, Sooner, DisposeEvent
<1>7. CanClose(x) => TellsOf(x, <<Ev(x, "Failure")>>, {"Failure"})
  BY <1>1, <1>3 DEF CanClose, Told, Sooner
<1>8. ASSUME CanClose(x) PROVE Tells(x, <<Ev(x, "Failure")>> \o Remaining(x))
  <2> DEFINE as == IF CanBegin(x) THEN <<Ev(x, "Drain")>> ELSE <<>>
             bs == IF x.session # "Snapshotted" THEN <<Ev(x, "FinalSnapshotTaken")>> ELSE <<>>
             cs == <<DisposeEvent(x)>>
             ds == <<Ev(x, "Failure")>>
  <2>1. \E A \in SUBSET {"Drain"} : TellsOf(x, as, A)
    BY <1>4, TellsNone
  <2>2. \E B \in SUBSET {"FinalSnapshotTaken"} : TellsOf(x, bs, B)
    BY <1>5, <1>8, TellsNone DEF CanClose
  <2>3. TellsOf(x, cs, {"Dispose"}) /\ TellsOf(x, ds, {"Failure"})
    BY <1>6, <1>7, <1>8
  <2>4. Remaining(x) = (as \o bs) \o cs
    BY DEF Remaining
  <2> HIDE DEF as, bs, cs, ds
  <2>5. PICK A \in SUBSET {"Drain"}, B \in SUBSET {"FinalSnapshotTaken"} :
           TellsOf(x, as, A) /\ TellsOf(x, bs, B)
    BY <2>1, <2>2
  <2>6. TellsOf(x, as \o bs, A \cup B)
    <3>1. \A d \in A, e \in B : Sooner(d, e)
      BY DEF Sooner
    <3> QED BY <2>5, <3>1, TellsBoth
  <2>7. TellsOf(x, (as \o bs) \o cs, (A \cup B) \cup {"Dispose"})
    <3>1. \A d \in A \cup B, e \in {"Dispose"} : Sooner(d, e)
      BY DEF Sooner
    <3> QED BY <2>3, <2>6, <3>1, TellsBoth
  <2>8. TellsOf(x, ds \o Remaining(x), {"Failure"} \cup ((A \cup B) \cup {"Dispose"}))
    <3>1. \A d \in {"Failure"}, e \in (A \cup B) \cup {"Dispose"} : Sooner(d, e)
      BY DEF Sooner
    <3> QED BY <2>3, <2>4, <2>7, <3>1, TellsBoth
  <2> QED BY <2>8 DEF TellsOf, ds
<1> QED BY <1>4, <1>5, <1>6, <1>8 DEF CanClose

(* What the ends of an instance leave of it.                                *)
LEMMA Ended ==
    ASSUME NEW x \in Instance
    PROVE  /\ Begun(x).born = x.born /\ Begun(x).session = "Draining"
           /\ Drained(x) \in [name : Name, generation : Generation, born : {x.born},
                              session : {"Snapshotted"}, ledger : {AbortInFlight(x.ledger)}, rev : Nat]
           /\ Drained(x).born = x.born /\ Drained(x).session = "Snapshotted"
           /\ Finalized(x).born = x.born /\ Finalized(x).session = "Disposed"
           /\ Closed(x).born = x.born /\ Closed(x).session = "Disposed"
<1>1. Begun(x).born = x.born /\ Begun(x).session = "Draining"
  BY DEF Begun, Instance
<1>2. /\ Drained(x) \in [name : Name, generation : Generation, born : {x.born},
                         session : {"Snapshotted"}, ledger : {AbortInFlight(x.ledger)}, rev : Nat]
      /\ Drained(x).born = x.born /\ Drained(x).session = "Snapshotted"
  BY DEF Drained, Instance
<1>3. Finalized(x).born = x.born /\ Finalized(x).session = "Disposed"
  BY DEF Finalized, Instance
<1>4. Finalized(Drained(x)).born = x.born /\ Finalized(Drained(x)).session = "Disposed"
  <2> DEFINE y == Drained(x)
  <2>1. y \in [name : Name, generation : Generation, born : {x.born},
               session : {"Snapshotted"}, ledger : {AbortInFlight(x.ledger)}, rev : Nat]
    BY <1>2
  <2> HIDE DEF y
  <2>2. Finalized(y).born = x.born /\ Finalized(y).session = "Disposed"
    BY <2>1 DEF Finalized
  <2> QED BY <2>2 DEF y
<1>5. Closed(x).born = x.born /\ Closed(x).session = "Disposed"
  BY <1>3, <1>4 DEF Closed
<1> QED BY <1>1, <1>2, <1>3, <1>5

(* Instances end in order, and a new one has a generation of its own.       *)
LEMMA InstanceOrder ==
    ASSUME Inv, Inv', SinkInv, OrderInv, InstanceStep
    PROVE  SinkInv' /\ OrderInv'
<1>1. PICK w \in Slot :
         \/ \E name \in Name : Create(w, name)
         \/ \E to \in SessionState : Lifecycle(w, to)
         \/ ShutdownBegin(w) \/ ShutdownDrain(w) \/ ShutdownFinalize(w)
         \/ FaultTrip(w) \/ Destroy(w)
  BY DEF InstanceStep
<1> DEFINE x == worlds[w]
<1>2. x # None => Sound(x) /\ x \in Instance
  BY DEF Inv, Sound
<1>3. worlds \in [Slot -> Instance \cup {None}] /\ worlds' \in [Slot -> Instance \cup {None}]
  BY DEF Inv
<1>4. ASSUME NEW name \in Name, Create(w, name) PROVE SinkInv' /\ OrderInv'
  <2>1. counter \in Nat /\ counter' = counter + 1 /\ UNCHANGED <<sink, dropped>>
    BY <1>4 DEF Create, NextCounter, Inv, Generation
  <2>2. /\ worlds'[w].born = counter
        /\ \A v \in Slot : v # w => worlds'[v] = worlds[v]
    BY <1>3, <1>4 DEF Create, Put
  <2>3. SinkInv' /\ EventsInOrder'
    BY <2>1 DEF SinkInv, OrderInv, EventsInOrder
  <2>4. \A v \in Slot : worlds[v] # None => worlds[v].born \in Nat /\ worlds[v].born < counter
    BY <1>3 DEF OrderInv, Instance, Generation
  <2>5. \A i \in 1..Len(sink) : sink[i].generation \in Nat /\ sink[i].generation < counter
    <3>1. \A i \in 1..Len(sink) : sink[i] \in Event
      BY ElementOfSeq DEF SinkInv
    <3> QED BY <3>1 DEF OrderInv, Event, Generation
  <2>6. (\A i \in 1..Len(sink) : sink[i].generation < counter)'
    BY <2>1, <2>5
  <2>7. (\A v \in Slot : worlds[v] # None => worlds[v].born < counter)'
    BY <2>1, <2>2, <2>4
  <2>8. (\A u, v \in Slot : (worlds[u] # None /\ worlds[v] # None /\ u # v)
                            => worlds[u].born # worlds[v].born)'
    BY <2>1, <2>2, <2>4 DEF OrderInv
  <2>9. (\A v \in Slot : \A i \in 1..Len(sink) :
          (worlds[v] # None /\ sink[i].generation = worlds[v].born)
              => Told(worlds[v].session, sink[i].event))'
    BY <2>1, <2>2, <2>5 DEF OrderInv
  <2> QED BY <2>3, <2>6, <2>7, <2>8, <2>9 DEF OrderInv
<1>5. ASSUME NEW to \in SessionState, Lifecycle(w, to) PROVE SinkInv' /\ OrderInv'
  <2> DEFINE y == [x EXCEPT !.session = to]
  <2>1. x # None /\ <<x.session, to>> \in Edges /\ Put(w, y) /\ UNCHANGED <<counter, sink, dropped>>
    BY <1>5 DEF Lifecycle
  <2>2. y.born = x.born /\ y.session = to /\ y \in Instance
    BY <1>2, <2>1 DEF Instance
  <2>3. y # None
    BY <2>2, WorldsAssumption
  <2>4. \A e : Told(x.session, e) => Told(y.session, e)
    BY <2>1, <2>2 DEF Told, Edges
  <2> HIDE DEF y
  <2> QED BY <2>1, <2>2, <2>3, <2>4, SilentStep
<1>6. CASE ShutdownBegin(w)
  <2> DEFINE y == Begun(x)
  <2>1. x # None /\ CanBegin(x) /\ Put(w, y) /\ Emit(<<Ev(x, "Drain")>>) /\ counter' = counter
    BY <1>6 DEF ShutdownBegin
  <2>2. y.born = x.born /\ y.session = "Draining" /\ y # None
    <3>1. x.session # "Disposed" /\ "Draining" \in SessionState
      BY <2>1 DEF CanBegin, Edges, SessionState
    <3>2. Sound(y)
      BY <1>2, <2>1, <3>1, SessionSound DEF Begun
    <3> QED BY <1>2, <2>1, <3>2, Ended, WorldsAssumption DEF Sound
  <2>3. Tells(x, <<Ev(x, "Drain")>>) /\ \A k \in 1..Len(<<Ev(x, "Drain")>>) : <<Ev(x, "Drain")>>[k].event = "Drain"
    BY <1>2, <2>1, Endings DEF TellsOf
  <2>4. \A e : Told(x.session, e) => Told(y.session, e)
    BY <2>1, <2>2 DEF Told, CanBegin, Edges
  <2>5. Told(y.session, "Drain")
    BY <2>2 DEF Told
  <2> HIDE DEF y
  <2> QED BY <2>1, <2>2, <2>3, <2>4, <2>5, TellStep
<1>7. CASE ShutdownDrain(w)
  <2> DEFINE y == Drained(x)
             es == <<Ev(x, "FinalSnapshotTaken")>>
  <2>1. x # None /\ x.session = "Draining" /\ Put(w, y) /\ Emit(es) /\ counter' = counter
    BY <1>7 DEF ShutdownDrain
  <2>2. y.born = x.born /\ y.session = "Snapshotted" /\ Sound(y)
    BY <1>2, <2>1, Ended, DrainSound
  <2>3. y # None
    BY <2>2, WorldsAssumption DEF Sound
  <2>4. Tells(x, es) /\ \A k \in 1..Len(es) : es[k].event = "FinalSnapshotTaken"
    BY <1>2, <2>1, Endings DEF TellsOf
  <2>5. \A e : Told(x.session, e) => Told(y.session, e)
    BY <2>1, <2>2 DEF Told
  <2>6. Told(y.session, "FinalSnapshotTaken")
    BY <2>2 DEF Told
  <2> HIDE DEF y, es
  <2> QED BY <2>1, <2>2, <2>3, <2>4, <2>5, <2>6, TellStep
<1>8. CASE ShutdownFinalize(w)
  <2> DEFINE y == Finalized(x)
             es == <<DisposeEvent(x)>>
  <2>1. x # None /\ x.session = "Snapshotted" /\ Put(w, y) /\ Emit(es) /\ counter' = counter
    BY <1>8 DEF ShutdownFinalize
  <2>2. y.born = x.born /\ y.session = "Disposed" /\ Sound(y)
    BY <1>2, <2>1, Ended, BumpSound
  <2>3. y # None
    BY <2>2, WorldsAssumption DEF Sound
  <2>4. Tells(x, es) /\ \A e : Told(y.session, e)
    BY <1>2, <2>1, <2>2, Endings DEF TellsOf, Told
  <2> HIDE DEF y, es
  <2> QED BY <2>1, <2>2, <2>3, <2>4, TellStep
<1>9. CASE FaultTrip(w) \/ Destroy(w)
  <2> DEFINE y == Closed(x)
             es == <<Ev(x, "Failure")>> \o Remaining(x)
  <2>1. x # None /\ CanClose(x) /\ Put(w, y) /\ counter' = counter
    BY <1>9 DEF FaultTrip, Destroy
  <2>2. y.born = x.born /\ y.session = "Disposed" /\ Sound(y)
    BY <1>2, <2>1, Ended, ClosedSound
  <2>3. y # None
    BY <2>2, WorldsAssumption DEF Sound
  <2>4. Tells(x, es) /\ \A e : Told(y.session, e)
    BY <1>2, <2>1, <2>2, Endings DEF Told
  <2>5. Emit(es) \/ UNCHANGED <<sink, dropped>>
    BY <1>9 DEF FaultTrip, Destroy
  <2> HIDE DEF y, es
  <2>6. CASE Emit(es)
    BY <2>1, <2>2, <2>3, <2>4, <2>6, TellStep
  <2>7. CASE UNCHANGED <<sink, dropped>>
    BY <2>1, <2>2, <2>3, <2>4, <2>7, SilentStep
  <2> QED BY <2>5, <2>6, <2>7
<1> QED BY <1>1, <1>4, <1>5, <1>6, <1>7, <1>8, <1>9

(* A delivered call keeps an instance's birth number, and moves its session *)
(* at most from Running to Paused.                                          *)
LEMMA DeliverOrder ==
    ASSUME Inv, Inv', SinkInv, OrderInv, DeliverStep
    PROVE  SinkInv' /\ OrderInv'
<1>1. PICK c \in calls :
         \/ Refuse(c)
         \/ \E w \in {v \in Slot : worlds[v] # None} :
               Query(w, c) \/ Pause(w, c) \/ Prepare(w, c) \/ Commit(w, c) \/ Abort(w, c)
  BY DEF DeliverStep
<1>2. ASSUME UNCHANGED <<counter, worlds, sink, dropped>> PROVE SinkInv' /\ OrderInv'
  BY <1>2 DEF SinkInv, OrderInv, EventsInOrder
<1>3. CASE Refuse(c)
  BY <1>2, <1>3 DEF Refuse
<1>4. ASSUME NEW w \in Slot, worlds[w] # None,
             Query(w, c) \/ Pause(w, c) \/ Prepare(w, c) \/ Commit(w, c) \/ Abort(w, c)
      PROVE  SinkInv' /\ OrderInv'
  <2> DEFINE x == worlds[w]
  <2>1. x \in Instance /\ UNCHANGED <<counter, sink, dropped>>
    BY <1>4 DEF Inv, Query, Pause, Prepare, Commit, Abort
  <2>2. UNCHANGED worlds \/ \E y : Put(w, y) /\ y.born = x.born /\ y.session \in {x.session, "Paused"}
    <3>1. CASE Query(w, c)
      BY <3>1 DEF Query
    <3>2. CASE Pause(w, c)
      BY <2>1, <3>2 DEF Pause, Instance
    <3>3. CASE Prepare(w, c)
      <4> DEFINE e == IF x.ledger[c.txn] = None THEN [generation |-> c.generation, done |-> FALSE]
                      ELSE x.ledger[c.txn]
                 y == [x EXCEPT !.ledger[c.txn] = e]
      <4>1. Put(w, y)
        BY <3>3 DEF Prepare
      <4> HIDE DEF e
      <4>2. y.born = x.born /\ y.session = x.session
        BY <2>1 DEF Instance
      <4> QED BY <4>1, <4>2
    <3>4. CASE Commit(w, c)
      <4>1. CASE Put(w, [x EXCEPT !.ledger[c.token.txn].done = TRUE, !.rev = @ + 1])
        <5> DEFINE y == [x EXCEPT !.ledger[c.token.txn].done = TRUE, !.rev = @ + 1]
        <5>1. y.born = x.born /\ y.session = x.session
          BY <2>1 DEF Instance
        <5> QED BY <4>1, <5>1
      <4> QED BY <3>4, <4>1 DEF Commit
    <3>5. CASE Abort(w, c)
      <4> DEFINE y == [x EXCEPT !.ledger[c.txn] = None]
      <4>1. Put(w, y) /\ y.born = x.born /\ y.session = x.session
        BY <2>1, <3>5 DEF Abort, Instance
      <4> QED BY <4>1
    <3> QED BY <1>4, <3>1, <3>2, <3>3, <3>4, <3>5
  <2>3. x.session # "Disposed" /\ x.session # "Draining" /\ x.session # "Snapshotted"
    <3>1. Admitted(x, c) /\ SoundCall(c)
      BY <1>4 DEF Query, Pause, Prepare, Commit, Abort, Inv
    <3> QED BY <3>1 DEF Admitted, QueryAdmissible, WriteAdmissible, Edges, SoundCall, Call
  <2>4. ASSUME NEW y, Put(w, y), y.born = x.born, y.session \in {x.session, "Paused"}
        PROVE  SinkInv' /\ OrderInv'
    <3>1. y = None \/ (worlds'[w] = y /\ y # None)
      BY <2>4 DEF Put, Inv
    <3>2. \A e : Told(x.session, e) => Told(y.session, e)
      BY <2>3, <2>4 DEF Told
    <3>3. CASE y # None
      BY <1>4, <2>1, <2>4, <3>2, <3>3, SilentStep
    <3>4. CASE y = None
      <4>1. /\ worlds'[w] = None /\ \A v \in Slot : v # w => worlds'[v] = worlds[v]
        BY <2>4, <3>4 DEF Put, Inv
      <4>2. SinkInv' /\ EventsInOrder'
        BY <2>1 DEF SinkInv, OrderInv, EventsInOrder
      <4> QED BY <2>1, <4>1, <4>2 DEF OrderInv
    <3> QED BY <3>3, <3>4
  <2> QED BY <1>2, <2>1, <2>2, <2>4
<1> QED BY <1>1, <1>3, <1>4

(* Calls are made one at a time, and only while there is room.              *)
CallsInv == IsFiniteSet(calls) /\ Cardinality(calls) <= MaxCalls

(* A call that is made fits, every other step takes calls away or none.     *)
LEMMA StepCalls == CallsInv /\ [Next]_vars => CallsInv'
<1> SUFFICES ASSUME CallsInv, [Next]_vars PROVE CallsInv'
  OBVIOUS
<1>1. CASE calls' \subseteq calls
  <2>1. IsFiniteSet(calls') /\ Cardinality(calls') <= Cardinality(calls)
    BY <1>1, FS_Subset DEF CallsInv
  <2>2. Cardinality(calls') \in Nat /\ Cardinality(calls) \in Nat /\ MaxCalls \in Nat
    BY <2>1, FS_CardinalityType, WorldsAssumption DEF CallsInv
  <2> QED BY <2>1, <2>2 DEF CallsInv
<1>2. CASE MakeStep
  <2>1. Cardinality(calls) < MaxCalls /\ \E c : calls' = calls \cup {c}
    BY <1>2 DEF MakeStep, Make
  <2>2. PICK c : calls' = calls \cup {c}
    BY <2>1
  <2>3. IsFiniteSet(calls') /\ Cardinality(calls') <= Cardinality(calls) + 1
    <3>1. Cardinality(calls) \in Nat /\ IsFiniteSet(calls)
      BY FS_CardinalityType DEF CallsInv
    <3> QED BY <2>2, <3>1, FS_AddElement
  <2>4. Cardinality(calls') \in Nat /\ Cardinality(calls) \in Nat /\ MaxCalls \in Nat
    BY <2>3, FS_CardinalityType, WorldsAssumption DEF CallsInv
  <2> QED BY <2>1, <2>3, <2>4 DEF CallsInv
<1>3. DeliverStep => calls' \subseteq calls
  <2>1. DeliverStep => \E c : calls' = calls \ {c}
    <3>1. \A c, w : Query(w, c) \/ Pause(w, c) \/ Prepare(w, c) \/ Commit(w, c) \/ Abort(w, c)
                      => calls' = calls \ {c}
      BY DEF Query, Pause, Prepare, Commit, Abort, Served
    <3> QED BY <3>1 DEF DeliverStep, Refuse
  <2> QED BY <2>1
<1>4. InstanceStep => calls' \subseteq calls
  BY DEF InstanceStep, Create, Lifecycle, ShutdownBegin, ShutdownDrain, ShutdownFinalize,
         FaultTrip, Destroy
<1> QED BY <1>1, <1>2, <1>3, <1>4 DEF Next, vars

(* An empty sink, no call, no world.                                        *)
LEMMA InitOrder == Init => SinkInv /\ OrderInv /\ CallsInv
<1> SUFFICES ASSUME Init PROVE SinkInv /\ OrderInv /\ CallsInv
  OBVIOUS
<1>1. sink = <<>> /\ Len(sink) = 0 /\ sink \in Seq(Event) /\ dropped = 0
  BY DEF Init
<1>2. IsFiniteSet(calls) /\ Cardinality(calls) = 0
  BY FS_EmptySet DEF Init
<1>3. \A i : i \notin 1..Len(sink)
  BY <1>1
<1>4. EventsInOrder
  BY <1>3 DEF EventsInOrder
<1> QED BY <1>1, <1>2, <1>3, <1>4, WorldsAssumption DEF Init, SinkInv, OrderInv, CallsInv

(* The sink and the calls in flight keep their bounds and the order.        *)
LEMMA StepOrder ==
    Inv /\ Inv' /\ SinkInv /\ OrderInv /\ [Next]_vars => SinkInv' /\ OrderInv'
<1> SUFFICES ASSUME Inv, Inv', SinkInv, OrderInv, [Next]_vars PROVE SinkInv' /\ OrderInv'
  OBVIOUS
<1>1. CASE UNCHANGED <<counter, worlds, sink, dropped>>
  BY <1>1 DEF SinkInv, OrderInv, EventsInOrder
<1>2. MakeStep => UNCHANGED <<counter, worlds, sink, dropped>>
  BY DEF MakeStep, Make
<1> QED BY <1>1, <1>2, InstanceOrder, DeliverOrder DEF Next, vars

(* The inductive invariants of the sink and of the calls hold.              *)
LEMMA OrderHolds == Spec => [](Inv /\ SinkInv /\ OrderInv /\ CallsInv)
<1>1. Init => SinkInv /\ OrderInv /\ CallsInv
  BY InitOrder
<1>2. Inv /\ Inv' /\ SinkInv /\ OrderInv /\ CallsInv /\ [Next]_vars
         => SinkInv' /\ OrderInv' /\ CallsInv'
  BY StepOrder, StepCalls
<1> QED BY <1>1, <1>2, InvHolds, PTL DEF Spec

(* TypeOK: every variable has its type, WorldEventSink never holds more     *)
(* than its capacity, and only a full sink drops events.                    *)
THEOREM TypeCorrect == Spec => []TypeOK
<1>1. Inv /\ SinkInv /\ OrderInv /\ CallsInv => TypeOK
  <2> SUFFICES ASSUME Inv, SinkInv, CallsInv PROVE TypeOK
    OBVIOUS
  <2>1. counter \in Generation /\ issued \subseteq Generation
    BY WorldsAssumption DEF Inv, Generation
  <2>2. calls \in SUBSET Call /\ tokens \in SUBSET Token
    BY DEF Inv, SoundCall, SoundToken
  <2>3. served = None \/ {served.from, served.by} \subseteq Generation
    BY DEF Inv, ServedTyped
  <2> QED BY <2>1, <2>2, <2>3 DEF TypeOK, Inv, SinkInv, CallsInv
<1> QED BY <1>1, OrderHolds, PTL

(* EventsInOrder: of every instance the sink tells Drain, FinalSnapshotTaken*)
(* and Dispose at most once each and in this order, and nothing after       *)
(* Dispose, however the shutdowns and faults of the worlds of a process     *)
(* interleave and whatever a full sink drops.                               *)
THEOREM SinkInOrder == Spec => []EventsInOrder
<1>1. OrderInv => EventsInOrder
  BY DEF OrderInv
<1> QED BY <1>1, OrderHolds, PTL

=============================================================================
