------------------------------- MODULE Worlds -------------------------------
(***************************************************************************)
(* Several VoxelWorlds of one process: the generation counter they share,  *)
(* the origin checks that keep a call from reaching another instance than  *)
(* the one it was made for, and the event sink a Host passes to shutdowns  *)
(* and faults.                                                             *)
(*                                                                         *)
(* A Host makes a call from a world's generation guard and delivers it     *)
(* whenever and to whichever world it likes: the answer of a job comes     *)
(* late, the world it was meant for has been replaced, or the Host has two *)
(* worlds of one name.  Of a world's content only the receipt ledger and   *)
(* the revision of the cut are kept; module World has the rest.  A Name is *)
(* what worlds can share: context id, world id and configuration hash.     *)
(***************************************************************************)
EXTENDS Naturals, Sequences, FiniteSets, SessionTable

CONSTANTS
    Slot,           \* places where the Host keeps a world
    Name, Txn,
    MaxGeneration,  \* the counter's last value (u64::MAX)
    SinkCapacity,
    MaxCalls,       \* bound: calls in flight
    None

Generation == 1..MaxGeneration
Entry == [generation : Generation, done : BOOLEAN]
Token == [txn : Txn, name : Name, generation : Generation, born : Generation, rev : Nat]

(* `born` is the generation an instance was created with; its published    *)
(* cuts carry it for ever, its guards carry `generation`.                  *)
Instance == [name : Name, generation : Generation, born : Generation, session : SessionState,
             ledger : [Txn -> Entry \cup {None}], rev : Nat]

(* `from` and `late` are history: the instance whose guard the call was    *)
(* made from, and whether that instance was disposed by then.              *)
Call == [kind : {"query", "prepare", "commit", "abort", "pause"}, name : Name,
         generation : Generation, basis : BOOLEAN, txn : Txn, token : Token \cup {None},
         from : Generation, late : BOOLEAN]

Event == [event : {"Failure", "Drain", "FinalSnapshotTaken", "Dispose"}, generation : Generation]

ASSUME WorldsAssumption ==
    /\ MaxGeneration \in Nat /\ MaxGeneration >= 2
    /\ SinkCapacity \in Nat /\ MaxCalls \in Nat
    /\ None \notin Entry /\ None \notin Token /\ None \notin Instance

VARIABLES
    counter,    \* NEXT_INSTANCE_GENERATION
    worlds,     \* Slot -> the instance there
    calls,      \* calls in flight
    tokens,     \* PreparedMutations the callers hold
    sink,       \* WorldEventSink
    dropped,    \* its count of dropped events
    served,     \* history: the call the last step served, and by whom
    issued      \* history: generations of the instances created so far

vars == <<counter, worlds, calls, tokens, sink, dropped, served, issued>>

Init ==
    /\ counter = 1
    /\ worlds = [w \in Slot |-> None]
    /\ calls = {} /\ tokens = {}
    /\ sink = <<>> /\ dropped = 0
    /\ served = None /\ issued = {}

Put(w, x) == worlds' = [worlds EXCEPT ![w] = x]
Quiet == served' = None

----------------------------------------------------------------------------
(* Instances.                                                              *)

(* Mutant: the counter wraps to 1.                                         *)
NextCounterWraps(n) == IF n + 1 = MaxGeneration THEN 1 ELSE n + 1

NextCounter(n) == n + 1

(* Mutant: the last value of the counter is handed out as well.            *)
CanAllocateLast(n) == n # 0

(* The last value of the counter is never handed out.                      *)
CanAllocate(n) == n # 0 /\ n < MaxGeneration

(* create: whatever the slot held is dropped by the Host.  A refused       *)
(* descriptor is refused before the counter is asked.                      *)
Create(w, name) ==
    /\ CanAllocate(counter)
    /\ counter' = NextCounter(counter)
    /\ Put(w, [name |-> name, generation |-> counter, born |-> counter, session |-> "Created",
               ledger |-> [t \in Txn |-> None], rev |-> 0])
    /\ issued' = issued \cup {counter}
    /\ Quiet /\ UNCHANGED <<calls, tokens, sink, dropped>>

(* A Lifecycle command made and delivered at once; the one that is late    *)
(* is the call of kind "pause".                                            *)
Lifecycle(w, to) ==
    /\ worlds[w] # None
    /\ <<worlds[w].session, to>> \in Edges
    /\ Put(w, [worlds[w] EXCEPT !.session = to])
    /\ Quiet /\ UNCHANGED <<counter, calls, tokens, sink, dropped, issued>>

----------------------------------------------------------------------------
(* Shutdown, faults and the sink.                                          *)

(* WorldEventSink::emit, for events emitted one after the other: what does *)
(* not fit is dropped and counted.                                         *)
Emit(events) ==
    LET room == SinkCapacity - Len(sink)
        kept == IF Len(events) <= room THEN Len(events) ELSE room
    IN  /\ sink' = sink \o SubSeq(events, 1, kept)
        /\ dropped' = dropped + Len(events) - kept

AbortInFlight(l) == [t \in Txn |-> IF l[t] # None /\ ~l[t].done THEN None ELSE l[t]]

(* invalidate_generation: wrapping_add, and 0 becomes 1.                   *)
Invalidated(g) == IF g = MaxGeneration THEN 1 ELSE g + 1

Ev(x, name) == [event |-> name, generation |-> x.generation]

(* begin, drain and finalize: an instance and the events of each, in order *)
Begun(x) == [x EXCEPT !.session = "Draining"]
Drained(x) == [x EXCEPT !.session = "Snapshotted", !.ledger = AbortInFlight(@)]
Finalized(x) == [x EXCEPT !.session = "Disposed", !.generation = Invalidated(@)]

(* Mutant: the Dispose event carries the generation the world moved to.    *)
DisposeEventMoved(x) == Ev(Finalized(x), "Dispose")

DisposeEvent(x) == Ev(x, "Dispose")

CanBegin(x) == <<x.session, "Draining">> \in Edges

ShutdownBegin(w) ==
    /\ worlds[w] # None /\ CanBegin(worlds[w])
    /\ Put(w, Begun(worlds[w])) /\ Emit(<<Ev(worlds[w], "Drain")>>)
    /\ Quiet /\ UNCHANGED <<counter, calls, tokens, issued>>

ShutdownDrain(w) ==
    /\ worlds[w] # None /\ worlds[w].session = "Draining"
    /\ Put(w, Drained(worlds[w])) /\ Emit(<<Ev(worlds[w], "FinalSnapshotTaken")>>)
    /\ Quiet /\ UNCHANGED <<counter, calls, tokens, issued>>

ShutdownFinalize(w) ==
    /\ worlds[w] # None /\ worlds[w].session = "Snapshotted"
    /\ Put(w, Finalized(worlds[w])) /\ Emit(<<DisposeEvent(worlds[w])>>)
    /\ Quiet /\ UNCHANGED <<counter, calls, tokens, issued>>

(* trip: one Failure, then what is left of the shutdown.  The same without *)
(* the Failure is the adapter's shutdown.                                  *)
Remaining(x) ==
    (IF CanBegin(x) THEN <<Ev(x, "Drain")>> ELSE <<>>)
    \o (IF x.session # "Snapshotted" THEN <<Ev(x, "FinalSnapshotTaken")>> ELSE <<>>)
    \o <<DisposeEvent(x)>>

CanClose(x) == CanBegin(x) \/ x.session \in {"Draining", "Snapshotted"}
Closed(x) == Finalized(IF x.session = "Snapshotted" THEN x ELSE Drained(x))

FaultTrip(w) ==
    /\ worlds[w] # None /\ CanClose(worlds[w])
    /\ Put(w, Closed(worlds[w]))
    /\ Emit(<<Ev(worlds[w], "Failure")>> \o Remaining(worlds[w]))
    /\ Quiet /\ UNCHANGED <<counter, calls, tokens, issued>>

(* destroy brings a sink of its own along.                                 *)
Destroy(w) ==
    /\ worlds[w] # None /\ CanClose(worlds[w])
    /\ Put(w, Closed(worlds[w]))
    /\ Quiet /\ UNCHANGED <<counter, calls, tokens, sink, dropped, issued>>

----------------------------------------------------------------------------
(* Calls.                                                                  *)

(* A caller reads the guard of a world and makes a call, a commit with a   *)
(* token it gives away.  `basis` is a call under the request id the router *)
(* keeps for itself.                                                       *)
Make(w, kind, t, k, basis) ==
    /\ worlds[w] # None
    /\ k = None \/ k \in tokens
    /\ Cardinality(calls) < MaxCalls
    /\ calls' = calls \cup {[kind |-> kind, name |-> worlds[w].name,
                             generation |-> worlds[w].generation, basis |-> basis, txn |-> t,
                             token |-> k, from |-> worlds[w].born,
                             late |-> worlds[w].session = "Disposed"]}
    /\ tokens' = tokens \ {k}
    /\ Quiet /\ UNCHANGED <<counter, worlds, sink, dropped, issued>>

(* Mutant: only an older generation is refused.                            *)
OriginNotOlder(x, c) == c.name = x.name /\ c.generation >= x.generation

(* InstanceGenerationGuard::check_origin.                                  *)
CheckOrigin(x, c) == c.name = x.name /\ c.generation = x.generation

WriteAdmissible(x) == x.session = "Running"
QueryAdmissible(x) == x.session \in {"Ready", "Running", "Paused"}

(* admit, with the router's comparison of the configuration hash; a        *)
(* mutation request carries the generation once more.                      *)
Admitted(x, c) ==
    /\ CheckOrigin(x, c)
    /\ CASE c.kind = "query" -> QueryAdmissible(x)
         [] c.kind = "pause" -> <<x.session, "Paused">> \in Edges
         [] OTHER -> c.generation = x.generation /\ WriteAdmissible(x)

(* validate_completion against the origin a router expects: same phase,    *)
(* revision 0, so Late and Cancelled do not come out of it.                *)
Verdict(x, c) ==
    IF c.name # x.name THEN "WrongWorld"
    ELSE IF c.generation < x.generation THEN "Stale"
    ELSE IF c.generation # x.generation THEN "WrongWorld"
    ELSE IF c.basis THEN "Duplicate" ELSE "Accept"

Served(x, c) ==
    /\ calls' = calls \ {c}
    /\ served' = [from |-> c.from, late |-> c.late, by |-> x.born,
                  of |-> IF c.token = None THEN None ELSE c.token.born]

Query(w, c) ==
    /\ c.kind = "query" /\ Admitted(worlds[w], c)
    /\ Served(worlds[w], c)
    /\ UNCHANGED <<counter, worlds, tokens, sink, dropped, issued>>

Pause(w, c) ==
    /\ c.kind = "pause" /\ Admitted(worlds[w], c)
    /\ Put(w, [worlds[w] EXCEPT !.session = "Paused"])
    /\ Served(worlds[w], c)
    /\ UNCHANGED <<counter, tokens, sink, dropped, issued>>

Prepare(w, c) ==
    LET x == worlds[w] IN
    /\ c.kind = "prepare" /\ Admitted(x, c)
    /\ x.ledger[c.txn] \in {None, [generation |-> c.generation, done |-> TRUE]}
    /\ Put(w, [x EXCEPT !.ledger[c.txn] =
                   IF @ = None THEN [generation |-> c.generation, done |-> FALSE] ELSE @])
    /\ tokens' = tokens \cup {[txn |-> c.txn, name |-> c.name, generation |-> c.generation,
                               born |-> x.born, rev |-> x.rev]}
    /\ Served(x, c)
    /\ UNCHANGED <<counter, sink, dropped, issued>>

(* The ledger's entry is for the token's request, which names the world    *)
(* and its generation; the base is compared with the published cut.        *)
Matches(x, k) == x.ledger[k.txn] # None /\ x.ledger[k.txn].generation = k.generation
                 /\ k.name = x.name
OnBase(x, k) == k.born = x.born /\ k.rev = x.rev

(* commit: applied on the token's base, or answered from the ledger.       *)
Commit(w, c) ==
    LET x == worlds[w]  k == c.token IN
    /\ c.kind = "commit" /\ Verdict(x, c) = "Accept" /\ Admitted(x, c)
    /\ Matches(x, k)
    /\ \/ x.ledger[k.txn].done /\ UNCHANGED worlds
       \/ /\ ~x.ledger[k.txn].done /\ OnBase(x, k)
          /\ Put(w, [x EXCEPT !.ledger[k.txn].done = TRUE, !.rev = @ + 1])
    /\ Served(x, c)
    /\ UNCHANGED <<counter, tokens, sink, dropped, issued>>

Abort(w, c) ==
    LET x == worlds[w] IN
    /\ c.kind = "abort" /\ Verdict(x, c) = "Accept" /\ Admitted(x, c)
    /\ x.ledger[c.txn] # None /\ ~x.ledger[c.txn].done
    /\ x.ledger[c.txn].generation = c.generation
    /\ Put(w, [x EXCEPT !.ledger[c.txn] = None])
    /\ Served(x, c)
    /\ UNCHANGED <<counter, tokens, sink, dropped, issued>>

(* A call that is refused, or that the Host never delivers.                *)
Refuse(c) ==
    /\ calls' = calls \ {c}
    /\ Quiet /\ UNCHANGED <<counter, worlds, tokens, sink, dropped, issued>>

----------------------------------------------------------------------------

MakeStep ==
    \E w \in Slot :
        \/ \E t \in Txn, kind \in {"query", "prepare", "pause"} : Make(w, kind, t, None, FALSE)
        \/ \E t \in Txn, basis \in BOOLEAN : Make(w, "abort", t, None, basis)
        \/ \E k \in tokens, basis \in BOOLEAN : Make(w, "commit", k.txn, k, basis)

DeliverStep ==
    \E c \in calls :
        \/ Refuse(c)
        \/ \E w \in {v \in Slot : worlds[v] # None} :
              Query(w, c) \/ Pause(w, c) \/ Prepare(w, c) \/ Commit(w, c) \/ Abort(w, c)

InstanceStep ==
    \E w \in Slot :
        \/ \E name \in Name : Create(w, name)
        \/ \E to \in SessionState : Lifecycle(w, to)
        \/ ShutdownBegin(w) \/ ShutdownDrain(w) \/ ShutdownFinalize(w)
        \/ FaultTrip(w) \/ Destroy(w)

Next == MakeStep \/ DeliverStep \/ InstanceStep

Spec == Init /\ [][Next]_vars

----------------------------------------------------------------------------
(* Properties.                                                             *)

(* Every variable has its type; only a full sink drops events.             *)
TypeOK ==
    /\ counter \in Generation
    /\ worlds \in [Slot -> Instance \cup {None}]
    /\ calls \in SUBSET Call /\ Cardinality(calls) <= MaxCalls
    /\ tokens \in SUBSET Token
    /\ sink \in Seq(Event) /\ Len(sink) <= SinkCapacity
    /\ dropped \in Nat /\ (dropped > 0 => Len(sink) = SinkCapacity)
    /\ served = None \/ {served.from, served.by} \subseteq Generation
    /\ issued \subseteq Generation

(* A world serves only calls made for it: what was made from the guard of  *)
(* an instance never reaches another one, whatever names they share and    *)
(* however late it is delivered, and no instance commits what another has  *)
(* prepared.  Excepted is a call made from the guard of an instance that   *)
(* was already disposed: its generation may be a newer world's.            *)
OnlyOwnCalls ==
    served # None =>
        /\ ~served.late => served.from = served.by
        /\ served.of # None => served.of = served.by

(* No generation is handed out twice, also not once the counter has run    *)
(* out.                                                                    *)
NeverReissued ==
    [][\A w \in Slot :
        (worlds'[w] # worlds[w] /\ worlds'[w].session = "Created")
            => worlds'[w].born \notin issued]_vars

(* The sink tells every instance's end once and in order: no phase twice,  *)
(* no phase after a later one, no failure after the world is disposed.     *)
Rank(e) == CASE e.event = "Drain" -> 1 [] e.event = "FinalSnapshotTaken" -> 2
             [] e.event = "Dispose" -> 3 [] OTHER -> 0
EventsInOrder ==
    \A i, j \in 1..Len(sink) :
        (i < j /\ sink[i].generation = sink[j].generation) =>
            /\ sink[i] # sink[j] /\ sink[i].event # "Dispose"
            /\ sink[j].event # "Failure" => Rank(sink[i]) < Rank(sink[j])
=============================================================================
