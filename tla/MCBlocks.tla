------------------------------ MODULE MCBlocks ------------------------------
(* The parts that blocks are made of and read by, one run for all of them:  *)
(* what a behaviour is about is chosen first.  A read or a query is asked   *)
(* of a scene that is chosen before it.                                     *)
EXTENDS Binding, BlockCatalog, SectionQuery, PhysicsQuery, TLC

CONSTANTS plain, chest, chestType, otherType, h1, h2

VARIABLES
    part,       \* "binding", "catalog" or the kind of question
    scene

readVars == <<scene, question>>

MCTypeFor == (plain :> None) @@ (chest :> chestType)
MCMax == (h1 :> 2) @@ (h2 :> 1)
MCRecord == [type |-> chestType, alive |-> TRUE]
MCOffered ==
    (h1 :> {MCRecord, [MCRecord EXCEPT !.alive = FALSE], [MCRecord EXCEPT !.type = otherType]})
    @@ (h2 :> {MCRecord})
MCLayouts == {<<>>, <<1, 2>>, <<3, 2>>}
Symmetry == Permutations(Cell) \cup Permutations(EntityId) \cup Permutations(Room)

----------------------------------------------------------------------------
(* Two sections next to each other on either side of x = 0.                 *)

A == <<-1, 0, 0>>
B == <<0, 0, 0>>
Missing == "Missing"

(* Blocks: 0 air, 1 stone, 2 water, 3 of no class; others are only read.    *)
MCClassOf == [b \in 0..3 |-> IF b = 1 THEN "Solid" ELSE IF b = 2 THEN "Liquid" ELSE Absent]

View(presence, storage, revisions) ==
    LET there == {s \in {A, B} : presence[s] # Missing} IN
    [world |-> "w", context |-> "c", generation |-> 1, worldRevision |-> 4,
     revisions |-> revisions,
     directory |-> [s \in there |->
        [presence |-> presence[s],
         storage |-> IF presence[s] = "Ready" THEN storage[s] ELSE Absent]]]

Pairs(P, Q) == {(A :> x) @@ (B :> y) : x \in P, y \in Q}

Numbered == (A :> [o \in CellOffset |-> 10 + o]) @@ (B :> [o \in CellOffset |-> 20 + o])

ReadScenes ==
    {View(x, Numbered, r) :
        x \in Pairs({Missing, "Ready", "Unchanged", "Pending", "Unavailable"},
                    {Missing, "Ready", "Unchanged", "Pending", "Unavailable"}),
        r \in {<<>>, A :> 3}}

ReadQuestions(view) ==
    {[query |-> "read", view |-> view, baseline |-> Numbered, lo |-> lo, hi |-> hi, pinned |-> pinned,
      blocks |-> [i \in 1..(IF BoxCount(lo, hi) < 0 THEN 0 ELSE BoxCount(lo, hi)) + size[1] |-> -1],
      runs |-> [i \in 1..size[2] |-> <<>>]] :
        lo \in {-2, -1, 0} \X {-1, 0} \X {0}, hi \in {-1, 0, 1} \X {0, 1, 2, 4} \X {0, 1},
        pinned \in {{}, {A}, {A, B}}, size \in {<<0, 8>>, <<0, 1>>, <<1, 8>>}}

QueryScenes ==
    {View(x, Numbered, <<>>) :
        x \in Pairs({Missing, "Ready", "Pending"}, {Missing, "Ready", "Unchanged"})}

With(k, i, part1) == [k EXCEPT !.parts[i] = part1]
Texts ==
    {KeyOf(A), KeyOf(B), With(KeyOf(A), 2, [Numeral(0) EXCEPT !.zeros = 1]),
     With(KeyOf(B), 1, [Numeral(0) EXCEPT !.minus = TRUE]), With(KeyOf(A), 3, Empty),
     With(KeyOf(B), 3, [Numeral(1) EXCEPT !.other = TRUE]), With(KeyOf(A), 1, Numeral(CoordMax + 1)),
     With(KeyOf(B), 2, Numeral(SectionYMax + 1)), [KeyOf(A) EXCEPT !.prefix = "c"],
     ChunkKeyOf(ChunkOf(A)), [KeyOf(B) EXCEPT !.parts = SubSeq(@, 1, 2)]}

QueryQuestions(view) ==
    {[query |-> "query", view |-> view, baseline |-> Numbered, pinned |-> pinned,
      planned |-> IF fault = "otherCut" THEN [view EXCEPT !.worldRevision = 3] ELSE view,
      request |-> [cancel |-> fault = "cancelled", context |-> "c", keys |-> keys,
                   world |-> IF fault = "otherWorld" THEN "v" ELSE "w"],
      limit |-> limit, granted |-> fault # "notGranted", used |-> used] :
        keys \in UNION {[1..n -> Texts] : n \in 0..2} \cup [1..3 -> {KeyOf(A), KeyOf(B)}],
        fault \in {"none", "otherCut", "cancelled", "otherWorld", "notGranted"},
        pinned \in {{}, {A}}, limit \in 0..3, used \in {0, 1}}

----------------------------------------------------------------------------
(* Physics.                                                                 *)

CellsOfScene == (-2..1) \X (0..1) \X {0}
OffsetsOf(s, cells) == {OffsetOf(c) : c \in {x \in cells : SectionOf(x) = s}}

StorageOf(s, stone, other) ==
    [o \in CellOffset |-> IF o \in OffsetsOf(s, stone) THEN 1
                          ELSE IF o \in OffsetsOf(s, DOMAIN other)
                          THEN (CHOOSE b \in {other[c] : c \in DOMAIN other} : TRUE) ELSE 0]

PhysicsScenes ==
    {[view |-> View(x, (A :> StorageOf(A, stone, other)) @@ (B :> StorageOf(B, stone, other)), <<>>),
      bodies |-> bodies] :
        x \in Pairs({Missing, "Ready", "Pending"}, {Missing, "Ready", "Pending"}),
        stone \in {x \in SUBSET CellsOfScene : Cardinality(x) <= 2},
        other \in {<<>>, <<-1, 0, 0>> :> 2, <<0, 1, 0>> :> 3},
        bodies \in {<<>>, <<[center |-> <<1, 1, 1>>, half |-> <<1, 1, 1>>],
                            [center |-> <<-4, 3, 1>>, half |-> <<1, 1, 1>>]>>}}

Asking(sc, filter) ==
    [world |-> ReadWorld(sc.view, <<>>), bodies |-> sc.bodies,
     filter |-> filter, pinned |-> IF filter = {"Solid"} THEN {} ELSE {A}]

Filters == {{"Solid"}, {"Solid", "Liquid"}}

RayQuestions(sc) ==
    {Asking(sc, filter) @@ [query |-> "ray", from |-> from, dir |-> dir, reach |-> reach] :
        from \in {<<-4, 1, 1>>, <<4, 1, 1>>, <<-3, 4, 1>>, <<0, 2, 1>>, <<-2, 10, 1>>},
        dir \in {<<2, 0, 0>>, <<-2, 0, 0>>, <<2, 1, 0>>, <<-2, -2, 0>>, <<2, -2, 1>>, <<0, -1, 0>>,
                 <<0, 0, 0>>},
        reach \in {-1, 3, 16}, filter \in Filters}

Boxes ==
    {[center |-> c, half |-> h] : c \in {<<-3, 1, 1>>, <<-2, 1, 1>>, <<3, 3, 1>>, <<0, 2, 1>>},
                                  h \in {<<1, 1, 1>>, <<1, 2, 1>>}}

OverlapQuestions(sc) ==
    {Asking(sc, filter) @@ [query |-> "overlap", box |-> b, buffer |-> [i \in 1..n |-> <<>>]] :
        b \in Boxes \cup {[center |-> <<0, 10, 1>>, half |-> <<1, 1, 1>>],
                          [center |-> <<0, 2, 1>>, half |-> <<4, 2, 2>>]},
        n \in {0, 1, 3}, filter \in Filters}

SweepQuestions(sc) ==
    {Asking(sc, filter) @@ [query |-> "sweep", box |-> b, dir |-> dir] :
        b \in Boxes,
        dir \in {<<4, 0, 0>>, <<-4, 0, 0>>, <<2, -2, 0>>, <<-4, 1, 0>>, <<0, -4, 0>>},
        filter \in Filters}

----------------------------------------------------------------------------
(* The run.                                                                 *)

MCInit ==
    /\ BindingInit /\ CatalogInit /\ question = NoQuestion
    /\ \/ part \in {"binding", "catalog"} /\ scene = Nothing
       \/ part = "read" /\ scene \in ReadScenes
       \/ part = "query" /\ scene \in QueryScenes
       \/ part \in {"ray", "overlap", "sweep"} /\ scene \in PhysicsScenes

Ask ==
    /\ question = NoQuestion
    /\ \/ part = "read" /\ question' \in {q \in ReadQuestions(scene) : IsRead(q)}
       \/ part = "query" /\ question' \in {q \in QueryQuestions(scene) : IsQuery(q)}
       \/ part = "ray" /\ question' \in {q \in RayQuestions(scene) : IsRay(q)}
       \/ part = "overlap" /\ question' \in {q \in OverlapQuestions(scene) : IsOverlap(q)}
       \/ part = "sweep" /\ question' \in {q \in SweepQuestions(scene) : IsSweep(q)}
    /\ UNCHANGED scene

MCNext ==
    /\ UNCHANGED part
    /\ \/ part = "binding" /\ BindingNext /\ UNCHANGED <<catalogVars, readVars>>
       \/ part = "catalog" /\ CatalogNext /\ UNCHANGED <<bindingVars, readVars>>
       \/ Ask /\ UNCHANGED <<bindingVars, catalogVars>>

MCSpec == MCInit /\ [][MCNext]_<<part, bindingVars, catalogVars, readVars>>
=============================================================================
