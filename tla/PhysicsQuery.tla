---------------------------- MODULE PhysicsQuery ----------------------------
(***************************************************************************)
(* Physics queries over one published cut: a ray, a box that overlaps, a   *)
(* box that is swept.  Cells, sections and storages are those of block     *)
(* reads.                                                                  *)
(*                                                                         *)
(* Positions are whole numbers of 1 / Unit of a cell, and ways along a     *)
(* direction are whole numbers of 1 / Ticks of it, Ticks a multiple of     *)
(* every component: all of the code's quotients are then exact, and the    *)
(* tolerances of its floats, which are smaller than both, drop out.  A     *)
(* result is a record with a kind; an error is one of kind "Error".        *)
(***************************************************************************)
EXTENDS BlockRead

CONSTANTS
    Unit, Ticks,
    ClassOf,    \* MaterialClassLookup: blocks to a class or Absent
    Air         \* the block of type 0

ASSUME PhysicsAssumption == Unit \in Nat \ {0} /\ Ticks \in Nat \ {0} /\ MaxCells \in Nat

Axis == 1..3
Kind(k) == [kind |-> k]
Joined(r, more) ==
    [f \in DOMAIN r \cup DOMAIN more |-> IF f \in DOMAIN r THEN r[f] ELSE more[f]]
Abs(n) == IF n < 0 THEN -n ELSE n
Moving(dir) == {i \in Axis : dir[i] # 0}
Sign(n) == IF n > 0 THEN 1 ELSE IF n < 0 THEN -1 ELSE 0
PerTick(d) == Sign(d) * (Ticks \div Abs(d))     \* 1 / d

(* A box is [center, half]; bodies are a sequence of boxes by their ids.   *)
Low(b) == [i \in Axis |-> b.center[i] - b.half[i]]
High(b) == [i \in Axis |-> b.center[i] + b.half[i]]

----------------------------------------------------------------------------
(* One cell.                                                               *)

(* PhysicsWorld::from_published_view_with_baseline: an Unchanged section   *)
(* becomes a Ready one, whatever is neither has no storage.                *)
StateOf(world, s) ==
    IF s \notin DOMAIN world THEN "Unavailable"
    ELSE IF world[s].presence \in Stored THEN "Ready" ELSE world[s].presence

(* The class of a block decides, air has none.                             *)
Classified(b, filter, cell) ==
    IF b = Air THEN Kind("Empty")
    ELSE IF ClassOf[b] = Absent THEN Kind("Error")
    ELSE IF ClassOf[b] \in filter THEN [kind |-> "Hit", cell |-> cell, block |-> b]
    ELSE Kind("Empty")

(* block_at, with its presence guard.                                      *)
BlockAt(q, cell) ==
    LET s == SectionOf(cell) IN
    IF ~IsWorldY(cell[2]) THEN Kind("Empty")
    ELSE IF StateOf(q.world, s) # "Ready"
    THEN IF s \in q.pinned THEN Kind("Error") ELSE [kind |-> "Unresolved", section |-> s]
    ELSE Classified(q.world[s].storage[OffsetOf(cell)], q.filter, cell)

(* ray_aabb: where a ray comes to be in the closed box, and the normal of  *)
(* the face it enters by, none where it starts inside.                     *)
Near(from, d, lo, hi) == (IF d > 0 THEN lo - from ELSE hi - from) * PerTick(d)
Far(from, d, lo, hi) == (IF d > 0 THEN hi - from ELSE lo - from) * PerTick(d)

(* The code turns the normal over once more where it swaps near and far.   *)
NormalSign(d, lo, hi) == IF d < 0 /\ lo < hi THEN Sign(d) ELSE -Sign(d)

MeetsBox(from, dir, lo, hi) ==
    LET near == [i \in Moving(dir) |-> Near(from[i], dir[i], lo[i], hi[i])]
        way == Max({0} \cup {near[i] : i \in Moving(dir)})
        by == {i \in Moving(dir) : near[i] = way /\ way > 0}
    IN  IF /\ \A i \in Axis \ Moving(dir) : lo[i] <= from[i] /\ from[i] <= hi[i]
           /\ \A i \in Moving(dir) : way <= Far(from[i], dir[i], lo[i], hi[i])
        THEN [way |-> way,
              normal |-> [i \in Axis |-> IF by # {} /\ i = Min(by)
                                        THEN NormalSign(dir[i], lo[i], hi[i]) ELSE 0]]
        ELSE Kind("Miss")

Met(m) == "way" \in DOMAIN m

----------------------------------------------------------------------------
(* Rays.                                                                   *)

(* initial_cell: a ray that leaves a boundary downwards is below it.       *)
FirstCell(from, dir) ==
    [i \in Axis |-> (from[i] \div Unit) - IF dir[i] < 0 /\ from[i] % Unit = 0 THEN 1 ELSE 0]

(* dda_axis; f32::INFINITY is no crossing.                                 *)
NextCrossing(from, dir, cell) ==
    [i \in Moving(dir) |->
        ((IF dir[i] > 0 THEN cell[i] + 1 ELSE cell[i]) * Unit - from[i]) * PerTick(dir[i])]

(* min_axis: of equal crossings that of the lesser axis.                   *)
CrossedAxis(next) == CHOOSE i \in DOMAIN next : \A j \in DOMAIN next :
                        next[i] < next[j] \/ (next[i] = next[j] /\ i <= j)

Normal(dir, axes) ==
    [i \in Axis |-> IF axes # {} /\ i = Min(axes) THEN -Sign(dir[i]) ELSE 0]

(* boundary_entry_normal.                                                  *)
EntryAxes(from, dir) == {i \in Moving(dir) : from[i] % Unit = 0}

Before(x, y) == x.way < y.way

(* What is met first; of what is met at once, that of the least index.     *)
First(hits) ==
    IF DOMAIN hits = {} THEN Kind("Miss")
    ELSE hits[CHOOSE i \in DOMAIN hits : \A j \in DOMAIN hits :
                Before(hits[i], hits[j]) \/ (~Before(hits[j], hits[i]) /\ i <= j)]

(* The nearest body within reach; of equally near ones the least id.       *)
Nearest(meets, reach) ==
    First([b \in {x \in DOMAIN meets : Met(meets[x]) /\ meets[x].way <= reach} |->
              Joined([kind |-> "Hit", body |-> b], meets[b])])

NearestBody(q) ==
    Nearest([b \in DOMAIN q.bodies |->
                MeetsBox(q.from, q.dir, Low(q.bodies[b]), High(q.bodies[b]))],
            q.reach)

Moved(v, axis, n) == [v EXCEPT ![axis] = @ + n]

(* Where raycast begins; `way` is where its cell was entered.              *)
Start(q) ==
    LET first == FirstCell(q.from, q.dir) IN
    [kind |-> "Onward", cell |-> first, way |-> 0, next |-> NextCrossing(q.from, q.dir, first),
     normal |-> Normal(q.dir, EntryAxes(q.from, q.dir))]

(* The loop of raycast once more, at m after so many visits.               *)
Marched(q, body, m, visits) ==
    LET at == BlockAt(q, m.cell)
        axis == CrossedAxis(m.next)
    IN  IF m.kind # "Onward" THEN m
        ELSE IF m.way > q.reach \/ (body.kind = "Hit" /\ m.way > body.way) THEN body
        ELSE IF visits >= MaxCells THEN Kind("Error")
        ELSE IF at.kind = "Hit"
        THEN [kind |-> "Hit", cell |-> m.cell, block |-> at.block, way |-> m.way,
              normal |-> m.normal]
        ELSE IF at.kind # "Empty" THEN at
        ELSE IF m.next[axis] > q.reach THEN body
        ELSE [kind |-> "Onward", cell |-> Moved(m.cell, axis, Sign(q.dir[axis])),
              way |-> m.next[axis],
              next |-> Moved(m.next, axis, Unit * Abs(PerTick(q.dir[axis]))),
              normal |-> Normal(q.dir, {axis})]

March(q, body) ==
    LET after[n \in 0..MaxCells + 1] ==
          IF n = 0 THEN Start(q) ELSE Marched(q, body, after[n - 1], n - 1)
    IN  after[MaxCells + 1]

Raycast(q) ==
    IF q.reach < 0 \/ q.dir = [i \in Axis |-> 0] THEN Kind("Miss")
    ELSE March(q, NearestBody(q))

----------------------------------------------------------------------------
(* Boxes.                                                                  *)

(* cell_range: the cells with more than their surface in a box, cut to the *)
(* world's height; empty where there are none, an error where too many.    *)
RangeOf(lo, hi) ==
    [lo |-> [i \in Axis |-> IF i = 2 THEN Max({0, lo[i] \div Unit}) ELSE lo[i] \div Unit],
     hi |-> [i \in Axis |-> IF i = 2 THEN Min({WorldYMax, (hi[i] - 1) \div Unit})
                            ELSE (hi[i] - 1) \div Unit]]

NoRange(g) == \E i \in Axis : g.lo[i] > g.hi[i]
TooLarge(g) == BoxCount(g.lo, g.hi) > MaxCells

BodiesIn(q, b) ==
    {k \in DOMAIN q.bodies : \A i \in Axis :
        Low(b)[i] <= High(q.bodies[k])[i] /\ High(b)[i] >= Low(q.bodies[k])[i]}

(* What is found is written to the front of the buffer, as far as it fits. *)
Listed(buffer, kind, found) ==
    [kind |-> kind, actual |-> Len(found),
     written |-> Min({Len(found), Len(buffer)}), truncated |-> Len(found) > Len(buffer),
     buffer |-> [i \in 1..Len(buffer) |-> IF i <= Len(found) THEN found[i] ELSE buffer[i]]]

(* A set of numbers from the least one up.                                 *)
InOrder(S) ==
    [n \in 1..Cardinality(S) |-> CHOOSE i \in S : Cardinality({j \in S : j <= i}) = n]

(* The hits in the order of the visits, until a cell is unresolved or an   *)
(* error; a body is listed as the sequence of its id.                      *)
OverlapFound(buffer, visits, stop, bodies) ==
    LET seen == InOrder({i \in 1..(IF stop = 0 THEN Len(visits) ELSE stop) :
                            visits[i].kind = "Hit"})
        ids == InOrder(bodies)
        hits == [i \in 1..Len(seen) |-> visits[seen[i]].cell]
                  \o IF stop = 0 THEN [i \in 1..Len(ids) |-> <<ids[i]>>] ELSE <<>>
    IN  IF stop # 0 /\ visits[stop].kind = "Unresolved"
        THEN Joined(Listed(buffer, "Unresolved", hits), [section |-> visits[stop].section])
        ELSE Listed(buffer, IF stop # 0 THEN "Error" ELSE IF hits = <<>> THEN "Miss" ELSE "Hit",
                    hits)

(* overlap.                                                                *)
Overlap(q) ==
    LET g == RangeOf(Low(q.box), High(q.box))
        visits == [i \in 1..BoxCount(g.lo, g.hi) |-> BlockAt(q, CellsIn(g.lo, g.hi)[i])]
    IN  IF NoRange(g) THEN Listed(q.buffer, "Miss", <<>>)
        ELSE IF TooLarge(g) THEN Listed(q.buffer, "Error", <<>>)
        ELSE OverlapFound(q.buffer, visits,
                          SelectInSeq(visits, LAMBDA v : v.kind \notin {"Hit", "Empty"}),
                          BodiesIn(q, q.box))

Grown(lo, hi, b) ==
    [lo |-> [i \in Axis |-> lo[i] - b.half[i]], hi |-> [i \in Axis |-> hi[i] + b.half[i]]]

InTime(m) == IF Met(m) /\ m.way <= Ticks THEN m ELSE Kind("Miss")

(* sweep_aabb: the center against the cell grown by the box.               *)
MeetsCell(q, cell) ==
    LET g == Grown([i \in Axis |-> cell[i] * Unit], [i \in Axis |-> (cell[i] + 1) * Unit], q.box)
    IN  InTime(MeetsBox(q.box.center, q.dir, g.lo, g.hi))

(* Not cut to the way that is swept, but reported at its end.              *)
MeetsBody(q, b) ==
    LET g == Grown(Low(q.bodies[b]), High(q.bodies[b]), q.box)
    IN  MeetsBox(q.box.center, q.dir, g.lo, g.hi)

(* Mutant: an unresolved section counts only where it is met first.        *)
BeatenInTie(u, best) == best.way <= u.way

Beaten(u, best) == best.way < u.way

(* swept_cell_range.                                                       *)
SweptRange(q) ==
    RangeOf([i \in Axis |-> Low(q.box)[i] + Min({0, q.dir[i]})],
            [i \in Axis |-> High(q.box)[i] + Max({0, q.dir[i]})])

(* Of unresolved sections met at once the least prevails.                  *)
LeastOpen(opens) ==
    CHOOSE u \in opens : \A v \in opens :
        Before(u, v) \/ (~Before(v, u) /\ ~IdBefore(v.section, u.section))

(* A body only where it is met before every cell.                          *)
BestOf(cell, body) ==
    IF cell.kind = "Miss" \/ (body.kind = "Hit" /\ Before(body, cell)) THEN body ELSE cell

Foremost(opens, best) ==
    IF opens # {} /\ (best.kind = "Miss" \/ ~Beaten(LeastOpen(opens), best))
    THEN [kind |-> "Unresolved", section |-> LeastOpen(opens).section] ELSE best

(* The cells met, by their place in the order, and the bodies met.         *)
SweepFound(visits, bodies) ==
    LET Of(k) == {i \in DOMAIN visits : visits[i].kind = k}
    IN  IF Of("Error") # {} THEN Kind("Error")
        ELSE Foremost({visits[i] : i \in Of("Unresolved")},
                      BestOf(First([i \in Of("Hit") |-> visits[i]]), First(bodies)))

(* A body is hit at the end of the way at the latest.                      *)
BodyHit(b, m) ==
    [kind |-> "Hit", body |-> b, way |-> Min({Ticks, m.way}), normal |-> m.normal]

(* sweep.                                                                  *)
Sweep(q) ==
    LET g == SweptRange(q)
        cells == CellsIn(g.lo, g.hi)
        met == {i \in DOMAIN cells : Met(MeetsCell(q, cells[i]))}
        bodies == {b \in DOMAIN q.bodies : Met(MeetsBody(q, b))}
    IN  IF NoRange(g) THEN Kind("Miss")
        ELSE IF TooLarge(g) THEN Kind("Error")
        ELSE SweepFound([i \in met |-> Joined(BlockAt(q, cells[i]), MeetsCell(q, cells[i]))],
                        [b \in bodies |-> BodyHit(b, MeetsBody(q, b))])

----------------------------------------------------------------------------
(* What the answers mean, tick by tick along the way.                      *)

(* Where a point that starts at p is after t ticks, Ticks to a position.   *)
After(p, dir, t) == [i \in Axis |-> p[i] * Ticks + dir[i] * t]

(* Whether a box around the point then touches what is between lo and hi.  *)
Touches(p, dir, half, t, lo, hi) ==
    \A i \in Axis : /\ lo[i] * Ticks <= After(p, dir, t)[i] + half[i] * Ticks
                    /\ hi[i] * Ticks >= After(p, dir, t)[i] - half[i] * Ticks

NoHalf == [i \in Axis |-> 0]
CellLow(c) == [i \in Axis |-> c[i] * Unit]
CellHigh(c) == [i \in Axis |-> (c[i] + 1) * Unit]

(* The cell a ray goes through just after t, and those it touches at t.    *)
Through(q, t) ==
    [i \in Axis |-> IF q.dir[i] = 0 THEN q.from[i] \div Unit
                   ELSE (2 * q.from[i] * Ticks + (2 * t + 1) * q.dir[i]) \div (2 * Ticks * Unit)]

TouchedAt(q, t) ==
    LET p == After(q.from, q.dir, t)
        Both(i) == {p[i] \div (Unit * Ticks), (p[i] - 1) \div (Unit * Ticks)}
    IN  Both(1) \X Both(2) \X Both(3)

Faces(normal, dir) == \A i \in Axis : normal[i] # 0 => normal[i] = -Sign(dir[i])

(* What both kinds of read must agree on: a hit is of the block that a     *)
(* block read finds in its cell, an unresolved section one whose blocks a  *)
(* block read does not have.                                               *)
SameAsRead(q, r) ==
    /\ r.kind = "Hit" /\ "cell" \in DOMAIN r => r.block = CellAt(q.world, r.cell).block
    /\ r.kind = "Unresolved" =>
          r.section \notin DOMAIN q.world \/ q.world[r.section].presence \notin Stored

AnswersRay(q, r) ==
    LET blocked == {t \in 0..q.reach - 1 : BlockAt(q, Through(q, t)).kind # "Empty"}
        Body(t, b) == Touches(q.from, q.dir, NoHalf, t, Low(q.bodies[b]), High(q.bodies[b]))
        bodies == {t \in 0..q.reach : \E b \in DOMAIN q.bodies : Body(t, b)}
        ClearTo(t) == \A u \in 0..t - 1 : u \notin blocked \cup bodies
        Seen(t, v) == \E c \in TouchedAt(q, t) : BlockAt(q, c) = v
    IN  /\ SameAsRead(q, r)
        /\ r.kind = "Miss" => blocked \cup bodies = {}
        /\ r.kind = "Hit" => ClearTo(r.way) /\ r.way <= q.reach
        /\ r.kind = "Hit" /\ "cell" \in DOMAIN r =>
              /\ r.cell \in TouchedAt(q, r.way)
              /\ BlockAt(q, r.cell) = [kind |-> "Hit", cell |-> r.cell, block |-> r.block]
              /\ Faces(r.normal, q.dir)
              /\ r.way > 0 => \E i \in Axis : r.normal[i] # 0
              /\ \A i \in Axis : r.normal[i] # 0 =>
                    After(q.from, q.dir, r.way)[i]
                        = (r.cell[i] + IF r.normal[i] > 0 THEN 1 ELSE 0) * Unit * Ticks
        /\ r.kind = "Hit" /\ "body" \in DOMAIN r =>
              /\ Body(r.way, r.body) /\ \A b \in 1..r.body - 1 : ~Body(r.way, b)
              /\ r.way \notin blocked
        /\ r.kind = "Unresolved" => \E t \in 0..q.reach : ClearTo(t) /\ Seen(t, r)
        /\ r.kind = "Error" =>
              \/ \E t \in 0..q.reach : ClearTo(t) /\ Seen(t, r)
              \/ Cardinality(UNION {TouchedAt(q, t) : t \in 0..q.reach}) >= MaxCells

RayAgrees(q) == q.reach >= 0 /\ q.dir # NoHalf => AnswersRay(q, Raycast(q))

(* The cells of the world's height that share more than their surface with *)
(* what is between lo and hi.                                              *)
CellsBetween(lo, hi) ==
    LET Around(i) == (lo[i] \div Unit) - 1 .. (hi[i] \div Unit) + 1
    IN  {c \in Around(1) \X Around(2) \X Around(3) :
            /\ IsWorldY(c[2])
            /\ \A i \in Axis : CellLow(c)[i] < hi[i] /\ CellHigh(c)[i] > lo[i]}

AnswersOverlap(q, r, cells) ==
    LET Of(k) == {c \in cells : BlockAt(q, c).kind = k}
        bodies == {b \in DOMAIN q.bodies :
                      Touches(q.box.center, NoHalf, q.box.half, 0, Low(q.bodies[b]), High(q.bodies[b]))}
        met == Of("Hit") \cup {<<b>> : b \in bodies}
    IN  /\ SameAsRead(q, r)
        /\ r.kind = "Unresolved" => \E c \in Of("Unresolved") : BlockAt(q, c).section = r.section
        /\ r.kind \in {"Hit", "Miss"} <=>
              Of("Error") \cup Of("Unresolved") = {} /\ Cardinality(cells) <= MaxCells
        /\ r.kind \in {"Hit", "Miss"} =>
              (r.kind = "Miss" <=> met = {}) /\ r.actual = Cardinality(met)
        /\ r.truncated <=> r.actual > Len(q.buffer)
        /\ r.written = Min({r.actual, Len(q.buffer)})
        /\ LET listed == {r.buffer[i] : i \in 1..r.written}
           IN  listed \subseteq met /\ Cardinality(listed) = r.written
        /\ \A i \in r.written + 1 .. Len(q.buffer) : r.buffer[i] = q.buffer[i]

OverlapAgrees(q) ==
    LET r == Overlap(q)
        cells == CellsBetween(Low(q.box), High(q.box))
    IN  IF cells = {} THEN r.kind = "Miss" /\ r.actual = 0 /\ r.buffer = q.buffer
        ELSE AnswersOverlap(q, r, cells)

(* The first tick at which the box of a sweep touches a cell or a body; of *)
(* a body also past the end of the sweep, as if it went on, up to the tick *)
(* at which the slowest direction, one unit in Ticks ticks, is past it.    *)
Never == -1

FirstTouch(q, lo, hi, last) ==
    LET ts == {t \in 0..last : Touches(q.box.center, q.dir, q.box.half, t, lo, hi)}
    IN  IF ts = {} THEN Never ELSE Min(ts)

LongWay(q, lo, hi) ==
    Ticks * Max({Abs(lo[i] - q.box.half[i] - q.box.center[i]) : i \in Axis}
                \cup {Abs(hi[i] + q.box.half[i] - q.box.center[i]) : i \in Axis})

(* An answer r of a sweep that touches each cell and each body first at    *)
(* these ticks, and where no cell is an error.                             *)
AnswersSweep(q, r, cell, body) ==
    LET Of(k) == {c \in DOMAIN cell : cell[c] # Never /\ BlockAt(q, c).kind = k}
        stops == {cell[c] : c \in Of("Hit")}
                   \cup {Min({Ticks, body[b]}) : b \in {x \in DOMAIN body : body[x] # Never}}
        opens == {cell[c] : c \in Of("Unresolved")}
    IN  /\ SameAsRead(q, r)
        /\ r.kind = "Miss" <=> stops \cup opens = {}
        /\ r.kind = "Unresolved" <=> opens # {} /\ (stops = {} \/ Min(opens) <= Min(stops))
        /\ r.kind = "Unresolved" => \E c \in Of("Unresolved") :
              cell[c] = Min(opens) /\ SectionOf(c) = r.section
        /\ r.kind = "Hit" => r.way = Min(stops)
        /\ r.kind = "Hit" /\ "cell" \in DOMAIN r => cell[r.cell] = r.way
        /\ r.kind = "Hit" /\ "body" \in DOMAIN r =>
              /\ Min({Ticks, body[r.body]}) = r.way
              /\ \A c \in Of("Hit") : cell[c] > r.way

SweepAgrees(q) ==
    LET cells == CellsBetween([i \in Axis |-> Low(q.box)[i] + Min({0, q.dir[i]})],
                              [i \in Axis |-> High(q.box)[i] + Max({0, q.dir[i]})])
        cell == [c \in cells |-> FirstTouch(q, CellLow(c), CellHigh(c), Ticks)]
        body == [b \in DOMAIN q.bodies |->
                    LET lo == Low(q.bodies[b]) hi == High(q.bodies[b])
                    IN  FirstTouch(q, lo, hi, LongWay(q, lo, hi))]
        failed == \E c \in cells : cell[c] # Never /\ BlockAt(q, c).kind = "Error"
    IN  IF cells = {} THEN Sweep(q).kind = "Miss"
        ELSE IF Cardinality(cells) > MaxCells \/ failed THEN Sweep(q).kind = "Error"
        ELSE AnswersSweep(q, Sweep(q), cell, body)

----------------------------------------------------------------------------
(* Properties.                                                             *)

(* Nothing that is not known is taken for air or for a wall.  Along a ray  *)
(* or a sweep the answer is what is met first: a block of the mask, a body *)
(* or a section without blocks, which prevails where it is met together    *)
(* with them; a miss is one against known cells only.  A ray enters a      *)
(* block by the face it reports.  An overlap counts exactly the cells that *)
(* share more than their surface with the box, and the bodies, whatever    *)
(* the buffer has room for, and writes that many of them, each once.  All  *)
(* of them find the blocks that block reads of the cut find.  A body that  *)
(* a sweep would only meet beyond its end counts as met at its end, and    *)
(* where no cell is in question no body is looked at, as in the code.      *)
PhysicsAgrees(q) ==
    CASE q.query = "ray" -> RayAgrees(q)
      [] q.query = "overlap" -> OverlapAgrees(q)
      [] q.query = "sweep" -> SweepAgrees(q)

(* voxel-world-v1.json:1458: a sweep returns whether it collides, the      *)
(* fraction, the point and the face normal: that of the face that is met.  *)
SweepNormal(q) ==
    q.query = "sweep" =>
        LET r == Sweep(q) IN r.kind = "Hit" => Faces(r.normal, q.dir)

(* Positions, boxes and ways as they are asked for; a cut that has blocks  *)
(* for what it says is stored.                                             *)
IsVector(v) == v \in [Axis -> Int]
IsWay(dir) == IsVector(dir) /\ \A i \in Axis : dir[i] # 0 => Ticks % Abs(dir[i]) = 0
IsBox(b) == IsVector(b.center) /\ b.half \in [Axis -> Nat]

IsScene(q) ==
    /\ IsSeq(q.bodies) /\ \A b \in DOMAIN q.bodies : IsBox(q.bodies[b])
    /\ \A s \in DOMAIN q.world :
          q.world[s].presence \in Stored => q.world[s].storage # Absent

IsRay(q) ==
    /\ q.query = "ray" /\ IsScene(q)
    /\ IsVector(q.from) /\ IsWay(q.dir) /\ q.reach \in Int

IsOverlap(q) == q.query = "overlap" /\ IsScene(q) /\ IsBox(q.box) /\ IsSeq(q.buffer)

IsSweep(q) == q.query = "sweep" /\ IsScene(q) /\ IsBox(q.box) /\ IsWay(q.dir)

PhysicsSpec ==
    /\ question = NoQuestion
    /\ [][/\ question = NoQuestion
          /\ IsRay(question') \/ IsOverlap(question') \/ IsSweep(question')]_question

(* PhysicsAgrees of every ray, overlap and sweep.                          *)
PhysicsHolds == question.query \in {"ray", "overlap", "sweep"} => PhysicsAgrees(question)

(* The normal of every sweep.                                              *)
SweepNormals == SweepNormal(question)
=============================================================================
