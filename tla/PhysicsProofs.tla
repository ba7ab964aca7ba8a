---------------------------- MODULE PhysicsProofs ----------------------------
(***************************************************************************)
(* Theorem about physics queries: every ray, overlap and sweep is answered *)
(* by what is met first, for any cut, any bodies, any boxes and any        *)
(* directions of whole ticks.                                              *)
(***************************************************************************)
EXTENDS ReadProofs, PhysicsQuery

----------------------------------------------------------------------------
(* Numbers.                                                                 *)

LEMMA GreatestOf ==
    ASSUME NEW S, S \subseteq Int, S # {}, NEW top \in Int, \A x \in S : x <= top
    PROVE  Max(S) \in S /\ \A x \in S : x <= Max(S)
<1> DEFINE T == {top - x : x \in S}
<1>1. T \subseteq Nat /\ T # {}
  <2>1. \A x \in S : top - x \in Nat
    OBVIOUS
  <2> QED BY <2>1
<1>2. PICK n \in T : \A m \in T : n <= m
  BY <1>1, LeastNumber, Zenon
<1>3. PICK x \in S : n = top - x
  BY <1>2
<1>4. \A y \in S : x >= y
  BY <1>2, <1>3
<1> QED BY <1>4 DEF Max

LEMMA LeastOf ==
    ASSUME NEW S, S \subseteq Int, S # {}, NEW bottom \in Int, \A x \in S : bottom <= x
    PROVE  Min(S) \in S /\ \A x \in S : Min(S) <= x
<1> DEFINE T == {x - bottom : x \in S}
<1>1. T \subseteq Nat /\ T # {}
  <2>1. \A x \in S : x - bottom \in Nat
    OBVIOUS
  <2> QED BY <2>1
<1>2. PICK n \in T : \A m \in T : n <= m
  BY <1>1, LeastNumber, Zenon
<1>3. PICK x \in S : n = x - bottom
  BY <1>2
<1>4. \A y \in S : x <= y
  BY <1>2, <1>3
<1> QED BY <1>4 DEF Min

(* The numbers of some axes are bounded.                                    *)
LEMMA AxesBounded ==
    ASSUME NEW M, M \subseteq Axis, NEW f, \A i \in M : f[i] \in Int
    PROVE  \E top \in Nat : \A i \in M : -top <= f[i] /\ f[i] <= top
<1> DEFINE g(i) == IF i \in M THEN Abs(f[i]) ELSE 0
<1>1. \A i \in Axis : g(i) \in Nat
  BY DEF Abs
<1>2. \A i \in M : -g(i) <= f[i] /\ f[i] <= g(i)
  BY DEF Abs
<1> HIDE DEF g
<1>3. g(1) + g(2) + g(3) \in Nat /\ \A i \in M : g(i) <= g(1) + g(2) + g(3)
  BY <1>1 DEF Axis
<1>4. \A i \in M : -(g(1) + g(2) + g(3)) <= f[i] /\ f[i] <= g(1) + g(2) + g(3)
  BY <1>1, <1>2, <1>3 DEF Axis
<1> QED BY <1>3, <1>4

(* A factor keeps an order or turns it over.                                *)
LEMMA Scaled ==
    ASSUME NEW d \in Int, NEW x \in Int, NEW y \in Int
    PROVE  /\ d > 0 => (d * x <= d * y <=> x <= y)
           /\ d < 0 => (d * x <= d * y <=> y <= x)
<1>1. ASSUME d > 0, x <= y PROVE d * x <= d * y
  BY <1>1
<1>2. ASSUME d > 0, y < x PROVE d * y < d * x
  BY <1>2
<1>3. ASSUME d < 0, x <= y PROVE d * y <= d * x
  BY <1>3
<1>4. ASSUME d < 0, y < x PROVE d * x < d * y
  BY <1>4
<1>5. d * x \in Int /\ d * y \in Int
  OBVIOUS
<1> QED BY <1>1, <1>2, <1>3, <1>4, <1>5

----------------------------------------------------------------------------
(* Ticks.                                                                   *)

Divider(d) == d \in Int /\ d # 0 /\ Ticks % Abs(d) = 0

LEMMA TicksOf ==
    ASSUME NEW d, Divider(d)
    PROVE  PerTick(d) \in Int /\ PerTick(d) * d = Ticks /\ Sign(d) * PerTick(d) > 0
<1> DEFINE a == Abs(d)
           w == Ticks \div a
<1>1. a \in Nat \ {0} /\ Ticks \in Nat \ {0} /\ Ticks % a = 0
  BY PhysicsAssumption DEF Divider, Abs
<1> HIDE DEF a
<1>2. Rest(Ticks, a, w, Ticks % a)
  <2>1. Ticks \in Int
    BY <1>1
  <2> QED BY <1>1, <2>1, Divides, Zenon
<1>3. w \in Int /\ Ticks = w * a
  BY <1>1, <1>2 DEF Rest
<1>4. PerTick(d) = Sign(d) * w
  BY DEF PerTick, a
<1> HIDE DEF w
<1>5. w > 0
  <2> SUFFICES ASSUME w <= 0 PROVE FALSE
    BY <1>3
  <2>1. w * a <= 0 * a
    BY <1>1, <1>3
  <2> QED BY <2>1, <1>1, <1>3
<1>6. CASE d > 0
  BY <1>3, <1>4, <1>5, <1>6 DEF a, Sign, Abs, Divider
<1>7. CASE d < 0
  <2>1. Sign(d) = -1 /\ a = -d /\ d \in Int
    BY <1>7 DEF a, Sign, Abs, Divider
  <2>2. PerTick(d) = -w
    BY <2>1, <1>3, <1>4
  <2>3. (-w) * d = w * (-d)
    BY <2>1, <1>3
  <2> QED BY <2>1, <2>2, <2>3, <1>3, <1>5
<1> QED BY <1>6, <1>7 DEF Divider

(* When a coordinate comes to a boundary, in ticks.                         *)
Ahead(from, d, b) == (b - from) * PerTick(d)

LEMMA Crossing ==
    ASSUME NEW d, Divider(d), NEW from \in Int, NEW b \in Int
    PROVE  /\ Ahead(from, d, b) \in Int
           /\ from * Ticks + d * Ahead(from, d, b) = b * Ticks
<1> DEFINE p == PerTick(d)
           r == b - from
<1>1. p \in Int /\ p * d = Ticks /\ d \in Int /\ r \in Int /\ Ticks \in Int
  BY TicksOf, PhysicsAssumption DEF Divider
<1>2. Ahead(from, d, b) = r * p
  BY DEF Ahead
<1> HIDE DEF p
<1>3. from * Ticks + r * Ticks = b * Ticks
  BY <1>1
<1> HIDE DEF r
<1>4. d * (r * p) = r * (p * d)
  BY <1>1
<1> QED BY <1>1, <1>2, <1>3, <1>4

(* Before, at and after a boundary.                                         *)
LEMMA Passed ==
    ASSUME NEW d, Divider(d), NEW from \in Int, NEW b \in Int, NEW t \in Int
    PROVE  LET n == Ahead(from, d, b)
               p == from * Ticks + d * t
           IN  /\ p \in Int
               /\ d > 0 => (b * Ticks <= p <=> n <= t) /\ (p <= b * Ticks <=> t <= n)
               /\ d < 0 => (p <= b * Ticks <=> n <= t) /\ (b * Ticks <= p <=> t <= n)
<1> DEFINE n == Ahead(from, d, b)
           B == b * Ticks
           F == from * Ticks
           dn == d * n
           dt == d * t
<1>1. n \in Int /\ F + dn = B
  BY Crossing
<1>2. d \in Int /\ F \in Int /\ B \in Int /\ dt \in Int
  BY PhysicsAssumption DEF Divider
<1> HIDE DEF n
<1>3. /\ d > 0 => (dn <= dt <=> n <= t)
      /\ d > 0 => (dt <= dn <=> t <= n)
      /\ d < 0 => (dn <= dt <=> t <= n)
      /\ d < 0 => (dt <= dn <=> n <= t)
  BY <1>1, <1>2, Scaled
<1>4. dn \in Int
  BY <1>1, <1>2
<1> HIDE DEF B, F, dn, dt
<1>5. /\ F + dt \in Int
      /\ d > 0 => (B <= F + dt <=> n <= t) /\ (F + dt <= B <=> t <= n)
      /\ d < 0 => (F + dt <= B <=> n <= t) /\ (B <= F + dt <=> t <= n)
  BY <1>1, <1>2, <1>3, <1>4
<1> QED BY <1>5 DEF n, B, F, dt

(* The same for the middle of a tick, which is at no boundary.              *)
LEMMA PassedMidway ==
    ASSUME NEW d, Divider(d), NEW from \in Int, NEW b \in Int, NEW t \in Int
    PROVE  LET n == Ahead(from, d, b)
               p == 2 * from * Ticks + (2 * t + 1) * d
           IN  /\ p \in Int
               /\ d > 0 => (b * (2 * Ticks) <= p <=> n <= t)
               /\ d < 0 => (p < b * (2 * Ticks) <=> n <= t)
<1> DEFINE n == Ahead(from, d, b)
           B == b * Ticks
           F == from * Ticks
           dn == d * n
           dt == d * (2 * t + 1)
           m == 2 * n
<1>1. n \in Int /\ F + dn = B
  BY Crossing
<1>2. d \in Int /\ F \in Int /\ B \in Int /\ dt \in Int /\ 2 * t + 1 \in Int
  BY PhysicsAssumption DEF Divider
<1> HIDE DEF n
<1>3. dn \in Int /\ m \in Int
  BY <1>1, <1>2
<1>4. d * m = 2 * dn
  BY <1>1, <1>2
<1> HIDE DEF m
<1>5. /\ d > 0 => (2 * dn <= dt <=> m <= 2 * t + 1)
      /\ d < 0 => (dt <= 2 * dn <=> m <= 2 * t + 1)
  BY <1>2, <1>3, <1>4, Scaled
<1>6. m <= 2 * t + 1 <=> n <= t
  BY <1>1 DEF m
<1>7. dt # 2 * dn
  <2> SUFFICES ASSUME dt = 2 * dn PROVE FALSE
    OBVIOUS
  <2>1. d * m = d * (2 * t + 1)
    BY <1>4
  <2>2. m <= 2 * t + 1 /\ 2 * t + 1 <= m
    BY <2>1, <1>2, <1>3, Scaled DEF Divider
  <2> QED BY <2>2, <1>1 DEF m
<1>8. b * (2 * Ticks) = 2 * B /\ 2 * from * Ticks = 2 * F /\ (2 * t + 1) * d = dt
  BY <1>2, PhysicsAssumption
<1> HIDE DEF B, F, dn, dt
<1>9. /\ 2 * F + dt \in Int
      /\ d > 0 => (2 * B <= 2 * F + dt <=> n <= t)
      /\ d < 0 => (2 * F + dt < 2 * B <=> n <= t)
  BY <1>1, <1>2, <1>3, <1>5, <1>6, <1>7
<1> QED BY <1>8, <1>9 DEF n

----------------------------------------------------------------------------
(* Boxes on the way.                                                        *)

(* The point is in the box after t ticks.                                   *)
InsideAlong(from, d, lo, hi, t) ==
    lo * Ticks <= from * Ticks + d * t /\ from * Ticks + d * t <= hi * Ticks

InsideAt(from, dir, lo, hi, t) ==
    \A i \in Axis : InsideAlong(from[i], dir[i], lo[i], hi[i], t)

LEMMA WayDivides ==
    ASSUME NEW dir, IsWay(dir)
    PROVE  /\ \A i \in Axis : dir[i] \in Int
           /\ \A i \in Moving(dir) : Divider(dir[i])
           /\ \A i \in Axis \ Moving(dir) : dir[i] = 0
           /\ Moving(dir) \subseteq Axis
BY DEF IsWay, IsVector, Moving, Divider

LEMMA InsideMoving ==
    ASSUME NEW d, Divider(d), NEW from \in Int, NEW lo \in Int, NEW hi \in Int, NEW t \in Int
    PROVE  /\ Near(from, d, lo, hi) \in Int /\ Far(from, d, lo, hi) \in Int
           /\ InsideAlong(from, d, lo, hi, t)
                <=> Near(from, d, lo, hi) <= t /\ t <= Far(from, d, lo, hi)
<1>1. CASE d > 0
  <2>1. Near(from, d, lo, hi) = Ahead(from, d, lo) /\ Far(from, d, lo, hi) = Ahead(from, d, hi)
    BY <1>1 DEF Near, Far, Ahead
  <2>2. Ahead(from, d, lo) \in Int /\ Ahead(from, d, hi) \in Int
    BY Crossing
  <2>3. /\ lo * Ticks <= from * Ticks + d * t <=> Ahead(from, d, lo) <= t
        /\ from * Ticks + d * t <= hi * Ticks <=> t <= Ahead(from, d, hi)
    BY <1>1, Passed
  <2> QED BY <2>1, <2>2, <2>3 DEF InsideAlong
<1>2. CASE d < 0
  <2>0. ~(d > 0)
    BY <1>2 DEF Divider
  <2>1. Near(from, d, lo, hi) = Ahead(from, d, hi) /\ Far(from, d, lo, hi) = Ahead(from, d, lo)
    BY <2>0 DEF Near, Far, Ahead
  <2>2. Ahead(from, d, lo) \in Int /\ Ahead(from, d, hi) \in Int
    BY Crossing
  <2>3. /\ lo * Ticks <= from * Ticks + d * t <=> t <= Ahead(from, d, lo)
        /\ from * Ticks + d * t <= hi * Ticks <=> Ahead(from, d, hi) <= t
    BY <1>2, Passed
  <2> QED BY <2>1, <2>2, <2>3 DEF InsideAlong
<1> QED BY <1>1, <1>2 DEF Divider

LEMMA InsideFixed ==
    ASSUME NEW from \in Int, NEW lo \in Int, NEW hi \in Int, NEW t \in Int
    PROVE  InsideAlong(from, 0, lo, hi, t) <=> lo <= from /\ from <= hi
<1>1. Ticks \in Nat \ {0} /\ Ticks > 0 /\ Ticks \in Int
  BY PhysicsAssumption
<1>2. from * Ticks + 0 * t = Ticks * from /\ lo * Ticks = Ticks * lo /\ hi * Ticks = Ticks * hi
  BY <1>1
<1>3. (Ticks * lo <= Ticks * from <=> lo <= from) /\ (Ticks * from <= Ticks * hi <=> from <= hi)
  BY <1>1, Scaled
<1> QED BY <1>2, <1>3 DEF InsideAlong

(* A box is met at the first tick at which the point is in it.              *)
LEMMA BoxMet ==
    ASSUME NEW from, IsVector(from), NEW dir, IsWay(dir), NEW lo, IsVector(lo),
           NEW hi, IsVector(hi), NEW m, m = MeetsBox(from, dir, lo, hi)
    PROVE  /\ Met(m) => /\ m.way \in Nat /\ InsideAt(from, dir, lo, hi, m.way)
                        /\ DOMAIN m = {"way", "normal"}
                        /\ \/ m.way = 0
                           \/ \E i \in Moving(dir) :
                                 m.way = Near(from[i], dir[i], lo[i], hi[i])
           /\ \A t \in Nat : InsideAt(from, dir, lo, hi, t) => Met(m) /\ m.way <= t
<1> DEFINE M == Moving(dir)
           near == [i \in M |-> Near(from[i], dir[i], lo[i], hi[i])]
           far(i) == Far(from[i], dir[i], lo[i], hi[i])
           ways == {0} \cup {near[i] : i \in M}
           way == Max(ways)
           by == {i \in M : near[i] = way /\ way > 0}
           normal == [i \in Axis |-> IF by # {} /\ i = Min(by)
                                        THEN NormalSign(dir[i], lo[i], hi[i]) ELSE 0]
           Fits == /\ \A i \in Axis \ M : lo[i] <= from[i] /\ from[i] <= hi[i]
                   /\ \A i \in M : way <= far(i)
<1>1. m = IF Fits THEN [way |-> way, normal |-> normal] ELSE Kind("Miss")
  BY DEF MeetsBox
<1>2. \A i \in Axis : from[i] \in Int /\ lo[i] \in Int /\ hi[i] \in Int /\ dir[i] \in Int
  BY WayDivides DEF IsVector
<1>3. \A i \in M : i \in Axis /\ Divider(dir[i])
  BY WayDivides
<1>4. \A i \in M : near[i] \in Int /\ far(i) \in Int
  BY <1>2, <1>3, InsideMoving, 0 \in Int
<1>5. \A t \in Int : InsideAt(from, dir, lo, hi, t)
                        <=> /\ \A i \in Axis \ M : lo[i] <= from[i] /\ from[i] <= hi[i]
                            /\ \A i \in M : near[i] <= t /\ t <= far(i)
  <2> TAKE t \in Int
  <2>1. ASSUME NEW i \in M
        PROVE  InsideAlong(from[i], dir[i], lo[i], hi[i], t) <=> near[i] <= t /\ t <= far(i)
    BY <1>2, <1>3, InsideMoving
  <2>2. ASSUME NEW i \in Axis \ M
        PROVE  InsideAlong(from[i], dir[i], lo[i], hi[i], t) <=> lo[i] <= from[i] /\ from[i] <= hi[i]
    <3>1. dir[i] = 0
      BY WayDivides
    <3> QED BY <1>2, <3>1, InsideFixed
  <2>3. M \subseteq Axis
    BY <1>3
  <2> HIDE DEF M, near, far
  <2> QED BY <2>1, <2>2, <2>3 DEF InsideAt
<1> HIDE DEF near, far, normal
<1>6. PICK top \in Nat : \A i \in M : -top <= near[i] /\ near[i] <= top
  BY <1>3, <1>4, AxesBounded
<1>7. ways \subseteq Int /\ ways # {} /\ \A x \in ways : x <= top
  BY <1>4, <1>6
<1>8. way \in ways /\ \A x \in ways : x <= way
  <2>1. top \in Int
    OBVIOUS
  <2> HIDE DEF ways
  <2> QED BY <1>7, <2>1, GreatestOf
<1> HIDE DEF way
<1>9. way \in Nat /\ (\A i \in M : near[i] <= way) /\ (way = 0 \/ \E i \in M : way = near[i])
  BY <1>7, <1>8
<1>10. ASSUME Met(m)
       PROVE  Fits /\ m = [way |-> way, normal |-> normal]
  BY <1>1, <1>10 DEF Met, Kind
<1>11. ASSUME Met(m)
       PROVE  m.way \in Nat /\ InsideAt(from, dir, lo, hi, m.way) /\ DOMAIN m = {"way", "normal"}
              /\ m.way = way
  <2>1. m.way = way /\ DOMAIN m = {"way", "normal"}
    BY <1>10, <1>11
  <2>2. way \in Int
    BY <1>9
  <2>3. InsideAt(from, dir, lo, hi, way)
    BY <2>2, <1>5, <1>9, <1>10, <1>11
  <2> QED BY <2>1, <2>3, <1>9
<1>12. ASSUME NEW t \in Nat, InsideAt(from, dir, lo, hi, t)
       PROVE  Met(m) /\ m.way <= t
  <2>1. t \in Int
    OBVIOUS
  <2>2. /\ \A i \in Axis \ M : lo[i] <= from[i] /\ from[i] <= hi[i]
        /\ \A i \in M : near[i] <= t /\ t <= far(i)
    BY <2>1, <1>5, <1>12
  <2>3. way <= t
    BY <2>2, <1>9
  <2>4. Fits
    BY <2>1, <2>2, <2>3, <1>4, <1>9
  <2>5. m = [way |-> way, normal |-> normal]
    BY <2>4, <1>1
  <2> QED BY <2>3, <2>5 DEF Met
<1> QED BY <1>9, <1>11, <1>12 DEF near

LEMMA TouchedBox ==
    ASSUME NEW p, IsVector(p), NEW dir, IsVector(dir), NEW half, IsVector(half),
           NEW lo, IsVector(lo), NEW hi, IsVector(hi), NEW t \in Int
    PROVE  /\ Touches(p, dir, half, t, lo, hi)
                <=> InsideAt(p, dir, [i \in Axis |-> lo[i] - half[i]],
                             [i \in Axis |-> hi[i] + half[i]], t)
           /\ Touches(p, dir, NoHalf, t, lo, hi) <=> InsideAt(p, dir, lo, hi, t)
<1> DEFINE Low1 == [i \in Axis |-> lo[i] - half[i]]
           High1 == [i \in Axis |-> hi[i] + half[i]]
<1>1. ASSUME NEW i \in Axis
      PROVE  LET a == After(p, dir, t)[i] IN
             /\ lo[i] * Ticks <= a + half[i] * Ticks /\ hi[i] * Ticks >= a - half[i] * Ticks
                   <=> InsideAlong(p[i], dir[i], Low1[i], High1[i], t)
             /\ lo[i] * Ticks <= a + NoHalf[i] * Ticks /\ hi[i] * Ticks >= a - NoHalf[i] * Ticks
                   <=> InsideAlong(p[i], dir[i], lo[i], hi[i], t)
  <2> DEFINE x == p[i] * Ticks
             dt == dir[i] * t
             h == half[i]
             l == lo[i]
             u == hi[i]
  <2>1. /\ p[i] \in Int /\ dir[i] \in Int /\ h \in Int /\ l \in Int /\ u \in Int
        /\ Ticks \in Int /\ x \in Int /\ dt \in Int
    BY PhysicsAssumption DEF IsVector
  <2>2. After(p, dir, t)[i] = x + dt /\ NoHalf[i] = 0 /\ Low1[i] = l - h /\ High1[i] = u + h
    BY DEF After, NoHalf
  <2>3. /\ InsideAlong(p[i], dir[i], l - h, u + h, t)
              <=> (l - h) * Ticks <= x + dt /\ x + dt <= (u + h) * Ticks
        /\ InsideAlong(p[i], dir[i], l, u, t) <=> l * Ticks <= x + dt /\ x + dt <= u * Ticks
    BY DEF InsideAlong
  <2> HIDE DEF x, dt, h, l, u, Low1, High1
  <2>4. (l - h) * Ticks = l * Ticks - h * Ticks /\ (u + h) * Ticks = u * Ticks + h * Ticks
        /\ 0 * Ticks = 0
    BY <2>1
  <2>5. l * Ticks \in Int /\ u * Ticks \in Int /\ h * Ticks \in Int
    BY <2>1
  <2>6. /\ l * Ticks <= x + dt + h * Ticks /\ u * Ticks >= x + dt - h * Ticks
              <=> InsideAlong(p[i], dir[i], l - h, u + h, t)
        /\ l * Ticks <= x + dt + 0 * Ticks /\ u * Ticks >= x + dt - 0 * Ticks
              <=> InsideAlong(p[i], dir[i], l, u, t)
    BY <2>1, <2>3, <2>4, <2>5
  <2>7. lo[i] = l /\ hi[i] = u /\ half[i] = h
    BY DEF h, l, u
  <2>8. /\ p[i] \in Int /\ dir[i] \in Int
    BY <2>1
  <2> HIDE DEF h, l, u
  <2>9. /\ (l * Ticks <= After(p, dir, t)[i] + half[i] * Ticks
              /\ u * Ticks >= After(p, dir, t)[i] - half[i] * Ticks)
             <=> InsideAlong(p[i], dir[i], Low1[i], High1[i], t)
        /\ (l * Ticks <= After(p, dir, t)[i] + NoHalf[i] * Ticks
              /\ u * Ticks >= After(p, dir, t)[i] - NoHalf[i] * Ticks)
             <=> InsideAlong(p[i], dir[i], l, u, t)
    BY <2>1, <2>2, <2>6, <2>7
  <2> QED BY <2>7, <2>9
<1> HIDE DEF Low1, High1
<1>2. Touches(p, dir, half, t, lo, hi) <=> InsideAt(p, dir, Low1, High1, t)
  BY <1>1, Zenon DEF Touches, InsideAt
<1>3. Touches(p, dir, NoHalf, t, lo, hi) <=> InsideAt(p, dir, lo, hi, t)
  BY <1>1, Zenon DEF Touches, InsideAt
<1> QED BY <1>2, <1>3 DEF Low1, High1

(* What is first of some hits is one of them, met at once with or before    *)
(* all others, and the least of those met at once.                          *)
IsFirst(hits, i) ==
    \A j \in DOMAIN hits :
        hits[i].way < hits[j].way \/ (hits[i].way = hits[j].way /\ i <= j)

LEMMA FirstOf ==
    ASSUME NEW hits, DOMAIN hits \subseteq Nat, DOMAIN hits # {},
           \A i \in DOMAIN hits : hits[i].way \in Int /\ hits[i].way >= 0
    PROVE  \E i \in DOMAIN hits : First(hits) = hits[i] /\ IsFirst(hits, i)
<1> DEFINE D == DOMAIN hits
           ways == {hits[i].way : i \in D}
<1>1. ways \subseteq Nat /\ ways # {}
  <2>1. \A i \in D : hits[i].way \in Nat
    OBVIOUS
  <2> QED BY <2>1
<1>2. PICK w \in ways : \A x \in ways : w <= x
  BY <1>1, LeastNumber, Zenon
<1> DEFINE T == {i \in D : hits[i].way = w}
<1>3. T \subseteq Nat /\ T # {}
  BY <1>2
<1>4. PICK k \in T : \A x \in T : k <= x
  BY <1>3, LeastNumber, Zenon
<1>5. IsFirst(hits, k)
  <2> SUFFICES ASSUME NEW j \in D
               PROVE  hits[k].way < hits[j].way \/ (hits[k].way = hits[j].way /\ k <= j)
    BY DEF IsFirst
  <2>1. w <= hits[j].way /\ hits[k].way = w
    BY <1>2, <1>4
  <2>2. hits[j].way = w => k <= j
    BY <1>4
  <2> QED BY <2>1, <2>2
<1> DEFINE P(i) == \A j \in D : Before(hits[i], hits[j]) \/ (~Before(hits[j], hits[i]) /\ i <= j)
<1>6. \A i \in D : P(i) <=> IsFirst(hits, i)
  BY DEF Before, IsFirst
<1>7. First(hits) = hits[CHOOSE i \in D : P(i)]
  BY DEF First
<1> HIDE DEF P
<1>8. (CHOOSE i \in D : P(i)) \in D /\ P(CHOOSE i \in D : P(i))
  BY <1>4, <1>5, <1>6
<1> QED BY <1>6, <1>7, <1>8

(* What a hit of a body says.                                               *)
LEMMA HitFields ==
    ASSUME NEW b, NEW m, DOMAIN m = {"way", "normal"}
    PROVE  LET hit == Joined([kind |-> "Hit", body |-> b], m) IN
           /\ hit.kind = "Hit" /\ hit.body = b /\ hit.way = m.way
           /\ "body" \in DOMAIN hit /\ "cell" \notin DOMAIN hit
<1> DEFINE r == [kind |-> "Hit", body |-> b]
           hit == Joined(r, m)
<1>1. DOMAIN r = {"kind", "body"} /\ r["kind"] = "Hit" /\ r["body"] = b
  OBVIOUS
<1> HIDE DEF r
<1>2. hit = [f \in {"kind", "body", "way", "normal"} |-> IF f \in {"kind", "body"} THEN r[f] ELSE m[f]]
  BY <1>1 DEF Joined
<1> HIDE DEF hit
<1>3. hit["kind"] = "Hit" /\ hit["body"] = b /\ hit["way"] = m["way"]
  BY <1>1, <1>2
<1>4. "body" \in DOMAIN hit /\ "cell" \notin DOMAIN hit
  BY <1>2
<1> QED BY <1>3, <1>4 DEF hit, r

----------------------------------------------------------------------------
(* The nearest body.                                                        *)

BodyAt(q, t, b) == Touches(q.from, q.dir, NoHalf, t, Low(q.bodies[b]), High(q.bodies[b]))

LEMMA BodiesTyped ==
    ASSUME NEW q, IsScene(q)
    PROVE  /\ DOMAIN q.bodies = 1..Len(q.bodies) /\ Len(q.bodies) \in Nat
           /\ \A b \in DOMAIN q.bodies :
                 /\ IsVector(q.bodies[b].center) /\ IsVector(q.bodies[b].half)
                 /\ IsVector(Low(q.bodies[b])) /\ IsVector(High(q.bodies[b]))
                 /\ \A i \in Axis : /\ Low(q.bodies[b])[i] = q.bodies[b].center[i] - q.bodies[b].half[i]
                                    /\ High(q.bodies[b])[i] = q.bodies[b].center[i] + q.bodies[b].half[i]
                                    /\ q.bodies[b].half[i] >= 0
<1>1. DOMAIN q.bodies = 1..Len(q.bodies) /\ Len(q.bodies) \in Nat
  BY DEF IsScene, IsSeq
<1>2. ASSUME NEW b \in DOMAIN q.bodies
      PROVE  /\ IsVector(q.bodies[b].center) /\ IsVector(q.bodies[b].half)
             /\ IsVector(Low(q.bodies[b])) /\ IsVector(High(q.bodies[b]))
             /\ \A i \in Axis : /\ Low(q.bodies[b])[i] = q.bodies[b].center[i] - q.bodies[b].half[i]
                                /\ High(q.bodies[b])[i] = q.bodies[b].center[i] + q.bodies[b].half[i]
                                /\ q.bodies[b].half[i] >= 0
  <2>1. IsVector(q.bodies[b].center) /\ q.bodies[b].half \in [Axis -> Nat]
    BY DEF IsScene, IsBox
  <2>2. \A i \in Axis : q.bodies[b].center[i] \in Int /\ q.bodies[b].half[i] \in Int
    BY <2>1 DEF IsVector
  <2>3. IsVector(q.bodies[b].half)
    BY <2>1 DEF IsVector
  <2>4. IsVector(Low(q.bodies[b])) /\ IsVector(High(q.bodies[b]))
    BY <2>2 DEF IsVector, Low, High
  <2>5. \A i \in Axis : q.bodies[b].half[i] >= 0
    BY <2>1
  <2> QED BY <2>1, <2>3, <2>4, <2>5 DEF Low, High
<1> QED BY <1>1, <1>2

(* What is nearest, and how near.                                           *)
IsNearest(q, body) ==
    /\ body.kind \in {"Hit", "Miss"}
    /\ "cell" \notin DOMAIN body
    /\ body.kind = "Miss" => \A t \in 0..q.reach, b \in DOMAIN q.bodies : ~BodyAt(q, t, b)
    /\ body.kind = "Hit" =>
          /\ "body" \in DOMAIN body
          /\ body.way \in 0..q.reach /\ body.body \in DOMAIN q.bodies
          /\ BodyAt(q, body.way, body.body)
          /\ \A b \in 1..body.body - 1 : ~BodyAt(q, body.way, b)
          /\ \A t \in 0..body.way - 1, b \in DOMAIN q.bodies : ~BodyAt(q, t, b)

LEMMA NearestFound ==
    ASSUME NEW q, IsRay(q), q.reach >= 0
    PROVE  IsNearest(q, NearestBody(q))
<1> DEFINE D == DOMAIN q.bodies
           lo(b) == Low(q.bodies[b])
           hi(b) == High(q.bodies[b])
           meets == [b \in D |-> MeetsBox(q.from, q.dir, lo(b), hi(b))]
           near == {b \in D : Met(meets[b]) /\ meets[b].way <= q.reach}
           hit(b) == Joined([kind |-> "Hit", body |-> b], meets[b])
           hits == [b \in near |-> hit(b)]
           body == NearestBody(q)
<1>1. body = First(hits)
  BY DEF NearestBody, Nearest
<1>2. IsScene(q) /\ IsVector(q.from) /\ IsWay(q.dir) /\ IsVector(q.dir) /\ q.reach \in Nat
  BY DEF IsRay, IsWay
<1>3. D = 1..Len(q.bodies) /\ Len(q.bodies) \in Nat /\ \A b \in D : IsVector(lo(b)) /\ IsVector(hi(b))
  BY <1>2, BodiesTyped
<1>4. IsVector(NoHalf)
  BY DEF IsVector, NoHalf
<1>5. \A b \in D : \A t \in Int : BodyAt(q, t, b) <=> InsideAt(q.from, q.dir, lo(b), hi(b), t)
  <2> TAKE b \in D
  <2> TAKE t \in Int
  <2>1. IsVector(lo(b)) /\ IsVector(hi(b))
    BY <1>3
  <2> HIDE DEF lo, hi
  <2>2. Touches(q.from, q.dir, NoHalf, t, lo(b), hi(b)) <=> InsideAt(q.from, q.dir, lo(b), hi(b), t)
    BY <1>2, <1>4, <2>1, TouchedBox
  <2> QED BY <2>2 DEF BodyAt, lo, hi
<1>6. \A b \in D : /\ Met(meets[b]) => /\ meets[b].way \in Nat
                                       /\ InsideAt(q.from, q.dir, lo(b), hi(b), meets[b].way)
                                       /\ DOMAIN meets[b] = {"way", "normal"}
                   /\ \A t \in Nat : InsideAt(q.from, q.dir, lo(b), hi(b), t)
                                        => Met(meets[b]) /\ meets[b].way <= t
  <2> TAKE b \in D
  <2>1. IsVector(lo(b)) /\ IsVector(hi(b)) /\ meets[b] = MeetsBox(q.from, q.dir, lo(b), hi(b))
    BY <1>3
  <2> HIDE DEF lo, hi, meets
  <2> QED BY <1>2, <2>1, BoxMet
<1> HIDE DEF lo, hi, meets
<1>7. \A b \in near : /\ b \in D /\ meets[b].way \in 0..q.reach /\ BodyAt(q, meets[b].way, b)
                      /\ DOMAIN meets[b] = {"way", "normal"}
  BY <1>2, <1>5, <1>6
<1>8. \A b \in D : \A t \in 0..q.reach :
         BodyAt(q, t, b) => b \in near /\ meets[b].way <= t
  <2> SUFFICES ASSUME NEW b \in D, NEW t \in 0..q.reach, BodyAt(q, t, b)
               PROVE  b \in near /\ meets[b].way <= t
    OBVIOUS
  <2>1. t \in Nat /\ t \in Int
    BY <1>2
  <2>2. Met(meets[b]) /\ meets[b].way <= t /\ meets[b].way \in Nat
    BY <2>1, <1>5, <1>6
  <2> QED BY <2>1, <2>2, <1>2
<1> HIDE DEF near
<1>9. \A b \in near : /\ hit(b).kind = "Hit" /\ hit(b).body = b /\ hit(b).way = meets[b].way
                      /\ "body" \in DOMAIN hit(b) /\ "cell" \notin DOMAIN hit(b)
  <2> TAKE b \in near
  <2>1. DOMAIN meets[b] = {"way", "normal"}
    BY <1>7
  <2> QED BY <2>1, HitFields
<1> HIDE DEF hit
<1>10. CASE near = {}
  <2>1. body = Kind("Miss")
    BY <1>1, <1>10 DEF First
  <2>2. body.kind = "Miss" /\ "cell" \notin DOMAIN body
    BY <2>1 DEF Kind
  <2> QED BY <1>8, <1>10, <2>2 DEF IsNearest
<1>11. CASE near # {}
  <2>1. DOMAIN hits = near /\ \A b \in near : hits[b] = hit(b)
    OBVIOUS
  <2>2. near \subseteq Nat
    BY <1>3, <1>7
  <2>3. \A b \in near : hits[b].way = meets[b].way /\ hits[b].way \in Int /\ hits[b].way >= 0
    BY <1>2, <1>7, <1>9, <2>1
  <2> HIDE DEF hits, body
  <2>4. PICK k \in near : First(hits) = hits[k] /\ IsFirst(hits, k)
    BY <1>11, <2>1, <2>2, <2>3, FirstOf
  <2>5. body = hit(k) /\ body.kind = "Hit" /\ body.body = k /\ body.way = meets[k].way
        /\ "body" \in DOMAIN body /\ "cell" \notin DOMAIN body
    BY <1>1, <1>9, <2>1, <2>4
  <2>6. \A b \in near : meets[k].way < meets[b].way \/ (meets[k].way = meets[b].way /\ k <= b)
    BY <2>1, <2>3, <2>4 DEF IsFirst
  <2>7. k \in D /\ body.way \in 0..q.reach /\ BodyAt(q, body.way, k)
    BY <1>7, <2>5
  <2>8. ASSUME NEW b \in 1..k - 1
        PROVE  ~BodyAt(q, body.way, b)
    <3> SUFFICES ASSUME BodyAt(q, body.way, b) PROVE FALSE
      OBVIOUS
    <3>1. b \in D
      BY <1>3, <2>7
    <3>2. b \in near /\ meets[b].way <= body.way
      BY <1>8, <2>7, <3>1
    <3> QED BY <1>3, <2>5, <2>6, <2>7, <3>1, <3>2, <1>7
  <2>9. ASSUME NEW t \in 0..body.way - 1, NEW b \in D
        PROVE  ~BodyAt(q, t, b)
    <3> SUFFICES ASSUME BodyAt(q, t, b) PROVE FALSE
      OBVIOUS
    <3>1. t \in 0..q.reach /\ t < body.way
      BY <1>2, <2>7
    <3>2. b \in near /\ meets[b].way <= t /\ meets[b].way \in Int
      BY <1>7, <1>8, <3>1
    <3> QED BY <1>2, <2>5, <2>6, <2>7, <3>1, <3>2
  <2> HIDE DEF D
  <2>10. IsNearest(q, body)
    BY <2>5, <2>7, <2>8, <2>9 DEF IsNearest, D
  <2> QED BY <2>10 DEF body
<1> QED BY <1>10, <1>11

----------------------------------------------------------------------------
(* Cells on the way.                                                        *)

(* When a coordinate enters and leaves the cells of a number.               *)
Entry(from, d, c) == Ahead(from, d, (IF d > 0 THEN c ELSE c + 1) * Unit)
Exit(from, d, c) == Ahead(from, d, (IF d > 0 THEN c + 1 ELSE c) * Unit)

LEMMA CellCrossed ==
    ASSUME NEW d, Divider(d), NEW from \in Int, NEW c \in Int
    PROVE  /\ Entry(from, d, c) \in Int /\ Exit(from, d, c) \in Int
           /\ Entry(from, d, c + Sign(d)) = Exit(from, d, c)
           /\ Exit(from, d, c) = Entry(from, d, c) + Unit * Abs(PerTick(d))
           /\ Unit * Abs(PerTick(d)) \in Nat \ {0}
           /\ Entry(from, d, c) = Near(from, d, c * Unit, (c + 1) * Unit)
           /\ Exit(from, d, c) = Far(from, d, c * Unit, (c + 1) * Unit)
<1> DEFINE p == PerTick(d)
<1>1. Unit \in Nat \ {0} /\ d \in Int /\ d # 0
  BY PhysicsAssumption DEF Divider
<1>2. p \in Int /\ Sign(d) * p > 0
  BY TicksOf
<1>3. c * Unit \in Int /\ (c + 1) * Unit \in Int /\ (c + 1) * Unit = c * Unit + Unit
  BY <1>1
<1>4. Entry(from, d, c) \in Int /\ Exit(from, d, c) \in Int
  BY <1>1, <1>3, Crossing DEF Entry, Exit
<1> DEFINE u == c * Unit
           v == (c + 1) * Unit
<1>7. v = u + Unit
  BY <1>3
<1>5. CASE d > 0
  <2>1. Sign(d) = 1
    BY <1>5 DEF Sign
  <2>2. Entry(from, d, c) = (u - from) * p /\ Exit(from, d, c) = (u + Unit - from) * p
    <3>1. Entry(from, d, c) = (u - from) * p /\ Exit(from, d, c) = (v - from) * p
      BY <1>5 DEF Entry, Exit, Ahead
    <3>2. v - from = u + Unit - from
      BY <1>1, <1>3, <1>7
    <3> QED BY <3>1, <3>2, Zenon
  <2>3. p > 0 /\ Abs(p) = p
    BY <1>2, <2>1 DEF Abs
  <2>4. (u + Unit - from) * p = (u - from) * p + Unit * p /\ Unit * p > 0 /\ Unit * p \in Int
    <3> HIDE DEF p, u
    <3>1. u \in Int
      BY <1>3 DEF u
    <3> QED BY <3>1, <1>1, <1>2, <2>3
  <2>5. Exit(from, d, c) = Entry(from, d, c) + Unit * Abs(p) /\ Unit * Abs(p) \in Nat \ {0}
    BY <2>2, <2>3, <2>4
  <2>6. Entry(from, d, c + Sign(d)) = Exit(from, d, c)
    BY <1>5, <2>1 DEF Entry, Exit
  <2>7. Entry(from, d, c) = Near(from, d, c * Unit, (c + 1) * Unit)
        /\ Exit(from, d, c) = Far(from, d, c * Unit, (c + 1) * Unit)
    BY <1>5 DEF Entry, Exit, Near, Far, Ahead
  <2> QED BY <1>4, <2>5, <2>6, <2>7
<1>6. CASE d < 0
  <2>0. ~(d > 0)
    BY <1>1, <1>6
  <2>1. Sign(d) = -1
    BY <1>6, <2>0 DEF Sign
  <2>2. Exit(from, d, c) = (u - from) * p /\ Entry(from, d, c) = (u + Unit - from) * p
    <3>1. Exit(from, d, c) = (u - from) * p /\ Entry(from, d, c) = (v - from) * p
      BY <2>0 DEF Entry, Exit, Ahead
    <3>2. v - from = u + Unit - from
      BY <1>1, <1>3, <1>7
    <3> QED BY <3>1, <3>2, Zenon
  <2>3. p < 0 /\ Abs(p) = -p
    BY <1>2, <2>1 DEF Abs
  <2>4. (u + Unit - from) * p = (u - from) * p - Unit * (-p) /\ Unit * (-p) > 0
        /\ Unit * (-p) \in Int /\ (u - from) * p \in Int
    <3> HIDE DEF p, u
    <3>1. u \in Int
      BY <1>3 DEF u
    <3> QED BY <3>1, <1>1, <1>2, <2>3
  <2>5. Exit(from, d, c) = Entry(from, d, c) + Unit * Abs(p) /\ Unit * Abs(p) \in Nat \ {0}
    BY <2>2, <2>3, <2>4
  <2>6. Entry(from, d, c + Sign(d)) = Exit(from, d, c)
    BY <2>0, <2>1 DEF Entry, Exit
  <2>7. Entry(from, d, c) = Near(from, d, c * Unit, (c + 1) * Unit)
        /\ Exit(from, d, c) = Far(from, d, c * Unit, (c + 1) * Unit)
    BY <2>0 DEF Entry, Exit, Near, Far, Ahead
  <2> QED BY <1>4, <2>5, <2>6, <2>7
<1> QED BY <1>1, <1>5, <1>6

(* A coordinate between two boundaries is in the cells between them.        *)
LEMMA CellBetween ==
    ASSUME NEW w \in Nat \ {0}, NEW c \in Int, NEW p \in Int
    PROVE  /\ c * w <= p /\ p < (c + 1) * w <=> p \div w = c
           /\ c * w <= p /\ p <= (c + 1) * w => c \in {p \div w, (p - 1) \div w}
<1> DEFINE k == p \div w
<1>1. ASSUME NEW x \in Int, c * w <= x, x < (c + 1) * w
      PROVE  x \div w = c
  <2>1. Rest(x, w, c, x - c * w)
    BY <1>1 DEF Rest
  <2> QED BY <2>1, Divided
<1>2. ASSUME k = c
      PROVE  c * w <= p /\ p < (c + 1) * w
  <2>1. Rest(p, w, p \div w, p % w)
    BY Divides
  <2> QED BY <1>2, <2>1 DEF Rest
<1>3. ASSUME c * w <= p, p <= (c + 1) * w
      PROVE  c \in {p \div w, (p - 1) \div w}
  <2>1. CASE p < (c + 1) * w
    BY <1>1, <1>3, <2>1
  <2>2. CASE p = (c + 1) * w
    <3>1. p - 1 \in Int /\ c * w <= p - 1 /\ p - 1 < (c + 1) * w
      BY <2>2
    <3> QED BY <1>1, <3>1
  <2>3. (c + 1) * w \in Int
    OBVIOUS
  <2> QED BY <1>3, <2>1, <2>2, <2>3
<1> QED BY <1>1, <1>2, <1>3

LEMMA ThroughAlong ==
    ASSUME NEW d, Divider(d), NEW from \in Int, NEW c \in Int, NEW t \in Int,
           Entry(from, d, c) <= t, t < Exit(from, d, c)
    PROVE  (2 * from * Ticks + (2 * t + 1) * d) \div (2 * Ticks * Unit) = c
<1> DEFINE p == 2 * from * Ticks + (2 * t + 1) * d
           w == 2 * Ticks * Unit
           lo == c * Unit
           hi == (c + 1) * Unit
<1>1. Unit \in Nat \ {0} /\ Ticks \in Nat \ {0} /\ d \in Int /\ d # 0
  BY PhysicsAssumption DEF Divider
<1>2. lo \in Int /\ hi \in Int
  BY <1>1
<1>3. w \in Nat \ {0}
  BY <1>1
<1>4. lo * (2 * Ticks) = c * w /\ hi * (2 * Ticks) = (c + 1) * w
  BY <1>1
<1> HIDE DEF lo, hi
<1>5. /\ p \in Int
      /\ d > 0 => (lo * (2 * Ticks) <= p <=> Ahead(from, d, lo) <= t)
      /\ d < 0 => (p < lo * (2 * Ticks) <=> Ahead(from, d, lo) <= t)
      /\ d > 0 => (hi * (2 * Ticks) <= p <=> Ahead(from, d, hi) <= t)
      /\ d < 0 => (p < hi * (2 * Ticks) <=> Ahead(from, d, hi) <= t)
  BY <1>2, PassedMidway
<1>6. Ahead(from, d, lo) \in Int /\ Ahead(from, d, hi) \in Int
  BY <1>2, Crossing
<1> HIDE DEF p, w
<1>7. c * w \in Int /\ (c + 1) * w \in Int
  BY <1>3
<1>8. c * w <= p /\ p < (c + 1) * w
  <2>1. CASE d > 0
    <3>1. Ahead(from, d, lo) <= t /\ t < Ahead(from, d, hi)
      BY <2>1 DEF Entry, Exit, lo, hi
    <3> QED BY <2>1, <3>1, <1>4, <1>5, <1>6, <1>7
  <2>2. CASE d < 0
    <3>1. Ahead(from, d, hi) <= t /\ t < Ahead(from, d, lo)
      BY <2>2, <1>1 DEF Entry, Exit, lo, hi
    <3> QED BY <2>2, <3>1, <1>4, <1>5, <1>6, <1>7
  <2> QED BY <1>1, <2>1, <2>2
<1>9. p \div w = c
  BY <1>3, <1>5, <1>8, CellBetween
<1> QED BY <1>9 DEF p, w

LEMMA VectorIsTriple ==
    ASSUME NEW c, IsVector(c)
    PROVE  c \in Triple /\ c = <<c[1], c[2], c[3]>>
<1>1. c \in [1..3 -> Int] /\ 1..3 = {1, 2, 3}
  BY DEF IsVector, Axis
<1>2. c[1] \in Int /\ c[2] \in Int /\ c[3] \in Int
  BY <1>1
<1>3. c = <<c[1], c[2], c[3]>>
  BY <1>1
<1> QED BY <1>2, <1>3 DEF Triple

(* The way goes through the cells that are entered and not yet left.        *)
LEMMA ThroughCell ==
    ASSUME NEW q, IsVector(q.from), IsWay(q.dir), NEW c, IsVector(c), NEW t \in Int,
           \A i \in Moving(q.dir) : Entry(q.from[i], q.dir[i], c[i]) <= t
                                    /\ t < Exit(q.from[i], q.dir[i], c[i]),
           \A i \in Axis \ Moving(q.dir) : c[i] = q.from[i] \div Unit
    PROVE  Through(q, t) = c
<1>1. ASSUME NEW i \in Axis
      PROVE  Through(q, t)[i] = c[i]
  <2>1. CASE i \in Moving(q.dir)
    <3>1. Divider(q.dir[i]) /\ q.dir[i] # 0 /\ q.from[i] \in Int /\ c[i] \in Int
      BY <2>1, WayDivides DEF IsVector, Divider
    <3>2. Entry(q.from[i], q.dir[i], c[i]) <= t /\ t < Exit(q.from[i], q.dir[i], c[i])
      BY <2>1
    <3>3. (2 * q.from[i] * Ticks + (2 * t + 1) * q.dir[i]) \div (2 * Ticks * Unit) = c[i]
      BY <3>1, <3>2, ThroughAlong
    <3> QED BY <3>1, <3>3 DEF Through
  <2>2. CASE i \notin Moving(q.dir)
    <3>1. q.dir[i] = 0 /\ c[i] = q.from[i] \div Unit
      BY <2>2, WayDivides
    <3> QED BY <3>1 DEF Through
  <2> QED BY <2>1, <2>2
<1>2. DOMAIN Through(q, t) = Axis /\ Through(q, t) = [i \in Axis |-> Through(q, t)[i]]
  BY DEF Through
<1>3. c = [i \in Axis |-> c[i]]
  BY DEF IsVector
<1> QED BY <1>1, <1>2, <1>3

(* It touches the cells in which it is, their surface included.             *)
LEMMA CellTouched ==
    ASSUME NEW q, IsVector(q.from), IsWay(q.dir), NEW c, IsVector(c), NEW t \in Int,
           \A i \in Moving(q.dir) : Entry(q.from[i], q.dir[i], c[i]) <= t
                                    /\ t <= Exit(q.from[i], q.dir[i], c[i]),
           \A i \in Axis \ Moving(q.dir) : c[i] = q.from[i] \div Unit
    PROVE  c \in TouchedAt(q, t)
<1> DEFINE w == Unit * Ticks
           p == After(q.from, q.dir, t)
           Both(i) == {p[i] \div w, (p[i] - 1) \div w}
<1>1. w \in Nat \ {0} /\ Unit \in Nat \ {0} /\ Ticks \in Nat \ {0}
  BY PhysicsAssumption
<1>2. ASSUME NEW i \in Axis
      PROVE  c[i] \in Both(i)
  <2> DEFINE x == q.from[i] * Ticks + q.dir[i] * t
             k == c[i]
             lo == k * Unit
             hi == (k + 1) * Unit
  <2>1. q.from[i] \in Int /\ q.dir[i] \in Int /\ k \in Int /\ x \in Int
    BY <1>1, WayDivides DEF IsVector
  <2>2. p[i] = x
    BY DEF After
  <2>3. lo \in Int /\ hi \in Int /\ lo * Ticks = k * w /\ hi * Ticks = (k + 1) * w
    BY <1>1, <2>1
  <2>4. InsideAlong(q.from[i], q.dir[i], lo, hi, t)
    <3>1. CASE i \in Moving(q.dir)
      <4>1. Divider(q.dir[i])
        BY <3>1, WayDivides
      <4>2. Entry(q.from[i], q.dir[i], k) <= t /\ t <= Exit(q.from[i], q.dir[i], k)
        BY <3>1
      <4>3. Entry(q.from[i], q.dir[i], k) = Near(q.from[i], q.dir[i], lo, hi)
            /\ Exit(q.from[i], q.dir[i], k) = Far(q.from[i], q.dir[i], lo, hi)
        BY <2>1, <4>1, CellCrossed
      <4> HIDE DEF lo, hi, k
      <4> QED BY <2>1, <2>3, <4>1, <4>2, <4>3, InsideMoving
    <3>2. CASE i \notin Moving(q.dir)
      <4>1. q.dir[i] = 0 /\ k = q.from[i] \div Unit
        BY <3>2, WayDivides
      <4>2. lo <= q.from[i] /\ q.from[i] < hi
        BY <1>1, <2>1, <4>1, CellBetween
      <4> HIDE DEF lo, hi, k
      <4> QED BY <2>1, <2>3, <4>1, <4>2, InsideFixed
    <3> QED BY <3>1, <3>2
  <2> HIDE DEF lo, hi
  <2>5. k * w <= x /\ x <= (k + 1) * w
    BY <2>3, <2>4 DEF InsideAlong
  <2> HIDE DEF x, k, w
  <2>6. k \in {x \div w, (x - 1) \div w}
    BY <1>1, <2>1, <2>5, CellBetween
  <2> QED BY <2>2, <2>6 DEF k
<1>3. TouchedAt(q, t) = Both(1) \X Both(2) \X Both(3)
  BY DEF TouchedAt
<1> HIDE DEF Both
<1>4. c[1] \in Both(1) /\ c[2] \in Both(2) /\ c[3] \in Both(3)
  BY <1>2 DEF Axis
<1>5. c = <<c[1], c[2], c[3]>>
  BY VectorIsTriple
<1> QED BY <1>3, <1>4, <1>5

LEMMA TouchedFinite ==
    ASSUME NEW q, IsVector(q.from), IsVector(q.dir), q.reach \in Nat
    PROVE  IsFiniteSet(UNION {TouchedAt(q, t) : t \in 0..q.reach})
<1> DEFINE T == 0..q.reach
           f == [t \in T |-> TouchedAt(q, t)]
           S == {TouchedAt(q, t) : t \in T}
<1>1. IsFiniteSet(T)
  BY 0 \in Int, q.reach \in Int, FS_Interval
<1>2. f \in Surjection(T, S)
  BY DEF Surjection
<1>3. IsFiniteSet(S)
  BY <1>1, <1>2, FS_Surjection
<1>4. ASSUME NEW t \in T
      PROVE  IsFiniteSet(TouchedAt(q, t))
  <2> DEFINE w == Unit * Ticks
             p == After(q.from, q.dir, t)
             Both(i) == {p[i] \div w, (p[i] - 1) \div w}
  <2>1. TouchedAt(q, t) = Both(1) \X Both(2) \X Both(3)
    BY DEF TouchedAt
  <2> DEFINE lo == <<(p[1] - 1) \div w, (p[2] - 1) \div w, (p[3] - 1) \div w>>
             hi == <<p[1] \div w, p[2] \div w, p[3] \div w>>
  <2>2. w \in Nat \ {0}
    BY PhysicsAssumption
  <2>3. \A i \in Axis : p[i] \in Int
    <3>1. \A i \in Axis : q.from[i] \in Int /\ q.dir[i] \in Int /\ t \in Int /\ Ticks \in Int
      BY PhysicsAssumption DEF IsVector
    <3> QED BY <3>1 DEF After
  <2> HIDE DEF p, w
  <2>4. \A i \in Axis : /\ p[i] \div w \in Int /\ (p[i] - 1) \div w \in Int
                        /\ (p[i] - 1) \div w <= p[i] \div w
    <3> TAKE i \in Axis
    <3>1. p[i] \in Int /\ p[i] - 1 \in Int /\ p[i] - 1 <= p[i]
      BY <2>3
    <3>2. Rest(p[i], w, p[i] \div w, p[i] % w) /\ Rest(p[i] - 1, w, (p[i] - 1) \div w, (p[i] - 1) % w)
      BY <2>2, <3>1, Divides
    <3> QED BY <2>2, <3>1, <3>2, DividedOrder DEF Rest
  <2>5. 1 \in Axis /\ 2 \in Axis /\ 3 \in Axis
    BY DEF Axis
  <2>6. lo \in Triple /\ hi \in Triple /\ Ordered(lo, hi)
    BY <2>4, <2>5 DEF Triple, Ordered
  <2>7. Both(1) \subseteq lo[1]..hi[1] /\ Both(2) \subseteq lo[2]..hi[2] /\ Both(3) \subseteq lo[3]..hi[3]
    BY <2>4, <2>5
  <2> HIDE DEF lo, hi, Both
  <2>8. TouchedAt(q, t) \subseteq CellsOf(lo, hi)
    BY <2>1, <2>7 DEF CellsOf
  <2> QED BY <2>6, <2>8, BoxCounted, FS_Subset
<1> QED BY <1>3, <1>4, FS_UNION

----------------------------------------------------------------------------
(* What a visit of a cell says.                                             *)

LEMMA VisitSays ==
    ASSUME NEW q, IsScene(q), NEW cell, NEW v, v = BlockAt(q, cell)
    PROVE  \/ v = Kind("Empty")
           \/ v = Kind("Error")
           \/ /\ v = [kind |-> "Unresolved", section |-> SectionOf(cell)]
              /\ SectionOf(cell) \notin DOMAIN q.world
                   \/ q.world[SectionOf(cell)].presence \notin Stored
           \/ v = [kind |-> "Hit", cell |-> cell, block |-> CellAt(q.world, cell).block]
<1> DEFINE s == SectionOf(cell)
           b == q.world[s].storage[OffsetOf(cell)]
<1>1. CASE StateOf(q.world, s) # "Ready"
  <2>1. s \notin DOMAIN q.world \/ q.world[s].presence \notin Stored
    BY <1>1 DEF StateOf
  <2>2. \/ v = Kind("Empty") \/ v = Kind("Error")
        \/ v = [kind |-> "Unresolved", section |-> s]
    BY <1>1 DEF BlockAt
  <2> QED BY <2>1, <2>2
<1>2. CASE StateOf(q.world, s) = "Ready"
  <2>1. s \in DOMAIN q.world /\ q.world[s].presence \in Stored
    BY <1>2 DEF StateOf, Stored
  <2>2. q.world[s].storage # Absent
    BY <2>1 DEF IsScene
  <2>3. CellAt(q.world, cell).block = b
    BY <2>1, <2>2 DEF CellAt
  <2>4. v = Kind("Empty") \/ v = Classified(b, q.filter, cell)
    BY <1>2 DEF BlockAt
  <2>5. \/ Classified(b, q.filter, cell) = Kind("Empty")
        \/ Classified(b, q.filter, cell) = Kind("Error")
        \/ Classified(b, q.filter, cell) = [kind |-> "Hit", cell |-> cell, block |-> b]
    BY DEF Classified
  <2> QED BY <2>3, <2>4, <2>5
<1> QED BY <1>1, <1>2

LEMMA VisitFields ==
    ASSUME NEW q, IsScene(q), NEW cell, NEW v, v = BlockAt(q, cell)
    PROVE  /\ v.kind \in {"Empty", "Error", "Unresolved", "Hit"}
           /\ v.kind = "Empty" => v = Kind("Empty")
           /\ v.kind = "Error" => v = Kind("Error")
           /\ v.kind = "Unresolved" =>
                 /\ v = [kind |-> "Unresolved", section |-> SectionOf(cell)]
                 /\ v.section = SectionOf(cell)
                 /\ v.section \notin DOMAIN q.world \/ q.world[v.section].presence \notin Stored
           /\ v.kind = "Hit" =>
                 /\ v = [kind |-> "Hit", cell |-> cell, block |-> v.block]
                 /\ v.cell = cell /\ v.block = CellAt(q.world, cell).block
<1>1. CASE v = Kind("Empty")
  BY <1>1 DEF Kind
<1>2. CASE v = Kind("Error")
  BY <1>2 DEF Kind
<1>3. CASE /\ v = [kind |-> "Unresolved", section |-> SectionOf(cell)]
           /\ SectionOf(cell) \notin DOMAIN q.world
                \/ q.world[SectionOf(cell)].presence \notin Stored
  BY <1>3
<1>4. CASE v = [kind |-> "Hit", cell |-> cell, block |-> CellAt(q.world, cell).block]
  BY <1>4
<1> QED BY <1>1, <1>2, <1>3, <1>4, VisitSays

----------------------------------------------------------------------------
(* What a ray meets.                                                        *)

Blocked(q) == {t \in 0..q.reach - 1 : BlockAt(q, Through(q, t)).kind # "Empty"}
BodyTicks(q) == {t \in 0..q.reach : \E b \in DOMAIN q.bodies : BodyAt(q, t, b)}
ClearUpTo(q, t) == \A u \in 0..t - 1 : u \notin Blocked(q) \cup BodyTicks(q)
SeenAt(q, t, v) == \E c \in TouchedAt(q, t) : BlockAt(q, c) = v
Touchable(q) == UNION {TouchedAt(q, t) : t \in 0..q.reach}

(* A hit of a block, of a body, and the other answers.                      *)
BlockHitRight(q, r) ==
    /\ ClearUpTo(q, r.way) /\ r.way <= q.reach
    /\ r.cell \in TouchedAt(q, r.way)
    /\ BlockAt(q, r.cell) = [kind |-> "Hit", cell |-> r.cell, block |-> r.block]
    /\ r.block = CellAt(q.world, r.cell).block
    /\ Faces(r.normal, q.dir)
    /\ r.way > 0 => \E i \in Axis : r.normal[i] # 0
    /\ \A i \in Axis : r.normal[i] # 0 =>
          After(q.from, q.dir, r.way)[i]
              = (r.cell[i] + IF r.normal[i] > 0 THEN 1 ELSE 0) * Unit * Ticks

BodyHitRight(q, r) ==
    /\ ClearUpTo(q, r.way) /\ r.way <= q.reach
    /\ BodyAt(q, r.way, r.body) /\ \A b \in 1..r.body - 1 : ~BodyAt(q, r.way, b)
    /\ r.way \notin Blocked(q)

LEMMA RayAnswered ==
    ASSUME NEW q, NEW r,
           \/ r.kind = "Hit" /\ "cell" \in DOMAIN r /\ "body" \notin DOMAIN r /\ BlockHitRight(q, r)
           \/ r.kind = "Hit" /\ "cell" \notin DOMAIN r /\ BodyHitRight(q, r)
           \/ r.kind = "Miss" /\ Blocked(q) \cup BodyTicks(q) = {}
           \/ /\ r.kind = "Unresolved"
              /\ r.section \notin DOMAIN q.world \/ q.world[r.section].presence \notin Stored
              /\ \E t \in 0..q.reach : ClearUpTo(q, t) /\ SeenAt(q, t, r)
           \/ /\ r.kind = "Error"
              /\ \/ \E t \in 0..q.reach : ClearUpTo(q, t) /\ SeenAt(q, t, r)
                 \/ Cardinality(Touchable(q)) >= MaxCells
    PROVE  AnswersRay(q, r)
<1> DEFINE Answers ==
        /\ SameAsRead(q, r)
        /\ r.kind = "Miss" => Blocked(q) \cup BodyTicks(q) = {}
        /\ r.kind = "Hit" => ClearUpTo(q, r.way) /\ r.way <= q.reach
        /\ r.kind = "Hit" /\ "cell" \in DOMAIN r =>
              /\ r.cell \in TouchedAt(q, r.way)
              /\ BlockAt(q, r.cell) = [kind |-> "Hit", cell |-> r.cell, block |-> r.block]
              /\ Faces(r.normal, q.dir)
              /\ r.way > 0 => \E i \in Axis : r.normal[i] # 0
              /\ \A i \in Axis : r.normal[i] # 0 =>
                    After(q.from, q.dir, r.way)[i]
                        = (r.cell[i] + IF r.normal[i] > 0 THEN 1 ELSE 0) * Unit * Ticks
        /\ r.kind = "Hit" /\ "body" \in DOMAIN r =>
              /\ BodyAt(q, r.way, r.body) /\ \A b \in 1..r.body - 1 : ~BodyAt(q, r.way, b)
              /\ r.way \notin Blocked(q)
        /\ r.kind = "Unresolved" => \E t \in 0..q.reach : ClearUpTo(q, t) /\ SeenAt(q, t, r)
        /\ r.kind = "Error" =>
              \/ \E t \in 0..q.reach : ClearUpTo(q, t) /\ SeenAt(q, t, r)
              \/ Cardinality(Touchable(q)) >= MaxCells
<1>1. Answers
  <2>1. CASE r.kind = "Hit" /\ "cell" \in DOMAIN r /\ "body" \notin DOMAIN r /\ BlockHitRight(q, r)
    BY <2>1 DEF BlockHitRight, SameAsRead
  <2>2. CASE r.kind = "Hit" /\ "cell" \notin DOMAIN r /\ BodyHitRight(q, r)
    BY <2>2 DEF BodyHitRight, SameAsRead
  <2>3. CASE r.kind = "Miss" /\ Blocked(q) \cup BodyTicks(q) = {}
    BY <2>3 DEF SameAsRead
  <2>4. CASE /\ r.kind = "Unresolved"
             /\ r.section \notin DOMAIN q.world \/ q.world[r.section].presence \notin Stored
             /\ \E t \in 0..q.reach : ClearUpTo(q, t) /\ SeenAt(q, t, r)
    BY <2>4 DEF SameAsRead
  <2>5. CASE /\ r.kind = "Error"
             /\ \/ \E t \in 0..q.reach : ClearUpTo(q, t) /\ SeenAt(q, t, r)
                \/ Cardinality(Touchable(q)) >= MaxCells
    BY <2>5 DEF SameAsRead
  <2> QED BY <2>1, <2>2, <2>3, <2>4, <2>5
<1>2. Answers = AnswersRay(q, r)
  BY DEF AnswersRay, Blocked, BodyTicks, ClearUpTo, SeenAt, Touchable, BodyAt
<1> QED BY <1>1, <1>2

----------------------------------------------------------------------------
(* A ray on its course.                                                     *)

(* How far a cell is along the directions; each step goes one further.      *)
Progress(q, c) == Sign(q.dir[1]) * c[1] + Sign(q.dir[2]) * c[2] + Sign(q.dir[3]) * c[3]

(* The normal is of faces by which the cell is entered just here.           *)
EntersBy(q, cell, way, normal) ==
    /\ Faces(normal, q.dir)
    /\ way > 0 => \E i \in Axis : normal[i] # 0
    /\ \A i \in Axis : normal[i] # 0 =>
          i \in Moving(q.dir) /\ way = Entry(q.from[i], q.dir[i], cell[i])

(* Where the way is in the cell.                                            *)
WithinCell(q, cell, way) ==
    /\ \A i \in Moving(q.dir) : Entry(q.from[i], q.dir[i], cell[i]) <= way
                                /\ way <= Exit(q.from[i], q.dir[i], cell[i])
    /\ \A i \in Axis \ Moving(q.dir) : cell[i] = q.from[i] \div Unit

(* So many cells on the way have been visited, none of them twice.          *)
VisitedBefore(q, cell, n) ==
    \E V : /\ IsFiniteSet(V) /\ Cardinality(V) = n /\ V \subseteq Touchable(q)
           /\ \A c \in V : Progress(q, c) \in Int /\ Progress(q, c) < Progress(q, cell)

OnCourse(q, m, n) ==
    /\ m.kind = "Onward" /\ IsVector(m.cell) /\ m.way \in 0..q.reach
    /\ m.next = [i \in Moving(q.dir) |-> Exit(q.from[i], q.dir[i], m.cell[i])]
    /\ WithinCell(q, m.cell, m.way)
    /\ \A t \in 0..m.way - 1 : BlockAt(q, Through(q, t)).kind = "Empty"
    /\ EntersBy(q, m.cell, m.way, m.normal)
    /\ VisitedBefore(q, m.cell, n)

LEMMA NormalOf ==
    ASSUME NEW dir, IsWay(dir), NEW axes, axes \subseteq Moving(dir)
    PROVE  /\ Faces(Normal(dir, axes), dir)
           /\ \A i \in Axis : Normal(dir, axes)[i] # 0 => i \in axes
           /\ axes # {} => \E i \in Axis : Normal(dir, axes)[i] # 0
<1>1. CASE axes = {}
  BY <1>1 DEF Normal, Faces
<1>2. CASE axes # {}
  <2>1. axes \subseteq Int /\ \A i \in axes : 1 <= i
    BY WayDivides DEF Axis
  <2>2. Min(axes) \in axes
    BY <1>2, <2>1, 1 \in Int, LeastOf
  <2>3. Min(axes) \in Axis /\ dir[Min(axes)] # 0 /\ dir[Min(axes)] \in Int
    BY <2>2, WayDivides DEF Moving
  <2>4. -Sign(dir[Min(axes)]) # 0
    BY <2>3 DEF Sign
  <2>5. \A i \in Axis : Normal(dir, axes)[i] = IF i = Min(axes) THEN -Sign(dir[i]) ELSE 0
    BY <1>2 DEF Normal
  <2> QED BY <2>2, <2>3, <2>4, <2>5 DEF Faces
<1> QED BY <1>1, <1>2

LEMMA FirstAlong ==
    ASSUME NEW d \in Int, NEW from \in Int, NEW c,
           c = (from \div Unit) - IF d < 0 /\ from % Unit = 0 THEN 1 ELSE 0
    PROVE  /\ c \in Int /\ c * Unit <= from /\ from <= (c + 1) * Unit
           /\ from % Unit = 0 /\ d > 0 => from = c * Unit
           /\ from % Unit = 0 /\ d < 0 => from = (c + 1) * Unit
           /\ d = 0 => c = from \div Unit
<1> DEFINE k == from \div Unit
           r == from % Unit
<1>1. Unit \in Nat \ {0}
  BY PhysicsAssumption
<1>2. Rest(from, Unit, k, r)
  BY <1>1, Divides
<1>3. k \in Int /\ r \in 0..Unit - 1 /\ from = k * Unit + r
  BY <1>2 DEF Rest
<1>4. c = IF d < 0 /\ r = 0 THEN k - 1 ELSE k
  BY <1>3
<1> HIDE DEF k, r
<1>5. (k + 1) * Unit = k * Unit + Unit /\ (k - 1) * Unit = k * Unit - Unit /\ k * Unit \in Int
  BY <1>1, <1>3
<1>6. CASE d < 0 /\ r = 0
  <2>1. c = k - 1 /\ c + 1 = k
    BY <1>3, <1>4, <1>6
  <2>2. c * Unit = k * Unit - Unit /\ (c + 1) * Unit = k * Unit
    BY <1>5, <2>1
  <2> QED BY <1>1, <1>3, <1>5, <1>6, <2>1, <2>2 DEF k, r
<1>7. CASE ~(d < 0 /\ r = 0)
  <2>1. c = k
    BY <1>4, <1>7
  <2>2. c * Unit = k * Unit /\ (c + 1) * Unit = k * Unit + Unit
    BY <1>5, <2>1
  <2>3. c * Unit <= from /\ from <= (c + 1) * Unit /\ (r = 0 => from = c * Unit)
    <3> DEFINE K == k * Unit
               C == c * Unit
               D == (c + 1) * Unit
    <3>1. C = K /\ D = K + Unit /\ K \in Int /\ from = K + r /\ r \in 0..Unit - 1
      BY <1>3, <1>5, <2>2
    <3> HIDE DEF K, C, D
    <3>2. C <= from /\ from <= D /\ (r = 0 => from = C)
      BY <1>1, <3>1
    <3> QED BY <3>2 DEF C, D
  <2>4. r = 0 => ~(d < 0)
    BY <1>7
  <2> QED BY <1>3, <2>1, <2>3, <2>4 DEF k, r
<1> QED BY <1>6, <1>7

LEMMA StartsOnCourse ==
    ASSUME NEW q, IsRay(q), q.reach >= 0
    PROVE  OnCourse(q, Start(q), 0)
<1> DEFINE m == Start(q)
           first == FirstCell(q.from, q.dir)
           axes == EntryAxes(q.from, q.dir)
           M == Moving(q.dir)
<1>1. IsVector(q.from) /\ IsWay(q.dir) /\ IsVector(q.dir) /\ q.reach \in Nat
  BY DEF IsRay, IsWay
<1>2. m.kind = "Onward" /\ m.cell = first /\ m.way = 0 /\ m.normal = Normal(q.dir, axes)
      /\ m.next = NextCrossing(q.from, q.dir, first)
  BY DEF Start
<1>3. \A i \in Axis : q.from[i] \in Int /\ q.dir[i] \in Int
  BY <1>1 DEF IsVector
<1>4. \A i \in Axis :
         /\ first[i] \in Int /\ first[i] * Unit <= q.from[i] /\ q.from[i] <= (first[i] + 1) * Unit
         /\ q.from[i] % Unit = 0 /\ q.dir[i] > 0 => q.from[i] = first[i] * Unit
         /\ q.from[i] % Unit = 0 /\ q.dir[i] < 0 => q.from[i] = (first[i] + 1) * Unit
         /\ q.dir[i] = 0 => first[i] = q.from[i] \div Unit
  <2> TAKE i \in Axis
  <2>1. first[i] = (q.from[i] \div Unit)
                      - IF q.dir[i] < 0 /\ q.from[i] % Unit = 0 THEN 1 ELSE 0
    BY DEF FirstCell
  <2> HIDE DEF first
  <2> QED BY <1>3, <2>1, FirstAlong
<1>5. IsVector(first)
  BY <1>4 DEF IsVector, FirstCell
<1> HIDE DEF first
<1>6. m.next = [i \in M |-> Exit(q.from[i], q.dir[i], first[i])]
  BY <1>2 DEF NextCrossing, Exit, Ahead
<1>7. ASSUME NEW i \in M
      PROVE  /\ Entry(q.from[i], q.dir[i], first[i]) <= 0
             /\ 0 <= Exit(q.from[i], q.dir[i], first[i])
  <2> DEFINE lo == first[i] * Unit
             hi == (first[i] + 1) * Unit
             f == q.from[i]
             d == q.dir[i]
  <2>1. i \in Axis /\ Divider(d) /\ f \in Int /\ d \in Int /\ first[i] \in Int
    BY <1>1, <1>3, <1>4, WayDivides
  <2>2. lo \in Int /\ hi \in Int /\ lo <= f /\ f <= hi
    BY <1>4, <2>1, PhysicsAssumption
  <2>3. Entry(f, d, first[i]) = Near(f, d, lo, hi) /\ Exit(f, d, first[i]) = Far(f, d, lo, hi)
    BY <2>1, CellCrossed
  <2> HIDE DEF lo, hi, f, d
  <2>4. InsideAlong(f, 0, lo, hi, 0)
    BY <2>1, <2>2, InsideFixed, 0 \in Int
  <2>5. d * 0 = 0 * 0
    BY <2>1
  <2>6. InsideAlong(f, d, lo, hi, 0)
    BY <2>4, <2>5 DEF InsideAlong
  <2>7. Near(f, d, lo, hi) <= 0 /\ 0 <= Far(f, d, lo, hi)
    BY <2>1, <2>2, <2>6, InsideMoving, 0 \in Int
  <2> QED BY <2>3, <2>7 DEF f, d
<1>8. WithinCell(q, first, 0)
  <2>1. \A i \in Axis \ M : first[i] = q.from[i] \div Unit
    BY <1>1, <1>4, WayDivides
  <2> QED BY <1>7, <2>1 DEF WithinCell
<1>9. EntersBy(q, first, 0, m.normal)
  <2>1. axes \subseteq M
    BY DEF EntryAxes
  <2>2. Faces(m.normal, q.dir) /\ \A i \in Axis : m.normal[i] # 0 => i \in axes
    BY <1>1, <1>2, <2>1, NormalOf
  <2>3. ASSUME NEW i \in axes
        PROVE  i \in M /\ 0 = Entry(q.from[i], q.dir[i], first[i])
    <3> DEFINE b == (IF q.dir[i] > 0 THEN first[i] ELSE first[i] + 1) * Unit
    <3>1. i \in M /\ i \in Axis /\ q.from[i] % Unit = 0 /\ Divider(q.dir[i])
      BY <1>1, <2>1, WayDivides DEF EntryAxes
    <3>2. b = q.from[i] /\ q.from[i] \in Int /\ PerTick(q.dir[i]) \in Int
      <4>1. q.dir[i] > 0 \/ q.dir[i] < 0
        BY <1>3, <3>1 DEF Divider
      <4> QED BY <1>3, <1>4, <3>1, <4>1, TicksOf
    <3>3. Entry(q.from[i], q.dir[i], first[i]) = (b - q.from[i]) * PerTick(q.dir[i])
      BY DEF Entry, Ahead
    <3> HIDE DEF b
    <3> QED BY <3>1, <3>2, <3>3
  <2> HIDE DEF m
  <2> QED BY <2>2, <2>3 DEF EntersBy
<1>10. VisitedBefore(q, first, 0)
  <2>1. IsFiniteSet({}) /\ Cardinality({}) = 0
    BY FS_EmptySet
  <2> QED BY <2>1 DEF VisitedBefore
<1> HIDE DEF m
<1>11. OnCourse(q, m, 0)
  BY <1>1, <1>2, <1>5, <1>6, <1>8, <1>9, <1>10 DEF OnCourse
<1> QED BY <1>11 DEF m

LEMMA CrossedIsNearest ==
    ASSUME NEW next, DOMAIN next \subseteq Axis, DOMAIN next # {},
           \A i \in DOMAIN next : next[i] \in Int
    PROVE  /\ CrossedAxis(next) \in DOMAIN next
           /\ \A j \in DOMAIN next : next[CrossedAxis(next)] <= next[j]
<1> DEFINE D == DOMAIN next
           S == {next[i] : i \in D}
           P(i) == \A j \in D : next[i] < next[j] \/ (next[i] = next[j] /\ i <= j)
<1>1. PICK top \in Nat : \A i \in D : -top <= next[i] /\ next[i] <= top
  BY AxesBounded
<1>2. S \subseteq Int /\ S # {} /\ -top \in Int /\ \A x \in S : -top <= x
  BY <1>1
<1> HIDE DEF S
<1>3. Min(S) \in S /\ \A x \in S : Min(S) <= x
  BY <1>2, LeastOf
<1> DEFINE T == {i \in D : next[i] = Min(S)}
<1>4. T # {} /\ T \subseteq Int /\ \A i \in T : 1 <= i
  BY <1>3 DEF S, Axis
<1> HIDE DEF T
<1>5. Min(T) \in T /\ \A i \in T : Min(T) <= i
  BY <1>4, 1 \in Int, LeastOf
<1>6. Min(T) \in D /\ P(Min(T))
  <2>1. Min(T) \in D /\ next[Min(T)] = Min(S)
    BY <1>5 DEF T
  <2>2. ASSUME NEW j \in D
        PROVE  next[Min(T)] < next[j] \/ (next[Min(T)] = next[j] /\ Min(T) <= j)
    <3>1. Min(S) <= next[j] /\ Min(S) \in Int /\ next[j] \in Int
      BY <1>2, <1>3 DEF S
    <3>2. next[j] = Min(S) => Min(T) <= j
      BY <1>5 DEF T
    <3> QED BY <2>1, <3>1, <3>2
  <2> QED BY <2>1, <2>2
<1>7. CrossedAxis(next) = CHOOSE i \in D : P(i)
  BY DEF CrossedAxis
<1> HIDE DEF P
<1>8. CrossedAxis(next) \in D /\ P(CrossedAxis(next))
  BY <1>6, <1>7
<1> QED BY <1>8 DEF P

(* The way stays in a cell until it is left.                                *)
LEMMA ThroughUntilLeft ==
    ASSUME NEW q, IsRay(q), NEW m, NEW n, OnCourse(q, m, n), NEW t \in Int, m.way <= t,
           \A i \in Moving(q.dir) : t < m.next[i]
    PROVE  Through(q, t) = m.cell
<1>1. IsVector(q.from) /\ IsWay(q.dir)
  BY DEF IsRay
<1>2. IsVector(m.cell) /\ m.way \in Int /\ WithinCell(q, m.cell, m.way)
      /\ m.next = [i \in Moving(q.dir) |-> Exit(q.from[i], q.dir[i], m.cell[i])]
  BY DEF OnCourse
<1>3. ASSUME NEW i \in Moving(q.dir)
      PROVE  Entry(q.from[i], q.dir[i], m.cell[i]) <= t /\ t < Exit(q.from[i], q.dir[i], m.cell[i])
  <2>1. Entry(q.from[i], q.dir[i], m.cell[i]) <= m.way /\ t < m.next[i]
    BY <1>2 DEF WithinCell
  <2>2. Entry(q.from[i], q.dir[i], m.cell[i]) \in Int
    BY <1>1, <1>2, WayDivides, CellCrossed DEF IsVector
  <2> QED BY <1>2, <2>1, <2>2
<1>4. \A i \in Axis \ Moving(q.dir) : m.cell[i] = q.from[i] \div Unit
  BY <1>2 DEF WithinCell
<1> QED BY <1>1, <1>2, <1>3, <1>4, ThroughCell

LEMMA ArrivesTouching ==
    ASSUME NEW q, IsRay(q), NEW m, NEW n, OnCourse(q, m, n)
    PROVE  m.cell \in TouchedAt(q, m.way) /\ m.cell \in Touchable(q)
<1>1. IsVector(q.from) /\ IsWay(q.dir) /\ IsVector(m.cell) /\ m.way \in Int /\ m.way \in 0..q.reach
      /\ WithinCell(q, m.cell, m.way)
  BY DEF IsRay, OnCourse
<1>2. m.cell \in TouchedAt(q, m.way)
  BY <1>1, CellTouched DEF WithinCell
<1> QED BY <1>1, <1>2 DEF Touchable

(* Of the moving axes, one is crossed first.                                *)
LEMMA NextIs ==
    ASSUME NEW q, IsRay(q), q.dir # NoHalf, NEW m, NEW n, OnCourse(q, m, n)
    PROVE  LET axis == CrossedAxis(m.next) IN
           /\ axis \in Moving(q.dir) /\ axis \in Axis /\ Divider(q.dir[axis])
           /\ m.next[axis] \in Int /\ m.way <= m.next[axis]
           /\ \A i \in Moving(q.dir) : m.next[axis] <= m.next[i]
           /\ \A i \in Moving(q.dir) : m.next[i] = Exit(q.from[i], q.dir[i], m.cell[i])
                                       /\ m.next[i] \in Int
<1> DEFINE M == Moving(q.dir)
           axis == CrossedAxis(m.next)
<1>1. IsVector(q.from) /\ IsWay(q.dir) /\ IsVector(q.dir)
  BY DEF IsRay, IsWay
<1>2. M # {}
  <2> SUFFICES ASSUME M = {} PROVE FALSE
    OBVIOUS
  <2>1. \A i \in Axis : q.dir[i] = 0
    BY <1>1, WayDivides
  <2>2. q.dir = [i \in Axis |-> q.dir[i]]
    BY <1>1 DEF IsVector
  <2> QED BY <2>1, <2>2 DEF NoHalf
<1>3. IsVector(m.cell) /\ m.way \in Int /\ WithinCell(q, m.cell, m.way)
      /\ m.next = [i \in M |-> Exit(q.from[i], q.dir[i], m.cell[i])]
  BY DEF OnCourse
<1>4. \A i \in M : i \in Axis /\ Divider(q.dir[i])
  BY <1>1, WayDivides
<1>5. DOMAIN m.next = M /\ \A i \in M : m.next[i] = Exit(q.from[i], q.dir[i], m.cell[i])
                                        /\ m.next[i] \in Int
  BY <1>1, <1>3, <1>4, CellCrossed DEF IsVector
<1>6. axis \in M /\ \A i \in M : m.next[axis] <= m.next[i]
  <2>1. DOMAIN m.next \subseteq Axis /\ DOMAIN m.next # {}
        /\ \A i \in DOMAIN m.next : m.next[i] \in Int
    BY <1>2, <1>4, <1>5
  <2> HIDE DEF M
  <2> QED BY <1>5, <2>1, CrossedIsNearest
<1>7. m.way <= m.next[axis]
  BY <1>3, <1>5, <1>6 DEF WithinCell
<1> QED BY <1>4, <1>5, <1>6, <1>7

LEMMA CellMoved ==
    ASSUME NEW q, IsWay(q.dir), NEW cell, IsVector(cell), NEW axis \in Axis,
           Divider(q.dir[axis]), NEW c, c = Moved(cell, axis, Sign(q.dir[axis]))
    PROVE  /\ IsVector(c) /\ c[axis] = cell[axis] + Sign(q.dir[axis])
           /\ \A i \in Axis \ {axis} : c[i] = cell[i]
           /\ Progress(q, cell) \in Int /\ Progress(q, c) = Progress(q, cell) + 1
<1> DEFINE s(i) == Sign(q.dir[i])
<1>1. \A i \in Axis : s(i) \in Int /\ cell[i] \in Int
  BY WayDivides DEF Sign, IsVector
<1>2. c = [cell EXCEPT ![axis] = @ + s(axis)] /\ DOMAIN cell = Axis
      /\ cell = [i \in Axis |-> cell[i]]
  BY DEF Moved, IsVector
<1>3. c = [i \in Axis |-> IF i = axis THEN cell[i] + s(axis) ELSE cell[i]]
  BY <1>2
<1>4. c[axis] = cell[axis] + s(axis) /\ \A i \in Axis \ {axis} : c[i] = cell[i]
  BY <1>3
<1>5. IsVector(c)
  BY <1>1, <1>3 DEF IsVector
<1>6. s(axis) = 1 \/ s(axis) = -1
  BY DEF Sign, Divider
<1> HIDE DEF s
<1>7. s(axis) * c[axis] = s(axis) * cell[axis] + 1
  BY <1>1, <1>4, <1>6
<1>8. \A i \in Axis : s(i) * cell[i] \in Int
  BY <1>1
<1>9. Progress(q, cell) = s(1) * cell[1] + s(2) * cell[2] + s(3) * cell[3]
      /\ Progress(q, c) = s(1) * c[1] + s(2) * c[2] + s(3) * c[3]
  BY DEF Progress, s
<1>10. Progress(q, cell) \in Int /\ Progress(q, c) = Progress(q, cell) + 1
  <2>1. 1 \in Axis /\ 2 \in Axis /\ 3 \in Axis
    BY DEF Axis
  <2> DEFINE x == s(1) * cell[1]
             y == s(2) * cell[2]
             z == s(3) * cell[3]
  <2>2. x \in Int /\ y \in Int /\ z \in Int
    BY <1>8, <2>1
  <2>3. CASE axis = 1
    <3>1. s(1) * c[1] = x + 1 /\ s(2) * c[2] = y /\ s(3) * c[3] = z
      BY <1>4, <1>7, <2>1, <2>3
    <3> QED BY <1>9, <2>2, <3>1
  <2>4. CASE axis = 2
    <3>1. s(1) * c[1] = x /\ s(2) * c[2] = y + 1 /\ s(3) * c[3] = z
      BY <1>4, <1>7, <2>1, <2>4
    <3> QED BY <1>9, <2>2, <3>1
  <2>5. CASE axis = 3
    <3>1. s(1) * c[1] = x /\ s(2) * c[2] = y /\ s(3) * c[3] = z + 1
      BY <1>4, <1>7, <2>1, <2>5
    <3> QED BY <1>9, <2>2, <3>1
  <2> QED BY <2>3, <2>4, <2>5 DEF Axis
<1> QED BY <1>4, <1>5, <1>10 DEF s

LEMMA VisitsOneMore ==
    ASSUME NEW q, NEW cell, NEW c, NEW n \in Nat, VisitedBefore(q, cell, n),
           cell \in Touchable(q), Progress(q, cell) \in Int,
           Progress(q, c) = Progress(q, cell) + 1
    PROVE  VisitedBefore(q, c, n + 1)
<1>1. PICK V : /\ IsFiniteSet(V) /\ Cardinality(V) = n /\ V \subseteq Touchable(q)
               /\ \A x \in V : Progress(q, x) \in Int /\ Progress(q, x) < Progress(q, cell)
  BY DEF VisitedBefore
<1> DEFINE W == V \cup {cell}
<1>2. cell \notin V
  BY <1>1
<1>3. IsFiniteSet(W) /\ Cardinality(W) = n + 1
  BY <1>1, <1>2, FS_AddElement
<1>4. W \subseteq Touchable(q)
  BY <1>1
<1>5. \A x \in W : Progress(q, x) \in Int /\ Progress(q, x) < Progress(q, c)
  BY <1>1
<1> HIDE DEF W
<1> QED BY <1>3, <1>4, <1>5 DEF VisitedBefore

(* One step further is on its course again.                                 *)
LEMMA StepsOn ==
    ASSUME NEW q, IsRay(q), q.reach >= 0, q.dir # NoHalf, NEW m, NEW n \in Nat,
           OnCourse(q, m, n), BlockAt(q, m.cell).kind = "Empty",
           NEW axis, axis = CrossedAxis(m.next), m.next[axis] <= q.reach,
           NEW r,
           r = [kind |-> "Onward", cell |-> Moved(m.cell, axis, Sign(q.dir[axis])),
                way |-> m.next[axis],
                next |-> Moved(m.next, axis, Unit * Abs(PerTick(q.dir[axis]))),
                normal |-> Normal(q.dir, {axis})]
    PROVE  OnCourse(q, r, n + 1)
<1> DEFINE M == Moving(q.dir)
           enter(c, i) == Entry(q.from[i], q.dir[i], c[i])
           leave(c, i) == Exit(q.from[i], q.dir[i], c[i])
           cell == m.cell
           c == Moved(m.cell, axis, Sign(q.dir[axis]))
           far == Unit * Abs(PerTick(q.dir[axis]))
           next == Moved(m.next, axis, far)
<1>1. IsVector(q.from) /\ IsWay(q.dir) /\ q.reach \in Nat /\ \A i \in Axis : q.from[i] \in Int
  BY DEF IsRay, IsVector
<1>2. /\ axis \in M /\ axis \in Axis /\ Divider(q.dir[axis])
      /\ m.next[axis] \in Int /\ m.way <= m.next[axis]
      /\ \A i \in M : m.next[axis] <= m.next[i]
      /\ \A i \in M : m.next[i] = leave(cell, i) /\ m.next[i] \in Int
  BY NextIs
<1>3. IsVector(cell) /\ m.way \in Nat /\ WithinCell(q, cell, m.way)
      /\ m.next = [i \in M |-> leave(cell, i)]
      /\ (\A t \in 0..m.way - 1 : BlockAt(q, Through(q, t)).kind = "Empty")
      /\ VisitedBefore(q, cell, n)
  BY <1>1 DEF OnCourse
<1>14. m.next[axis] \in 0..q.reach /\ m.way \in Int
  <2> DEFINE w == m.next[axis]
  <2>1. w \in Int /\ m.way <= w /\ w <= q.reach
    BY <1>2
  <2>2. q.reach \in Int /\ m.way \in Nat
    BY <1>1, <1>3
  <2> HIDE DEF w
  <2>3. w \in 0..q.reach
    BY <2>1, <2>2
  <2> QED BY <2>2, <2>3 DEF w
<1>4. r.kind = "Onward" /\ r.cell = c /\ r.way = m.next[axis] /\ r.next = next
      /\ r.normal = Normal(q.dir, {axis})
  OBVIOUS
<1>5. /\ IsVector(c) /\ c[axis] = cell[axis] + Sign(q.dir[axis])
      /\ \A i \in Axis \ {axis} : c[i] = cell[i]
      /\ Progress(q, cell) \in Int /\ Progress(q, c) = Progress(q, cell) + 1
  <2>1. c = Moved(cell, axis, Sign(q.dir[axis]))
    OBVIOUS
  <2>2. IsWay(q.dir) /\ IsVector(cell) /\ axis \in Axis /\ Divider(q.dir[axis])
    BY <1>1, <1>2, <1>3
  <2> HIDE DEF c, cell, M
  <2> QED BY <2>1, <2>2, CellMoved
<1>6. \A i \in M : i \in Axis /\ Divider(q.dir[i])
  BY <1>1, WayDivides
<1> HIDE DEF c
<1>7. \A i \in M : enter(cell, i) \in Int /\ leave(cell, i) \in Int /\ leave(c, i) \in Int
  BY <1>1, <1>3, <1>5, <1>6, CellCrossed DEF IsVector
<1>8. enter(c, axis) = m.next[axis] /\ leave(c, axis) = m.next[axis] + far /\ far \in Nat \ {0}
  <2> DEFINE d == q.dir[axis]
             f == q.from[axis]
             k == cell[axis]
  <2>1. Divider(d) /\ f \in Int /\ k \in Int /\ k + Sign(d) \in Int /\ c[axis] = k + Sign(d)
    <3>1. Divider(d) /\ f \in Int /\ axis \in Axis
      BY <1>1, <1>2
    <3>2. k \in Int
      BY <1>3, <3>1 DEF IsVector
    <3>3. Sign(d) \in Int
      BY DEF Sign
    <3>4. c[axis] = k + Sign(d)
      BY <1>5
    <3> HIDE DEF d, f, k
    <3> QED BY <3>1, <3>2, <3>3, <3>4
  <2>2. m.next[axis] = Exit(f, d, k)
    BY <1>2
  <2>3. far = Unit * Abs(PerTick(d)) /\ enter(c, axis) = Entry(f, d, c[axis])
        /\ leave(c, axis) = Exit(f, d, c[axis])
    OBVIOUS
  <2> HIDE DEF d, f, k, far, enter, leave
  <2>4. Entry(f, d, k + Sign(d)) = Exit(f, d, k)
    BY <2>1, CellCrossed
  <2>5. Exit(f, d, k + Sign(d)) = Entry(f, d, k + Sign(d)) + Unit * Abs(PerTick(d))
        /\ Unit * Abs(PerTick(d)) \in Nat \ {0}
    BY <2>1, CellCrossed
  <2> QED BY <2>1, <2>2, <2>3, <2>4, <2>5
<1> HIDE DEF far
<1>9. next = [i \in M |-> leave(c, i)]
  <2>1. next = [i \in M |-> IF i = axis THEN m.next[i] + far ELSE m.next[i]]
    BY <1>2, <1>3 DEF Moved
  <2>2. ASSUME NEW i \in M
        PROVE  (IF i = axis THEN m.next[i] + far ELSE m.next[i]) = leave(c, i)
    <3>1. CASE i = axis
      BY <1>8, <3>1
    <3>2. CASE i # axis
      <4>1. c[i] = cell[i]
        BY <1>5, <1>6, <3>2
      <4> QED BY <1>2, <3>2, <4>1
    <3> QED BY <3>1, <3>2
  <2> HIDE DEF next, leave, M
  <2> QED BY <2>1, <2>2
<1>10. WithinCell(q, c, m.next[axis])
  <2>1. ASSUME NEW i \in M
        PROVE  enter(c, i) <= m.next[axis] /\ m.next[axis] <= leave(c, i)
    <3>1. CASE i = axis
      BY <1>2, <1>8, <3>1
    <3>2. CASE i # axis
      <4>1. c[i] = cell[i]
        BY <1>5, <1>6, <3>2
      <4>2. enter(c, i) = enter(cell, i) /\ leave(c, i) = leave(cell, i)
        BY <4>1
      <4>3. enter(cell, i) <= m.way
        BY <1>3 DEF WithinCell
      <4>4. m.next[axis] <= leave(cell, i)
        BY <1>2
      <4> HIDE DEF enter, leave
      <4> QED BY <1>2, <1>3, <1>7, <4>2, <4>3, <4>4
    <3> QED BY <3>1, <3>2
  <2>2. ASSUME NEW i \in Axis \ M
        PROVE  c[i] = q.from[i] \div Unit
    <3>1. i # axis /\ cell[i] = q.from[i] \div Unit
      BY <1>2, <1>3 DEF WithinCell
    <3> QED BY <1>5, <3>1
  <2> QED BY <2>1, <2>2 DEF WithinCell
<1>11. ASSUME NEW t \in 0..m.next[axis] - 1
       PROVE  BlockAt(q, Through(q, t)).kind = "Empty"
  <2>0. t \in Int /\ 0 <= t
    BY <1>2
  <2>1. CASE t < m.way
    <3>1. t \in 0..m.way - 1
      BY <1>14, <2>0, <2>1
    <3> QED BY <1>3, <3>1
  <2>2. CASE m.way <= t
    <3>1. \A i \in M : t < m.next[i]
      BY <1>2
    <3>2. t \in Int
      OBVIOUS
    <3>3. Through(q, t) = m.cell
      BY <2>2, <3>1, <3>2, ThroughUntilLeft
    <3> QED BY <3>3
  <2> QED BY <1>14, <2>0, <2>1, <2>2
<1>12. EntersBy(q, c, m.next[axis], Normal(q.dir, {axis}))
  <2>1. {axis} \subseteq M /\ {axis} # {}
    BY <1>2
  <2>2. /\ Faces(Normal(q.dir, {axis}), q.dir)
        /\ \A i \in Axis : Normal(q.dir, {axis})[i] # 0 => i \in {axis}
        /\ \E i \in Axis : Normal(q.dir, {axis})[i] # 0
    BY <1>1, <2>1, NormalOf
  <2>3. m.next[axis] = enter(c, axis)
    BY <1>8
  <2> QED BY <1>2, <2>2, <2>3 DEF EntersBy
<1>13. VisitedBefore(q, c, n + 1)
  <2>1. cell \in Touchable(q)
    BY ArrivesTouching
  <2> QED BY <1>3, <1>5, <2>1, VisitsOneMore
<1> HIDE DEF next, leave, enter, M
<1>15. r.next = [i \in Moving(q.dir) |-> Exit(q.from[i], q.dir[i], r.cell[i])]
  BY <1>4, <1>9 DEF leave, M
<1> QED BY <1>4, <1>5, <1>10, <1>11, <1>12, <1>13, <1>14, <1>15 DEF OnCourse

----------------------------------------------------------------------------
(* Where a ray ends.                                                        *)

LEMMA EndsAtBody ==
    ASSUME NEW q, IsRay(q), q.reach >= 0, NEW body, IsNearest(q, body),
           \A t \in Blocked(q) : body.kind = "Hit" /\ body.way < t
    PROVE  AnswersRay(q, body)
<1>1. CASE body.kind = "Miss"
  <2>1. Blocked(q) = {}
    BY <1>1
  <2>2. BodyTicks(q) = {}
    BY <1>1 DEF IsNearest, BodyTicks
  <2> QED BY <1>1, <2>1, <2>2, RayAnswered
<1>2. CASE body.kind = "Hit"
  <2>1. /\ "cell" \notin DOMAIN body /\ body.way \in 0..q.reach
        /\ BodyAt(q, body.way, body.body)
        /\ \A b \in 1..body.body - 1 : ~BodyAt(q, body.way, b)
        /\ \A t \in 0..body.way - 1, b \in DOMAIN q.bodies : ~BodyAt(q, t, b)
    BY <1>2 DEF IsNearest
  <2>2. q.reach \in Int /\ body.way \in Int /\ body.way <= q.reach
    BY <2>1 DEF IsRay
  <2>3. body.way \notin Blocked(q)
    BY <2>2
  <2>4. ClearUpTo(q, body.way)
    <3> SUFFICES ASSUME NEW u \in 0..body.way - 1
                 PROVE  u \notin Blocked(q) /\ u \notin BodyTicks(q)
      BY DEF ClearUpTo
    <3>1. u \notin Blocked(q)
      BY <2>2
    <3>2. u \notin BodyTicks(q)
      BY <2>1 DEF BodyTicks
    <3> QED BY <3>1, <3>2
  <2>5. BodyHitRight(q, body)
    BY <2>1, <2>2, <2>3, <2>4 DEF BodyHitRight
  <2> QED BY <1>2, <2>1, <2>5, RayAnswered
<1> QED BY <1>1, <1>2 DEF IsNearest

LEMMA ArrivesClear ==
    ASSUME NEW q, IsRay(q), q.reach >= 0, NEW body, IsNearest(q, body), NEW m, NEW n,
           OnCourse(q, m, n), ~(body.kind = "Hit" /\ m.way > body.way)
    PROVE  ClearUpTo(q, m.way)
<1> SUFFICES ASSUME NEW u \in 0..m.way - 1
             PROVE  u \notin Blocked(q) /\ u \notin BodyTicks(q)
  BY DEF ClearUpTo
<1>1. m.way \in 0..q.reach /\ q.reach \in Int /\ BlockAt(q, Through(q, u)).kind = "Empty"
  BY DEF OnCourse, IsRay
<1>2. u \notin Blocked(q)
  BY <1>1 DEF Blocked
<1>3. u \notin BodyTicks(q)
  <2>1. CASE body.kind = "Miss"
    BY <1>1, <2>1 DEF IsNearest, BodyTicks
  <2>2. CASE body.kind = "Hit"
    <3>1. body.way \in 0..q.reach /\ \A t \in 0..body.way - 1, b \in DOMAIN q.bodies : ~BodyAt(q, t, b)
      BY <2>2 DEF IsNearest
    <3>2. u \in 0..body.way - 1
      BY <1>1, <2>2, <3>1
    <3> QED BY <3>1, <3>2 DEF BodyTicks
  <2> QED BY <2>1, <2>2 DEF IsNearest
<1> QED BY <1>2, <1>3

(* A block is entered by the face of the normal.                            *)
LEMMA EndsAtBlock ==
    ASSUME NEW q, IsRay(q), NEW m, NEW n, OnCourse(q, m, n), ClearUpTo(q, m.way),
           BlockAt(q, m.cell).kind = "Hit", NEW r,
           r = [kind |-> "Hit", cell |-> m.cell, block |-> BlockAt(q, m.cell).block,
                way |-> m.way, normal |-> m.normal]
    PROVE  AnswersRay(q, r)
<1>1. r.kind = "Hit" /\ r.cell = m.cell /\ r.block = BlockAt(q, m.cell).block /\ r.way = m.way
      /\ r.normal = m.normal /\ "cell" \in DOMAIN r /\ "body" \notin DOMAIN r
  OBVIOUS
<1>2. IsScene(q) /\ IsVector(q.from) /\ IsWay(q.dir) /\ q.reach \in Int
      /\ m.way \in 0..q.reach /\ EntersBy(q, m.cell, m.way, m.normal) /\ IsVector(m.cell)
  BY DEF IsRay, OnCourse
<1>3. /\ BlockAt(q, m.cell) = [kind |-> "Hit", cell |-> m.cell, block |-> r.block]
      /\ r.block = CellAt(q.world, m.cell).block
  BY <1>1, <1>2, VisitFields
<1>4. m.cell \in TouchedAt(q, m.way)
  BY ArrivesTouching
<1>5. ASSUME NEW i \in Axis, m.normal[i] # 0
      PROVE  After(q.from, q.dir, m.way)[i]
                 = (m.cell[i] + IF m.normal[i] > 0 THEN 1 ELSE 0) * Unit * Ticks
  <2> DEFINE d == q.dir[i]
             f == q.from[i]
             b == (IF d > 0 THEN m.cell[i] ELSE m.cell[i] + 1) * Unit
             k == m.cell[i] + IF m.normal[i] > 0 THEN 1 ELSE 0
  <2>1. i \in Moving(q.dir) /\ m.way = Ahead(f, d, b) /\ m.normal[i] = -Sign(d)
    BY <1>2, <1>5 DEF EntersBy, Entry, Faces
  <2>2. Divider(d) /\ f \in Int /\ m.cell[i] \in Int /\ d \in Int /\ d # 0
    BY <1>2, <2>1, WayDivides DEF IsVector, Divider
  <2>3. b \in Int /\ Unit \in Int /\ Ticks \in Int
    BY <2>2, PhysicsAssumption
  <2>4. b = k * Unit
    <3>1. m.normal[i] > 0 <=> ~(d > 0)
      BY <2>1, <2>2 DEF Sign
    <3>2. k = IF d > 0 THEN m.cell[i] ELSE m.cell[i] + 1
      BY <2>2, <3>1
    <3> HIDE DEF k
    <3> QED BY <3>2
  <2> HIDE DEF d, f, b, k
  <2>5. f * Ticks + d * m.way = b * Ticks
    BY <2>1, <2>2, <2>3, Crossing
  <2>6. After(q.from, q.dir, m.way)[i] = f * Ticks + d * m.way
    BY DEF After, d, f
  <2>7. After(q.from, q.dir, m.way)[i] = k * Unit * Ticks
    BY <2>4, <2>5, <2>6
  <2> QED BY <2>7 DEF k
<1>6. Faces(m.normal, q.dir) /\ (m.way > 0 => \E i \in Axis : m.normal[i] # 0) /\ m.way <= q.reach
  BY <1>2 DEF EntersBy
<1>7. BlockHitRight(q, r)
  BY <1>1, <1>3, <1>4, <1>5, <1>6 DEF BlockHitRight
<1> QED BY <1>1, <1>7, RayAnswered

LEMMA EndsUnknown ==
    ASSUME NEW q, IsRay(q), NEW m, NEW n, OnCourse(q, m, n), ClearUpTo(q, m.way),
           NEW r, r = BlockAt(q, m.cell), r.kind \notin {"Hit", "Empty"}
    PROVE  AnswersRay(q, r) /\ r.kind # "Onward"
<1>1. IsScene(q) /\ m.way \in 0..q.reach
  BY DEF IsRay, OnCourse
<1>2. SeenAt(q, m.way, r)
  BY ArrivesTouching DEF SeenAt
<1>3. \/ r.kind = "Error"
      \/ /\ r.kind = "Unresolved"
         /\ r.section \notin DOMAIN q.world \/ q.world[r.section].presence \notin Stored
  BY <1>1, VisitFields
<1> QED BY <1>1, <1>2, <1>3, RayAnswered

LEMMA EndsExhausted ==
    ASSUME NEW q, IsRay(q), q.reach >= 0, NEW m, NEW n \in Nat, OnCourse(q, m, n), n >= MaxCells
    PROVE  AnswersRay(q, Kind("Error"))
<1>1. IsVector(q.from) /\ IsVector(q.dir) /\ q.reach \in Nat
  BY DEF IsRay, IsWay
<1>2. IsFiniteSet(Touchable(q))
  BY <1>1, TouchedFinite DEF Touchable
<1>3. PICK V : IsFiniteSet(V) /\ Cardinality(V) = n /\ V \subseteq Touchable(q)
  BY DEF OnCourse, VisitedBefore
<1>4. Cardinality(V) <= Cardinality(Touchable(q)) /\ Cardinality(Touchable(q)) \in Nat
  BY <1>2, <1>3, FS_Subset, FS_CardinalityType
<1>5. Cardinality(Touchable(q)) >= MaxCells
  BY <1>3, <1>4, PhysicsAssumption
<1>6. Kind("Error").kind = "Error"
  BY DEF Kind
<1> QED BY <1>5, <1>6, RayAnswered

----------------------------------------------------------------------------
(* The march.                                                               *)

Courses(q) ==
    [kind : {"Onward"}, cell : [Axis -> Int], way : Int, next : [Moving(q.dir) -> Int],
     normal : [Axis -> Int]]

Ends(q, body) ==
    {body, Kind("Error")} \cup {BlockAt(q, c) : c \in [Axis -> Int]}
        \cup [kind : {"Hit"}, cell : [Axis -> Int],
              block : {BlockAt(q, c).block : c \in [Axis -> Int]}, way : Int, normal : [Axis -> Int]]

Marching(q, m, n) == m \in Courses(q) /\ OnCourse(q, m, n)
Ended(q, body, r) == r \in Ends(q, body) /\ r.kind # "Onward" /\ AnswersRay(q, r)

LEMMA NormalTyped ==
    ASSUME NEW dir, IsWay(dir), NEW axes
    PROVE  Normal(dir, axes) \in [Axis -> Int]
<1>1. \A i \in Axis : -Sign(dir[i]) \in Int
  BY DEF Sign
<1> QED BY <1>1 DEF Normal

LEMMA StartMarching ==
    ASSUME NEW q, IsRay(q), q.reach >= 0
    PROVE  Marching(q, Start(q), 0)
<1> DEFINE first == FirstCell(q.from, q.dir)
           next == NextCrossing(q.from, q.dir, first)
           normal == Normal(q.dir, EntryAxes(q.from, q.dir))
<1>1. OnCourse(q, Start(q), 0)
  BY StartsOnCourse
<1>2. Start(q) = [kind |-> "Onward", cell |-> first, way |-> 0, next |-> next, normal |-> normal]
  BY DEF Start
<1>3. IsWay(q.dir) /\ IsVector(q.from)
  BY DEF IsRay
<1>4. normal \in [Axis -> Int]
  BY <1>3, NormalTyped
<1>5. first \in [Axis -> Int]
  BY <1>1, <1>2 DEF OnCourse, IsVector
<1>6. next \in [Moving(q.dir) -> Int]
  <2>1. Start(q).next = next /\ Start(q).cell = first
    BY <1>2
  <2>2. next = [i \in Moving(q.dir) |-> Exit(q.from[i], q.dir[i], first[i])]
    BY <1>1, <2>1 DEF OnCourse
  <2>3. \A i \in Moving(q.dir) : Exit(q.from[i], q.dir[i], first[i]) \in Int
    BY <1>3, <1>5, WayDivides, CellCrossed DEF IsVector
  <2> HIDE DEF next, first
  <2> QED BY <2>2, <2>3
<1> HIDE DEF first, next, normal
<1>7. Start(q) \in Courses(q)
  BY <1>2, <1>4, <1>5, <1>6 DEF Courses
<1> QED BY <1>1, <1>7 DEF Marching

LEMMA MarchStep ==
    ASSUME NEW q, IsRay(q), q.reach >= 0, q.dir # NoHalf, NEW body, IsNearest(q, body),
           NEW m, NEW n \in 0..MaxCells, Marching(q, m, n), NEW r, r = Marched(q, body, m, n)
    PROVE  \/ n < MaxCells /\ Marching(q, r, n + 1)
           \/ Ended(q, body, r)
<1> DEFINE at == BlockAt(q, m.cell)
           axis == CrossedAxis(m.next)
           on == [kind |-> "Onward", cell |-> Moved(m.cell, axis, Sign(q.dir[axis])),
                  way |-> m.next[axis],
                  next |-> Moved(m.next, axis, Unit * Abs(PerTick(q.dir[axis]))),
                  normal |-> Normal(q.dir, {axis})]
           hit == [kind |-> "Hit", cell |-> m.cell, block |-> at.block, way |-> m.way,
                   normal |-> m.normal]
           late == body.kind = "Hit" /\ m.way > body.way
<1>1. m \in Courses(q) /\ OnCourse(q, m, n) /\ n \in Nat /\ MaxCells \in Nat
  BY PhysicsAssumption DEF Marching
<1>2. m.kind = "Onward" /\ m.way \in 0..q.reach /\ q.reach \in Int /\ IsScene(q) /\ IsWay(q.dir)
      /\ m.cell \in [Axis -> Int] /\ m.normal \in [Axis -> Int] /\ IsVector(m.cell)
      /\ IsVector(q.from) /\ m.next \in [Moving(q.dir) -> Int] /\ m.way \in Int
  BY <1>1 DEF OnCourse, IsRay, Courses
<1>3. /\ axis \in Moving(q.dir) /\ axis \in Axis /\ Divider(q.dir[axis])
      /\ m.next[axis] \in Int /\ m.way <= m.next[axis]
      /\ \A i \in Moving(q.dir) : m.next[axis] <= m.next[i]
  BY <1>1, NextIs
<1>4. r = IF late THEN body
          ELSE IF n >= MaxCells THEN Kind("Error")
          ELSE IF at.kind = "Hit" THEN hit
          ELSE IF at.kind # "Empty" THEN at
          ELSE IF m.next[axis] > q.reach THEN body ELSE on
  <2>1. ~(m.way > q.reach)
    BY <1>2
  <2> QED BY <1>2, <2>1 DEF Marched
<1>5. body \in Ends(q, body) /\ body.kind # "Onward" /\ at \in Ends(q, body)
      /\ Kind("Error") \in Ends(q, body) /\ Kind("Error").kind # "Onward"
  BY <1>2 DEF Ends, IsNearest, Kind
<1>6. \A t \in 0..m.way - 1 : t \notin Blocked(q)
  BY <1>1 DEF OnCourse, Blocked
<1> HIDE DEF at, axis, on, hit
<1>7. CASE late
  <2>1. r = body
    BY <1>4, <1>7
  <2>2. body.way \in 0..q.reach
    BY <1>7 DEF IsNearest
  <2>3. \A t \in Blocked(q) : body.kind = "Hit" /\ body.way < t
    <3> TAKE t \in Blocked(q)
    <3>1. t \in 0..q.reach - 1
      BY DEF Blocked
    <3>2. ~(t < m.way)
      BY <1>2, <1>6, <3>1
    <3> QED BY <1>2, <1>7, <2>2, <3>1, <3>2
  <2>4. AnswersRay(q, body)
    BY <2>3, EndsAtBody
  <2> QED BY <1>5, <2>1, <2>4 DEF Ended
<1>8. CASE ~late /\ n >= MaxCells
  <2>1. r = Kind("Error")
    BY <1>4, <1>8
  <2>2. AnswersRay(q, Kind("Error"))
    BY <1>1, <1>8, EndsExhausted
  <2> QED BY <1>5, <2>1, <2>2 DEF Ended
<1>9. CASE ~late /\ n < MaxCells
  <2>0. ClearUpTo(q, m.way) /\ ~(n >= MaxCells)
    BY <1>1, <1>9, ArrivesClear
  <2>1. CASE at.kind = "Hit"
    <3>1. r = hit
      BY <1>4, <1>9, <2>0, <2>1
    <3>2. AnswersRay(q, hit)
      BY <1>1, <2>0, <2>1, EndsAtBlock DEF hit, at
    <3>3. hit \in Ends(q, body) /\ hit.kind # "Onward"
      BY <1>2 DEF hit, at, Ends
    <3> QED BY <3>1, <3>2, <3>3 DEF Ended
  <2>2. CASE at.kind \notin {"Hit", "Empty"}
    <3>1. r = at
      BY <1>4, <1>9, <2>0, <2>2
    <3>2. AnswersRay(q, at) /\ at.kind # "Onward"
      BY <1>1, <2>0, <2>2, EndsUnknown DEF at
    <3> QED BY <1>5, <3>1, <3>2 DEF Ended
  <2>3. CASE at.kind = "Empty" /\ m.next[axis] > q.reach
    <3>1. r = body
      BY <1>4, <1>9, <2>0, <2>3
    <3>2. Blocked(q) = {}
      <4> SUFFICES ASSUME NEW t \in Blocked(q) PROVE FALSE
        OBVIOUS
      <4>1. t \in 0..q.reach - 1 /\ BlockAt(q, Through(q, t)).kind # "Empty"
        BY DEF Blocked
      <4>2. t \in Int /\ m.way <= t
        BY <1>2, <1>6, <4>1
      <4>3. \A i \in Moving(q.dir) : t < m.next[i]
        BY <1>2, <1>3, <2>3, <4>1
      <4>4. Through(q, t) = m.cell
        BY <1>1, <4>2, <4>3, ThroughUntilLeft
      <4> QED BY <2>3, <4>1, <4>4 DEF at
    <3>3. AnswersRay(q, body)
      BY <3>2, EndsAtBody
    <3> QED BY <1>5, <3>1, <3>3 DEF Ended
  <2>4. CASE at.kind = "Empty" /\ m.next[axis] <= q.reach
    <3>1. ~(m.next[axis] > q.reach)
      BY <1>2, <1>3, <2>4
    <3>2. r = on
      BY <1>4, <1>9, <2>0, <2>4, <3>1
    <3>3. OnCourse(q, on, n + 1)
      BY <1>1, <2>4, StepsOn DEF on, at, axis
    <3>4. on \in Courses(q)
      <4>1. Moved(m.cell, axis, Sign(q.dir[axis])) \in [Axis -> Int]
        BY <1>2, <1>3, CellMoved DEF IsVector
      <4>2. Unit * Abs(PerTick(q.dir[axis])) \in Int
        BY <1>3, TicksOf, PhysicsAssumption DEF Abs
      <4>3. Moved(m.next, axis, Unit * Abs(PerTick(q.dir[axis]))) \in [Moving(q.dir) -> Int]
        BY <1>2, <1>3, <4>2 DEF Moved
      <4>4. Normal(q.dir, {axis}) \in [Axis -> Int]
        BY <1>2, NormalTyped
      <4> QED BY <1>3, <4>1, <4>3, <4>4 DEF on, Courses
    <3> QED BY <1>9, <3>2, <3>3, <3>4 DEF Marching
  <2> QED BY <1>2, <1>3, <2>1, <2>2, <2>3, <2>4
<1> QED BY <1>1, <1>7, <1>8, <1>9

LEMMA MarchAnswers ==
    ASSUME NEW q, IsRay(q), q.reach >= 0, q.dir # NoHalf, NEW body, IsNearest(q, body)
    PROVE  AnswersRay(q, March(q, body))
<1> DEFINE N == MaxCells + 1
           start == Start(q)
           U == Courses(q) \cup Ends(q, body)
           S == [n \in 0..N |-> {x \in U : (n <= MaxCells /\ Marching(q, x, n)) \/ Ended(q, body, x)}]
           step == [p \in (1..N) \X U |-> Marched(q, body, p[2], p[1] - 1)]
           Is(f) == f = [n \in 0..N |-> IF n = 0 THEN Start(q) ELSE Marched(q, body, f[n - 1], n - 1)]
           after == CHOOSE f : Is(f)
<1>1. N \in Nat /\ MaxCells \in Nat /\ N = MaxCells + 1
  BY PhysicsAssumption
<1>2. start \in S[0]
  <2>1. Marching(q, start, 0)
    BY StartMarching
  <2>2. start \in U
    BY <2>1 DEF Marching
  <2> HIDE DEF start, U
  <2> QED BY <1>1, <2>1, <2>2
<1>3. \A n \in 1..N : \A x \in S[n - 1] :
         x \in U /\ Marched(q, body, x, n - 1) \in S[n]
  <2> TAKE n \in 1..N
  <2> TAKE x \in S[n - 1]
  <2>1. n - 1 \in 0..N /\ n \in 0..N /\ n - 1 \in 0..MaxCells /\ n - 1 + 1 = n
    BY <1>1
  <2>2. x \in U /\ (Marching(q, x, n - 1) \/ Ended(q, body, x))
    BY <2>1
  <2> DEFINE r == Marched(q, body, x, n - 1)
  <2>3. CASE Ended(q, body, x)
    <3>1. r = x
      BY <2>3 DEF Ended, Marched
    <3> HIDE DEF r, U
    <3> QED BY <2>1, <2>2, <2>3, <3>1 DEF r
  <2>4. CASE Marching(q, x, n - 1)
    <3> DEFINE k == n - 1
    <3>1. k \in 0..MaxCells /\ r = Marched(q, body, x, k) /\ k + 1 = n
      BY <2>1
    <3> HIDE DEF k, r
    <3>2. \/ k < MaxCells /\ Marching(q, r, k + 1)
          \/ Ended(q, body, r)
      BY <2>4, <3>1, MarchStep DEF k
    <3>3. (n <= MaxCells /\ Marching(q, r, n)) \/ Ended(q, body, r)
      BY <1>1, <3>1, <3>2
    <3>4. r \in U
      BY <3>3 DEF Marching, Ended
    <3> HIDE DEF U
    <3> QED BY <2>1, <2>2, <3>3, <3>4 DEF r
  <2> QED BY <2>2, <2>3, <2>4
<1>4. \A n \in 1..N, x \in U : step[<<n, x>>] = Marched(q, body, x, n - 1)
  OBVIOUS
<1>5. \A x \in S[N] : Ended(q, body, x)
  BY <1>1
<1>16. start = Start(q)
  OBVIOUS
<1> HIDE DEF S, step, N, start, U
<1>6. PICK f : Unrolled(f, N, start, step) /\ \A i \in 0..N : f[i] \in S[i]
  <2>1. \A n \in 1..N : \A x \in S[n - 1] : step[<<n, x>>] \in S[n]
    BY <1>3, <1>4
  <2> QED BY <1>1, <1>2, <2>1, Unrolls
<1> DEFINE g == [n \in 0..N |-> IF n = 0 THEN start ELSE Marched(q, body, f[n - 1], n - 1)]
<1>7. \A n \in 0..N : f[n] = IF n = 0 THEN start ELSE Marched(q, body, f[n - 1], n - 1)
  <2> TAKE n \in 0..N
  <2>1. CASE n = 0
    BY <1>6, <2>1 DEF Unrolled
  <2>2. CASE n # 0
    <3>1. n \in 1..N /\ n - 1 \in 0..N
      BY <1>1, <2>2
    <3>2. f[n - 1] \in S[n - 1] /\ f[n] = step[<<n, f[n - 1]>>]
      BY <1>6, <3>1 DEF Unrolled
    <3> QED BY <1>3, <1>4, <2>2, <3>1, <3>2
  <2> QED BY <2>1, <2>2
<1>8. Is(g)
  <2>1. \A n \in 0..N : n # 0 => n - 1 \in 0..N
    BY <1>1
  <2>2. \A n \in 0..N : g[n] = f[n]
    BY <1>7
  <2>3. \A n \in 0..N : g[n] = IF n = 0 THEN start ELSE Marched(q, body, g[n - 1], n - 1)
    BY <1>7, <2>1, <2>2
  <2> QED BY <2>3 DEF start
<1> HIDE DEF g
<1>9. Is(after)
  BY <1>8
<1>10. March(q, body) = after[N]
  BY DEF March, N
<1> HIDE DEF after
<1>11. after[0] = start /\ \A n \in 1..N : after[n] = Marched(q, body, after[n - 1], n - 1)
  BY <1>1, <1>9, <1>16
<1> DEFINE T == {n \in 0..N : after[n] \in S[n]}
<1>12. 0 \in T
  BY <1>1, <1>2, <1>11
<1>13. \A n \in 1..N : n - 1 \in T => n \in T
  <2> TAKE n \in 1..N
  <2> HAVE n - 1 \in T
  <2>1. n \in 0..N /\ after[n - 1] \in S[n - 1]
    BY <1>1
  <2>2. after[n] = Marched(q, body, after[n - 1], n - 1)
    BY <1>11
  <2> QED BY <1>3, <2>1, <2>2
<1> HIDE DEF T
<1>14. 0..N \subseteq T
  BY <1>1, <1>12, <1>13, Induced
<1>15. after[N] \in S[N]
  BY <1>1, <1>14 DEF T
<1> QED BY <1>5, <1>10, <1>15 DEF Ended

LEMMA RayRight ==
    ASSUME NEW q, IsRay(q)
    PROVE  RayAgrees(q)
<1> SUFFICES ASSUME q.reach >= 0, q.dir # NoHalf
             PROVE  AnswersRay(q, Raycast(q))
  BY DEF RayAgrees
<1>1. q.reach \in Int /\ ~(q.reach < 0)
  BY DEF IsRay
<1>2. Raycast(q) = March(q, NearestBody(q))
  BY <1>1 DEF Raycast, NoHalf
<1>3. IsNearest(q, NearestBody(q))
  BY NearestFound
<1> QED BY <1>2, <1>3, MarchAnswers
----------------------------------------------------------------------------
(* The cells of a box.                                                      *)

LEMMA GreaterOf ==
    ASSUME NEW x \in Int, NEW y \in Int
    PROVE  Max({x, y}) \in Int /\ (\A z \in Int : Max({x, y}) <= z <=> x <= z /\ y <= z)
<1> DEFINE S == {x, y}
           top == IF x <= y THEN y ELSE x
<1>1. S \subseteq Int /\ S # {} /\ top \in Int /\ (\A z \in S : z <= top) /\ x \in S /\ y \in S
  OBVIOUS
<1>2. \A z \in S : z \in {x, y}
  OBVIOUS
<1> HIDE DEF S, top
<1>3. Max(S) \in S /\ \A z \in S : z <= Max(S)
  BY <1>1, GreatestOf
<1>4. Max(S) \in Int /\ x <= Max(S) /\ y <= Max(S) /\ (Max(S) = x \/ Max(S) = y)
  BY <1>1, <1>2, <1>3
<1>5. \A z \in Int : Max(S) <= z <=> x <= z /\ y <= z
  BY <1>4
<1> QED BY <1>4, <1>5 DEF S

LEMMA LesserOf ==
    ASSUME NEW x \in Int, NEW y \in Int
    PROVE  /\ Min({x, y}) \in Int
           /\ \A z \in Int : z <= Min({x, y}) <=> z <= x /\ z <= y
           /\ (Min({x, y}) = x /\ x <= y) \/ (Min({x, y}) = y /\ y <= x)
<1> DEFINE S == {x, y}
           bottom == IF x <= y THEN x ELSE y
<1>1. S \subseteq Int /\ S # {} /\ bottom \in Int /\ (\A z \in S : bottom <= z) /\ x \in S /\ y \in S
  OBVIOUS
<1>2. \A z \in S : z \in {x, y}
  OBVIOUS
<1> HIDE DEF S, bottom
<1>3. Min(S) \in S /\ \A z \in S : Min(S) <= z
  BY <1>1, LeastOf
<1>4. Min(S) \in Int /\ Min(S) <= x /\ Min(S) <= y /\ (Min(S) = x \/ Min(S) = y)
  BY <1>1, <1>2, <1>3
<1>5. \A z \in Int : z <= Min(S) <=> z <= x /\ z <= y
  BY <1>4
<1>6. (Min(S) = x /\ x <= y) \/ (Min(S) = y /\ y <= x)
  BY <1>4
<1> QED BY <1>4, <1>5, <1>6 DEF S

(* The numbers of the cells that share more than a boundary with what is    *)
(* between two positions.                                                   *)
LEMMA SharedAlong ==
    ASSUME NEW lo \in Int, NEW hi \in Int, NEW c \in Int
    PROVE  /\ c * Unit < hi <=> c <= (hi - 1) \div Unit
           /\ (c + 1) * Unit > lo <=> lo \div Unit <= c
           /\ lo \div Unit \in Int /\ (hi - 1) \div Unit \in Int /\ hi \div Unit \in Int
           /\ (hi - 1) \div Unit <= hi \div Unit
<1> DEFINE k == (hi - 1) \div Unit
           l == lo \div Unit
           h == hi \div Unit
<1>1. Unit \in Nat \ {0} /\ Unit > 0 /\ Unit \in Int
  BY PhysicsAssumption
<1>2. Rest(hi - 1, Unit, k, (hi - 1) % Unit) /\ Rest(lo, Unit, l, lo % Unit)
      /\ Rest(hi, Unit, h, hi % Unit)
  BY <1>1, Divides, hi - 1 \in Int
<1>3. k <= h
  BY <1>1, DividedOrder, hi - 1 \in Int, hi - 1 <= hi
<1> HIDE DEF k, l, h
<1>4. /\ k \in Int /\ Unit * k <= hi - 1 /\ hi - 1 < Unit * (k + 1)
      /\ l \in Int /\ Unit * l <= lo /\ lo < Unit * (l + 1) /\ h \in Int
  BY <1>1, <1>2 DEF Rest
<1>5. /\ Unit * c <= Unit * k <=> c <= k
      /\ Unit * (k + 1) <= Unit * c <=> k + 1 <= c
      /\ Unit * (l + 1) <= Unit * (c + 1) <=> l + 1 <= c + 1
      /\ Unit * (c + 1) <= Unit * l <=> c + 1 <= l
  BY <1>1, <1>4, Scaled, k + 1 \in Int, l + 1 \in Int, c + 1 \in Int
<1>6. c * Unit = Unit * c /\ (c + 1) * Unit = Unit * (c + 1)
  BY <1>1
<1> DEFINE uc == Unit * c
           uc1 == Unit * (c + 1)
           uk == Unit * k
           uk1 == Unit * (k + 1)
           ul == Unit * l
           ul1 == Unit * (l + 1)
<1>7. uc \in Int /\ uc1 \in Int /\ uk \in Int /\ uk1 \in Int /\ ul \in Int /\ ul1 \in Int
  BY <1>1, <1>4
<1>8. /\ uk <= hi - 1 /\ hi - 1 < uk1 /\ ul <= lo /\ lo < ul1
      /\ uc <= uk <=> c <= k
      /\ uk1 <= uc <=> k + 1 <= c
      /\ ul1 <= uc1 <=> l + 1 <= c + 1
      /\ uc1 <= ul <=> c + 1 <= l
      /\ c * Unit = uc /\ (c + 1) * Unit = uc1
  BY <1>4, <1>5, <1>6
<1> HIDE DEF uc, uc1, uk, uk1, ul, ul1
<1>9. c * Unit < hi <=> c <= k
  BY <1>4, <1>7, <1>8
<1>10. (c + 1) * Unit > lo <=> l <= c
  BY <1>4, <1>7, <1>8
<1> QED BY <1>3, <1>4, <1>9, <1>10 DEF k, l, h

(* The range of a box is that of its cells.                                 *)
LEMMA RangeRight ==
    ASSUME NEW lo, IsVector(lo), NEW hi, IsVector(hi), NEW g, g = RangeOf(lo, hi)
    PROVE  /\ g.lo \in Triple /\ g.hi \in Triple
           /\ NoRange(g) <=> ~Ordered(g.lo, g.hi)
           /\ CellsBetween(lo, hi) = CellsOf(g.lo, g.hi)
           /\ NoRange(g) <=> CellsBetween(lo, hi) = {}
<1> DEFINE a(i) == lo[i] \div Unit
           b(i) == (hi[i] - 1) \div Unit
           Around(i) == a(i) - 1 .. (hi[i] \div Unit) + 1
<1>1. \A i \in Axis : lo[i] \in Int /\ hi[i] \in Int
  BY DEF IsVector
<1>2. \A i \in Axis : /\ a(i) \in Int /\ b(i) \in Int /\ hi[i] \div Unit \in Int
                      /\ b(i) <= hi[i] \div Unit
  BY <1>1, SharedAlong, 0 \in Int
<1>3. \A i \in Axis : \A c \in Int : /\ c * Unit < hi[i] <=> c <= b(i)
                                     /\ (c + 1) * Unit > lo[i] <=> a(i) <= c
  BY <1>1, SharedAlong
<1>4. /\ DOMAIN g.lo = Axis /\ DOMAIN g.hi = Axis
      /\ \A i \in Axis : /\ g.lo[i] = IF i = 2 THEN Max({0, a(i)}) ELSE a(i)
                         /\ g.hi[i] = IF i = 2 THEN Min({WorldYMax, b(i)}) ELSE b(i)
      /\ g.lo = [i \in Axis |-> g.lo[i]] /\ g.hi = [i \in Axis |-> g.hi[i]]
  BY DEF RangeOf
<1>5. 1 \in Axis /\ 2 \in Axis /\ 3 \in Axis /\ Axis = 1..3 /\ WorldYMax \in Int /\ 0 \in Int
  BY KeysAssumption DEF Axis, WorldYMax
<1> HIDE DEF a, b
<1>6. /\ g.lo[2] \in Int /\ \A c \in Int : g.lo[2] <= c <=> 0 <= c /\ a(2) <= c
      /\ g.hi[2] \in Int /\ \A c \in Int : c <= g.hi[2] <=> c <= WorldYMax /\ c <= b(2)
  BY <1>2, <1>4, <1>5, GreaterOf, LesserOf
<1>7. \A i \in Axis : g.lo[i] \in Int /\ g.hi[i] \in Int
  BY <1>2, <1>4, <1>6
<1>8. g.lo \in Triple /\ g.hi \in Triple
  <2>1. IsVector(g.lo) /\ IsVector(g.hi)
    BY <1>4, <1>7 DEF IsVector
  <2> QED BY <2>1, VectorIsTriple
<1>9. NoRange(g) <=> ~Ordered(g.lo, g.hi)
  BY <1>5, <1>7 DEF NoRange, Ordered
<1>10. \A c \in Triple : c \in CellsOf(g.lo, g.hi)
                           <=> \A i \in Axis : g.lo[i] <= c[i] /\ c[i] <= g.hi[i]
  BY <1>5, <1>7 DEF CellsOf, Triple
<1>11. \A c \in Triple : c \in CellsBetween(lo, hi)
                           <=> /\ IsWorldY(c[2])
                               /\ \A i \in Axis : c[i] \in Around(i)
                               /\ \A i \in Axis : c[i] <= b(i) /\ a(i) <= c[i]
  <2> TAKE c \in Triple
  <2>1. \A i \in Axis : c[i] \in Int /\ CellLow(c)[i] = c[i] * Unit
                        /\ CellHigh(c)[i] = (c[i] + 1) * Unit
    BY <1>5 DEF Triple, CellLow, CellHigh
  <2>2. \A i \in Axis : CellLow(c)[i] < hi[i] /\ CellHigh(c)[i] > lo[i]
                          <=> c[i] <= b(i) /\ a(i) <= c[i]
    BY <1>3, <2>1
  <2>3. c = <<c[1], c[2], c[3]>>
    BY DEF Triple
  <2>4. c \in Around(1) \X Around(2) \X Around(3) <=> \A i \in Axis : c[i] \in Around(i)
    BY <1>5, <2>3
  <2>5. CellsBetween(lo, hi) =
          {x \in Around(1) \X Around(2) \X Around(3) :
              /\ IsWorldY(x[2])
              /\ \A i \in Axis : CellLow(x)[i] < hi[i] /\ CellHigh(x)[i] > lo[i]}
    BY DEF CellsBetween, a
  <2> HIDE DEF Around
  <2> QED BY <2>2, <2>4, <2>5
<1>12. CellsBetween(lo, hi) \subseteq Triple /\ CellsOf(g.lo, g.hi) \subseteq Triple
  BY <1>2, <1>5, <1>7 DEF CellsBetween, CellsOf, Triple, a
<1>13. \A c \in Triple : c \in CellsBetween(lo, hi) <=> c \in CellsOf(g.lo, g.hi)
  <2> TAKE c \in Triple
  <2>1. \A i \in Axis : c[i] \in Int
    BY <1>5 DEF Triple
  <2>2. \A i \in Axis : c[i] <= b(i) /\ a(i) <= c[i] => c[i] \in Around(i)
    BY <1>2, <2>1
  <2>3. IsWorldY(c[2]) <=> 0 <= c[2] /\ c[2] <= WorldYMax
    BY <1>5, <2>1 DEF IsWorldY
  <2>4. \A i \in Axis : i # 2 => /\ g.lo[i] <= c[i] <=> a(i) <= c[i]
                                 /\ c[i] <= g.hi[i] <=> c[i] <= b(i)
    BY <1>4
  <2>5. /\ g.lo[2] <= c[2] <=> 0 <= c[2] /\ a(2) <= c[2]
        /\ c[2] <= g.hi[2] <=> c[2] <= WorldYMax /\ c[2] <= b(2)
    BY <1>5, <1>6, <2>1
  <2> HIDE DEF Around
  <2> QED BY <1>5, <1>10, <1>11, <2>2, <2>3, <2>4, <2>5
<1>14. CellsBetween(lo, hi) = CellsOf(g.lo, g.hi)
  BY <1>12, <1>13
<1>15. NoRange(g) <=> CellsOf(g.lo, g.hi) = {}
  <2>1. ASSUME Ordered(g.lo, g.hi)
        PROVE  g.lo \in CellsOf(g.lo, g.hi)
    BY <1>5, <1>7, <1>8, <1>10, <2>1 DEF Ordered
  <2> QED BY <1>8, <1>9, <2>1, NoCells
<1> QED BY <1>8, <1>9, <1>14, <1>15
----------------------------------------------------------------------------
(* Lists of numbers, and what is written to a buffer.                       *)

(* Finitely many numbers are listed once each.                              *)
LEMMA NumbersListed ==
    ASSUME NEW n \in Nat, NEW S, S \subseteq 1..n
    PROVE  LET s == InOrder(S) IN
           /\ IsFiniteSet(S) /\ Cardinality(S) \in Nat
           /\ DOMAIN s = 1..Cardinality(S) /\ Len(s) = Cardinality(S)
           /\ \A k \in 1..Cardinality(S) : s[k] \in S
           /\ \A k, l \in 1..Cardinality(S) : s[k] = s[l] => k = l
<1> DEFINE N == Cardinality(S)
           Upto(i) == {j \in S : j <= i}
           rank == [i \in S |-> Cardinality(Upto(i))]
           s == InOrder(S)
<1>1. IsFiniteSet(S) /\ N \in Nat
  <2>1. IsFiniteSet(1..n)
    BY 1 \in Int, n \in Int, FS_Interval
  <2>2. IsFiniteSet(S)
    BY <2>1, FS_Subset
  <2> QED BY <2>2, FS_CardinalityType
<1>2. \A i \in S : i \in Int
  OBVIOUS
<1>3. \A i \in S : /\ IsFiniteSet(Upto(i)) /\ Cardinality(Upto(i)) \in Nat
                   /\ Cardinality(Upto(i)) <= N /\ Cardinality(Upto(i)) # 0
  <2> TAKE i \in S
  <2>1. Upto(i) \subseteq S /\ i \in Upto(i)
    BY <1>2
  <2> HIDE DEF Upto
  <2>2. IsFiniteSet(Upto(i)) /\ Cardinality(Upto(i)) <= N
    BY <1>1, <2>1, FS_Subset
  <2>3. Cardinality(Upto(i)) \in Nat
    BY <2>2, FS_CardinalityType
  <2>4. Cardinality(Upto(i)) # 0
    BY <2>1, <2>2, FS_EmptySet
  <2> QED BY <2>2, <2>3, <2>4
<1>4. ASSUME NEW i \in S, NEW j \in S, i < j
      PROVE  rank[i] < rank[j]
  <2>1. Upto(i) \subseteq Upto(j) /\ j \in Upto(j) /\ j \notin Upto(i)
    <3>1. i \in Int /\ j \in Int /\ j <= j /\ ~(j <= i)
      BY <1>2, <1>4
    <3>2. \A x \in S : x <= i => x <= j
      BY <1>2, <1>4
    <3> QED BY <3>1, <3>2
  <2>2. IsFiniteSet(Upto(j)) /\ rank[i] = Cardinality(Upto(i)) /\ rank[j] = Cardinality(Upto(j))
        /\ Cardinality(Upto(i)) \in Nat /\ Cardinality(Upto(j)) \in Nat
    BY <1>3
  <2> HIDE DEF Upto, rank
  <2>3. /\ Cardinality(Upto(i)) <= Cardinality(Upto(j))
        /\ Cardinality(Upto(j)) = Cardinality(Upto(i)) => Upto(j) = Upto(i)
    BY <2>1, <2>2, FS_Subset
  <2> QED BY <2>1, <2>2, <2>3
<1>5. \A i, j \in S : rank[i] = rank[j] => i = j
  <2> SUFFICES ASSUME NEW i \in S, NEW j \in S, rank[i] = rank[j] PROVE i = j
    OBVIOUS
  <2>1. rank[i] \in Nat
    BY <1>3
  <2> HIDE DEF rank
  <2>2. ~(i < j) /\ ~(j < i)
    BY <1>4, <2>1
  <2> QED BY <1>2, <2>2
<1>6. rank \in [S -> 1..N]
  BY <1>1, <1>3
<1>7. rank \in Surjection(S, 1..N)
  <2>1. rank \in Injection(S, 1..N)
    <3> HIDE DEF rank
    <3> QED BY <1>5, <1>6 DEF Injection, IsInjective
  <2>2. IsFiniteSet(1..N) /\ Cardinality(1..N) = N
    BY <1>1, 1 \in Int, N \in Int, FS_Interval
  <2>3. Cardinality(S) = Cardinality(1..N)
    BY <2>2
  <2> HIDE DEF rank, N
  <2> QED BY <2>1, <2>2, <2>3, FS_Injection
<1>8. \A k \in 1..N : \E i \in S : rank[i] = k
  <2> HIDE DEF rank
  <2> QED BY <1>7 DEF Surjection
<1>9. DOMAIN s = 1..N /\ s = [k \in 1..N |-> s[k]] /\ \A k \in 1..N : s[k] = CHOOSE i \in S : rank[i] = k
  <2>1. s = [k \in 1..N |-> CHOOSE i \in S : Cardinality({j \in S : j <= i}) = k]
    BY DEF InOrder
  <2>2. \A i \in S : rank[i] = Cardinality({j \in S : j <= i})
    OBVIOUS
  <2>3. \A k \in 1..N : (CHOOSE i \in S : rank[i] = k)
                          = CHOOSE i \in S : Cardinality({j \in S : j <= i}) = k
    BY <2>2
  <2> QED BY <2>1, <2>3
<1> HIDE DEF rank, s
<1>10. \A k \in 1..N : s[k] \in S /\ rank[s[k]] = k
  BY <1>8, <1>9
<1>11. Len(s) = N
  <2>1. s \in [1..N -> S] /\ s = [k \in 1..N |-> s[k]]
    BY <1>9, <1>10
  <2>2. s \in Seq(S)
    BY <1>1, <2>1
  <2> QED BY <1>1, <1>9, <2>2
<1> QED BY <1>1, <1>9, <1>10, <1>11 DEF s, N
(* Where the visits of an overlap stop.                                     *)
LEMMA StopsAt ==
    ASSUME NEW visits, Len(visits) \in Nat
    PROVE  LET at == SelectInSeq(visits, LAMBDA v : v.kind \notin {"Hit", "Empty"}) IN
           \/ at = 0 /\ \A k \in 1..Len(visits) : visits[k].kind \in {"Hit", "Empty"}
           \/ /\ at \in 1..Len(visits) /\ at # 0
              /\ visits[at].kind \notin {"Hit", "Empty"}
<1> DEFINE I == {k \in 1..Len(visits) : visits[k].kind \notin {"Hit", "Empty"}}
           at == SelectInSeq(visits, LAMBDA v : v.kind \notin {"Hit", "Empty"})
<1>1. at = IF I # {} THEN Min(I) ELSE 0
  BY DEF SelectInSeq
<1>2. CASE I = {}
  BY <1>1, <1>2
<1>3. CASE I # {}
  <2>1. I \subseteq Nat
    OBVIOUS
  <2> HIDE DEF I
  <2>2. \E k \in I : \A l \in I : k <= l
    BY <1>3, <2>1, LeastNumber
  <2>3. Min(I) \in I
    BY <2>2 DEF Min
  <2> QED BY <1>1, <1>3, <2>3 DEF I
<1> QED BY <1>2, <1>3

(* What an answer says of what was found.                                   *)
Wrote(r, buffer, found) ==
    /\ r.actual = Len(found)
    /\ r.written = Min({Len(found), Len(buffer)}) /\ r.truncated = (Len(found) > Len(buffer))
    /\ r.buffer = [i \in 1..Len(buffer) |-> IF i <= Len(found) THEN found[i] ELSE buffer[i]]
    /\ "cell" \notin DOMAIN r

LEMMA ListedFields ==
    ASSUME NEW buffer, NEW kind, NEW found, NEW r, r = Listed(buffer, kind, found)
    PROVE  r.kind = kind /\ Wrote(r, buffer, found)
           /\ DOMAIN r = {"kind", "actual", "written", "truncated", "buffer"}
BY DEF Listed, Wrote

LEMMA ListedSection ==
    ASSUME NEW buffer, NEW kind, NEW found, NEW section,
           NEW u, u = Joined(Listed(buffer, kind, found), [section |-> section])
    PROVE  u.kind = kind /\ u.section = section /\ Wrote(u, buffer, found)
<1> DEFINE fields == {"kind", "actual", "written", "truncated", "buffer"}
           r == Listed(buffer, kind, found)
           more == [section |-> section]
<1>1. DOMAIN r = fields /\ r.kind = kind /\ Wrote(r, buffer, found)
  BY ListedFields
<1>2. DOMAIN more = {"section"} /\ more["section"] = section /\ u = Joined(r, more)
  OBVIOUS
<1> HIDE DEF r, more
<1>3. u = [f \in fields \cup {"section"} |-> IF f \in fields THEN r[f] ELSE more[f]]
  <2>1. u = [f \in DOMAIN r \cup DOMAIN more |-> IF f \in DOMAIN r THEN r[f] ELSE more[f]]
    BY <1>2 DEF Joined
  <2>2. DOMAIN r = fields /\ DOMAIN more = {"section"}
    BY <1>1, <1>2
  <2> HIDE DEF fields
  <2> QED BY <2>1, <2>2
<1>4. /\ DOMAIN u = fields \cup {"section"} /\ u["section"] = section /\ u["kind"] = r["kind"]
      /\ u["actual"] = r["actual"] /\ u["written"] = r["written"]
      /\ u["truncated"] = r["truncated"] /\ u["buffer"] = r["buffer"]
  BY <1>2, <1>3
<1>5. Wrote(u, buffer, found)
  BY <1>1, <1>4 DEF Wrote
<1> QED BY <1>1, <1>4, <1>5

WroteOf(r, buffer, met) ==
    LET listed == {r.buffer[i] : i \in 1..r.written} IN
    /\ r.truncated <=> r.actual > Len(buffer)
    /\ r.written = Min({r.actual, Len(buffer)})
    /\ listed \subseteq met /\ Cardinality(listed) = r.written
    /\ \A i \in r.written + 1 .. Len(buffer) : r.buffer[i] = buffer[i]

(* As much of it is written as there is room for, each once, and the rest   *)
(* of the buffer is left alone.                                             *)
LEMMA WrittenOnce ==
    ASSUME NEW buffer, IsSeq(buffer), NEW found, Len(found) \in Nat, NEW met,
           \A i \in 1..Len(found) : found[i] \in met,
           \A i, j \in 1..Len(found) : found[i] = found[j] => i = j,
           NEW r, Wrote(r, buffer, found)
    PROVE  WroteOf(r, buffer, met)
<1> DEFINE n == Len(found)
           N == Len(buffer)
           w == r.written
           b == r.buffer
           part == [i \in 1..w |-> b[i]]
           listed == {b[i] : i \in 1..w}
<1>1. n \in Nat /\ N \in Nat /\ n \in Int /\ N \in Int
  BY DEF IsSeq
<1>2. /\ r.actual = n /\ w = Min({n, N}) /\ r.truncated = (n > N)
      /\ b = [i \in 1..N |-> IF i <= n THEN found[i] ELSE buffer[i]]
  BY DEF Wrote
<1>3. (w = n /\ n <= N) \/ (w = N /\ N <= n)
  <2> HIDE DEF n, N
  <2> QED BY <1>1, <1>2, LesserOf
<1> HIDE DEF w, b
<1>0. /\ \A i \in 1..n : found[i] \in met
      /\ \A i, j \in 1..n : found[i] = found[j] => i = j
  OBVIOUS
<1> HIDE DEF n, N
<1>4. w \in Nat /\ \A i \in 1..w : i \in 1..n /\ b[i] = found[i]
  <2>1. w \in Nat /\ \A i \in 1..w : i \in 1..n /\ i \in 1..N /\ i <= n
    BY <1>1, <1>3
  <2> QED BY <1>2, <2>1
<1>5. \A i \in 1..w : b[i] \in met
  BY <1>0, <1>4
<1>6. \A i, j \in 1..w : b[i] = b[j] => i = j
  BY <1>0, <1>4
<1>7. Cardinality(listed) = w
  <2>1. DOMAIN part = 1..w /\ listed = {part[i] : i \in 1..w}
    OBVIOUS
  <2>2. \A i, j \in 1..w : part[i] = part[j] => i = j
    BY <1>6
  <2> HIDE DEF part, listed
  <2> QED BY <1>4, <2>1, <2>2, Enumerated
<1>8. \A i \in w + 1 .. N : b[i] = buffer[i]
  BY <1>1, <1>2, <1>3
<1> QED BY <1>2, <1>5, <1>7, <1>8 DEF w, b, n, N, WroteOf

(* The bodies that touch a box.                                             *)
LEMMA BodiesTouched ==
    ASSUME NEW q, IsScene(q), IsBox(q.box)
    PROVE  BodiesIn(q, q.box)
             = {b \in DOMAIN q.bodies : Touches(q.box.center, NoHalf, q.box.half, 0,
                                                Low(q.bodies[b]), High(q.bodies[b]))}
<1> DEFINE c == q.box.center
           h == q.box.half
<1>1. IsVector(c) /\ IsVector(h) /\ IsVector(NoHalf) /\ \A i \in Axis : c[i] \in Int /\ h[i] \in Int
  BY DEF IsBox, IsVector, NoHalf
<1>2. ASSUME NEW b \in DOMAIN q.bodies
      PROVE  Touches(c, NoHalf, h, 0, Low(q.bodies[b]), High(q.bodies[b]))
               <=> \A i \in Axis : /\ Low(q.box)[i] <= High(q.bodies[b])[i]
                                   /\ High(q.box)[i] >= Low(q.bodies[b])[i]
  <2> DEFINE lo == Low(q.bodies[b])
             hi == High(q.bodies[b])
             lo1 == [i \in Axis |-> lo[i] - h[i]]
             hi1 == [i \in Axis |-> hi[i] + h[i]]
  <2>1. IsVector(lo) /\ IsVector(hi) /\ \A i \in Axis : lo[i] \in Int /\ hi[i] \in Int
    BY BodiesTyped DEF IsVector
  <2>2. \A i \in Axis : Low(q.box)[i] = c[i] - h[i] /\ High(q.box)[i] = c[i] + h[i]
    BY DEF Low, High
  <2> HIDE DEF lo, hi, c, h
  <2>3. Touches(c, NoHalf, h, 0, lo, hi) <=> InsideAt(c, NoHalf, lo1, hi1, 0)
    BY <1>1, <2>1, TouchedBox, 0 \in Int
  <2>4. ASSUME NEW i \in Axis
        PROVE  InsideAlong(c[i], NoHalf[i], lo1[i], hi1[i], 0)
                 <=> Low(q.box)[i] <= hi[i] /\ High(q.box)[i] >= lo[i]
    <3>1. NoHalf[i] = 0 /\ lo1[i] = lo[i] - h[i] /\ hi1[i] = hi[i] + h[i]
          /\ lo1[i] \in Int /\ hi1[i] \in Int
      BY <1>1, <2>1 DEF NoHalf
    <3>2. InsideAlong(c[i], 0, lo1[i], hi1[i], 0) <=> lo1[i] <= c[i] /\ c[i] <= hi1[i]
      BY <1>1, <3>1, InsideFixed, 0 \in Int
    <3> QED BY <1>1, <2>1, <2>2, <3>1, <3>2
  <2>5. Touches(c, NoHalf, h, 0, lo, hi)
          <=> \A i \in Axis : Low(q.box)[i] <= hi[i] /\ High(q.box)[i] >= lo[i]
    BY <2>3, <2>4 DEF InsideAt
  <2> QED BY <2>5 DEF lo, hi
<1> QED BY <1>2 DEF BodiesIn
LEMMA ListedAll ==
    ASSUME NEW n \in Nat, NEW S, S \subseteq 1..n
    PROVE  \A i \in S : \E k \in 1..Cardinality(S) : InOrder(S)[k] = i
<1> DEFINE s == InOrder(S)
           N == Cardinality(S)
<1>1. /\ IsFiniteSet(S) /\ N \in Nat /\ DOMAIN s = 1..N
      /\ \A k \in 1..N : s[k] \in S
      /\ \A k, l \in 1..N : s[k] = s[l] => k = l
  BY NumbersListed
<1>2. s = [k \in 1..N |-> s[k]]
  BY DEF InOrder
<1> HIDE DEF s
<1>3. s \in Injection(1..N, S)
  BY <1>1, <1>2 DEF Injection, IsInjective
<1>4. IsFiniteSet(1..N) /\ Cardinality(1..N) = N
  BY <1>1, 1 \in Int, N \in Int, FS_Interval
<1>5. s \in Surjection(1..N, S)
  <2>1. Cardinality(1..N) = Cardinality(S)
    BY <1>4
  <2> HIDE DEF N
  <2> QED BY <1>1, <1>3, <2>1, FS_Injection
<1> QED BY <1>5 DEF Surjection, s, N

Once(f, n) == \A i, j \in 1..n : f[i] = f[j] => i = j

Ones == {<<x>> : x \in Int}

OneThenOther(hits, front, a, back, b) ==
    /\ Len(hits) = a + b
    /\ \A i \in 1..a + b : hits[i] = IF i <= a THEN front[i] ELSE back[i - a]
    /\ Once(hits, a + b)

(* Cells that are met, then bodies that are met, are met things, each once. *)
LEMMA MetListed ==
    ASSUME NEW a \in Nat, NEW front \in [1..a -> Triple], Once(front, a),
           NEW b \in Nat, NEW back \in [1..b -> Ones], Once(back, b),
           NEW hits, hits = front \o back
    PROVE  OneThenOther(hits, front, a, back, b)
<1> DEFINE U == Triple \cup Ones
<1>1. front \in Seq(U) /\ back \in Seq(U) /\ Len(front) = a /\ Len(back) = b
  <2>1. /\ \A i \in 1..a : front[i] \in U
        /\ \A i \in 1..b : back[i] \in U
    OBVIOUS
  <2> HIDE DEF U
  <2>2. front \in [1..a -> U] /\ back \in [1..b -> U]
    BY <2>1
  <2> QED BY <2>2
<1> HIDE DEF U
<1>2. \A s, t \in Seq(U) :
         /\ Len(s \o t) = Len(s) + Len(t)
         /\ \A i \in 1..Len(s) + Len(t) :
               (s \o t)[i] = IF i <= Len(s) THEN s[i] ELSE t[i - Len(s)]
  BY ConcatProperties
<1>3. /\ Len(front \o back) = Len(front) + Len(back)
      /\ \A i \in 1..Len(front) + Len(back) :
            (front \o back)[i] = IF i <= Len(front) THEN front[i] ELSE back[i - Len(front)]
  BY <1>1, <1>2, Zenon
<1>4. /\ Len(hits) = a + b
      /\ \A i \in 1..a + b : hits[i] = IF i <= a THEN front[i] ELSE back[i - a]
  BY <1>1, <1>3
<1>5. \A i \in 1..a + b : /\ i <= a => i \in 1..a
                          /\ ~(i <= a) => i - a \in 1..b
  OBVIOUS
<1>6. ASSUME NEW x \in Triple, NEW y \in Ones
      PROVE  x # y
  <2>1. Len(x) = 3 /\ Len(y) = 1
    BY DEF Triple, Ones
  <2>2. ASSUME x = y
        PROVE  Len(x) = Len(y)
    BY <2>2
  <2>3. Len(x) # Len(y)
    BY <2>1
  <2> QED BY <2>2, <2>3
<1>7. \A i \in 1..a : front[i] \in Triple
  OBVIOUS
<1>8. \A i \in 1..b : back[i] \in Ones
  OBVIOUS
<1>9. ASSUME NEW i \in 1..a + b, NEW j \in 1..a + b, hits[i] = hits[j]
      PROVE  i = j
  <2>1. CASE i <= a /\ j <= a
    BY <1>4, <1>5, <1>9, <2>1 DEF Once
  <2>2. CASE ~(i <= a) /\ ~(j <= a)
    <3>1. back[i - a] = back[j - a]
      BY <1>4, <1>9, <2>2
    <3>2. i - a = j - a
      BY <1>5, <2>2, <3>1 DEF Once
    <3> QED BY <3>2
  <2>3. CASE i <= a /\ ~(j <= a)
    <3>1. front[i] \in Triple /\ back[j - a] \in Ones /\ front[i] = back[j - a]
      BY <1>4, <1>5, <1>7, <1>8, <1>9, <2>3
    <3> QED BY <3>1, <1>6
  <2>4. CASE ~(i <= a) /\ j <= a
    <3>1. front[j] \in Triple /\ back[i - a] \in Ones /\ front[j] = back[i - a]
      BY <1>4, <1>5, <1>7, <1>8, <1>9, <2>4
    <3> QED BY <3>1, <1>6
  <2> QED BY <2>1, <2>2, <2>3, <2>4
<1> QED BY <1>4, <1>9 DEF Once, OneThenOther

(* The bodies of an overlap, each listed once.                              *)
LEMMA BodiesListed ==
    ASSUME NEW q, IsScene(q), IsBox(q.box), NEW B, B = BodiesIn(q, q.box),
           NEW ids, ids = InOrder(B)
    PROVE  /\ B = {x \in DOMAIN q.bodies : Touches(q.box.center, NoHalf, q.box.half, 0,
                                                   Low(q.bodies[x]), High(q.bodies[x]))}
           /\ Len(ids) \in Nat /\ \A k \in 1..Len(ids) : ids[k] \in B /\ ids[k] \in Int
           /\ Once(ids, Len(ids))
           /\ \A k \in B : \E i \in 1..Len(ids) : ids[i] = k
<1> DEFINE n == Len(q.bodies)
<1>1. B = {x \in DOMAIN q.bodies : Touches(q.box.center, NoHalf, q.box.half, 0,
                                           Low(q.bodies[x]), High(q.bodies[x]))}
  BY BodiesTouched
<1>2. DOMAIN q.bodies = 1..n /\ n \in Nat
  BY BodiesTyped
<1> HIDE DEF n
<1>3. B \subseteq 1..n
  BY <1>1, <1>2
<1>4. /\ Cardinality(B) \in Nat /\ Len(ids) = Cardinality(B)
      /\ \A k \in 1..Cardinality(B) : ids[k] \in B
      /\ \A k, l \in 1..Cardinality(B) : ids[k] = ids[l] => k = l
  BY <1>2, <1>3, NumbersListed
<1>5. \A i \in B : \E k \in 1..Cardinality(B) : InOrder(B)[k] = i
  BY <1>2, <1>3, ListedAll
<1>6. \A k \in B : k \in Int
  BY <1>2, <1>3
<1> QED BY <1>1, <1>4, <1>5, <1>6 DEF Once

CellsOfKind(q, cells, k) == {c \in cells : BlockAt(q, c).kind = k}
MetBy(q, cells) ==
    CellsOfKind(q, cells, "Hit")
      \cup {<<b>> : b \in {x \in DOMAIN q.bodies : Touches(q.box.center, NoHalf, q.box.half, 0,
                                                       Low(q.bodies[x]), High(q.bodies[x]))}}

(* What an overlap has to say.                                              *)
LEMMA OverlapAnswered ==
    ASSUME NEW q, IsScene(q), IsSeq(q.buffer), NEW cells,
           NEW found, Len(found) \in Nat, NEW r, Wrote(r, q.buffer, found),
           \A i \in 1..Len(found) : found[i] \in MetBy(q, cells),
           Once(found, Len(found)),
           r.kind = "Unresolved" =>
              \E c \in CellsOfKind(q, cells, "Unresolved") : BlockAt(q, c).section = r.section,
           r.kind \in {"Hit", "Miss"} <=>
              /\ CellsOfKind(q, cells, "Error") \cup CellsOfKind(q, cells, "Unresolved") = {}
              /\ Cardinality(cells) <= MaxCells,
           r.kind \in {"Hit", "Miss"} =>
              /\ r.kind = "Miss" <=> MetBy(q, cells) = {}
              /\ Len(found) = Cardinality(MetBy(q, cells))
    PROVE  AnswersOverlap(q, r, cells)
<1>1. SameAsRead(q, r)
  <2>1. ~("cell" \in DOMAIN r)
    BY DEF Wrote
  <2>2. r.kind = "Unresolved" =>
           r.section \notin DOMAIN q.world \/ q.world[r.section].presence \notin Stored
    <3> SUFFICES ASSUME r.kind = "Unresolved"
                 PROVE  r.section \notin DOMAIN q.world \/ q.world[r.section].presence \notin Stored
      OBVIOUS
    <3>1. PICK c \in CellsOfKind(q, cells, "Unresolved") : BlockAt(q, c).section = r.section
      OBVIOUS
    <3>2. BlockAt(q, c).kind = "Unresolved"
      BY DEF CellsOfKind
    <3> QED BY <3>1, <3>2, VisitFields
  <2> QED BY <2>1, <2>2 DEF SameAsRead
<1>2. r.actual = Len(found)
  BY DEF Wrote
<1>3. WroteOf(r, q.buffer, MetBy(q, cells))
  BY WrittenOnce, Zenon DEF Once
<1> QED BY <1>1, <1>2, <1>3, Zenon DEF AnswersOverlap, MetBy, CellsOfKind, WroteOf
(* The visits of the cells of a box, in the order of their list.            *)
Visits(q, list, n) == [i \in 1..n |-> BlockAt(q, list[i])]

(* Every cell is listed once.                                               *)
Listing(list, n, cells) ==
    /\ \A i \in 1..n : list[i] \in cells
    /\ \A c \in cells : \E i \in 1..n : list[i] = c
    /\ Once(list, n)

HitsSeen(q, list, n, cells, m, seen) ==
    /\ Len(seen) \in Nat
    /\ \A k \in 1..Len(seen) :
          /\ Visits(q, list, n)[seen[k]].cell = list[seen[k]]
          /\ list[seen[k]] \in CellsOfKind(q, cells, "Hit")
    /\ \A k, l \in 1..Len(seen) : list[seen[k]] = list[seen[l]] => k = l
    /\ m = n => \A c \in CellsOfKind(q, cells, "Hit") :
                   \E k \in 1..Len(seen) : list[seen[k]] = c

(* The hits among the first m visits.                                       *)
LEMMA HitsAmong ==
    ASSUME NEW q, IsScene(q), NEW n \in Nat, NEW list, NEW cells,
           Listing(list, n, cells), NEW m \in 0..n,
           NEW seen, seen = InOrder({i \in 1..m : Visits(q, list, n)[i].kind = "Hit"})
    PROVE  HitsSeen(q, list, n, cells, m, seen)
<1> DEFINE visits == Visits(q, list, n)
           S == {i \in 1..m : visits[i].kind = "Hit"}
           N == Cardinality(S)
<1>1. \A i \in 1..n : visits[i] = BlockAt(q, list[i])
  BY DEF Visits
<1>2. 1..m \subseteq 1..n /\ m \in Nat
  OBVIOUS
<1>0. /\ \A i \in 1..n : list[i] \in cells
      /\ \A c \in cells : \E i \in 1..n : list[i] = c
      /\ \A i, j \in 1..n : list[i] = list[j] => i = j
  BY DEF Listing, Once
<1>3. S \subseteq 1..m /\ \A i \in S : i \in 1..n /\ BlockAt(q, list[i]).kind = "Hit"
                                       /\ visits[i] = BlockAt(q, list[i])
  BY <1>1, <1>2
<1>4. \A i \in S : visits[i].cell = list[i] /\ list[i] \in CellsOfKind(q, cells, "Hit")
  <2> TAKE i \in S
  <2>1. BlockAt(q, list[i]).cell = list[i]
    BY <1>3, VisitFields
  <2> QED BY <1>0, <1>3, <2>1 DEF CellsOfKind
<1>5. m = n => \A c \in CellsOfKind(q, cells, "Hit") : \E i \in S : list[i] = c
  <2> SUFFICES ASSUME m = n, NEW c \in CellsOfKind(q, cells, "Hit")
               PROVE  \E i \in S : list[i] = c
    OBVIOUS
  <2>1. c \in cells /\ BlockAt(q, c).kind = "Hit"
    BY DEF CellsOfKind
  <2>2. PICK i \in 1..n : list[i] = c
    BY <1>0, <2>1
  <2> QED BY <1>1, <2>1, <2>2
<1>6. seen = InOrder(S)
  OBVIOUS
<1> HIDE DEF S, visits
<1>7. /\ N \in Nat /\ Len(seen) = N
      /\ \A k \in 1..N : seen[k] \in S
      /\ \A k, l \in 1..N : seen[k] = seen[l] => k = l
  BY <1>2, <1>3, <1>6, NumbersListed
<1>8. \A i \in S : \E k \in 1..N : seen[k] = i
  <2>1. \A i \in S : \E k \in 1..Cardinality(S) : InOrder(S)[k] = i
    <3>1. S \subseteq 1..m /\ m \in Nat
      BY <1>2, <1>3
    <3> HIDE DEF N
    <3> QED BY <3>1, ListedAll
  <2> QED BY <1>6, <2>1
<1> HIDE DEF N
<1>9. \A k \in 1..N : visits[seen[k]].cell = list[seen[k]]
                      /\ list[seen[k]] \in CellsOfKind(q, cells, "Hit")
  BY <1>4, <1>7
<1>10. \A k, l \in 1..N : list[seen[k]] = list[seen[l]] => k = l
  <2> TAKE k, l \in 1..N
  <2> HAVE list[seen[k]] = list[seen[l]]
  <2>1. seen[k] \in 1..n /\ seen[l] \in 1..n
    BY <1>3, <1>7
  <2>2. seen[k] = seen[l]
    BY <1>0, <2>1
  <2> QED BY <1>7, <2>2
<1>11. m = n => \A c \in CellsOfKind(q, cells, "Hit") : \E k \in 1..N : list[seen[k]] = c
  BY <1>5, <1>8
<1> QED BY <1>7, <1>9, <1>10, <1>11 DEF visits, HitsSeen

(* What an overlap finds, if it looks.                                      *)
LEMMA OverlapFinds ==
    ASSUME NEW q, IsOverlap(q), NEW n \in Nat, n <= MaxCells, NEW list, NEW cells,
           cells \subseteq Triple, Cardinality(cells) = n,
           Listing(list, n, cells), NEW visits, visits = Visits(q, list, n), NEW stop, NEW r,
           \/ stop = 0 /\ \A k \in 1..n : visits[k].kind \in {"Hit", "Empty"}
           \/ stop \in 1..n /\ stop # 0 /\ visits[stop].kind \notin {"Hit", "Empty"},
           r = OverlapFound(q.buffer, visits, stop, BodiesIn(q, q.box))
    PROVE  AnswersOverlap(q, r, cells)
<1> DEFINE m == IF stop = 0 THEN n ELSE stop
           S == {i \in 1..m : visits[i].kind = "Hit"}
           seen == InOrder(S)
           a == Len(seen)
           B == BodiesIn(q, q.box)
           ids == InOrder(B)
           b == IF stop = 0 THEN Len(ids) ELSE 0
           found(i) == list[seen[i]]
           hits == [i \in 1..a |-> visits[seen[i]].cell]
                     \o IF stop = 0 THEN [i \in 1..Len(ids) |-> <<ids[i]>>] ELSE <<>>
<1>1. IsScene(q) /\ IsBox(q.box) /\ IsSeq(q.buffer) /\ Len(visits) = n
  BY DEF IsOverlap, Visits
<1>2. m \in 0..n /\ (stop = 0 => m = n)
  OBVIOUS
<1>3. r = IF stop # 0 /\ visits[stop].kind = "Unresolved"
          THEN Joined(Listed(q.buffer, "Unresolved", hits), [section |-> visits[stop].section])
          ELSE Listed(q.buffer, IF stop # 0 THEN "Error" ELSE IF hits = <<>> THEN "Miss" ELSE "Hit",
                      hits)
  BY <1>1 DEF OverlapFound
<1>4. \A i \in 1..n : visits[i] = BlockAt(q, list[i])
  BY DEF Visits
<1>5. stop # 0 => stop \in 1..n
  OBVIOUS
<1> HIDE DEF m
<1>6. /\ a \in Nat
      /\ \A k \in 1..a : visits[seen[k]].cell = found(k)
                         /\ found(k) \in CellsOfKind(q, cells, "Hit")
      /\ \A k, l \in 1..a : found(k) = found(l) => k = l
      /\ m = n => \A c \in CellsOfKind(q, cells, "Hit") : \E k \in 1..a : found(k) = c
  <2> DEFINE s == seen
  <2>1. s = InOrder({i \in 1..m : Visits(q, list, n)[i].kind = "Hit"})
    OBVIOUS
  <2> HIDE DEF s
  <2>2. HitsSeen(q, list, n, cells, m, s)
    BY <1>1, <1>2, <2>1, HitsAmong
  <2> QED BY <2>2 DEF s, HitsSeen
<1>7. /\ B = {x \in DOMAIN q.bodies : Touches(q.box.center, NoHalf, q.box.half, 0,
                                              Low(q.bodies[x]), High(q.bodies[x]))}
      /\ Len(ids) \in Nat /\ \A k \in 1..Len(ids) : ids[k] \in B /\ ids[k] \in Int
      /\ Once(ids, Len(ids))
      /\ \A k \in B : \E i \in 1..Len(ids) : ids[i] = k
  BY <1>1, BodiesListed
<1>8. /\ Len(ids) \in Nat /\ \A k \in 1..Len(ids) : ids[k] \in B /\ ids[k] \in Int
      /\ \A k, l \in 1..Len(ids) : ids[k] = ids[l] => k = l
  BY <1>7 DEF Once
<1>9. \A k \in B : \E i \in 1..Len(ids) : ids[i] = k
  BY <1>7
<1> HIDE DEF S, seen, a, B, found, ids
<1>10. b \in Nat /\ (\A k \in 1..b : ids[k] \in Int)
       /\ \A i, j \in 1..b : ids[i] = ids[j] => i = j
  BY <1>8
<1>11. hits = [i \in 1..a |-> found(i)] \o [i \in 1..b |-> <<ids[i]>>]
  <2>1. [i \in 1..a |-> visits[seen[i]].cell] = [i \in 1..a |-> found(i)]
    BY <1>6
  <2>2. (IF stop = 0 THEN [i \in 1..Len(ids) |-> <<ids[i]>>] ELSE <<>>)
          = [i \in 1..b |-> <<ids[i]>>]
    OBVIOUS
  <2> QED BY <2>1, <2>2
<1>12. \A k \in 1..a : found(k) \in Triple
  BY <1>6 DEF CellsOfKind
<1> HIDE DEF b, hits
<1>13. /\ Len(hits) = a + b
       /\ \A i \in 1..a + b : hits[i] = IF i <= a THEN found(i) ELSE <<ids[i - a]>>
       /\ \A i, j \in 1..a + b : hits[i] = hits[j] => i = j
  <2> DEFINE front == [i \in 1..a |-> found(i)]
             back == [i \in 1..b |-> <<ids[i]>>]
  <2>1. /\ front \in [1..a -> Triple] /\ Once(front, a)
        /\ \A i \in 1..a : front[i] = found(i)
    BY <1>6, <1>12 DEF Once
  <2>2. /\ back \in [1..b -> Ones] /\ \A i \in 1..b : back[i] = <<ids[i]>>
    BY <1>10 DEF Ones
  <2>3. Once(back, b)
    <3> SUFFICES ASSUME NEW i \in 1..b, NEW j \in 1..b, back[i] = back[j] PROVE i = j
      BY DEF Once
    <3>1. <<ids[i]>> = <<ids[j]>>
      BY <2>2
    <3> QED BY <1>10, <3>1
  <2>4. hits = front \o back /\ a \in Nat /\ b \in Nat
    BY <1>6, <1>10, <1>11
  <2> HIDE DEF front, back
  <2>5. OneThenOther(hits, front, a, back, b)
    BY <2>1, <2>2, <2>3, <2>4, MetListed
  <2>6. \A i \in 1..a + b : /\ i <= a => i \in 1..a
                            /\ ~(i <= a) => i - a \in 1..b
    BY <2>4
  <2> QED BY <2>1, <2>2, <2>5, <2>6 DEF Once, OneThenOther
<1> DEFINE met == MetBy(q, cells)
           N == Len(hits)
<1>14. met = CellsOfKind(q, cells, "Hit") \cup {<<x>> : x \in B}
  BY <1>7 DEF MetBy
<1> HIDE DEF met
<1>15. \A i \in 1..a + b : hits[i] \in met
  <2> TAKE i \in 1..a + b
  <2>1. CASE i <= a
    <3>1. i \in 1..a /\ hits[i] = found(i)
      BY <1>6, <1>13, <2>1
    <3> QED BY <1>6, <1>14, <3>1
  <2>2. CASE ~(i <= a)
    <3>1. i - a \in 1..b /\ hits[i] = <<ids[i - a]>>
      BY <1>6, <1>10, <1>13, <2>2
    <3>2. i - a \in 1..Len(ids)
      BY <1>8, <3>1 DEF b
    <3> QED BY <1>8, <1>14, <3>1, <3>2
  <2> QED BY <2>1, <2>2
<1>16. N \in Nat /\ N = a + b /\ DOMAIN hits = 1..N
  <2>1. hits \in Seq(met)
    <3>1. [i \in 1..a |-> found(i)] \in Seq(met)
      BY <1>6, <1>14
    <3>2. [i \in 1..b |-> <<ids[i]>>] \in Seq(met)
      <4>1. \A i \in 1..b : <<ids[i]>> \in met
        BY <1>8, <1>14 DEF b
      <4> QED BY <1>10, <4>1
    <3> QED BY <1>11, <3>1, <3>2, ConcatProperties
  <2> QED BY <1>6, <1>10, <1>13, <2>1
<1>17. stop = 0 => \A x \in met : \E i \in 1..N : hits[i] = x
  <2> SUFFICES ASSUME stop = 0, NEW x \in met
               PROVE  \E i \in 1..N : hits[i] = x
    OBVIOUS
  <2>1. CASE x \in CellsOfKind(q, cells, "Hit")
    <3>1. PICK k \in 1..a : found(k) = x
      BY <1>2, <1>6, <2>1
    <3>2. k \in 1..a + b /\ k <= a
      BY <1>6, <1>10
    <3> QED BY <1>13, <1>16, <3>1, <3>2
  <2>2. CASE x \in {<<y>> : y \in B}
    <3>1. PICK y \in B : x = <<y>>
      BY <2>2
    <3>2. PICK k \in 1..Len(ids) : ids[k] = y
      BY <1>9
    <3>3. a + k \in 1..a + b /\ ~(a + k <= a) /\ (a + k) - a = k
      BY <1>6, <1>8 DEF b
    <3>4. hits[a + k] = <<ids[k]>>
      BY <1>13, <3>3
    <3> QED BY <1>16, <3>1, <3>2, <3>3, <3>4
  <2> QED BY <1>14, <2>1, <2>2
<1>18. stop = 0 => N = Cardinality(met) /\ (hits = <<>> <=> met = {})
  <2> SUFFICES ASSUME stop = 0
               PROVE  N = Cardinality(met) /\ (hits = <<>> <=> met = {})
    OBVIOUS
  <2>1. met = {hits[i] : i \in 1..N}
    BY <1>15, <1>16, <1>17
  <2>2. \A i, j \in 1..N : hits[i] = hits[j] => i = j
    BY <1>13, <1>16 DEF Once
  <2> HIDE DEF N
  <2>3. N = Cardinality(met)
    BY <1>16, <2>1, <2>2, Enumerated
  <2>4. hits = <<>> <=> N = 0
    BY <1>16 DEF N
  <2>5. N = 0 <=> met = {}
    <3>1. N # 0 => 1 \in 1..N
      BY <1>16
    <3>2. N = 0 => 1..N = {}
      BY <1>16
    <3> QED BY <2>1, <3>1, <3>2
  <2> QED BY <2>3, <2>4, <2>5
<1>19. Wrote(r, q.buffer, hits) /\
       \/ stop # 0 /\ visits[stop].kind = "Unresolved" /\ r.kind = "Unresolved"
            /\ r.section = visits[stop].section
       \/ stop # 0 /\ visits[stop].kind # "Unresolved" /\ r.kind = "Error"
       \/ stop = 0 /\ r.kind = IF hits = <<>> THEN "Miss" ELSE "Hit"
  <2>1. CASE stop # 0 /\ visits[stop].kind = "Unresolved"
    <3> DEFINE section == visits[stop].section
    <3>1. r = Joined(Listed(q.buffer, "Unresolved", hits), [section |-> section])
      BY <1>3, <2>1
    <3> HIDE DEF section
    <3>2. r.kind = "Unresolved" /\ r.section = section /\ Wrote(r, q.buffer, hits)
      BY <3>1, ListedSection
    <3> QED BY <2>1, <3>2 DEF section
  <2>2. CASE ~(stop # 0 /\ visits[stop].kind = "Unresolved")
    <3> DEFINE kind == IF stop # 0 THEN "Error" ELSE IF hits = <<>> THEN "Miss" ELSE "Hit"
    <3>1. r = Listed(q.buffer, kind, hits)
      BY <1>3, <2>2
    <3> HIDE DEF kind
    <3>2. r.kind = kind /\ Wrote(r, q.buffer, hits)
      BY <3>1, ListedFields
    <3> QED BY <2>2, <3>2 DEF kind
  <2> QED BY <2>1, <2>2
<1>20. ASSUME stop # 0
       PROVE  /\ list[stop] \in cells /\ visits[stop] = BlockAt(q, list[stop])
              /\ visits[stop].kind \in {"Unresolved", "Error"}
  <2>1. visits[stop] = BlockAt(q, list[stop]) /\ list[stop] \in cells
    BY <1>4, <1>5, <1>20 DEF Listing
  <2>2. visits[stop].kind \in {"Empty", "Error", "Unresolved", "Hit"}
    BY <1>1, <2>1, VisitFields
  <2> QED BY <1>20, <2>1, <2>2
<1>21. stop = 0 <=> CellsOfKind(q, cells, "Error") \cup CellsOfKind(q, cells, "Unresolved") = {}
  <2>1. ASSUME stop # 0
        PROVE  list[stop] \in CellsOfKind(q, cells, "Error") \cup CellsOfKind(q, cells, "Unresolved")
    BY <1>20, <2>1 DEF CellsOfKind
  <2>2. ASSUME stop = 0, NEW c \in cells
        PROVE  BlockAt(q, c).kind \in {"Hit", "Empty"}
    <3>1. PICK i \in 1..n : list[i] = c
      BY DEF Listing
    <3> QED BY <1>4, <2>2, <3>1
  <2> QED BY <2>1, <2>2 DEF CellsOfKind
<1>22. r.kind = "Unresolved" =>
          \E c \in CellsOfKind(q, cells, "Unresolved") : BlockAt(q, c).section = r.section
  BY <1>19, <1>20 DEF CellsOfKind
<1>23. r.kind \in {"Hit", "Miss"} <=> stop = 0
  BY <1>19
<1>24. r.kind \in {"Hit", "Miss"} => (r.kind = "Miss" <=> met = {}) /\ N = Cardinality(met)
  BY <1>18, <1>19
<1>25. N \in Nat /\ \A i \in 1..N : hits[i] \in met
  BY <1>15, <1>16
<1>26. \A i, j \in 1..N : hits[i] = hits[j] => i = j
  BY <1>13, <1>16 DEF Once
<1>27. r.kind \in {"Hit", "Miss"} <=>
          /\ CellsOfKind(q, cells, "Error") \cup CellsOfKind(q, cells, "Unresolved") = {}
          /\ Cardinality(cells) <= MaxCells
  BY <1>21, <1>23
<1>28. Wrote(r, q.buffer, hits)
  BY <1>19
<1> HIDE DEF N
<1>29. AnswersOverlap(q, r, cells)
  <2>1. N = Len(hits)
    BY DEF N
  <2> QED BY <1>1, <1>22, <1>24, <1>25, <1>26, <1>27, <1>28, <2>1, OverlapAnswered DEF met, Once
<1> QED BY <1>29
LEMMA OverlapRight ==
    ASSUME NEW q, IsOverlap(q)
    PROVE  OverlapAgrees(q)
<1> DEFINE lo == Low(q.box)
           hi == High(q.box)
           g == RangeOf(lo, hi)
           cells == CellsBetween(lo, hi)
           n == BoxCount(g.lo, g.hi)
           list == CellsIn(g.lo, g.hi)
           visits == Visits(q, list, n)
           stop == SelectInSeq(visits, LAMBDA v : v.kind \notin {"Hit", "Empty"})
           r == Overlap(q)
<1>1. IsScene(q) /\ IsBox(q.box) /\ IsSeq(q.buffer)
  BY DEF IsOverlap
<1>2. IsVector(lo) /\ IsVector(hi)
  <2>1. \A i \in Axis : q.box.center[i] \in Int /\ q.box.half[i] \in Int
    BY <1>1 DEF IsBox, IsVector
  <2> QED BY <2>1 DEF IsVector, Low, High
<1>3. r = IF NoRange(g) THEN Listed(q.buffer, "Miss", <<>>)
          ELSE IF TooLarge(g) THEN Listed(q.buffer, "Error", <<>>)
          ELSE OverlapFound(q.buffer, visits, stop, BodiesIn(q, q.box))
  BY DEF Overlap, Visits
<1>4. TooLarge(g) <=> n > MaxCells
  BY DEF TooLarge
<1>5. Len(<<>>) = 0 /\ Len(<<>>) \in Nat
  OBVIOUS
<1>6. OverlapAgrees(q) <=> IF cells = {} THEN r.kind = "Miss" /\ r.actual = 0 /\ r.buffer = q.buffer
                           ELSE AnswersOverlap(q, r, cells)
  BY DEF OverlapAgrees
<1> HIDE DEF lo, hi, g, r
<1>7. /\ g.lo \in Triple /\ g.hi \in Triple
      /\ NoRange(g) <=> ~Ordered(g.lo, g.hi)
      /\ cells = CellsOf(g.lo, g.hi)
      /\ NoRange(g) <=> cells = {}
  <2>1. g = RangeOf(lo, hi)
    BY DEF g
  <2> QED BY <1>2, <2>1, RangeRight
<1> HIDE DEF cells, n, list, visits, stop
<1>8. CASE NoRange(g)
  <2>1. r = Listed(q.buffer, "Miss", <<>>)
    BY <1>3, <1>8
  <2>2. r.kind = "Miss" /\ Wrote(r, q.buffer, <<>>)
    BY <2>1, ListedFields
  <2>3. r.actual = 0 /\ r.buffer = [i \in 1..Len(q.buffer) |-> q.buffer[i]]
    BY <1>5, <2>2 DEF Wrote
  <2>4. q.buffer = [i \in 1..Len(q.buffer) |-> q.buffer[i]]
    BY <1>1 DEF IsSeq
  <2> QED BY <1>6, <1>7, <1>8, <2>2, <2>3, <2>4
<1>9. ASSUME ~NoRange(g)
      PROVE  /\ n \in Nat /\ cells \subseteq Triple /\ Cardinality(cells) = n
             /\ Listing(list, n, cells) /\ cells # {}
  <2>1. Ordered(g.lo, g.hi) /\ cells # {}
    BY <1>7, <1>9
  <2>2. n \in Nat
    BY <1>7, <2>1, SpansOfBox DEF n
  <2>3. Cardinality(cells) = n
    BY <1>7, <2>1, BoxCounted DEF n
  <2>4. Listing(list, n, cells)
    BY <1>7, <2>1, BoxListed DEF n, list, Listing, Once
  <2>5. cells \subseteq Triple
    BY <1>7 DEF CellsOf, Triple
  <2> QED BY <2>1, <2>2, <2>3, <2>4, <2>5
<1>10. CASE ~NoRange(g) /\ n > MaxCells
  <2>1. r = Listed(q.buffer, "Error", <<>>)
    BY <1>3, <1>4, <1>10
  <2>2. r.kind = "Error" /\ Wrote(r, q.buffer, <<>>)
    BY <2>1, ListedFields
  <2>3. /\ n \in Nat /\ Cardinality(cells) = n /\ MaxCells \in Nat
    BY <1>9, <1>10, PhysicsAssumption
  <2>4. ~(r.kind \in {"Hit", "Miss"}) /\ ~(r.kind = "Unresolved") /\ ~(Cardinality(cells) <= MaxCells)
    BY <1>10, <2>2, <2>3
  <2> DEFINE found == <<>>
  <2>5. /\ Len(found) \in Nat /\ Wrote(r, q.buffer, found)
        /\ \A i \in 1..Len(found) : found[i] \in MetBy(q, cells)
        /\ Once(found, Len(found))
    BY <1>5, <2>2 DEF Once
  <2> HIDE DEF found
  <2>6. AnswersOverlap(q, r, cells)
    BY <1>1, <2>4, <2>5, OverlapAnswered
  <2> QED BY <1>6, <1>9, <1>10, <2>6
<1>11. CASE ~NoRange(g) /\ ~(n > MaxCells)
  <2>1. r = OverlapFound(q.buffer, visits, stop, BodiesIn(q, q.box))
    BY <1>3, <1>4, <1>11
  <2>2. /\ n \in Nat /\ n <= MaxCells /\ cells \subseteq Triple /\ Cardinality(cells) = n
        /\ Listing(list, n, cells) /\ cells # {}
    BY <1>9, <1>11, PhysicsAssumption
  <2>3. Len(visits) = n /\ Len(visits) \in Nat
    BY <2>2 DEF visits, Visits
  <2>4. \/ stop = 0 /\ \A k \in 1..n : visits[k].kind \in {"Hit", "Empty"}
        \/ stop \in 1..n /\ stop # 0 /\ visits[stop].kind \notin {"Hit", "Empty"}
    <3>1. stop = SelectInSeq(visits, LAMBDA v : v.kind \notin {"Hit", "Empty"})
      BY DEF stop
    <3> HIDE DEF visits
    <3>2. \/ stop = 0 /\ \A k \in 1..Len(visits) : visits[k].kind \in {"Hit", "Empty"}
          \/ /\ stop \in 1..Len(visits) /\ stop # 0
             /\ visits[stop].kind \notin {"Hit", "Empty"}
      BY <2>3, <3>1, StopsAt
    <3> QED BY <2>3, <3>2
  <2>5. visits = Visits(q, list, n)
    BY DEF visits
  <2>6. AnswersOverlap(q, r, cells)
    BY <2>1, <2>2, <2>4, <2>5, OverlapFinds
  <2> QED BY <1>6, <2>2, <2>6
<1> QED BY <1>8, <1>10, <1>11
----------------------------------------------------------------------------
(* What a sweep meets, and when.                                            *)

LEMMA TouchedFirst ==
    ASSUME NEW q, IsBox(q.box), IsWay(q.dir), NEW lo, IsVector(lo), NEW hi, IsVector(hi),
           NEW last \in Nat, NEW g, g = Grown(lo, hi, q.box),
           NEW m, m = MeetsBox(q.box.center, q.dir, g.lo, g.hi),
           NEW t, t = FirstTouch(q, lo, hi, last)
    PROVE  /\ Met(m) => m.way \in Nat /\ DOMAIN m = {"way", "normal"}
           /\ Met(m) /\ m.way <= last => t = m.way
           /\ ~(Met(m) /\ m.way <= last) => t = Never
<1> DEFINE p == q.box.center
           half == q.box.half
           ts == {u \in 0..last : Touches(p, q.dir, half, u, lo, hi)}
<1>1. IsVector(p) /\ IsVector(half) /\ IsVector(q.dir)
  BY DEF IsBox, IsVector, IsWay
<1>2. /\ g.lo = [i \in Axis |-> lo[i] - half[i]] /\ g.hi = [i \in Axis |-> hi[i] + half[i]]
      /\ IsVector(g.lo) /\ IsVector(g.hi)
  <2>1. g.lo = [i \in Axis |-> lo[i] - half[i]] /\ g.hi = [i \in Axis |-> hi[i] + half[i]]
    BY DEF Grown
  <2>2. \A i \in Axis : lo[i] \in Int /\ hi[i] \in Int /\ half[i] \in Int
    BY <1>1 DEF IsVector
  <2> QED BY <2>1, <2>2 DEF IsVector
<1>3. m = MeetsBox(p, q.dir, g.lo, g.hi) /\ t = IF ts = {} THEN Never ELSE Min(ts)
  BY DEF FirstTouch
<1> HIDE DEF p, half
<1>4. \A u \in Int : Touches(p, q.dir, half, u, lo, hi) <=> InsideAt(p, q.dir, g.lo, g.hi, u)
  BY <1>1, <1>2, TouchedBox
<1>5. /\ Met(m) => /\ m.way \in Nat /\ InsideAt(p, q.dir, g.lo, g.hi, m.way)
                   /\ DOMAIN m = {"way", "normal"}
      /\ \A u \in Nat : InsideAt(p, q.dir, g.lo, g.hi, u) => Met(m) /\ m.way <= u
  BY <1>1, <1>2, <1>3, BoxMet
<1>6. \A u \in ts : u \in Nat /\ Met(m) /\ m.way <= u /\ u <= last
  <2> TAKE u \in ts
  <2>1. u \in Nat /\ u \in Int /\ u <= last /\ Touches(p, q.dir, half, u, lo, hi)
    OBVIOUS
  <2> HIDE DEF ts
  <2> QED BY <2>1, <1>4, <1>5
<1>7. ASSUME Met(m), m.way <= last
      PROVE  t = m.way
  <2>1. m.way \in ts
    BY <1>4, <1>5, <1>7
  <2>2. ts \subseteq Int /\ ts # {} /\ \A u \in ts : 0 <= u
    BY <2>1
  <2> HIDE DEF ts
  <2>3. Min(ts) \in ts /\ \A u \in ts : Min(ts) <= u
    BY <2>2, LeastOf, 0 \in Int
  <2>4. Min(ts) \in Int /\ m.way \in Int /\ Min(ts) <= m.way /\ m.way <= Min(ts)
    BY <1>5, <1>6, <1>7, <2>1, <2>2, <2>3
  <2>5. t = Min(ts)
    BY <1>3, <2>2
  <2>6. Min(ts) = m.way
    BY <2>4
  <2> QED BY <2>5, <2>6
<1>8. ASSUME ~(Met(m) /\ m.way <= last)
      PROVE  t = Never
  <2>1. ts = {}
    <3> SUFFICES ASSUME NEW u \in ts PROVE FALSE
      OBVIOUS
    <3>1. u \in Nat /\ Met(m) /\ m.way <= u /\ u <= last
      BY <1>6
    <3>2. m.way \in Nat
      BY <1>5, <3>1
    <3> QED BY <1>8, <3>1, <3>2
  <2> QED BY <1>3, <2>1
<1> QED BY <1>5, <1>7, <1>8

MetAt(q, c) == FirstTouch(q, CellLow(c), CellHigh(c), Ticks)

(* A cell is met when it is first touched, within the way.                  *)
LEMMA CellMetAt ==
    ASSUME NEW q, IsBox(q.box), IsWay(q.dir), NEW c \in Triple, NEW m, m = MeetsCell(q, c)
    PROVE  /\ Met(m) <=> MetAt(q, c) # Never
           /\ Met(m) => m.way = MetAt(q, c) /\ m.way \in Nat /\ DOMAIN m = {"way", "normal"}
<1> DEFINE g == Grown(CellLow(c), CellHigh(c), q.box)
           e == MeetsBox(q.box.center, q.dir, g.lo, g.hi)
<1>1. m = InTime(e)
  BY DEF MeetsCell, CellLow, CellHigh
<1>2. IsVector(CellLow(c)) /\ IsVector(CellHigh(c)) /\ Ticks \in Nat
  <2>1. \A i \in Axis : c[i] \in Int
    BY DEF Triple, Axis
  <2> QED BY <2>1, PhysicsAssumption DEF CellLow, CellHigh, IsVector
<1>3. MetAt(q, c) = FirstTouch(q, CellLow(c), CellHigh(c), Ticks) /\ g = Grown(CellLow(c), CellHigh(c), q.box)
      /\ e = MeetsBox(q.box.center, q.dir, g.lo, g.hi)
  BY DEF MetAt
<1> HIDE DEF g, e
<1>4. /\ Met(e) => e.way \in Nat /\ DOMAIN e = {"way", "normal"}
      /\ Met(e) /\ e.way <= Ticks => MetAt(q, c) = e.way
      /\ ~(Met(e) /\ e.way <= Ticks) => MetAt(q, c) = Never
  BY <1>2, <1>3, TouchedFirst
<1>5. CASE Met(e) /\ e.way <= Ticks
  BY <1>1, <1>4, <1>5 DEF InTime, Never
<1>6. CASE ~(Met(e) /\ e.way <= Ticks)
  <2>1. m = Kind("Miss")
    BY <1>1, <1>6 DEF InTime
  <2>2. ~Met(m)
    BY <2>1 DEF Met, Kind
  <2> QED BY <1>4, <1>6, <2>2
<1> QED BY <1>5, <1>6

(* No direction is slower than a unit in Ticks ticks.                       *)
LEMMA SlowestWay ==
    ASSUME NEW d, Divider(d), NEW x \in Int
    PROVE  x * PerTick(d) <= Ticks * Abs(x)
<1> DEFINE p == PerTick(d)
<1>1. p \in Int /\ p * d = Ticks /\ Sign(d) * p > 0 /\ d \in Int /\ d # 0
      /\ Ticks \in Nat \ {0}
  BY TicksOf, PhysicsAssumption DEF Divider
<1> HIDE DEF p
<1>2. p <= Ticks /\ -Ticks <= p
  <2>1. CASE d > 0
    <3>1. p > 0 /\ d >= 1
      BY <1>1, <2>1 DEF Sign
    <3>2. p * 1 <= p * d
      BY <1>1, <3>1, Scaled, 1 \in Int
    <3> QED BY <1>1, <3>1, <3>2
  <2>2. CASE d < 0
    <3>1. p < 0 /\ d <= -1
      BY <1>1, <2>2 DEF Sign
    <3>2. p * (-1) <= p * d
      BY <1>1, <3>1, Scaled, -1 \in Int
    <3> QED BY <1>1, <3>1, <3>2
  <2> QED BY <1>1, <2>1, <2>2
<1>3. CASE x > 0
  <2>1. x * p <= x * Ticks
    BY <1>1, <1>2, <1>3, Scaled
  <2> QED BY <1>1, <1>3, <2>1 DEF p, Abs
<1>4. CASE x < 0
  <2>1. x * p <= x * (-Ticks)
    <3>1. -Ticks \in Int /\ -Ticks <= p
      BY <1>1, <1>2
    <3> QED BY <1>1, <1>4, <3>1, Scaled
  <2> QED BY <1>1, <1>4, <2>1 DEF p, Abs
<1>5. CASE x = 0
  BY <1>1, <1>5 DEF p, Abs
<1> QED BY <1>3, <1>4, <1>5

BodyMetAt(q, b) ==
    LET lo == Low(q.bodies[b]) hi == High(q.bodies[b])
    IN  FirstTouch(q, lo, hi, LongWay(q, lo, hi))

(* A body is met when it is first touched, be it past the end of the way.   *)
LEMMA BodyMet ==
    ASSUME NEW q, IsScene(q), IsBox(q.box), IsWay(q.dir), NEW b \in DOMAIN q.bodies,
           NEW m, m = MeetsBody(q, b)
    PROVE  /\ Met(m) <=> BodyMetAt(q, b) # Never
           /\ Met(m) => m.way = BodyMetAt(q, b) /\ m.way \in Nat
<1> DEFINE lo == Low(q.bodies[b])
           hi == High(q.bodies[b])
           g == Grown(lo, hi, q.box)
           p == q.box.center
           h == q.box.half
           N == LongWay(q, lo, hi)
<1>1. IsVector(lo) /\ IsVector(hi) /\ IsVector(p) /\ IsVector(h)
  BY BodiesTyped DEF IsBox, IsVector
<1>2. \A i \in Axis : lo[i] \in Int /\ hi[i] \in Int /\ p[i] \in Int /\ h[i] \in Int
  BY <1>1 DEF IsVector
<1>3. /\ m = MeetsBox(p, q.dir, g.lo, g.hi) /\ BodyMetAt(q, b) = FirstTouch(q, lo, hi, N)
      /\ m = MeetsBox(q.box.center, q.dir, g.lo, g.hi) /\ g = Grown(lo, hi, q.box)
  BY DEF MeetsBody, BodyMetAt
<1>4. /\ \A i \in Axis : g.lo[i] = lo[i] - h[i] /\ g.hi[i] = hi[i] + h[i]
      /\ IsVector(g.lo) /\ IsVector(g.hi)
  <2>1. /\ g.lo = [i \in Axis |-> lo[i] - h[i]] /\ g.hi = [i \in Axis |-> hi[i] + h[i]]
    BY DEF Grown
  <2> HIDE DEF g, lo, hi, h
  <2> QED BY <1>2, <2>1 DEF IsVector
<1> DEFINE a(i) == lo[i] - h[i] - p[i]
           e(i) == hi[i] + h[i] - p[i]
           far == {Abs(a(i)) : i \in Axis} \cup {Abs(e(i)) : i \in Axis}
<1>5. N = Ticks * Max(far)
  BY DEF LongWay
<1> HIDE DEF lo, hi, g, p, h, N
<1>6. \A i \in Axis : a(i) \in Int /\ e(i) \in Int /\ Abs(a(i)) \in Nat /\ Abs(e(i)) \in Nat
  BY <1>2 DEF Abs
<1> HIDE DEF a, e
<1>7. Max(far) \in Nat /\ \A i \in Axis : Abs(a(i)) <= Max(far) /\ Abs(e(i)) <= Max(far)
  <2> DEFINE top == Abs(a(1)) + Abs(a(2)) + Abs(a(3)) + Abs(e(1)) + Abs(e(2)) + Abs(e(3))
  <2>1. 1 \in Axis /\ 2 \in Axis /\ 3 \in Axis /\ \A i \in Axis : i = 1 \/ i = 2 \/ i = 3
    BY DEF Axis
  <2>2. top \in Int /\ \A i \in Axis : Abs(a(i)) <= top /\ Abs(e(i)) <= top
    BY <1>6, <2>1
  <2>3. far \subseteq Int /\ far # {} /\ \A x \in far : x <= top /\ x \in Nat
    <3> HIDE DEF top
    <3>1. 1 \in Axis
      BY <2>1
    <3>2. \A x \in far : \E i \in Axis : x = Abs(a(i)) \/ x = Abs(e(i))
      OBVIOUS
    <3>3. \A x \in far : x \in Nat /\ x <= top
      BY <1>6, <2>2, <3>2
    <3>4. far # {}
      BY <3>1
    <3> HIDE DEF far
    <3> QED BY <3>3, <3>4
  <2>4. \A i \in Axis : Abs(a(i)) \in far /\ Abs(e(i)) \in far
    OBVIOUS
  <2> HIDE DEF top, far
  <2>5. Max(far) \in far /\ \A x \in far : x <= Max(far)
    BY <2>2, <2>3, GreatestOf
  <2> QED BY <2>3, <2>4, <2>5
<1> HIDE DEF far
<1>8. /\ Ticks \in Nat \ {0} /\ Ticks > 0 /\ Ticks \in Int /\ N \in Nat /\ N \in Int
      /\ \A i \in Axis : Ticks * Abs(a(i)) <= N /\ Ticks * Abs(e(i)) <= N
  <2>1. Ticks \in Nat \ {0} /\ Ticks > 0 /\ Ticks \in Int
    BY PhysicsAssumption
  <2>2. N \in Nat /\ N \in Int
    BY <1>5, <1>7, <2>1
  <2>3. \A i \in Axis : Ticks * Abs(a(i)) <= Ticks * Max(far) /\ Ticks * Abs(e(i)) <= Ticks * Max(far)
    <3> TAKE i \in Axis
    <3>1. Abs(a(i)) \in Int /\ Abs(e(i)) \in Int /\ Max(far) \in Int
      BY <1>6, <1>7
    <3> QED BY <1>7, <2>1, <3>1, Scaled
  <2> QED BY <1>5, <2>1, <2>2, <2>3
<1>9. /\ Met(m) => /\ m.way \in Nat
                   /\ \/ m.way = 0
                      \/ \E i \in Moving(q.dir) : m.way = Near(p[i], q.dir[i], g.lo[i], g.hi[i])
  <2> DEFINE u == g.lo
             v == g.hi
  <2>1. m = MeetsBox(p, q.dir, u, v) /\ IsVector(u) /\ IsVector(v) /\ IsVector(p) /\ IsWay(q.dir)
    BY <1>1, <1>3, <1>4
  <2> HIDE DEF u, v
  <2>2. /\ Met(m) => /\ m.way \in Nat
                     /\ \/ m.way = 0
                        \/ \E i \in Moving(q.dir) : m.way = Near(p[i], q.dir[i], u[i], v[i])
    BY <2>1, BoxMet
  <2> QED BY <2>2 DEF u, v
<1>10. ASSUME NEW i \in Moving(q.dir)
       PROVE  Near(p[i], q.dir[i], g.lo[i], g.hi[i]) <= N
  <2>1. i \in Axis /\ Divider(q.dir[i])
    BY WayDivides
  <2>2. \/ Near(p[i], q.dir[i], g.lo[i], g.hi[i]) = a(i) * PerTick(q.dir[i])
        \/ Near(p[i], q.dir[i], g.lo[i], g.hi[i]) = e(i) * PerTick(q.dir[i])
    BY <1>2, <1>4, <2>1 DEF Near, a, e
  <2>3. /\ a(i) * PerTick(q.dir[i]) <= Ticks * Abs(a(i))
        /\ e(i) * PerTick(q.dir[i]) <= Ticks * Abs(e(i))
    BY <1>6, <2>1, SlowestWay
  <2>4. PerTick(q.dir[i]) \in Int /\ a(i) \in Int /\ e(i) \in Int
    BY <1>6, <2>1, TicksOf
  <2>5. /\ a(i) * PerTick(q.dir[i]) \in Int /\ e(i) * PerTick(q.dir[i]) \in Int
        /\ Ticks * Abs(a(i)) \in Int /\ Ticks * Abs(e(i)) \in Int
    BY <1>6, <1>8, <2>1, <2>4
  <2>6. Ticks * Abs(a(i)) <= N /\ Ticks * Abs(e(i)) <= N /\ N \in Int
    BY <1>8, <2>1
  <2> DEFINE x == a(i) * PerTick(q.dir[i])
             y == e(i) * PerTick(q.dir[i])
             u == Ticks * Abs(a(i))
             v == Ticks * Abs(e(i))
  <2>7. x <= u /\ y <= v /\ u <= N /\ v <= N /\ x \in Int /\ y \in Int /\ u \in Int /\ v \in Int
    BY <2>3, <2>5, <2>6
  <2> HIDE DEF x, y, u, v
  <2>8. x <= N /\ y <= N
    BY <2>6, <2>7
  <2> QED BY <2>2, <2>8 DEF x, y
<1>11. Met(m) => m.way \in Nat /\ m.way <= N
  BY <1>8, <1>9, <1>10
<1>12. /\ Met(m) /\ m.way <= N => BodyMetAt(q, b) = m.way
       /\ ~(Met(m) /\ m.way <= N) => BodyMetAt(q, b) = Never
  BY <1>1, <1>3, <1>8, TouchedFirst
<1> QED BY <1>11, <1>12 DEF Never
(* What is met of each kind, and when.                                      *)
MetOfKind(q, cells, k) == {c \in cells : MetAt(q, c) # Never /\ BlockAt(q, c).kind = k}
BodiesMet(q) == {b \in DOMAIN q.bodies : BodyMetAt(q, b) # Never}
BodyWay(q, b) == Min({Ticks, BodyMetAt(q, b)})

(* A cell on the way: what its visit says, with the way to it.              *)
LEMMA VisitMet ==
    ASSUME NEW q, IsScene(q), IsBox(q.box), IsWay(q.dir), NEW c \in Triple,
           Met(MeetsCell(q, c)), NEW v, v = Joined(BlockAt(q, c), MeetsCell(q, c))
    PROVE  /\ v.kind = BlockAt(q, c).kind /\ v.way = MetAt(q, c) /\ v.way \in Nat
           /\ v.kind = "Hit" =>
                 /\ "cell" \in DOMAIN v /\ "body" \notin DOMAIN v
                 /\ v.cell = c /\ v.block = CellAt(q.world, c).block
           /\ v.kind = "Unresolved" =>
                 /\ v.section = SectionOf(c)
                 /\ v.section \notin DOMAIN q.world \/ q.world[v.section].presence \notin Stored
<1> DEFINE a == BlockAt(q, c)
           m == MeetsCell(q, c)
<1>1. m.way = MetAt(q, c) /\ m.way \in Nat /\ DOMAIN m = {"way", "normal"}
  BY CellMetAt
<1>2. v = Joined(a, m)
  OBVIOUS
<1>3. /\ a.kind \in {"Empty", "Error", "Unresolved", "Hit"}
      /\ a.kind = "Empty" => a = Kind("Empty")
      /\ a.kind = "Error" => a = Kind("Error")
      /\ a.kind = "Unresolved" =>
            /\ a = [kind |-> "Unresolved", section |-> SectionOf(c)]
            /\ a.section = SectionOf(c)
            /\ a.section \notin DOMAIN q.world \/ q.world[a.section].presence \notin Stored
      /\ a.kind = "Hit" =>
            /\ a = [kind |-> "Hit", cell |-> c, block |-> a.block]
            /\ a.cell = c /\ a.block = CellAt(q.world, c).block
  BY VisitFields
<1> HIDE DEF a, m
<1>4. /\ a.kind = "Hit" => DOMAIN a = {"kind", "cell", "block"}
      /\ a.kind = "Unresolved" => DOMAIN a = {"kind", "section"}
      /\ a.kind \in {"Empty", "Error"} => DOMAIN a = {"kind"}
  <2>1. a.kind = "Hit" => a = [kind |-> "Hit", cell |-> c, block |-> a.block]
    BY <1>3
  <2>2. a.kind = "Unresolved" => a = [kind |-> "Unresolved", section |-> SectionOf(c)]
    BY <1>3
  <2>3. a.kind \in {"Empty", "Error"} => a = [kind |-> a.kind]
    BY <1>3 DEF Kind
  <2> QED BY <2>1, <2>2, <2>3
<1>5. /\ DOMAIN v = DOMAIN a \cup {"way", "normal"}
      /\ \A f \in DOMAIN a : v[f] = a[f]
      /\ "way" \notin DOMAIN a => v["way"] = m["way"]
  BY <1>1, <1>2 DEF Joined
<1>6. "kind" \in DOMAIN a /\ "way" \notin DOMAIN a
  BY <1>3, <1>4
<1>7. v.kind = a.kind /\ v.way = m.way
  BY <1>5, <1>6
<1>8. a.kind = "Hit" => /\ "cell" \in DOMAIN v /\ "body" \notin DOMAIN v
                        /\ v.cell = a.cell /\ v.block = a.block
  BY <1>4, <1>5
<1>9. a.kind = "Unresolved" => v.section = a.section
  BY <1>4, <1>5
<1> QED BY <1>1, <1>3, <1>7, <1>8, <1>9 DEF a

(* Visits of the cells that are met, by their place in a list.              *)
SweepVisits(q, list, n, visits) ==
    /\ DOMAIN visits = {i \in 1..n : Met(MeetsCell(q, list[i]))}
    /\ \A i \in DOMAIN visits : visits[i] = Joined(BlockAt(q, list[i]), MeetsCell(q, list[i]))

OfVisits(visits, k) == {i \in DOMAIN visits : visits[i].kind = k}

LEMMA VisitsMet ==
    ASSUME NEW q, IsSweep(q), NEW n \in Nat, NEW list, NEW cells, cells \subseteq Triple,
           Listing(list, n, cells), NEW visits, SweepVisits(q, list, n, visits), NEW k
    PROVE  /\ \A i \in OfVisits(visits, k) :
                 /\ i \in 1..n /\ list[i] \in MetOfKind(q, cells, k)
                 /\ visits[i].kind = k /\ visits[i].way = MetAt(q, list[i]) /\ visits[i].way \in Nat
                 /\ k = "Hit" => /\ "cell" \in DOMAIN visits[i] /\ "body" \notin DOMAIN visits[i]
                                 /\ visits[i].cell = list[i]
                                 /\ visits[i].block = CellAt(q.world, list[i]).block
                 /\ k = "Unresolved" =>
                       /\ visits[i].section = SectionOf(list[i])
                       /\ \/ visits[i].section \notin DOMAIN q.world
                          \/ q.world[visits[i].section].presence \notin Stored
           /\ \A c \in MetOfKind(q, cells, k) : \E i \in OfVisits(visits, k) : list[i] = c
<1>1. IsScene(q) /\ IsBox(q.box) /\ IsWay(q.dir)
  BY DEF IsSweep
<1>2. /\ \A i \in 1..n : list[i] \in cells /\ list[i] \in Triple
      /\ \A c \in cells : \E i \in 1..n : list[i] = c
  BY DEF Listing
<1>3. ASSUME NEW i \in OfVisits(visits, k)
      PROVE  /\ i \in 1..n /\ list[i] \in MetOfKind(q, cells, k)
             /\ visits[i].kind = k /\ visits[i].way = MetAt(q, list[i]) /\ visits[i].way \in Nat
             /\ k = "Hit" => /\ "cell" \in DOMAIN visits[i] /\ "body" \notin DOMAIN visits[i]
                             /\ visits[i].cell = list[i]
                             /\ visits[i].block = CellAt(q.world, list[i]).block
             /\ k = "Unresolved" =>
                   /\ visits[i].section = SectionOf(list[i])
                   /\ \/ visits[i].section \notin DOMAIN q.world
                      \/ q.world[visits[i].section].presence \notin Stored
  <2> DEFINE v == visits[i]
             c == list[i]
  <2>1. /\ i \in 1..n /\ Met(MeetsCell(q, c)) /\ v.kind = k /\ c \in cells /\ c \in Triple
        /\ v = Joined(BlockAt(q, c), MeetsCell(q, c))
    BY <1>2 DEF OfVisits, SweepVisits
  <2> HIDE DEF v, c
  <2>2. /\ v.kind = BlockAt(q, c).kind /\ v.way = MetAt(q, c) /\ v.way \in Nat
        /\ v.kind = "Hit" =>
              /\ "cell" \in DOMAIN v /\ "body" \notin DOMAIN v
              /\ v.cell = c /\ v.block = CellAt(q.world, c).block
        /\ v.kind = "Unresolved" =>
              /\ v.section = SectionOf(c)
              /\ v.section \notin DOMAIN q.world \/ q.world[v.section].presence \notin Stored
    BY <1>1, <2>1, VisitMet
  <2>3. MetAt(q, c) # Never
    BY <2>2 DEF Never
  <2>4. c \in MetOfKind(q, cells, k)
    BY <2>1, <2>2, <2>3 DEF MetOfKind
  <2> QED BY <2>1, <2>2, <2>4 DEF v, c
<1>4. ASSUME NEW c \in MetOfKind(q, cells, k)
      PROVE  \E i \in OfVisits(visits, k) : list[i] = c
  <2>1. c \in cells /\ c \in Triple /\ MetAt(q, c) # Never /\ BlockAt(q, c).kind = k
    BY DEF MetOfKind
  <2>2. PICK i \in 1..n : list[i] = c
    BY <1>2, <2>1
  <2>3. Met(MeetsCell(q, c))
    BY <1>1, <2>1, CellMetAt
  <2>4. i \in DOMAIN visits /\ visits[i] = Joined(BlockAt(q, c), MeetsCell(q, c))
    BY <2>2, <2>3 DEF SweepVisits
  <2>5. visits[i].kind = k
    <3> DEFINE v == visits[i]
    <3>1. v = Joined(BlockAt(q, c), MeetsCell(q, c))
      BY <2>4
    <3> HIDE DEF v
    <3>2. v.kind = BlockAt(q, c).kind
      BY <1>1, <2>1, <2>3, <3>1, VisitMet
    <3> QED BY <2>1, <3>2 DEF v
  <2> QED BY <2>2, <2>4, <2>5 DEF OfVisits
<1> QED BY <1>3, <1>4

(* The block that is met first.                                             *)
FirstBlock(q, cells, r) ==
    \/ r.kind = "Miss" /\ "cell" \notin DOMAIN r /\ MetOfKind(q, cells, "Hit") = {}
    \/ /\ r.kind = "Hit" /\ "cell" \in DOMAIN r /\ "body" \notin DOMAIN r
       /\ r.cell \in MetOfKind(q, cells, "Hit") /\ r.block = CellAt(q.world, r.cell).block
       /\ r.way = MetAt(q, r.cell) /\ r.way \in Nat
       /\ \A c \in MetOfKind(q, cells, "Hit") : MetAt(q, c) \in Nat /\ r.way <= MetAt(q, c)

LEMMA BlockFirst ==
    ASSUME NEW q, IsSweep(q), NEW n \in Nat, NEW list, NEW cells, cells \subseteq Triple,
           Listing(list, n, cells), NEW visits, SweepVisits(q, list, n, visits),
           NEW r, r = First([i \in OfVisits(visits, "Hit") |-> visits[i]])
    PROVE  FirstBlock(q, cells, r)
<1> DEFINE D == OfVisits(visits, "Hit")
           hits == [i \in D |-> visits[i]]
<1>1. /\ \A i \in D :
            /\ i \in 1..n /\ list[i] \in MetOfKind(q, cells, "Hit")
            /\ visits[i].kind = "Hit" /\ visits[i].way = MetAt(q, list[i]) /\ visits[i].way \in Nat
            /\ "cell" \in DOMAIN visits[i] /\ "body" \notin DOMAIN visits[i]
            /\ visits[i].cell = list[i]
            /\ visits[i].block = CellAt(q.world, list[i]).block
      /\ \A c \in MetOfKind(q, cells, "Hit") : \E i \in D : list[i] = c
  BY VisitsMet
<1> HIDE DEF D
<1>2. DOMAIN hits = D /\ \A i \in D : hits[i] = visits[i]
  OBVIOUS
<1>3. r = First(hits)
  BY DEF D
<1> HIDE DEF hits
<1>4. CASE D = {}
  <2>1. r = Kind("Miss")
    BY <1>2, <1>3, <1>4 DEF First
  <2>2. r.kind = "Miss" /\ "cell" \notin DOMAIN r
    BY <2>1 DEF Kind
  <2> QED BY <1>1, <1>4, <2>2 DEF FirstBlock
<1>5. CASE D # {}
  <2>1. D \subseteq Nat
    BY <1>1
  <2>2. \A i \in DOMAIN hits : hits[i].way \in Int /\ hits[i].way >= 0
    BY <1>1, <1>2
  <2>3. PICK i \in D : First(hits) = hits[i] /\ IsFirst(hits, i)
    BY <1>2, <1>5, <2>1, <2>2, FirstOf
  <2>4. r = visits[i]
    BY <1>2, <1>3, <2>3
  <2>5. ASSUME NEW c \in MetOfKind(q, cells, "Hit")
        PROVE  MetAt(q, c) \in Nat /\ r.way <= MetAt(q, c)
    <3>1. PICK j \in D : list[j] = c
      BY <1>1
    <3>2. hits[i].way < hits[j].way \/ hits[i].way = hits[j].way
      BY <1>2, <2>3, <3>1 DEF IsFirst
    <3>3. hits[i].way = r.way /\ hits[j].way = MetAt(q, c) /\ MetAt(q, c) \in Nat /\ r.way \in Nat
      BY <1>1, <1>2, <2>4, <3>1
    <3> QED BY <3>2, <3>3
  <2>6. /\ r.kind = "Hit" /\ "cell" \in DOMAIN r /\ "body" \notin DOMAIN r /\ r.cell = list[i]
        /\ list[i] \in MetOfKind(q, cells, "Hit") /\ r.block = CellAt(q.world, list[i]).block
        /\ r.way = MetAt(q, list[i]) /\ r.way \in Nat
    BY <1>1, <2>4
  <2> QED BY <2>5, <2>6 DEF FirstBlock
<1> QED BY <1>4, <1>5

(* The body that is met first.                                              *)
FirstBody(q, r) ==
    \/ r.kind = "Miss" /\ "cell" \notin DOMAIN r /\ BodiesMet(q) = {}
    \/ /\ r.kind = "Hit" /\ "cell" \notin DOMAIN r
       /\ r.body \in BodiesMet(q) /\ r.way = BodyWay(q, r.body) /\ r.way \in Nat
       /\ \A b \in BodiesMet(q) : BodyWay(q, b) \in Nat /\ r.way <= BodyWay(q, b)

LEMMA BodyFirst ==
    ASSUME NEW q, IsSweep(q), NEW D, D = {b \in DOMAIN q.bodies : Met(MeetsBody(q, b))},
           NEW r, r = First([b \in D |-> BodyHit(b, MeetsBody(q, b))])
    PROVE  FirstBody(q, r)
<1> DEFINE hits == [b \in D |-> BodyHit(b, MeetsBody(q, b))]
<1>1. IsScene(q) /\ IsBox(q.box) /\ IsWay(q.dir)
  BY DEF IsSweep
<1>2. \A b \in DOMAIN q.bodies : LET m == MeetsBody(q, b) IN
         /\ Met(m) <=> BodyMetAt(q, b) # Never
         /\ Met(m) => m.way = BodyMetAt(q, b) /\ m.way \in Nat
  BY <1>1, BodyMet
<1>3. D = BodiesMet(q)
  BY <1>2 DEF BodiesMet
<1>4. DOMAIN q.bodies = 1..Len(q.bodies) /\ Len(q.bodies) \in Nat
  BY <1>1, BodiesTyped
<1>5. D \subseteq Nat
  BY <1>4
<1>6. DOMAIN hits = D /\ \A b \in D : hits[b] = BodyHit(b, MeetsBody(q, b))
  OBVIOUS
<1>7. r = First(hits)
  OBVIOUS
<1> HIDE DEF hits
<1>8. \A b \in D : /\ hits[b].kind = "Hit" /\ hits[b].body = b
                   /\ "cell" \notin DOMAIN hits[b]
                   /\ hits[b].way = BodyWay(q, b) /\ BodyWay(q, b) \in Nat
  <2> TAKE b \in D
  <2> DEFINE m == MeetsBody(q, b)
  <2>1. m.way = BodyMetAt(q, b) /\ m.way \in Nat
    BY <1>2
  <2>2. hits[b] = [kind |-> "Hit", body |-> b, way |-> Min({Ticks, m.way}), normal |-> m.normal]
    BY <1>6 DEF BodyHit
  <2> HIDE DEF m
  <2>3. Min({Ticks, m.way}) = BodyWay(q, b)
    BY <2>1 DEF BodyWay
  <2>4. BodyWay(q, b) \in Nat
    <3>1. Ticks \in Int /\ Ticks >= 0 /\ m.way \in Int /\ m.way >= 0
      BY <2>1, PhysicsAssumption
    <3>2. \/ Min({Ticks, m.way}) = Ticks
          \/ Min({Ticks, m.way}) = m.way
      BY <3>1, LesserOf
    <3> QED BY <2>3, <3>1, <3>2
  <2> QED BY <2>2, <2>3, <2>4
<1>9. CASE D = {}
  <2>1. r = Kind("Miss")
    BY <1>6, <1>7, <1>9 DEF First
  <2>2. r.kind = "Miss" /\ "cell" \notin DOMAIN r
    BY <2>1 DEF Kind
  <2> QED BY <1>3, <1>9, <2>2 DEF FirstBody
<1>10. CASE D # {}
  <2>1. \A b \in DOMAIN hits : hits[b].way \in Int /\ hits[b].way >= 0
    BY <1>6, <1>8
  <2>2. PICK k \in D : First(hits) = hits[k] /\ IsFirst(hits, k)
    BY <1>5, <1>6, <1>10, <2>1, FirstOf
  <2>3. r = hits[k]
    BY <1>7, <2>2
  <2>4. ASSUME NEW b \in D
        PROVE  BodyWay(q, b) \in Nat /\ r.way <= BodyWay(q, b)
    <3>1. hits[k].way < hits[b].way \/ hits[k].way = hits[b].way
      BY <1>6, <2>2 DEF IsFirst
    <3>2. hits[k].way = r.way /\ hits[b].way = BodyWay(q, b) /\ BodyWay(q, b) \in Nat /\ r.way \in Nat
      BY <1>8, <2>3
    <3> QED BY <3>1, <3>2
  <2> QED BY <1>3, <1>8, <2>3, <2>4 DEF FirstBody
<1> QED BY <1>9, <1>10
(* Finitely many sections have a first one.                                 *)
LEMMA FirstSection ==
    ASSUME NEW S \in SUBSET Triple, IsFiniteSet(S), S # {}
    PROVE  \E m \in S : \A s \in S : ~IdBefore(s, m)
<1> DEFINE n == Cardinality(S)
<1>1. n \in Nat \ {0}
  <2>1. n \in Nat /\ n # 0
    BY FS_CardinalityType, FS_EmptySet
  <2> QED BY <2>1
<1>2. PICK f \in [1..n -> S] : Increasing(f, n)
  BY SectionsListed
<1>3. {f[i] : i \in 1..n} = S
  BY <1>2, ListedOnce
<1> HIDE DEF n
<1>4. 1 \in 1..n /\ f[1] \in S
  BY <1>1, <1>2
<1>5. ASSUME NEW s \in S
      PROVE  ~IdBefore(s, f[1])
  <2>1. PICK i \in 1..n : f[i] = s
    BY <1>3
  <2>2. s \in Triple /\ f[1] \in Triple
    BY <1>4
  <2>3. CASE i = 1
    BY <2>1, <2>2, <2>3, IdsOrdered
  <2>4. CASE i # 1
    <3>1. 1 < i
      BY <1>1, <2>4
    <3>2. IdBefore(f[1], s)
      BY <1>2, <1>4, <2>1, <3>1 DEF Increasing
    <3> QED BY <2>2, <3>2, IdsOrdered
  <2> QED BY <2>3, <2>4
<1> QED BY <1>4, <1>5

(* Of unresolved sections that are met some is least.                       *)
LEMMA LeastOpenOf ==
    ASSUME NEW opens, IsFiniteSet(opens), opens # {},
           \A u \in opens : u.way \in Nat /\ u.section \in Triple
    PROVE  LeastOpen(opens) \in opens /\ \A v \in opens : LeastOpen(opens).way <= v.way
<1> DEFINE ways == {u.way : u \in opens}
<1>1. ways \subseteq Nat /\ ways # {}
  OBVIOUS
<1>2. PICK w \in ways : \A x \in ways : w <= x
  BY <1>1, LeastNumber, Zenon
<1> DEFINE U == {u \in opens : u.way = w}
           f == [u \in U |-> u.section]
           S == {f[u] : u \in U}
<1>3. IsFiniteSet(U) /\ U # {}
  BY <1>2, FS_Subset
<1>4. IsFiniteSet(S) /\ S # {} /\ S \in SUBSET Triple
  <2>1. f \in Surjection(U, S)
    BY DEF Surjection
  <2>2. IsFiniteSet(S)
    <3> HIDE DEF U, f, S
    <3> QED BY <1>3, <2>1, FS_Surjection
  <2>3. \A u \in U : f[u] \in Triple
    OBVIOUS
  <2> QED BY <1>3, <2>2, <2>3
<1>5. PICK m \in S : \A s \in S : ~IdBefore(s, m)
  <2> HIDE DEF S
  <2> QED BY <1>4, FirstSection
<1>6. PICK u \in U : u.section = m
  BY <1>5
<1> DEFINE P(x) == \A v \in opens :
                      Before(x, v) \/ (~Before(v, x) /\ ~IdBefore(v.section, x.section))
<1>7. P(u)
  <2> SUFFICES ASSUME NEW v \in opens
               PROVE  Before(u, v) \/ (~Before(v, u) /\ ~IdBefore(v.section, u.section))
    OBVIOUS
  <2>1. u.way = w /\ w <= v.way /\ w \in Nat /\ v.way \in Nat
    BY <1>1, <1>2, <1>6
  <2>2. CASE v.way = w
    <3>1. v \in U /\ v.section \in S
      BY <2>2
    <3> QED BY <1>5, <1>6, <2>1, <2>2, <3>1 DEF Before
  <2>3. CASE v.way # w
    BY <2>1, <2>3 DEF Before
  <2> QED BY <2>2, <2>3
<1>8. LeastOpen(opens) = CHOOSE x \in opens : P(x)
  BY DEF LeastOpen
<1>9. u \in opens
  BY <1>6
<1> DEFINE l == CHOOSE x \in opens : P(x)
<1>10. l \in opens /\ P(l)
  <2> HIDE DEF P
  <2> QED BY <1>7, <1>9
<1> HIDE DEF l
<1>11. \A v \in opens : l.way <= v.way
  BY <1>10 DEF Before
<1> QED BY <1>8, <1>10, <1>11 DEF l

(* The unresolved section that is met first.                                *)
OpenTicks(q, cells) == {MetAt(q, c) : c \in MetOfKind(q, cells, "Unresolved")}

OpensMet(q, cells, opens) ==
    /\ opens = {} <=> OpenTicks(q, cells) = {}
    /\ opens # {} =>
          LET u == LeastOpen(opens) IN
          /\ u.way \in Nat /\ u.way = Min(OpenTicks(q, cells))
          /\ u.section \notin DOMAIN q.world \/ q.world[u.section].presence \notin Stored
          /\ \E c \in MetOfKind(q, cells, "Unresolved") :
                MetAt(q, c) = u.way /\ SectionOf(c) = u.section

LEMMA OpenFirst ==
    ASSUME NEW q, IsSweep(q), NEW n \in Nat, NEW list, NEW cells, cells \subseteq Triple,
           Listing(list, n, cells), NEW visits, SweepVisits(q, list, n, visits),
           NEW opens, opens = {visits[i] : i \in OfVisits(visits, "Unresolved")}
    PROVE  OpensMet(q, cells, opens)
<1> DEFINE D == OfVisits(visits, "Unresolved")
           M == MetOfKind(q, cells, "Unresolved")
           T == OpenTicks(q, cells)
<1>1. /\ \A i \in D :
            /\ i \in 1..n /\ list[i] \in M
            /\ visits[i].way = MetAt(q, list[i]) /\ visits[i].way \in Nat
            /\ visits[i].section = SectionOf(list[i])
            /\ \/ visits[i].section \notin DOMAIN q.world
               \/ q.world[visits[i].section].presence \notin Stored
      /\ \A c \in M : \E i \in D : list[i] = c
  BY VisitsMet
<1>2. M \subseteq Triple
  BY DEF MetOfKind
<1>3. T = {MetAt(q, c) : c \in M}
  BY DEF OpenTicks
<1>4. opens = {visits[i] : i \in D}
  OBVIOUS
<1> HIDE DEF D, M, T
<1>5. opens = {} <=> T = {}
  <2>1. opens = {} <=> D = {}
    BY <1>4
  <2>2. T = {} <=> M = {}
    BY <1>3
  <2>3. D = {} <=> M = {}
    BY <1>1
  <2> QED BY <2>1, <2>2, <2>3
<1>6. ASSUME opens # {}
      PROVE  LET u == LeastOpen(opens) IN
             /\ u.way \in Nat /\ u.way = Min(T)
             /\ u.section \notin DOMAIN q.world \/ q.world[u.section].presence \notin Stored
             /\ \E c \in M : MetAt(q, c) = u.way /\ SectionOf(c) = u.section
  <2>1. IsFiniteSet(opens)
    <3>1. IsFiniteSet(1..n) /\ D \subseteq 1..n
      BY <1>1, 1 \in Int, n \in Int, FS_Interval
    <3>2. IsFiniteSet(D)
      BY <3>1, FS_Subset
    <3> DEFINE f == [i \in D |-> visits[i]]
    <3>3. f \in Surjection(D, opens)
      BY <1>4 DEF Surjection
    <3> HIDE DEF f
    <3> QED BY <3>2, <3>3, FS_Surjection
  <2>2. \A u \in opens : u.way \in Nat /\ u.section \in Triple
    <3> TAKE u \in opens
    <3>1. PICK i \in D : u = visits[i]
      BY <1>4
    <3>2. list[i] \in Triple /\ u.way \in Nat /\ u.section = SectionOf(list[i])
      BY <1>1, <1>2, <3>1
    <3> QED BY <3>2, SectionTyped
  <2> DEFINE u == LeastOpen(opens)
  <2>3. u \in opens /\ \A v \in opens : u.way <= v.way
    BY <1>6, <2>1, <2>2, LeastOpenOf
  <2> HIDE DEF u
  <2>4. PICK i \in D : u = visits[i]
    BY <1>4, <2>3
  <2>5. /\ u.way \in Nat /\ u.way = MetAt(q, list[i]) /\ list[i] \in M
        /\ u.section = SectionOf(list[i])
        /\ u.section \notin DOMAIN q.world \/ q.world[u.section].presence \notin Stored
    BY <1>1, <2>4
  <2>6. u.way \in T /\ \A t \in T : t \in Nat /\ u.way <= t
    <3>1. u.way \in T
      BY <1>3, <2>5
    <3>2. ASSUME NEW t \in T
          PROVE  t \in Nat /\ u.way <= t
      <4>1. PICK c \in M : t = MetAt(q, c)
        BY <1>3
      <4>2. PICK j \in D : list[j] = c
        BY <1>1
      <4>3. visits[j].way = t /\ t \in Nat /\ visits[j] \in opens
        BY <1>1, <1>4, <4>1, <4>2
      <4> QED BY <2>3, <4>3
    <3> QED BY <3>1, <3>2
  <2>7. u.way = Min(T)
    <3>1. T \subseteq Int /\ T # {} /\ \A t \in T : 0 <= t
      BY <2>6
    <3>2. Min(T) \in T /\ \A t \in T : Min(T) <= t
      BY <3>1, LeastOf, 0 \in Int
    <3>3. Min(T) \in Int /\ Min(T) <= u.way /\ u.way <= Min(T) /\ u.way \in Int
      BY <2>5, <2>6, <3>2
    <3> QED BY <3>3
  <2> QED BY <2>5, <2>7 DEF u
<1> QED BY <1>5, <1>6 DEF M, T, OpensMet
(* What is met first of blocks and bodies.                                  *)
StopTicks(q, cells) ==
    {MetAt(q, c) : c \in MetOfKind(q, cells, "Hit")} \cup {BodyWay(q, b) : b \in BodiesMet(q)}

IsBest(q, cells, r) ==
    \/ r.kind = "Miss" /\ "cell" \notin DOMAIN r /\ StopTicks(q, cells) = {}
    \/ /\ r.kind = "Hit" /\ StopTicks(q, cells) # {}
       /\ r.way \in Nat /\ r.way = Min(StopTicks(q, cells))
       /\ "cell" \in DOMAIN r =>
             /\ "body" \notin DOMAIN r /\ r.cell \in MetOfKind(q, cells, "Hit")
             /\ r.block = CellAt(q.world, r.cell).block /\ r.way = MetAt(q, r.cell)
       /\ "cell" \notin DOMAIN r =>
             /\ r.body \in BodiesMet(q) /\ r.way = BodyWay(q, r.body)
             /\ \A c \in MetOfKind(q, cells, "Hit") : MetAt(q, c) > r.way

LEMMA LeastIs ==
    ASSUME NEW S, NEW x \in Nat, x \in S, \A y \in S : y \in Nat /\ x <= y
    PROVE  S # {} /\ x = Min(S)
<1>1. S \subseteq Int /\ S # {} /\ \A y \in S : 0 <= y
  OBVIOUS
<1>2. Min(S) \in S /\ \A y \in S : Min(S) <= y
  BY <1>1, LeastOf, 0 \in Int
<1>3. Min(S) \in Int /\ x \in Int /\ Min(S) <= x /\ x <= Min(S)
  BY <1>1, <1>2
<1> QED BY <1>1, <1>3

LEMMA BestIs ==
    ASSUME NEW q, NEW cells, NEW cell, FirstBlock(q, cells, cell), NEW body, FirstBody(q, body),
           NEW r, r = BestOf(cell, body)
    PROVE  IsBest(q, cells, r)
<1> DEFINE H == MetOfKind(q, cells, "Hit")
           B == BodiesMet(q)
           S == StopTicks(q, cells)
<1>1. S = {MetAt(q, c) : c \in H} \cup {BodyWay(q, b) : b \in B}
  BY DEF StopTicks
<1>2. /\ \/ cell.kind = "Miss" /\ "cell" \notin DOMAIN cell /\ H = {}
         \/ /\ cell.kind = "Hit" /\ "cell" \in DOMAIN cell /\ "body" \notin DOMAIN cell
            /\ cell.cell \in H /\ cell.block = CellAt(q.world, cell.cell).block
            /\ cell.way = MetAt(q, cell.cell) /\ cell.way \in Nat
            /\ \A c \in H : MetAt(q, c) \in Nat /\ cell.way <= MetAt(q, c)
  BY DEF FirstBlock
<1>3. \/ body.kind = "Miss" /\ "cell" \notin DOMAIN body /\ B = {}
      \/ /\ body.kind = "Hit" /\ "cell" \notin DOMAIN body
         /\ body.body \in B /\ body.way = BodyWay(q, body.body) /\ body.way \in Nat
         /\ \A b \in B : BodyWay(q, b) \in Nat /\ body.way <= BodyWay(q, b)
  BY DEF FirstBody
<1> HIDE DEF H, B, S
<1>4. r = IF cell.kind = "Miss" \/ (body.kind = "Hit" /\ body.way < cell.way) THEN body ELSE cell
  BY DEF BestOf, Before
<1>5. IsBest(q, cells, r) <=>
        \/ r.kind = "Miss" /\ "cell" \notin DOMAIN r /\ S = {}
        \/ /\ r.kind = "Hit" /\ S # {}
           /\ r.way \in Nat /\ r.way = Min(S)
           /\ "cell" \in DOMAIN r =>
                 /\ "body" \notin DOMAIN r /\ r.cell \in H
                 /\ r.block = CellAt(q.world, r.cell).block /\ r.way = MetAt(q, r.cell)
           /\ "cell" \notin DOMAIN r =>
                 /\ r.body \in B /\ r.way = BodyWay(q, r.body)
                 /\ \A c \in H : MetAt(q, c) > r.way
  BY DEF IsBest, H, B, S
<1>6. CASE cell.kind = "Miss" /\ body.kind = "Miss"
  BY <1>1, <1>2, <1>3, <1>4, <1>5, <1>6
<1>7. CASE body.kind = "Hit" /\ (cell.kind = "Miss" \/ body.way < cell.way)
  <2>1. r = body
    BY <1>4, <1>7
  <2>2. \A c \in H : MetAt(q, c) \in Nat /\ MetAt(q, c) > body.way
    BY <1>2, <1>3, <1>7
  <2>3. body.way \in S /\ body.way \in Nat
    BY <1>1, <1>3, <1>7
  <2>4. ASSUME NEW y \in S
        PROVE  y \in Nat /\ body.way <= y
    <3>1. CASE \E c \in H : y = MetAt(q, c)
      BY <2>2, <2>3, <3>1
    <3>2. CASE \E b \in B : y = BodyWay(q, b)
      BY <1>3, <1>7, <3>2
    <3> QED BY <1>1, <3>1, <3>2
  <2>5. S # {} /\ body.way = Min(S)
    BY <2>3, <2>4, LeastIs
  <2> QED BY <1>3, <1>5, <1>7, <2>1, <2>2, <2>3, <2>5
<1>8. CASE cell.kind = "Hit" /\ ~(body.kind = "Hit" /\ body.way < cell.way)
  <2>1. r = cell
    BY <1>4, <1>8
  <2>2. cell.way \in S /\ cell.way \in Nat
    BY <1>1, <1>2, <1>8
  <2>3. ASSUME NEW y \in S
        PROVE  y \in Nat /\ cell.way <= y
    <3>1. CASE \E c \in H : y = MetAt(q, c)
      BY <1>2, <1>8, <3>1
    <3>2. CASE \E b \in B : y = BodyWay(q, b)
      <4>1. PICK b \in B : y = BodyWay(q, b)
        BY <3>2
      <4>2. body.kind = "Hit" /\ body.way \in Nat /\ y \in Nat /\ body.way <= y
        BY <1>3, <4>1
      <4>3. cell.way <= body.way
        BY <1>8, <2>2, <4>2
      <4> QED BY <2>2, <4>2, <4>3
    <3> QED BY <1>1, <3>1, <3>2
  <2>4. S # {} /\ cell.way = Min(S)
    BY <2>2, <2>3, LeastIs
  <2> QED BY <1>2, <1>5, <1>8, <2>1, <2>2, <2>4
<1>9. cell.kind \in {"Hit", "Miss"} /\ body.kind \in {"Hit", "Miss"}
  BY <1>2, <1>3
<1> QED BY <1>6, <1>7, <1>8, <1>9

(* What a sweep has to say.                                                 *)
LEMMA SweepAnswered ==
    ASSUME NEW q, NEW cells, NEW opens, NEW best, IsBest(q, cells, best),
           OpensMet(q, cells, opens),
           NEW r, r = Foremost(opens, best)
    PROVE  AnswersSweep(q, r, [c \in cells |-> MetAt(q, c)],
                        [b \in DOMAIN q.bodies |-> BodyMetAt(q, b)])
<1> DEFINE H == MetOfKind(q, cells, "Hit")
           U == MetOfKind(q, cells, "Unresolved")
           B == BodiesMet(q)
           S == StopTicks(q, cells)
           T == OpenTicks(q, cells)
           u == LeastOpen(opens)
           f == [c \in cells |-> MetAt(q, c)]
           g == [b \in DOMAIN q.bodies |-> BodyMetAt(q, b)]
<1>1. /\ \A k : {c \in DOMAIN f : f[c] # Never /\ BlockAt(q, c).kind = k} = MetOfKind(q, cells, k)
      /\ {x \in DOMAIN g : g[x] # Never} = B
  BY DEF MetOfKind, BodiesMet
<1>2. /\ \A k : \A c \in MetOfKind(q, cells, k) : f[c] = MetAt(q, c)
      /\ \A b \in B : g[b] = BodyMetAt(q, b) /\ Min({Ticks, g[b]}) = BodyWay(q, b)
  BY DEF MetOfKind, BodiesMet, BodyWay
<1> HIDE DEF f, g
<1>3. {f[c] : c \in H} \cup {Min({Ticks, g[b]}) : b \in B} = S
  <2>1. {f[c] : c \in H} = {MetAt(q, c) : c \in H}
    BY <1>2
  <2>2. {Min({Ticks, g[b]}) : b \in B} = {BodyWay(q, b) : b \in B}
    BY <1>2
  <2> QED BY <2>1, <2>2 DEF StopTicks
<1>4. {f[c] : c \in U} = T
  <2>1. {f[c] : c \in U} = {MetAt(q, c) : c \in U}
    BY <1>2
  <2> QED BY <2>1 DEF OpenTicks
<1> DEFINE Answers ==
        /\ SameAsRead(q, r)
        /\ r.kind = "Miss" <=> S \cup T = {}
        /\ r.kind = "Unresolved" <=> T # {} /\ (S = {} \/ Min(T) <= Min(S))
        /\ r.kind = "Unresolved" => \E c \in U : f[c] = Min(T) /\ SectionOf(c) = r.section
        /\ r.kind = "Hit" => r.way = Min(S)
        /\ r.kind = "Hit" /\ "cell" \in DOMAIN r => f[r.cell] = r.way
        /\ r.kind = "Hit" /\ "body" \in DOMAIN r =>
              /\ Min({Ticks, g[r.body]}) = r.way
              /\ \A c \in H : f[c] > r.way
<1>5. AnswersSweep(q, r, f, g) <=> Answers
  BY <1>1, <1>3, <1>4 DEF AnswersSweep
<1>6. r = IF opens # {} /\ (best.kind = "Miss" \/ ~(best.way < u.way))
          THEN [kind |-> "Unresolved", section |-> u.section] ELSE best
  BY DEF Foremost, Beaten
<1>7. \/ best.kind = "Miss" /\ "cell" \notin DOMAIN best /\ S = {}
      \/ /\ best.kind = "Hit" /\ S # {}
         /\ best.way \in Nat /\ best.way = Min(S)
         /\ "cell" \in DOMAIN best =>
               /\ "body" \notin DOMAIN best /\ best.cell \in H
               /\ best.block = CellAt(q.world, best.cell).block /\ best.way = MetAt(q, best.cell)
         /\ "cell" \notin DOMAIN best =>
               /\ best.body \in B /\ best.way = BodyWay(q, best.body)
               /\ \A c \in H : MetAt(q, c) > best.way
  BY DEF IsBest
<1>8. /\ opens = {} <=> T = {}
      /\ opens # {} =>
            /\ u.way \in Nat /\ u.way = Min(T)
            /\ u.section \notin DOMAIN q.world \/ q.world[u.section].presence \notin Stored
            /\ \E c \in U : MetAt(q, c) = u.way /\ SectionOf(c) = u.section
  BY DEF OpensMet
<1>9. /\ \A c \in H : f[c] = MetAt(q, c)
      /\ \A c \in U : f[c] = MetAt(q, c)
      /\ \A b \in B : Min({Ticks, g[b]}) = BodyWay(q, b)
  BY <1>2
<1> HIDE DEF H, U, B, S, T, u
<1>10. ASSUME opens # {} /\ (best.kind = "Miss" \/ ~(best.way < u.way))
       PROVE  AnswersSweep(q, r, f, g)
  <2>1. r.kind = "Unresolved" /\ r.section = u.section
    BY <1>6, <1>10
  <2>2. T # {} /\ (S = {} \/ Min(T) <= Min(S))
    BY <1>7, <1>8, <1>10
  <2>3. \E c \in U : f[c] = Min(T) /\ SectionOf(c) = r.section
    BY <1>8, <1>9, <1>10, <2>1
  <2>4. SameAsRead(q, r)
    BY <1>8, <1>10, <2>1 DEF SameAsRead
  <2>5. best.kind = "Hit" => S # {}
    BY <1>7
  <2>6. r.kind # "Miss" /\ r.kind # "Hit" /\ S \cup T # {}
    BY <2>1, <2>2
  <2>7. Answers
    BY <2>1, <2>2, <2>3, <2>4, <2>6
  <2> HIDE DEF Answers
  <2> QED BY <1>5, <2>7
<1>11. ASSUME ~(opens # {} /\ (best.kind = "Miss" \/ ~(best.way < u.way)))
       PROVE  AnswersSweep(q, r, f, g)
  <2>1. r = best /\ r.kind \in {"Hit", "Miss"} /\ r.kind # "Unresolved"
    BY <1>6, <1>7, <1>11
  <2>2. ~(T # {} /\ (S = {} \/ Min(T) <= Min(S)))
    <3>1. CASE opens = {}
      BY <1>8, <3>1
    <3>2. CASE opens # {}
      <4>1. best.kind = "Hit" /\ best.way < u.way
        BY <1>7, <1>11, <3>2
      <4> QED BY <1>7, <1>8, <3>2, <4>1
    <3> QED BY <3>1, <3>2
  <2>3. SameAsRead(q, r)
    BY <1>7, <2>1 DEF SameAsRead
  <2>4. r.kind = "Miss" <=> S \cup T = {}
    <3>1. r.kind = "Miss" <=> S = {}
      BY <1>7, <2>1
    <3>2. S = {} => T = {}
      BY <2>2
    <3> QED BY <3>1, <3>2
  <2>5. /\ r.kind = "Hit" => r.way = Min(S)
        /\ r.kind = "Hit" /\ "cell" \in DOMAIN r => f[r.cell] = r.way
        /\ r.kind = "Hit" /\ "body" \in DOMAIN r =>
              /\ Min({Ticks, g[r.body]}) = r.way
              /\ \A c \in H : f[c] > r.way
    BY <1>7, <1>9, <2>1
  <2>6. Answers
    BY <2>1, <2>2, <2>3, <2>4, <2>5
  <2> HIDE DEF Answers
  <2> QED BY <1>5, <2>6
<1> QED BY <1>10, <1>11 DEF f, g
(* What a box sweeps over, between two corners.                             *)
SweptLow(q) == [i \in Axis |-> Low(q.box)[i] + Min({0, q.dir[i]})]
SweptHigh(q) == [i \in Axis |-> High(q.box)[i] + Max({0, q.dir[i]})]

LEMMA SweptTyped ==
    ASSUME NEW q, IsSweep(q)
    PROVE  IsVector(SweptLow(q)) /\ IsVector(SweptHigh(q))
<1>1. \A i \in Axis : /\ q.box.center[i] \in Int /\ q.box.half[i] \in Int
                      /\ q.dir[i] \in Int
  BY DEF IsSweep, IsBox, IsWay, IsVector
<1>2. \A i \in Axis : Low(q.box)[i] \in Int /\ High(q.box)[i] \in Int
  BY <1>1 DEF Low, High
<1>3. \A i \in Axis : Min({0, q.dir[i]}) \in Int /\ Max({0, q.dir[i]}) \in Int
  BY <1>1, GreaterOf, LesserOf, 0 \in Int
<1> QED BY <1>2, <1>3 DEF IsVector, SweptLow, SweptHigh

(* A sweep that has its cells has the right answer.                         *)
LEMMA SweepFinds ==
    ASSUME NEW q, IsSweep(q), NEW n \in Nat, NEW list, NEW cells, cells \subseteq Triple,
           Listing(list, n, cells), NEW visits, SweepVisits(q, list, n, visits),
           NEW D, D = {b \in DOMAIN q.bodies : Met(MeetsBody(q, b))},
           NEW bodies, bodies = [b \in D |-> BodyHit(b, MeetsBody(q, b))],
           NEW r, r = SweepFound(visits, bodies)
    PROVE  IF MetOfKind(q, cells, "Error") # {} THEN r.kind = "Error"
           ELSE AnswersSweep(q, r, [c \in cells |-> MetAt(q, c)],
                             [b \in DOMAIN q.bodies |-> BodyMetAt(q, b)])
<1> DEFINE opens == {visits[i] : i \in OfVisits(visits, "Unresolved")}
           cell == First([i \in OfVisits(visits, "Hit") |-> visits[i]])
           body == First(bodies)
           best == BestOf(cell, body)
<1>1. r = IF OfVisits(visits, "Error") # {} THEN Kind("Error") ELSE Foremost(opens, best)
  BY DEF SweepFound, OfVisits
<1>2. FirstBlock(q, cells, cell)
  BY BlockFirst
<1>3. FirstBody(q, body)
  BY BodyFirst
<1> HIDE DEF cell, body
<1>4. IsBest(q, cells, best)
  BY <1>2, <1>3, BestIs
<1> HIDE DEF best
<1>5. OfVisits(visits, "Error") = {} <=> MetOfKind(q, cells, "Error") = {}
  <2>1. /\ \A i \in OfVisits(visits, "Error") : list[i] \in MetOfKind(q, cells, "Error")
        /\ \A c \in MetOfKind(q, cells, "Error") : \E i \in OfVisits(visits, "Error") : list[i] = c
    BY VisitsMet
  <2> QED BY <2>1
<1> HIDE DEF opens
<1>6. OpensMet(q, cells, opens)
  <2>1. opens = {visits[i] : i \in OfVisits(visits, "Unresolved")}
    BY DEF opens
  <2>2. \A x : x = {visits[i] : i \in OfVisits(visits, "Unresolved")} => OpensMet(q, cells, x)
    BY OpenFirst
  <2> QED BY <2>1, <2>2
<1>7. CASE MetOfKind(q, cells, "Error") # {}
  BY <1>1, <1>5, <1>7 DEF Kind
<1>8. CASE MetOfKind(q, cells, "Error") = {}
  <2>1. r = Foremost(opens, best)
    BY <1>1, <1>5, <1>8
  <2>2. AnswersSweep(q, r, [c \in cells |-> MetAt(q, c)],
                     [b \in DOMAIN q.bodies |-> BodyMetAt(q, b)])
    BY <1>4, <1>6, <2>1, SweepAnswered
  <2> QED BY <1>8, <2>2
<1> QED BY <1>7, <1>8

(* A sweep answers as the ticks at which its box touches cells and bodies.  *)
LEMMA SweepRight ==
    ASSUME NEW q, IsSweep(q)
    PROVE  SweepAgrees(q)
<1> DEFINE lo == SweptLow(q)
           hi == SweptHigh(q)
           g == RangeOf(lo, hi)
           cells == CellsBetween(lo, hi)
           n == BoxCount(g.lo, g.hi)
           list == CellsIn(g.lo, g.hi)
           met == {i \in DOMAIN list : Met(MeetsCell(q, list[i]))}
           visits == [i \in met |-> Joined(BlockAt(q, list[i]), MeetsCell(q, list[i]))]
           D == {b \in DOMAIN q.bodies : Met(MeetsBody(q, b))}
           bodies == [b \in D |-> BodyHit(b, MeetsBody(q, b))]
           f == [c \in cells |-> MetAt(q, c)]
           h == [b \in DOMAIN q.bodies |-> BodyMetAt(q, b)]
           r == Sweep(q)
<1>1. g = SweptRange(q)
  BY DEF SweptRange, SweptLow, SweptHigh
<1>2. r = IF NoRange(g) THEN Kind("Miss") ELSE IF TooLarge(g) THEN Kind("Error")
          ELSE SweepFound(visits, bodies)
  BY <1>1 DEF Sweep
<1>3. TooLarge(g) <=> n > MaxCells
  BY DEF TooLarge
<1>4. SweepAgrees(q) <=>
        IF cells = {} THEN r.kind = "Miss"
        ELSE IF Cardinality(cells) > MaxCells
                \/ \E c \in cells : f[c] # Never /\ BlockAt(q, c).kind = "Error"
        THEN r.kind = "Error" ELSE AnswersSweep(q, r, f, h)
  BY DEF SweepAgrees, MetAt, BodyMetAt, SweptLow, SweptHigh
<1>5. (\E c \in cells : f[c] # Never /\ BlockAt(q, c).kind = "Error")
        <=> MetOfKind(q, cells, "Error") # {}
  BY DEF MetOfKind
<1>6. DOMAIN visits = {i \in DOMAIN list : Met(MeetsCell(q, list[i]))}
      /\ \A i \in DOMAIN visits : visits[i] = Joined(BlockAt(q, list[i]), MeetsCell(q, list[i]))
  OBVIOUS
<1>7. IsVector(lo) /\ IsVector(hi)
  BY SweptTyped
<1> HIDE DEF lo, hi, g, r, met, visits
<1>8. /\ g.lo \in Triple /\ g.hi \in Triple
      /\ NoRange(g) <=> ~Ordered(g.lo, g.hi)
      /\ cells = CellsOf(g.lo, g.hi)
      /\ NoRange(g) <=> cells = {}
  <2>1. g = RangeOf(lo, hi)
    BY DEF g
  <2> QED BY <1>7, <2>1, RangeRight
<1> HIDE DEF cells, n, list
<1>9. CASE NoRange(g)
  <2>1. r.kind = "Miss"
    BY <1>2, <1>9 DEF Kind
  <2> HIDE DEF f, h
  <2> QED BY <1>4, <1>8, <1>9, <2>1
<1>10. ASSUME ~NoRange(g)
       PROVE  /\ n \in Nat /\ cells \subseteq Triple /\ Cardinality(cells) = n
              /\ Listing(list, n, cells) /\ cells # {} /\ DOMAIN list = 1..n
  <2>1. Ordered(g.lo, g.hi) /\ cells # {}
    BY <1>8, <1>10
  <2>2. n \in Nat
    BY <1>8, <2>1, SpansOfBox DEF n
  <2>3. Cardinality(cells) = n
    BY <1>8, <2>1, BoxCounted DEF n
  <2>4. Listing(list, n, cells)
    BY <1>8, <2>1, BoxListed DEF n, list, Listing, Once
  <2>5. cells \subseteq Triple
    BY <1>8 DEF CellsOf, Triple
  <2>6. DOMAIN list = 1..n
    BY <1>8, <2>1, BoxListed DEF n, list
  <2> QED BY <2>1, <2>2, <2>3, <2>4, <2>5, <2>6
<1>11. CASE ~NoRange(g) /\ n > MaxCells
  <2>1. r.kind = "Error"
    BY <1>2, <1>3, <1>11 DEF Kind
  <2>2. cells # {} /\ Cardinality(cells) > MaxCells
    BY <1>10, <1>11
  <2> HIDE DEF f, h
  <2> QED BY <1>4, <2>1, <2>2
<1>12. CASE ~NoRange(g) /\ ~(n > MaxCells)
  <2>1. /\ n \in Nat /\ cells \subseteq Triple /\ Cardinality(cells) = n
        /\ Listing(list, n, cells) /\ cells # {} /\ DOMAIN list = 1..n
    BY <1>10, <1>12
  <2>2. SweepVisits(q, list, n, visits)
    BY <1>6, <2>1 DEF SweepVisits
  <2>3. r = SweepFound(visits, bodies)
    BY <1>2, <1>3, <1>12
  <2>4. IF MetOfKind(q, cells, "Error") # {} THEN r.kind = "Error"
        ELSE AnswersSweep(q, r, f, h)
    BY <2>1, <2>2, <2>3, SweepFinds
  <2> HIDE DEF f, h
  <2>5. ~(Cardinality(cells) > MaxCells)
    BY <1>12, <2>1
  <2> QED BY <1>4, <1>5, <2>1, <2>4, <2>5
<1> QED BY <1>9, <1>11, <1>12
----------------------------------------------------------------------------
(* PhysicsHolds: the answer of every ray, every overlap and every sweep of  *)
(* every published cut is the one that its ticks and cells give: what is    *)
(* met first on the way, what shares more than a surface with the box, a    *)
(* section without blocks as what it is and never as air or wall, and the   *)
(* same blocks as the block reads of the cut.                               *)
THEOREM PhysicsRight == PhysicsSpec => []PhysicsHolds
<1>1. ASSUME question = NoQuestion
      PROVE  PhysicsHolds
  <2>1. question.query = "none"
    BY <1>1 DEF NoQuestion
  <2> QED BY <2>1 DEF PhysicsHolds
<1>2. ASSUME PhysicsHolds,
             [/\ question = NoQuestion
              /\ IsRay(question') \/ IsOverlap(question') \/ IsSweep(question')]_question
      PROVE  PhysicsHolds'
  <2>1. CASE IsRay(question')
    <3>1. RayAgrees(question') /\ question'.query = "ray"
      BY <2>1, RayRight DEF IsRay
    <3> QED BY <3>1 DEF PhysicsHolds, PhysicsAgrees
  <2>2. CASE IsOverlap(question')
    <3>1. OverlapAgrees(question') /\ question'.query = "overlap"
      BY <2>2, OverlapRight DEF IsOverlap
    <3> QED BY <3>1 DEF PhysicsHolds, PhysicsAgrees
  <2>3. CASE IsSweep(question')
    <3>1. SweepAgrees(question') /\ question'.query = "sweep"
      BY <2>3, SweepRight DEF IsSweep
    <3> QED BY <3>1 DEF PhysicsHolds, PhysicsAgrees
  <2>4. CASE UNCHANGED question
    BY <1>2, <2>4 DEF PhysicsHolds
  <2> QED BY <1>2, <2>1, <2>2, <2>3, <2>4
<1> QED BY <1>1, <1>2, PTL DEF PhysicsSpec
===============================================================================
