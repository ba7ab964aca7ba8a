------------------------------ MODULE ReadProofs ------------------------------
(***************************************************************************)
(* Theorems about the reads of blocks and the queries of sections.         *)
(*                                                                         *)
(* Reads, for any view, any box, any pins and any buffers: a box asked for *)
(* in any way gives the same answer.  Queries, for any texts, views,       *)
(* budgets and pins: which texts are keys, that the sections they name can *)
(* be listed in order, what a plan and a walk make of them.                *)
(***************************************************************************)
EXTENDS SectionQuery, FiniteSetTheorems, WellFoundedInduction, SequenceTheorems, TLAPS

----------------------------------------------------------------------------
(* Induction, enumerations and division.                                    *)

(* A claim about every number holds if no number is the least one that      *)
(* refutes it.                                                              *)
LEMMA LeastNumber ==
    ASSUME NEW T, T \subseteq Nat, T # {}
    PROVE  \E n \in T : \A m \in T : n <= m
<1> DEFINE R == OpToRel(<, Nat)
<1>1. PICK x \in T : \A y \in T : <<y, x>> \notin R
  BY NatLessThanWellFounded, WFMin
<1>2. \A y \in T : ~(y < x)
  BY <1>1 DEF OpToRel
<1> QED BY <1>2

(* What is listed without repetition is as many as the list is long.        *)
LEMMA Enumerated ==
    ASSUME NEW n \in Nat, NEW f, DOMAIN f = 1..n, \A i, j \in 1..n : f[i] = f[j] => i = j,
           NEW S, S = {f[i] : i \in 1..n}
    PROVE  IsFiniteSet(S) /\ Cardinality(S) = n
<1> DEFINE g == [i \in 1..n |-> f[i]]
<1>1. g \in Surjection(1..n, S) /\ g \in Injection(1..n, S)
  BY DEF Surjection, Injection, IsInjective
<1>2. IsFiniteSet(1..n) /\ Cardinality(1..n) = n
  BY 1 \in Int, n \in Int, FS_Interval
<1> QED BY <1>1, <1>2, FS_Surjection

(* A number is q times b and a rest.                                        *)
Rest(s, b, q, r) == q \in Int /\ r \in 0..b - 1 /\ s = q * b + r

(* Quotient and rest are the ones with which a number is written.           *)
LEMMA Divided ==
    ASSUME NEW b \in Nat \ {0}, NEW s, NEW q, NEW r, Rest(s, b, q, r)
    PROVE  s \div b = q /\ s % b = r
BY DEF Rest

LEMMA Divides ==
    ASSUME NEW b \in Nat \ {0}, NEW s \in Int
    PROVE  Rest(s, b, s \div b, s % b)
BY DEF Rest

(* Division by an extent keeps the order, and leaves no quotient out.       *)
LEMMA DividedOrder ==
    ASSUME NEW b \in Nat \ {0}, NEW s \in Int, NEW t \in Int, s <= t
    PROVE  s \div b <= t \div b
<1> DEFINE q == s \div b
           p == t \div b
<1>1. Rest(s, b, q, s % b) /\ Rest(t, b, p, t % b)
  BY Divides
<1>2. q \in Int /\ p \in Int /\ q * b <= s /\ t < (p + 1) * b
  BY <1>1 DEF Rest
<1> HIDE DEF q, p
<1>3. q * b < (p + 1) * b
  BY <1>2
<1>4. SUFFICES ASSUME q >= p + 1 PROVE FALSE
  BY <1>2 DEF q, p
<1>5. (q - (p + 1)) * b >= 0
  BY <1>2, <1>4
<1> QED BY <1>2, <1>3, <1>5

Between(s, t, b, q) ==
    /\ b \in Nat \ {0} /\ s \in Int /\ t \in Int /\ s <= t
    /\ q \in Int /\ s \div b <= q /\ q <= t \div b
Reached(s, t, b, q) == \E c \in Int : s <= c /\ c <= t /\ c \div b = q

LEMMA DividedOnto ==
    ASSUME NEW b, NEW s, NEW t, NEW q, Between(s, t, b, q)
    PROVE  Reached(s, t, b, q)
<1> USE DEF Between, Reached
<1>1. Rest(s, b, s \div b, s % b) /\ Rest(t, b, t \div b, t % b)
  BY Divides
<1>2. CASE q = s \div b
  BY <1>2
<1>3. CASE q # s \div b
  <2> DEFINE p == s \div b
             u == t \div b
  <2>1. /\ p \in Int /\ u \in Int /\ p + 1 <= q /\ q <= u
        /\ s < (p + 1) * b /\ u * b <= t
    BY <1>1, <1>3 DEF Rest
  <2> HIDE DEF p, u
  <2>2. (q - (p + 1)) * b >= 0 /\ (u - q) * b >= 0
    BY <2>1
  <2>3. s <= q * b /\ q * b <= t
    BY <2>1, <2>2
  <2>4. q * b \in Int /\ Rest(q * b, b, q, 0)
    BY DEF Rest
  <2>5. (q * b) \div b = q
    BY <2>4, Divided
  <2> QED BY <2>3, <2>4, <2>5
<1> QED BY <1>2, <1>3

----------------------------------------------------------------------------
(* Coordinates.                                                             *)

Triple == Int \X Int \X Int

LEMMA SectionTyped ==
    ASSUME NEW c \in Triple
    PROVE  /\ SectionOf(c) = <<c[1] \div Extent, c[2] \div Extent, c[3] \div Extent>>
           /\ SectionOf(c) \in Triple
BY KeysAssumption DEF SectionOf, Triple

Ordered(lo, hi) == \A i \in 1..3 : lo[i] <= hi[i]

(* The sections of a box of cells are a box of sections.                    *)
LEMMA BoxOfSections ==
    ASSUME NEW lo \in Triple, NEW hi \in Triple, Ordered(lo, hi)
    PROVE  {SectionOf(c) : c \in CellsOf(lo, hi)} = RegionSections(lo, hi)
<1> USE DEF Triple
<1> DEFINE Touched == {SectionOf(c) : c \in CellsOf(lo, hi)}
<1>0. Extent \in Nat \ {0}
  BY KeysAssumption
<1>1. /\ SectionOf(lo) = <<lo[1] \div Extent, lo[2] \div Extent, lo[3] \div Extent>>
      /\ SectionOf(hi) = <<hi[1] \div Extent, hi[2] \div Extent, hi[3] \div Extent>>
  BY SectionTyped
<1>2. ASSUME NEW c \in CellsOf(lo, hi)
      PROVE  SectionOf(c) \in RegionSections(lo, hi)
  <2>1. c \in Triple /\ \A i \in 1..3 : lo[i] <= c[i] /\ c[i] <= hi[i]
    BY DEF CellsOf
  <2>2. /\ SectionOf(c) = <<c[1] \div Extent, c[2] \div Extent, c[3] \div Extent>>
        /\ c[1] \div Extent \in Int /\ c[2] \div Extent \in Int /\ c[3] \div Extent \in Int
    BY <1>0, <2>1, SectionTyped
  <2>3. \A i \in 1..3 : lo[i] \in Int /\ c[i] \in Int /\ hi[i] \in Int
    BY <2>1
  <2>4. \A i \in 1..3 : lo[i] \div Extent <= c[i] \div Extent /\ c[i] \div Extent <= hi[i] \div Extent
    BY <1>0, <2>1, <2>3, DividedOrder
  <2>5. \A i \in 1..3 : lo[i] \div Extent \in Int /\ hi[i] \div Extent \in Int
    BY <1>0, <2>3
  <2> QED BY <1>1, <2>2, <2>4, <2>5 DEF RegionSections
<1>3. ASSUME NEW s \in RegionSections(lo, hi)
      PROVE  s \in Touched
  <2>1. /\ s \in Triple
        /\ \A i \in 1..3 : lo[i] \div Extent <= s[i] /\ s[i] <= hi[i] \div Extent
    BY <1>0, <1>1 DEF RegionSections
  <2>2. \A i \in 1..3 : lo[i] \in Int /\ hi[i] \in Int /\ lo[i] <= hi[i] /\ s[i] \in Int
    BY <2>1 DEF Ordered
  <2>3. \A i \in 1..3 : Reached(lo[i], hi[i], Extent, s[i])
    <3> TAKE i \in 1..3
    <3>1. Between(lo[i], hi[i], Extent, s[i])
      BY <1>0, <2>1, <2>2 DEF Between
    <3> QED BY <3>1, DividedOnto
  <2>4. PICK x \in Int : lo[1] <= x /\ x <= hi[1] /\ x \div Extent = s[1]
    BY <2>3 DEF Reached
  <2>5. PICK y \in Int : lo[2] <= y /\ y <= hi[2] /\ y \div Extent = s[2]
    BY <2>3 DEF Reached
  <2>6. PICK z \in Int : lo[3] <= z /\ z <= hi[3] /\ z \div Extent = s[3]
    BY <2>3 DEF Reached
  <2> DEFINE c == <<x, y, z>>
  <2>7. c \in CellsOf(lo, hi) /\ c \in Triple
    BY <2>2, <2>4, <2>5, <2>6 DEF CellsOf
  <2>8. SectionOf(c) = <<x \div Extent, y \div Extent, z \div Extent>>
    BY <2>7, SectionTyped
  <2>9. s = SectionOf(c)
    BY <2>1, <2>4, <2>5, <2>6, <2>8
  <2> QED BY <2>7, <2>9
<1> QED BY <1>2, <1>3

----------------------------------------------------------------------------
(* The cells of a box, listed.                                              *)

(* k is the number of the cell that is x, y and z away from the first one,  *)
(* in a box of a times h times b.                                           *)
Digits(k, a, b, h, x, y, z) ==
    /\ x \in 0..a - 1 /\ y \in 0..h - 1 /\ z \in 0..b - 1
    /\ k = (y * b + z) * a + x

LEMMA DigitsOfNumber ==
    ASSUME NEW a \in Nat \ {0}, NEW b \in Nat \ {0}, NEW h \in Nat \ {0},
           NEW k \in 0 .. a * h * b - 1
    PROVE  Digits(k, a, b, h, k % a, k \div (a * b), (k % (a * b)) \div a)
<1> DEFINE d == a * b
           w == k % d
           y == k \div d
           z == w \div a
           x == w % a
<1>1. d = a * b /\ d \in Nat \ {0} /\ k \in Int
  OBVIOUS
<1> HIDE DEF d
<1>2. y \in Int /\ w \in 0 .. a * b - 1 /\ k = y * (a * b) + w
  <2>1. Rest(k, d, y, w)
    BY <1>1, Divides
  <2> QED BY <1>1, <2>1 DEF Rest
<1> HIDE DEF w, y
<1>3. z \in Int /\ x \in 0..a - 1 /\ w = z * a + x
  <2>1. Rest(w, a, z, x)
    BY <1>2, Divides
  <2> QED BY <2>1 DEF Rest
<1> HIDE DEF w, y, z, x
<1>4. z \in 0..b - 1
  <2>1. SUFFICES ~(z <= -1) /\ ~(z >= b)
    BY <1>3
  <2>2. ASSUME z <= -1 PROVE FALSE
    <3>1. (-1 - z) * a >= 0
      BY <1>3, <2>2
    <3> QED BY <1>2, <1>3, <3>1
  <2>3. ASSUME z >= b PROVE FALSE
    <3>1. (z - b) * a >= 0
      BY <1>3, <2>3
    <3> QED BY <1>2, <1>3, <3>1
  <2> QED BY <2>2, <2>3
<1>5. y \in 0..h - 1
  <2>1. SUFFICES ~(y <= -1) /\ ~(y >= h)
    BY <1>2
  <2>2. ASSUME y <= -1 PROVE FALSE
    <3>1. (-1 - y) * (a * b) >= 0
      BY <1>1, <1>2, <2>2
    <3> QED BY <1>1, <1>2, <3>1
  <2>3. ASSUME y >= h PROVE FALSE
    <3>1. (y - h) * (a * b) >= 0
      BY <1>1, <1>2, <2>3
    <3>2. a * h * b = h * (a * b)
      OBVIOUS
    <3> QED BY <1>1, <1>2, <3>1, <3>2
  <2> QED BY <2>2, <2>3
<1>6. k = (y * b + z) * a + x
  BY <1>2, <1>3
<1>7. k % a = x
  <2>1. Rest(k, a, y * b + z, x)
    BY <1>2, <1>3, <1>6 DEF Rest
  <2> QED BY <2>1, Divided
<1> QED BY <1>1, <1>3, <1>4, <1>5, <1>6, <1>7 DEF Digits, w, y, z, x

LEMMA NumberOfDigits ==
    ASSUME NEW a \in Nat \ {0}, NEW b \in Nat \ {0}, NEW h \in Nat \ {0},
           NEW k, NEW x, NEW y, NEW z, Digits(k, a, b, h, x, y, z)
    PROVE  /\ k \in 0 .. a * h * b - 1
           /\ x = k % a /\ y = k \div (a * b) /\ z = (k % (a * b)) \div a
<1>1. /\ x \in 0..a - 1 /\ y \in 0..h - 1 /\ z \in 0..b - 1
      /\ k = (y * b + z) * a + x
  BY DEF Digits
<1> DEFINE w == z * a + x
<1>2. w \in 0 .. a * b - 1
  <2>1. (b - 1 - z) * a >= 0 /\ z * a >= 0
    BY <1>1
  <2> QED BY <1>1, <2>1
<1>3. a * b \in Nat \ {0} /\ k = y * (a * b) + w
  BY <1>1
<1> HIDE DEF w
<1>4. k \in 0 .. a * h * b - 1
  <2>1. (h - 1 - y) * (a * b) >= 0 /\ y * (a * b) >= 0
    BY <1>1, <1>3
  <2>2. a * h * b = h * (a * b)
    OBVIOUS
  <2> QED BY <1>1, <1>2, <1>3, <2>1, <2>2
<1>5. Rest(k, a * b, y, w)
  BY <1>1, <1>2, <1>3 DEF Rest
<1>6. k \div (a * b) = y /\ k % (a * b) = w
  BY <1>3, <1>5, Divided
<1>7. Rest(w, a, z, x)
  BY <1>1 DEF Rest, w
<1>8. w \div a = z
  BY <1>7, Divided
<1>9. Rest(k, a, y * b + z, x)
  BY <1>1 DEF Rest
<1>10. k % a = x
  BY <1>9, Divided
<1> QED BY <1>4, <1>6, <1>8, <1>10

LEMMA SpansOfBox ==
    ASSUME NEW lo \in Triple, NEW hi \in Triple, Ordered(lo, hi)
    PROVE  /\ \A i \in 1..3 : Span(lo, hi, i) \in Nat \ {0}
           /\ BoxCount(lo, hi) \in Nat \ {0}
           /\ BoxCount(lo, hi) = Span(lo, hi, 1) * Span(lo, hi, 2) * Span(lo, hi, 3)
<1>1. \A i \in 1..3 : lo[i] \in Int /\ hi[i] \in Int /\ lo[i] <= hi[i]
  BY DEF Triple, Ordered
<1>2. \A i \in 1..3 : Span(lo, hi, i) \in Nat \ {0}
  BY <1>1 DEF Span
<1> DEFINE a == Span(lo, hi, 1)
           h == Span(lo, hi, 2)
           b == Span(lo, hi, 3)
<1>3. a \in Nat \ {0} /\ h \in Nat \ {0} /\ b \in Nat \ {0}
  BY <1>2
<1> HIDE DEF a, h, b
<1>4. a * h * b \in Nat \ {0}
  BY <1>3
<1> QED BY <1>2, <1>4 DEF BoxCount, a, h, b

(* Every cell of a box is listed once, and the list is as long as the box   *)
(* has cells.                                                               *)
LEMMA BoxListed ==
    ASSUME NEW lo \in Triple, NEW hi \in Triple, Ordered(lo, hi)
    PROVE  /\ DOMAIN CellsIn(lo, hi) = 1..BoxCount(lo, hi)
           /\ \A i \in 1..BoxCount(lo, hi) : CellsIn(lo, hi)[i] \in CellsOf(lo, hi)
           /\ \A c \in CellsOf(lo, hi) : \E i \in 1..BoxCount(lo, hi) : CellsIn(lo, hi)[i] = c
           /\ \A i, j \in 1..BoxCount(lo, hi) :
                 CellsIn(lo, hi)[i] = CellsIn(lo, hi)[j] => i = j
<1> DEFINE a == Span(lo, hi, 1)
           h == Span(lo, hi, 2)
           b == Span(lo, hi, 3)
           n == BoxCount(lo, hi)
           X(k) == k % a
           Y(k) == k \div (a * b)
           Z(k) == (k % (a * b)) \div a
           cells == CellsIn(lo, hi)
<1>1. a \in Nat \ {0} /\ h \in Nat \ {0} /\ b \in Nat \ {0} /\ n \in Nat \ {0} /\ n = a * h * b
  BY SpansOfBox
<1>2. /\ lo[1] \in Int /\ lo[2] \in Int /\ lo[3] \in Int
      /\ hi[1] \in Int /\ hi[2] \in Int /\ hi[3] \in Int
  BY DEF Triple
<1>3. hi[1] = lo[1] + a - 1 /\ hi[2] = lo[2] + h - 1 /\ hi[3] = lo[3] + b - 1
  BY <1>2 DEF Span
<1>4. DOMAIN cells = 1..n
  BY DEF CellsIn
<1>5. \A i \in 1..n :
         /\ i - 1 \in 0 .. n - 1
         /\ cells[i] = <<lo[1] + X(i - 1), lo[2] + Y(i - 1), lo[3] + Z(i - 1)>>
  BY <1>1 DEF CellsIn
<1> HIDE DEF a, h, b, n, cells
<1>6. \A k \in 0 .. n - 1 : Digits(k, a, b, h, X(k), Y(k), Z(k))
  BY <1>1, DigitsOfNumber
<1> HIDE DEF X, Y, Z
<1>7. \A i \in 1..n : cells[i] \in CellsOf(lo, hi)
  <2> TAKE i \in 1..n
  <2> DEFINE k == i - 1
  <2>1. k \in 0 .. n - 1 /\ cells[i] = <<lo[1] + X(k), lo[2] + Y(k), lo[3] + Z(k)>>
    BY <1>5
  <2> HIDE DEF k
  <2>2. X(k) \in 0..a - 1 /\ Y(k) \in 0..h - 1 /\ Z(k) \in 0..b - 1
    BY <1>6, <2>1 DEF Digits
  <2>3. /\ lo[1] + X(k) \in lo[1]..hi[1]
        /\ lo[2] + Y(k) \in lo[2]..hi[2]
        /\ lo[3] + Z(k) \in lo[3]..hi[3]
    BY <1>1, <1>2, <1>3, <2>2
  <2> QED BY <2>1, <2>3 DEF CellsOf
<1>8. \A c \in CellsOf(lo, hi) : \E i \in 1..n : cells[i] = c
  <2> TAKE c \in CellsOf(lo, hi)
  <2> DEFINE x == c[1] - lo[1]
             y == c[2] - lo[2]
             z == c[3] - lo[3]
             k == (y * b + z) * a + x
  <2>1. /\ c = <<c[1], c[2], c[3]>>
        /\ c[1] \in lo[1]..hi[1] /\ c[2] \in lo[2]..hi[2] /\ c[3] \in lo[3]..hi[3]
    BY DEF CellsOf
  <2>2. x \in 0..a - 1 /\ y \in 0..h - 1 /\ z \in 0..b - 1
    BY <1>1, <1>2, <1>3, <2>1
  <2>3. c = <<lo[1] + x, lo[2] + y, lo[3] + z>>
    BY <1>2, <2>1
  <2> HIDE DEF x, y, z
  <2>4. Digits(k, a, b, h, x, y, z)
    BY <2>2 DEF Digits
  <2> HIDE DEF k
  <2>5. k \in 0 .. n - 1 /\ x = X(k) /\ y = Y(k) /\ z = Z(k)
    BY <1>1, <2>4, NumberOfDigits DEF X, Y, Z
  <2>6. k + 1 \in 1..n /\ (k + 1) - 1 = k
    BY <1>1, <2>5
  <2>7. cells[k + 1] = c
    BY <1>5, <2>3, <2>5, <2>6
  <2> QED BY <2>6, <2>7
<1>9. \A i, j \in 1..n : cells[i] = cells[j] => i = j
  <2> TAKE i, j \in 1..n
  <2> HAVE cells[i] = cells[j]
  <2> DEFINE k == i - 1
             l == j - 1
  <2>1. /\ k \in 0 .. n - 1 /\ cells[i] = <<lo[1] + X(k), lo[2] + Y(k), lo[3] + Z(k)>>
        /\ l \in 0 .. n - 1 /\ cells[j] = <<lo[1] + X(l), lo[2] + Y(l), lo[3] + Z(l)>>
    BY <1>5
  <2>2. k = l => i = j
    BY <1>1
  <2> HIDE DEF k, l
  <2>3. Digits(k, a, b, h, X(k), Y(k), Z(k)) /\ Digits(l, a, b, h, X(l), Y(l), Z(l))
    BY <1>6, <2>1
  <2> DEFINE xk == X(k)  xl == X(l)  yk == Y(k)  yl == Y(l)  zk == Z(k)  zl == Z(l)
  <2>4. /\ xk \in Int /\ xl \in Int /\ yk \in Int /\ yl \in Int /\ zk \in Int /\ zl \in Int
    BY <2>3 DEF Digits
  <2>5. <<lo[1] + xk, lo[2] + yk, lo[3] + zk>> = <<lo[1] + xl, lo[2] + yl, lo[3] + zl>>
    BY <2>1
  <2> HIDE DEF xk, xl, yk, yl, zk, zl
  <2>6. xk = xl /\ yk = yl /\ zk = zl
    BY <1>2, <2>4, <2>5
  <2>7. k = l
    BY <2>3, <2>6 DEF Digits, xk, xl, yk, yl, zk, zl
  <2> QED BY <2>2, <2>7
<1> QED BY <1>4, <1>7, <1>8, <1>9 DEF n, cells

LEMMA BoxCounted ==
    ASSUME NEW lo \in Triple, NEW hi \in Triple, Ordered(lo, hi)
    PROVE  /\ IsFiniteSet(CellsOf(lo, hi))
           /\ Cardinality(CellsOf(lo, hi)) = BoxCount(lo, hi)
           /\ CellsOf(lo, hi) = {CellsIn(lo, hi)[i] : i \in 1..BoxCount(lo, hi)}
<1>1. BoxCount(lo, hi) \in Nat
  BY SpansOfBox
<1>2. CellsOf(lo, hi) = {CellsIn(lo, hi)[i] : i \in 1..BoxCount(lo, hi)}
  BY BoxListed
<1> QED BY <1>1, <1>2, BoxListed, Enumerated

----------------------------------------------------------------------------
(* Regions.                                                                 *)

SectionsTouched(lo, hi) == {SectionOf(c) : c \in CellsOf(lo, hi)}

LEMMA NoCells ==
    ASSUME NEW lo \in Triple, NEW hi \in Triple, ~Ordered(lo, hi)
    PROVE  CellsOf(lo, hi) = {} /\ SectionsTouched(lo, hi) = {}
<1>1. ~(lo[1] <= hi[1]) \/ ~(lo[2] <= hi[2]) \/ ~(lo[3] <= hi[3])
  BY DEF Ordered
<1>2. /\ lo[1] \in Int /\ lo[2] \in Int /\ lo[3] \in Int
      /\ hi[1] \in Int /\ hi[2] \in Int /\ hi[3] \in Int
  BY DEF Triple
<1>3. lo[1]..hi[1] = {} \/ lo[2]..hi[2] = {} \/ lo[3]..hi[3] = {}
  BY <1>1, <1>2
<1>4. CellsOf(lo, hi) = {}
  BY <1>3 DEF CellsOf
<1> QED BY <1>4 DEF SectionsTouched

(* The region of a pin is counted as the sections that a read of the box    *)
(* touches.                                                                 *)
LEMMA RegionCounted ==
    ASSUME NEW lo \in Triple, NEW hi \in Triple, Ordered(lo, hi)
    PROVE  /\ SectionsTouched(lo, hi) = RegionSections(lo, hi)
           /\ LET span == RegionSpan(lo, hi) IN
              /\ span[1] * span[2] * span[3] \in Nat \ {0}
              /\ Cardinality(RegionSections(lo, hi)) = span[1] * span[2] * span[3]
<1> DEFINE s == SectionOf(lo)
           t == SectionOf(hi)
<1>1. s \in Triple /\ t \in Triple
  BY SectionTyped
<1>2. Ordered(s, t)
  <2>1. \A i \in 1..3 : lo[i] \in Int /\ hi[i] \in Int /\ lo[i] <= hi[i]
    BY DEF Ordered, Triple
  <2>2. \A i \in 1..3 : s[i] = lo[i] \div Extent /\ t[i] = hi[i] \div Extent
    BY DEF SectionOf
  <2>3. \A i \in 1..3 : lo[i] \div Extent <= hi[i] \div Extent
    BY <2>1, KeysAssumption, DividedOrder
  <2> QED BY <2>2, <2>3 DEF Ordered
<1>3. RegionSections(lo, hi) = CellsOf(s, t)
  BY DEF RegionSections, CellsOf
<1>4. \A i \in 1..3 : RegionSpan(lo, hi)[i] = Span(s, t, i)
  BY DEF RegionSpan, Span
<1>5. SectionsTouched(lo, hi) = RegionSections(lo, hi)
  BY BoxOfSections DEF SectionsTouched
<1> HIDE DEF s, t
<1>6. /\ Cardinality(CellsOf(s, t)) = BoxCount(s, t)
      /\ BoxCount(s, t) \in Nat \ {0}
      /\ BoxCount(s, t) = Span(s, t, 1) * Span(s, t, 2) * Span(s, t, 3)
  BY <1>1, <1>2, BoxCounted, SpansOfBox
<1> QED BY <1>3, <1>4, <1>5, <1>6

LEMMA RegionRight ==
    ASSUME NEW q, q.lo \in Triple, q.hi \in Triple
    PROVE  RegionAgrees(q, SectionsTouched(q.lo, q.hi))
<1> DEFINE lo == q.lo
           hi == q.hi
           S == SectionsTouched(lo, hi)
           span == RegionSpan(lo, hi)
           size == span[1] * span[2] * span[3]
<1>1. lo \in Triple /\ hi \in Triple
  OBVIOUS
<1>2. \A n \in 0..4 : RegionAdmitted(lo, hi, n) <=>
         Ordered(lo, hi) /\ IsWorldY(lo[2]) /\ IsWorldY(hi[2]) /\ size <= n
  BY DEF RegionAdmitted, Ordered
<1>3. \A n \in 0..4 : RegionAdmitted(lo, hi, n) \in BOOLEAN
  BY DEF RegionAdmitted
<1> HIDE DEF lo, hi
<1>4. CASE Ordered(lo, hi)
  <2>1. S = RegionSections(lo, hi) /\ size \in Nat \ {0} /\ Cardinality(RegionSections(lo, hi)) = size
    BY <1>1, <1>4, RegionCounted
  <2> HIDE DEF S, size
  <2>2. \A n \in 0..4 : Cardinality(S) \in 1..n <=> size <= n
    BY <2>1
  <2>3. \A n \in 0..4 :
           /\ RegionAdmitted(lo, hi, n) =
                 (IsWorldY(lo[2]) /\ IsWorldY(hi[2]) /\ Cardinality(S) \in 1..n)
           /\ RegionAdmitted(lo, hi, n) => RegionSections(lo, hi) = S
    BY <1>2, <1>3, <1>4, <2>1, <2>2
  <2> QED BY <2>3 DEF RegionAgrees, S, lo, hi
<1>5. CASE ~Ordered(lo, hi)
  <2>1. S = {} /\ Cardinality(S) = 0
    BY <1>1, <1>5, NoCells, FS_EmptySet
  <2> HIDE DEF S
  <2>2. \A n \in 0..4 : ~(Cardinality(S) \in 1..n)
    BY <2>1
  <2>3. \A n \in 0..4 :
           /\ RegionAdmitted(lo, hi, n) =
                 (IsWorldY(lo[2]) /\ IsWorldY(hi[2]) /\ Cardinality(S) \in 1..n)
           /\ RegionAdmitted(lo, hi, n) => RegionSections(lo, hi) = S
    BY <1>2, <1>3, <1>5, <2>2
  <2> QED BY <2>3 DEF RegionAgrees, S, lo, hi
<1> QED BY <1>4, <1>5

----------------------------------------------------------------------------
(* Cells as they are read.                                                  *)

LEMMA OffsetTyped ==
    ASSUME NEW c \in Triple
    PROVE  OffsetOf(c) \in CellOffset
<1> DEFINE x == c[1] % Extent
           y == c[2] % Extent
           z == c[3] % Extent
           k == (y * Extent + z) * Extent + x
<1>1. Extent \in Nat \ {0}
  BY KeysAssumption
<1>2. x \in 0 .. Extent - 1 /\ y \in 0 .. Extent - 1 /\ z \in 0 .. Extent - 1
  <2>1. c[1] \in Int /\ c[2] \in Int /\ c[3] \in Int
    BY DEF Triple
  <2> QED BY <1>1, <2>1
<1>3. OffsetOf(c) = y * Extent * Extent + z * Extent + x
  BY DEF OffsetOf
<1> HIDE DEF x, y, z
<1>4. OffsetOf(c) = k
  BY <1>1, <1>2, <1>3
<1>5. Digits(k, Extent, Extent, Extent, x, y, z)
  BY <1>2 DEF Digits
<1> HIDE DEF k
<1>6. k \in 0 .. Extent * Extent * Extent - 1
  BY <1>1, <1>5, NumberOfDigits
<1> QED BY <1>4, <1>6 DEF CellOffset

(* Where a section has a storage, it has a block in every cell.             *)
Sound(world) ==
    \A s \in DOMAIN world :
        world[s].storage # Absent => \A o \in CellOffset : world[s].storage[o] # Absent

LEMMA WorldRead ==
    ASSUME NEW q, IsRead(q)
    PROVE  LET world == ReadWorld(q.view, q.baseline) IN
           /\ Sound(world)
           /\ DOMAIN world = DOMAIN q.view.directory
           /\ \A s \in DOMAIN world : world[s].presence = q.view.directory[s].presence
BY DEF IsRead, IsStorage, Sound, ReadWorld

(* What is said of a section does not depend on the cell.                   *)
SameSection(o, p) ==
    /\ o.presence = p.presence /\ o.revision = p.revision
    /\ o.block = Absent <=> p.block = Absent

Coherent(observed) ==
    \A i, j \in 1..Len(observed) :
        observed[i].section = observed[j].section => SameSection(observed[i], observed[j])

LEMMA CellsOfSection ==
    ASSUME NEW world, Sound(world), NEW c \in Triple, NEW d \in Triple
    PROVE  /\ CellAt(world, c).section = SectionOf(c)
           /\ CellAt(world, c).offset = OffsetOf(c)
           /\ CellAt(world, c).presence =
                 IF SectionOf(c) \in DOMAIN world THEN world[SectionOf(c)].presence
                 ELSE "Unavailable"
           /\ SectionOf(c) = SectionOf(d) => SameSection(CellAt(world, c), CellAt(world, d))
<1> DEFINE s == SectionOf(c)
           t == SectionOf(d)
<1>1. OffsetOf(c) \in CellOffset /\ OffsetOf(d) \in CellOffset
  BY OffsetTyped
<1>2. /\ CellAt(world, c).section = s
      /\ CellAt(world, c).offset = OffsetOf(c)
      /\ CellAt(world, c).presence = IF s \in DOMAIN world THEN world[s].presence ELSE "Unavailable"
      /\ CellAt(world, c).revision = IF s \in DOMAIN world THEN world[s].revision ELSE 0
      /\ CellAt(world, c).block =
            IF s \notin DOMAIN world \/ world[s].storage = Absent THEN Absent
            ELSE world[s].storage[OffsetOf(c)]
  BY DEF CellAt
<1>3. /\ CellAt(world, d).presence = IF t \in DOMAIN world THEN world[t].presence ELSE "Unavailable"
      /\ CellAt(world, d).revision = IF t \in DOMAIN world THEN world[t].revision ELSE 0
      /\ CellAt(world, d).block =
            IF t \notin DOMAIN world \/ world[t].storage = Absent THEN Absent
            ELSE world[t].storage[OffsetOf(d)]
  BY DEF CellAt
<1> HIDE DEF s, t
<1>4. ASSUME s = t
      PROVE  SameSection(CellAt(world, c), CellAt(world, d))
  BY <1>1, <1>2, <1>3, <1>4 DEF Sound, SameSection
<1> QED BY <1>2, <1>4 DEF s, t

LEMMA ObservedCells ==
    ASSUME NEW world, Sound(world), NEW lo \in Triple, NEW hi \in Triple, Ordered(lo, hi)
    PROVE  LET observed == Observed(world, lo, hi)
               cells == CellsIn(lo, hi)
           IN  /\ observed \in Seq({CellAt(world, c) : c \in CellsOf(lo, hi)})
               /\ Len(observed) = BoxCount(lo, hi) /\ Len(cells) = BoxCount(lo, hi)
               /\ \A i \in 1..Len(observed) :
                     /\ cells[i] \in Triple
                     /\ observed[i] = CellAt(world, cells[i])
                     /\ observed[i].section = SectionOf(cells[i])
                     /\ observed[i].offset = OffsetOf(cells[i])
               /\ Coherent(observed)
<1> DEFINE n == BoxCount(lo, hi)
           observed == Observed(world, lo, hi)
           cells == CellsIn(lo, hi)
<1>1. n \in Nat
  BY SpansOfBox
<1>2. \A i \in 1..n : cells[i] \in CellsOf(lo, hi)
  BY BoxListed
<1>3. CellsOf(lo, hi) \subseteq Triple
  BY DEF CellsOf, Triple
<1>4. observed = [i \in 1..n |-> CellAt(world, cells[i])]
  BY DEF Observed
<1>5. cells \in Seq(CellsOf(lo, hi)) /\ Len(cells) = n
  <2>1. cells \in [1..n -> CellsOf(lo, hi)]
    BY <1>2, BoxListed DEF CellsIn
  <2> QED BY <1>1, <2>1
<1> HIDE DEF cells
<1>6. observed \in Seq({CellAt(world, c) : c \in CellsOf(lo, hi)}) /\ Len(observed) = n
  BY <1>1, <1>2, <1>4
<1> HIDE DEF observed, n
<1>7. \A i \in 1..n :
         /\ cells[i] \in Triple
         /\ observed[i] = CellAt(world, cells[i])
         /\ observed[i].section = SectionOf(cells[i])
         /\ observed[i].offset = OffsetOf(cells[i])
  BY <1>2, <1>3, <1>4, CellsOfSection
<1>8. Coherent(observed)
  <2> SUFFICES ASSUME NEW i \in 1..n, NEW j \in 1..n, observed[i].section = observed[j].section
               PROVE  SameSection(observed[i], observed[j])
    BY <1>6 DEF Coherent
  <2>1. /\ cells[i] \in Triple /\ cells[j] \in Triple
        /\ SectionOf(cells[i]) = SectionOf(cells[j])
        /\ observed[i] = CellAt(world, cells[i]) /\ observed[j] = CellAt(world, cells[j])
    BY <1>7
  <2> QED BY <2>1, CellsOfSection
<1> QED BY <1>5, <1>6, <1>7, <1>8 DEF observed, cells, n

----------------------------------------------------------------------------
(* Recursion over the cells read.                                           *)

LEMMA Induced ==
    ASSUME NEW N \in Nat, NEW T, 0 \in T, \A n \in 1..N : n - 1 \in T => n \in T
    PROVE  0..N \subseteq T
<1> DEFINE U == {n \in 0..N : n \notin T}
<1> SUFFICES ASSUME U # {} PROVE FALSE
  OBVIOUS
<1>1. U \subseteq Nat
  OBVIOUS
<1>2. PICK k \in U : \A m \in U : k <= m
  BY <1>1, LeastNumber, Zenon
<1>3. k \in 1..N /\ k - 1 \in 0..N
  BY <1>2
<1>4. k - 1 \in T
  BY <1>2, <1>3
<1> QED BY <1>2, <1>3, <1>4

(* The first n steps of a recursion, from base by step.                     *)
Unrolled(g, n, base, step) ==
    /\ DOMAIN g = 0..n /\ g[0] = base
    /\ \A i \in 1..n : g[i] = step[<<i, g[i - 1]>>]

(* A recursion that stays in the sets for which its step is defined has a   *)
(* solution.                                                                *)
LEMMA Unrolls ==
    ASSUME NEW N \in Nat, NEW S, NEW base, NEW step, base \in S[0],
           \A n \in 1..N : \A x \in S[n - 1] : step[<<n, x>>] \in S[n]
    PROVE  \E g : Unrolled(g, N, base, step) /\ \A i \in 0..N : g[i] \in S[i]
<1> DEFINE T == {n \in 0..N : \E g : Unrolled(g, n, base, step) /\ \A i \in 0..n : g[i] \in S[i]}
<1>1. 0 \in T
  <2> DEFINE g == [i \in 0..0 |-> base]
  <2>1. Unrolled(g, 0, base, step) /\ \A i \in 0..0 : g[i] \in S[i]
    BY DEF Unrolled
  <2> QED BY <2>1
<1>2. ASSUME NEW n \in 1..N, n - 1 \in T
      PROVE  n \in T
  <2>1. n - 1 \in 0..N /\ n \in Nat /\ n - 1 \in 0..n - 1
    OBVIOUS
  <2>2. PICK f : Unrolled(f, n - 1, base, step) /\ \A i \in 0..n - 1 : f[i] \in S[i]
    BY <1>2
  <2> DEFINE next == step[<<n, f[n - 1]>>]
             g == [i \in 0..n |-> IF i = n THEN next ELSE f[i]]
  <2>3. next \in S[n]
    BY <2>1, <2>2
  <2>4. next = step[<<n, f[n - 1]>>]
    OBVIOUS
  <2> HIDE DEF next
  <2>5. DOMAIN g = 0..n /\ g[n] = next /\ \A i \in 0..n - 1 : g[i] = f[i]
    BY <2>1
  <2> HIDE DEF g
  <2>6. g[0] = base
    BY <2>1, <2>2, <2>5 DEF Unrolled
  <2>7. ASSUME NEW i \in 1..n
        PROVE  g[i] = step[<<i, g[i - 1]>>]
    <3>1. i - 1 \in 0..n - 1 /\ g[i - 1] = f[i - 1]
      BY <2>1, <2>5
    <3>2. CASE i = n
      BY <2>4, <2>5, <3>1, <3>2
    <3>3. CASE i # n
      <4>1. i \in 1..n - 1 /\ i \in 0..n - 1
        BY <3>3, <2>1
      <4>2. f[i] = step[<<i, f[i - 1]>>]
        BY <4>1, <2>2 DEF Unrolled
      <4> QED BY <2>5, <3>1, <4>1, <4>2
    <3> QED BY <3>2, <3>3
  <2>8. \A i \in 0..n : g[i] \in S[i]
    <3> TAKE i \in 0..n
    <3>1. CASE i = n
      BY <2>3, <2>5, <3>1
    <3>2. CASE i # n
      BY <2>1, <2>2, <2>5, <3>2
    <3> QED BY <3>1, <3>2
  <2>9. Unrolled(g, n, base, step)
    BY <2>5, <2>6, <2>7 DEF Unrolled
  <2> QED BY <2>1, <2>8, <2>9
<1> HIDE DEF T
<1>3. 0..N \subseteq T
  BY <1>1, <1>2, Induced
<1>4. N \in T
  BY <1>3
<1> QED BY <1>4 DEF T

----------------------------------------------------------------------------
(* Counting the cells of a section.                                         *)

(* The cells of a section among the first n, and how many they are.         *)
Own(observed, n, s) == {j \in 1..n : observed[j].section = s}
HowMany(observed, n, s) == Cardinality(Own(observed, n, s))

LEMMA OwnFinite ==
    ASSUME NEW observed, NEW n \in Nat, NEW s
    PROVE  IsFiniteSet(Own(observed, n, s)) /\ HowMany(observed, n, s) \in Nat
<1>1. IsFiniteSet(1..n)
  BY 1 \in Int, n \in Int, FS_Interval
<1>2. Own(observed, n, s) \subseteq 1..n
  BY DEF Own
<1> QED BY <1>1, <1>2, FS_Subset, FS_CardinalityType DEF HowMany

LEMMA OwnNext ==
    ASSUME NEW observed, NEW n \in Nat \ {0}, NEW s
    PROVE  HowMany(observed, n, s) =
              HowMany(observed, n - 1, s) + IF observed[n].section = s THEN 1 ELSE 0
<1>1. n - 1 \in Nat /\ n \in Nat
  OBVIOUS
<1>2. IsFiniteSet(Own(observed, n - 1, s)) /\ n \notin Own(observed, n - 1, s)
  <2>1. n \notin Own(observed, n - 1, s)
    BY <1>1 DEF Own
  <2> DEFINE m == n - 1
  <2>2. m \in Nat
    BY <1>1
  <2> HIDE DEF m
  <2>3. IsFiniteSet(Own(observed, m, s))
    BY <2>2, OwnFinite
  <2> QED BY <2>1, <2>3 DEF m
<1>3. CASE observed[n].section = s
  <2>1. Own(observed, n, s) = Own(observed, n - 1, s) \cup {n}
    BY <1>1, <1>3 DEF Own
  <2>2. Cardinality(Own(observed, n - 1, s) \cup {n}) = Cardinality(Own(observed, n - 1, s)) + 1
    BY <1>2, FS_AddElement
  <2> QED BY <1>3, <2>1, <2>2 DEF HowMany
<1>4. CASE observed[n].section # s
  <2>1. Own(observed, n, s) = Own(observed, n - 1, s)
    BY <1>1, <1>4 DEF Own
  <2>2. HowMany(observed, n - 1, s) \in Nat
    BY <1>1, OwnFinite
  <2> QED BY <1>4, <2>1, <2>2 DEF HowMany
<1> QED BY <1>3, <1>4

LEMMA OwnGrows ==
    ASSUME NEW observed, NEW n \in Nat, NEW i \in 1..n, NEW s
    PROVE  /\ HowMany(observed, i, s) <= HowMany(observed, n, s)
           /\ observed[i].section = s => HowMany(observed, i, s) >= 1
<1>1. i \in Nat \ {0} /\ i \in Nat /\ i - 1 \in Nat
  OBVIOUS
<1>2. Own(observed, i, s) \subseteq Own(observed, n, s)
  BY DEF Own
<1>3. HowMany(observed, i, s) <= HowMany(observed, n, s)
  BY <1>2, OwnFinite, FS_Subset DEF HowMany
<1>4. observed[i].section = s => HowMany(observed, i, s) >= 1
  BY <1>1, OwnFinite, OwnNext
<1> QED BY <1>3, <1>4

LEMMA OwnNone ==
    ASSUME NEW observed, NEW n \in Nat, NEW s, \A i \in 1..n : observed[i].section # s
    PROVE  HowMany(observed, n, s) = 0
BY FS_EmptySet DEF HowMany, Own

----------------------------------------------------------------------------
(* Segments.                                                                *)

SegmentsOf(O) ==
    [section : {o.section : o \in O}, presence : {o.presence : o \in O},
     revision : {o.revision : o \in O}, resolved : BOOLEAN,
     offsets : Seq({o.offset : o \in O}), blocks : Seq({o.block : o \in O})]

SaysOf(g, o) ==
    /\ g.section = o.section /\ g.presence = o.presence /\ g.revision = o.revision
    /\ g.resolved = (o.block # Absent)

(* A segment has what was read of its section among the first n cells, in   *)
(* the order it was read.                                                   *)
Holds(g, observed, n) ==
    /\ Len(g.offsets) = HowMany(observed, n, g.section)
    /\ Len(g.blocks) = IF g.resolved THEN HowMany(observed, n, g.section) ELSE 0
    /\ \A i \in 1..n : observed[i].section = g.section =>
          /\ g.offsets[HowMany(observed, i, g.section)] = observed[i].offset
          /\ g.resolved => g.blocks[HowMany(observed, i, g.section)] = observed[i].block

Gathered(segments, observed, n) ==
    /\ \A k \in 1..Len(segments) : \E i \in 1..n : SaysOf(segments[k], observed[i])
    /\ \A i \in 1..n : \E k \in 1..Len(segments) : segments[k].section = observed[i].section
    /\ \A k, l \in 1..Len(segments) : segments[k].section = segments[l].section => k = l
    /\ \A k \in 1..Len(segments) : Holds(segments[k], observed, n)

LEMMA PushedTyped ==
    ASSUME NEW O, NEW g \in SegmentsOf(O), NEW o \in O
    PROVE  /\ Pushed(g, o) \in SegmentsOf(O)
           /\ Pushed(g, o).section = g.section /\ Pushed(g, o).presence = g.presence
           /\ Pushed(g, o).revision = g.revision /\ Pushed(g, o).resolved = g.resolved
           /\ Pushed(g, o).offsets = Append(g.offsets, o.offset)
           /\ Pushed(g, o).blocks =
                 IF g.resolved /\ o.block # Absent THEN Append(g.blocks, o.block) ELSE g.blocks
<1> DEFINE offsets == Append(g.offsets, o.offset)
           blocks == IF g.resolved /\ o.block # Absent THEN Append(g.blocks, o.block) ELSE g.blocks
<1>1. offsets \in Seq({x.offset : x \in O})
  BY DEF SegmentsOf
<1>2. blocks \in Seq({x.block : x \in O})
  BY DEF SegmentsOf
<1>3. Pushed(g, o) = [g EXCEPT !.offsets = offsets, !.blocks = blocks]
  BY DEF Pushed, SegmentsOf
<1> HIDE DEF offsets, blocks
<1>4. /\ Pushed(g, o) \in SegmentsOf(O)
      /\ Pushed(g, o).section = g.section /\ Pushed(g, o).presence = g.presence
      /\ Pushed(g, o).revision = g.revision /\ Pushed(g, o).resolved = g.resolved
      /\ Pushed(g, o).offsets = offsets /\ Pushed(g, o).blocks = blocks
  BY <1>1, <1>2, <1>3 DEF SegmentsOf
<1> QED BY <1>4 DEF offsets, blocks

LEMMA PushedHolds ==
    ASSUME NEW O, NEW observed \in Seq(O), NEW n \in 1..Len(observed), NEW g \in SegmentsOf(O),
           g.section = observed[n].section, g.resolved = (observed[n].block # Absent),
           Holds(g, observed, n - 1)
    PROVE  Holds(Pushed(g, observed[n]), observed, n)
<1> DEFINE o == observed[n]
           h == Pushed(g, o)
           s == g.section
           c(i) == HowMany(observed, i, s)
<1>1. n \in Nat \ {0} /\ n - 1 \in Nat /\ n \in Nat /\ o \in O
  OBVIOUS
<1>2. /\ h.section = s /\ h.resolved = g.resolved
      /\ h.offsets = Append(g.offsets, o.offset)
      /\ h.blocks = IF g.resolved THEN Append(g.blocks, o.block) ELSE g.blocks
  <2>1. o \in O /\ (g.resolved <=> o.block # Absent)
    BY <1>1
  <2> HIDE DEF o
  <2> QED BY <2>1, PushedTyped
<1>3. c(n) = c(n - 1) + 1 /\ c(n - 1) \in Nat
  BY <1>1, OwnNext, OwnFinite
<1>4. /\ g.offsets \in Seq({x.offset : x \in O}) /\ g.blocks \in Seq({x.block : x \in O})
      /\ Len(g.offsets) = c(n - 1) /\ Len(g.blocks) = IF g.resolved THEN c(n - 1) ELSE 0
  BY DEF Holds, SegmentsOf
<1>5. /\ Len(h.offsets) = c(n) /\ Len(h.blocks) = IF h.resolved THEN c(n) ELSE 0
  BY <1>1, <1>2, <1>3, <1>4
<1>6. ASSUME NEW i \in 1..n, observed[i].section = s
      PROVE  /\ h.offsets[c(i)] = observed[i].offset
             /\ h.resolved => h.blocks[c(i)] = observed[i].block
  <2>1. CASE i = n
    BY <1>1, <1>2, <1>3, <1>4, <2>1
  <2>2. CASE i # n
    <3>1. i \in 1..n - 1
      BY <1>1, <2>2
    <3>2. c(i) <= c(n - 1) /\ c(i) >= 1 /\ c(i) \in Nat
      BY <1>1, <1>6, <3>1, OwnGrows, OwnFinite
    <3>3. /\ g.offsets[c(i)] = observed[i].offset
          /\ g.resolved => g.blocks[c(i)] = observed[i].block
      BY <1>6, <3>1 DEF Holds
    <3>4. c(i) \in 1..c(n - 1)
      BY <1>3, <3>2
    <3> HIDE DEF c, h, o
    <3>5. h.offsets[c(i)] = g.offsets[c(i)]
      BY <1>1, <1>2, <1>4, <3>4
    <3>6. g.resolved => h.blocks[c(i)] = g.blocks[c(i)]
      BY <1>1, <1>2, <1>4, <3>4
    <3> QED BY <1>2, <3>3, <3>5, <3>6
  <2> QED BY <2>1, <2>2
<1> QED BY <1>2, <1>5, <1>6 DEF Holds

LEMMA OthersHold ==
    ASSUME NEW O, NEW observed \in Seq(O), NEW n \in 1..Len(observed), NEW g,
           g.section # observed[n].section, Holds(g, observed, n - 1)
    PROVE  Holds(g, observed, n)
<1>1. n \in Nat \ {0} /\ n - 1 \in Nat
  OBVIOUS
<1>2. HowMany(observed, n, g.section) = HowMany(observed, n - 1, g.section)
  BY <1>1, OwnNext, OwnFinite
<1>3. \A i \in 1..n : observed[i].section = g.section => i \in 1..n - 1
  OBVIOUS
<1> QED BY <1>2, <1>3 DEF Holds

(* Where a cell goes: to the segment of its section, if there is one.       *)
LEMMA Selected ==
    ASSUME NEW segments, Len(segments) \in Nat, NEW s
    PROVE  LET at == SelectInSeq(segments, LAMBDA g : g.section = s) IN
           \/ at = 0 /\ \A k \in 1..Len(segments) : segments[k].section # s
           \/ at \in 1..Len(segments) /\ segments[at].section = s
<1> DEFINE I == {k \in 1..Len(segments) : segments[k].section = s}
           at == SelectInSeq(segments, LAMBDA g : g.section = s)
<1>1. at = IF I # {} THEN Min(I) ELSE 0
  BY DEF SelectInSeq
<1>2. CASE I = {}
  BY <1>1, <1>2
<1>3. CASE I # {}
  <2>1. I \subseteq Nat
    OBVIOUS
  <2> HIDE DEF I
  <2>2. \E k \in I : \A l \in I : k <= l
    BY <1>3, <2>1, LeastNumber
  <2>3. Min(I) \in I
    BY <2>2 DEF Min
  <2> QED BY <1>1, <1>3, <2>3 DEF I
<1> QED BY <1>2, <1>3

LEMMA CollectStep ==
    ASSUME NEW O, NEW observed \in Seq(O), Coherent(observed), NEW n \in 1..Len(observed),
           NEW segments \in Seq(SegmentsOf(O)), Gathered(segments, observed, n - 1)
    PROVE  /\ Collect(segments, observed[n]) \in Seq(SegmentsOf(O))
           /\ Gathered(Collect(segments, observed[n]), observed, n)
<1> DEFINE o == observed[n]
           at == SelectInSeq(segments, LAMBDA g : g.section = o.section)
           after == Collect(segments, o)
           m == Len(segments)
<1>1. o \in O /\ n \in Nat \ {0} /\ n - 1 \in Nat /\ m \in Nat
  OBVIOUS
<1>2. /\ \A k \in 1..m : segments[k] \in SegmentsOf(O)
      /\ \A k \in 1..m : \E i \in 1..n - 1 : SaysOf(segments[k], observed[i])
      /\ \A i \in 1..n - 1 : \E k \in 1..m : segments[k].section = observed[i].section
      /\ \A k, l \in 1..m : segments[k].section = segments[l].section => k = l
      /\ \A k \in 1..m : Holds(segments[k], observed, n - 1)
  BY DEF Gathered
<1>3. \A i \in 1..n - 1 : i \in 1..n
  BY <1>1
<1>4. n \in 1..n
  BY <1>1
<1>5. CASE \A k \in 1..m : segments[k].section # o.section
  <2> DEFINE g == Pushed(NewSegment(o), o)
  <2>1. after = Append(segments, g)
    <3>1. at = 0
      BY <1>1, <1>5, Selected
    <3> QED BY <3>1 DEF Collect
  <2>2. /\ NewSegment(o) \in SegmentsOf(O)
        /\ SaysOf(NewSegment(o), o)
        /\ NewSegment(o).offsets = <<>> /\ NewSegment(o).blocks = <<>>
    BY <1>1 DEF NewSegment, SegmentsOf, SaysOf
  <2>3. \A i \in 1..n - 1 : observed[i].section # o.section
    <3> SUFFICES ASSUME NEW i \in 1..n - 1, observed[i].section = o.section PROVE FALSE
      OBVIOUS
    <3>1. PICK k \in 1..m : segments[k].section = observed[i].section
      BY <1>2
    <3> QED BY <1>5, <3>1
  <2>4. Holds(NewSegment(o), observed, n - 1)
    <3> DEFINE l == n - 1
               h == NewSegment(o)
    <3>1. h.section = o.section /\ h.offsets = <<>> /\ h.blocks = <<>> /\ l \in Nat
      BY <1>1, <2>2 DEF SaysOf
    <3>2. \A i \in 1..l : observed[i].section # h.section
      BY <2>3, <3>1
    <3> HIDE DEF l, h, o
    <3>3. HowMany(observed, l, h.section) = 0
      BY <3>1, <3>2, OwnNone
    <3>4. Holds(h, observed, l)
      BY <3>1, <3>2, <3>3 DEF Holds
    <3> QED BY <3>4 DEF h, l
  <2>5. /\ g \in SegmentsOf(O) /\ SaysOf(g, o) /\ Holds(g, observed, n)
    <3>1. Holds(g, observed, n)
      BY <2>2, <2>4, PushedHolds DEF SaysOf
    <3>2. g \in SegmentsOf(O) /\ SaysOf(g, o)
      BY <1>1, <2>2, PushedTyped DEF SaysOf
    <3> QED BY <3>1, <3>2
  <2> HIDE DEF g, at
  <2>6. /\ after \in Seq(SegmentsOf(O)) /\ Len(after) = m + 1
        /\ after[m + 1] = g /\ \A k \in 1..m : after[k] = segments[k]
    BY <1>1, <2>1, <2>5
  <2> HIDE DEF after
  <2>7. ASSUME NEW k \in 1..m + 1
        PROVE  (k \in 1..m /\ after[k] = segments[k]) \/ (k = m + 1 /\ after[k] = g)
    BY <1>1, <2>6
  <2>8. \A k \in 1..m + 1 : \E i \in 1..n : SaysOf(after[k], observed[i])
    BY <1>2, <1>3, <1>4, <2>5, <2>7
  <2>9. \A i \in 1..n : \E k \in 1..m + 1 : after[k].section = observed[i].section
    <3> TAKE i \in 1..n
    <3>1. CASE i = n
      BY <1>1, <2>5, <2>6, <3>1 DEF SaysOf
    <3>2. CASE i # n
      <4>1. i \in 1..n - 1
        BY <1>1, <3>2
      <4>2. PICK k \in 1..m : segments[k].section = observed[i].section
        BY <1>2, <4>1
      <4> QED BY <1>1, <2>6, <4>2
    <3> QED BY <3>1, <3>2
  <2>10. \A k, l \in 1..m + 1 : after[k].section = after[l].section => k = l
    <3>1. g.section = o.section
      BY <2>5 DEF SaysOf
    <3>2. \A k \in 1..m : g.section # segments[k].section
      BY <1>5, <3>1
    <3> HIDE DEF o
    <3> QED BY <1>2, <2>7, <3>2
  <2>11. \A k \in 1..m + 1 : Holds(after[k], observed, n)
    <3> TAKE k \in 1..m + 1
    <3>1. CASE k \in 1..m /\ after[k] = segments[k]
      BY <1>2, <1>5, <3>1, OthersHold
    <3> QED BY <2>5, <2>7, <3>1
  <2> QED BY <2>6, <2>8, <2>9, <2>10, <2>11 DEF Gathered, after
<1>6. CASE \E k \in 1..m : segments[k].section = o.section
  <2> DEFINE g == Pushed(segments[at], o)
  <2>1. at \in 1..m /\ segments[at].section = o.section /\ after = [segments EXCEPT ![at] = g]
    <3>1. at \in 1..m /\ segments[at].section = o.section
      BY <1>1, <1>6, Selected
    <3>2. at # 0
      BY <1>1, <3>1
    <3> QED BY <3>1, <3>2 DEF Collect
  <2>2. PICK i \in 1..n - 1 : SaysOf(segments[at], observed[i])
    BY <1>2, <2>1
  <2>3. SaysOf(segments[at], o)
    <3>1. SameSection(observed[i], o)
      <4>1. i \in 1..Len(observed) /\ n \in 1..Len(observed)
        OBVIOUS
      <4>2. observed[i].section = observed[n].section
        BY <2>1, <2>2 DEF SaysOf
      <4> QED BY <4>1, <4>2 DEF Coherent
    <3> QED BY <2>1, <2>2, <3>1 DEF SameSection, SaysOf
  <2> HIDE DEF at
  <2>4. /\ g \in SegmentsOf(O) /\ SaysOf(g, o) /\ Holds(g, observed, n)
    <3>1. segments[at] \in SegmentsOf(O) /\ Holds(segments[at], observed, n - 1)
      BY <1>2, <2>1
    <3>2. Holds(g, observed, n)
      BY <2>3, <3>1, PushedHolds DEF SaysOf
    <3>3. g \in SegmentsOf(O) /\ SaysOf(g, o)
      <4> DEFINE h == segments[at]
      <4>1. h \in SegmentsOf(O) /\ o \in O /\ SaysOf(h, o)
        BY <1>1, <2>3, <3>1
      <4> HIDE DEF h, o
      <4>2. Pushed(h, o) \in SegmentsOf(O) /\ SaysOf(Pushed(h, o), o)
        BY <4>1, PushedTyped DEF SaysOf
      <4> QED BY <4>2 DEF h
    <3> QED BY <3>2, <3>3
  <2> HIDE DEF g
  <2>5. /\ after \in Seq(SegmentsOf(O)) /\ Len(after) = m
        /\ after[at] = g /\ \A k \in 1..m : k # at => after[k] = segments[k]
    BY <1>1, <2>1, <2>4
  <2> HIDE DEF after
  <2>6. \A k \in 1..m : \E j \in 1..n : SaysOf(after[k], observed[j])
    BY <1>2, <1>3, <1>4, <2>4, <2>5
  <2>7. \A k \in 1..m : after[k].section = segments[k].section
    BY <2>1, <2>4, <2>5 DEF SaysOf
  <2>8. \A j \in 1..n : \E k \in 1..m : after[k].section = observed[j].section
    <3> TAKE j \in 1..n
    <3>1. CASE j = n
      BY <2>1, <2>7, <3>1
    <3>2. CASE j # n
      <4>1. j \in 1..n - 1
        BY <1>1, <3>2
      <4>2. PICK k \in 1..m : segments[k].section = observed[j].section
        BY <1>2, <4>1
      <4> QED BY <2>7, <4>2
    <3> QED BY <3>1, <3>2
  <2>9. \A k, l \in 1..m : after[k].section = after[l].section => k = l
    BY <1>2, <2>7
  <2>10. \A k \in 1..m : Holds(after[k], observed, n)
    <3> TAKE k \in 1..m
    <3>1. CASE k # at
      <4>1. segments[k].section # o.section
        BY <1>2, <2>1, <3>1
      <4> QED BY <1>2, <2>5, <3>1, <4>1, OthersHold
    <3> QED BY <2>4, <2>5, <3>1
  <2> QED BY <2>5, <2>6, <2>8, <2>9, <2>10 DEF Gathered, after
<1> QED BY <1>5, <1>6

LEMMA SegmentsGathered ==
    ASSUME NEW O, NEW observed \in Seq(O), Coherent(observed)
    PROVE  /\ Segments(observed) \in Seq(SegmentsOf(O))
           /\ Gathered(Segments(observed), observed, Len(observed))
<1> DEFINE N == Len(observed)
           S == [n \in 0..N |-> {x \in Seq(SegmentsOf(O)) : Gathered(x, observed, n)}]
           step == [p \in (1..N) \X Seq(SegmentsOf(O)) |-> Collect(p[2], observed[p[1]])]
           Is(f) == f = [n \in 0..N |-> IF n = 0 THEN <<>> ELSE Collect(f[n - 1], observed[n])]
           after == CHOOSE f : Is(f)
<1>1. N \in Nat
  OBVIOUS
<1>2. <<>> \in S[0]
  BY <1>1 DEF Gathered
<1>3. \A n \in 1..N : \A x \in S[n - 1] :
         x \in Seq(SegmentsOf(O)) /\ Collect(x, observed[n]) \in S[n]
  <2> TAKE n \in 1..N
  <2> TAKE x \in S[n - 1]
  <2>1. n - 1 \in 0..N /\ n \in 0..N
    BY <1>1
  <2>2. x \in Seq(SegmentsOf(O)) /\ Gathered(x, observed, n - 1)
    BY <2>1
  <2>3. /\ Collect(x, observed[n]) \in Seq(SegmentsOf(O))
        /\ Gathered(Collect(x, observed[n]), observed, n)
    BY <2>2, CollectStep
  <2> QED BY <2>1, <2>2, <2>3
<1>4. \A n \in 1..N, x \in Seq(SegmentsOf(O)) : step[<<n, x>>] = Collect(x, observed[n])
  OBVIOUS
<1>5. S[N] = {x \in Seq(SegmentsOf(O)) : Gathered(x, observed, N)}
  BY <1>1
<1> HIDE DEF S, step, N
<1>6. PICK f : Unrolled(f, N, <<>>, step) /\ \A i \in 0..N : f[i] \in S[i]
  <2>1. \A n \in 1..N : \A x \in S[n - 1] : step[<<n, x>>] \in S[n]
    BY <1>3, <1>4
  <2> QED BY <1>1, <1>2, <2>1, Unrolls
<1> DEFINE g == [n \in 0..N |-> IF n = 0 THEN <<>> ELSE Collect(f[n - 1], observed[n])]
<1>7. \A n \in 0..N : f[n] = IF n = 0 THEN <<>> ELSE Collect(f[n - 1], observed[n])
  <2> TAKE n \in 0..N
  <2>1. CASE n = 0
    BY <1>6, <2>1 DEF Unrolled
  <2>2. CASE n # 0
    <3>1. n \in 1..N /\ n - 1 \in 0..N
      BY <1>1, <2>2
    <3>2. f[n - 1] \in S[n - 1] /\ f[n] = step[<<n, f[n - 1]>>]
      BY <1>6, <3>1 DEF Unrolled
    <3> QED BY <1>3, <1>4, <2>2, <3>1, <3>2
  <2> QED BY <2>1, <2>2
<1>8. Is(g)
  <2>1. \A n \in 0..N : n # 0 => n - 1 \in 0..N
    BY <1>1
  <2>2. \A n \in 0..N : g[n] = f[n]
    BY <1>7
  <2>3. \A n \in 0..N : g[n] = IF n = 0 THEN <<>> ELSE Collect(g[n - 1], observed[n])
    BY <1>7, <2>1, <2>2
  <2> QED BY <2>3
<1> HIDE DEF g
<1>9. Is(after)
  BY <1>8
<1>10. Segments(observed) = after[N]
  BY DEF Segments, N
<1> HIDE DEF after
<1>11. after[0] = <<>> /\ \A n \in 1..N : after[n] = Collect(after[n - 1], observed[n])
  BY <1>1, <1>9
<1> DEFINE T == {n \in 0..N : after[n] \in S[n]}
<1>12. 0 \in T
  BY <1>1, <1>2, <1>11
<1>13. \A n \in 1..N : n - 1 \in T => n \in T
  <2> TAKE n \in 1..N
  <2> HAVE n - 1 \in T
  <2>1. n \in 0..N /\ after[n - 1] \in S[n - 1]
    BY <1>1
  <2>2. after[n] = Collect(after[n - 1], observed[n])
    BY <1>11
  <2> QED BY <1>3, <2>1, <2>2
<1> HIDE DEF T
<1>14. 0..N \subseteq T
  BY <1>1, <1>12, <1>13, Induced
<1>15. after[N] \in S[N]
  BY <1>1, <1>14 DEF T
<1> QED BY <1>5, <1>10, <1>15 DEF N

----------------------------------------------------------------------------
(* Runs.                                                                    *)

(* Where a run starts among the first n cells, and how often one does.      *)
Starts(observed, n) ==
    {i \in 1..n : i = 1 \/ RunKey(observed[i - 1]) # RunKey(observed[i])}
RunCount(observed, n) == Cardinality(Starts(observed, n))

LEMMA RunCountNext ==
    ASSUME NEW observed, NEW n \in Nat \ {0}
    PROVE  /\ RunCount(observed, n - 1) \in Nat
           /\ RunCount(observed, n) =
                 RunCount(observed, n - 1)
                 + IF n = 1 \/ RunKey(observed[n - 1]) # RunKey(observed[n]) THEN 1 ELSE 0
<1> DEFINE m == n - 1
           A == Starts(observed, m)
           B == Starts(observed, n)
           New == n = 1 \/ RunKey(observed[n - 1]) # RunKey(observed[n])
<1>1. m \in Nat /\ n \in Nat /\ m \in Int /\ 1 \in Int
  OBVIOUS
<1>2. A \subseteq 1..m /\ n \notin A
  BY DEF Starts
<1>3. B = IF New THEN A \cup {n} ELSE A
  <2>1. \A i \in 1..n : i \in 1..m \/ i = n
    OBVIOUS
  <2>2. 1..m \subseteq 1..n /\ n \in 1..n
    OBVIOUS
  <2> QED BY <1>2, <2>1, <2>2 DEF Starts
<1> HIDE DEF m, New
<1>4. IsFiniteSet(1..m)
  BY <1>1, FS_Interval
<1> HIDE DEF A, B
<1>5. IsFiniteSet(A) /\ Cardinality(A) \in Nat
  BY <1>2, <1>4, FS_Subset, FS_CardinalityType
<1>6. Cardinality(A \cup {n}) = Cardinality(A) + 1
  BY <1>2, <1>5, FS_AddElement
<1>7. Cardinality(B) = Cardinality(A) + IF New THEN 1 ELSE 0
  BY <1>3, <1>5, <1>6
<1> QED BY <1>5, <1>7 DEF RunCount, A, B, m, New

LEMMA RunCountNone ==
    ASSUME NEW observed
    PROVE  RunCount(observed, 0) = 0
<1>1. Starts(observed, 0) = {}
  BY DEF Starts
<1> QED BY <1>1, FS_EmptySet DEF RunCount

RunsOf(O) ==
    [section : {o.section : o \in O}, presence : {o.presence : o \in O},
     revision : {o.revision : o \in O}, first : Nat, cells : Nat]

EndOf(run) == run.first + run.cells

(* Runs lie end to end over the first n cells, each over cells of its key   *)
(* and each with another key than the one before it.                        *)
Tiled(runs, observed, n) ==
    /\ \A k \in 1..Len(runs) : runs[k].cells >= 1 /\ EndOf(runs[k]) <= n
    /\ \A k, l \in 1..Len(runs) : k < l => EndOf(runs[k]) <= runs[l].first
    /\ \A i \in 1..n : \E k \in 1..Len(runs) : RunCovers(runs[k], i)
    /\ \A k \in 1..Len(runs) : \A i \in 1..n :
          RunCovers(runs[k], i) => RunKey(runs[k]) = RunKey(observed[i])
    /\ \A k, l \in 1..Len(runs) : l = k + 1 => RunKey(runs[k]) # RunKey(runs[l])
    /\ n # 0 => /\ Len(runs) # 0
                /\ EndOf(runs[Len(runs)]) = n
                /\ RunKey(runs[Len(runs)]) = RunKey(observed[n])
    /\ Len(runs) = RunCount(observed, n)

LEMMA CoversUntilEnd ==
    ASSUME NEW O, NEW run \in RunsOf(O), NEW i \in Nat, RunCovers(run, i)
    PROVE  i <= EndOf(run) /\ run.first < i /\ EndOf(run) \in Nat /\ run.first \in Nat
BY DEF RunsOf, RunCovers, EndOf

LEMMA TiledNew ==
    ASSUME NEW O, NEW observed \in Seq(O), NEW n \in 1..Len(observed),
           NEW runs \in Seq(RunsOf(O)), Tiled(runs, observed, n - 1),
           n = 1 \/ RunKey(observed[n - 1]) # RunKey(observed[n]),
           NEW run \in RunsOf(O), run.first = n - 1, run.cells = 1,
           RunKey(run) = RunKey(observed[n])
    PROVE  Tiled(Append(runs, run), observed, n)
<1> DEFINE m == Len(runs)
           after == Append(runs, run)
<1>1. n \in Nat \ {0} /\ n - 1 \in Nat /\ m \in Nat /\ n \in Nat
  OBVIOUS
<1>2. /\ Len(after) = m + 1 /\ after[m + 1] = run
      /\ \A k \in 1..m : after[k] = runs[k] /\ runs[k] \in RunsOf(O)
  OBVIOUS
<1>3. \A k \in 1..m + 1 : k \in 1..m \/ k = m + 1
  BY <1>1
<1>4. \A k \in 1..m : EndOf(runs[k]) \in Nat /\ runs[k].first \in Nat /\ runs[k].cells \in Nat
  BY <1>2 DEF EndOf, RunsOf
<1>5. EndOf(run) = n /\ run.first = n - 1
  BY <1>1 DEF EndOf
<1>6. /\ \A k \in 1..m : runs[k].cells >= 1 /\ EndOf(runs[k]) <= n - 1
      /\ \A k, l \in 1..m : k < l => EndOf(runs[k]) <= runs[l].first
      /\ \A i \in 1..n - 1 : \E k \in 1..m : RunCovers(runs[k], i)
      /\ \A k \in 1..m : \A i \in 1..n - 1 :
            RunCovers(runs[k], i) => RunKey(runs[k]) = RunKey(observed[i])
      /\ \A k, l \in 1..m : l = k + 1 => RunKey(runs[k]) # RunKey(runs[l])
      /\ n - 1 # 0 => m # 0 /\ RunKey(runs[m]) = RunKey(observed[n - 1])
      /\ m = RunCount(observed, n - 1)
  BY DEF Tiled
<1> HIDE DEF after, m
<1>7. \A k \in 1..m + 1 : after[k].cells >= 1 /\ EndOf(after[k]) <= n
  <2> TAKE k \in 1..m + 1
  <2>1. CASE k \in 1..m
    <3>1. runs[k].cells >= 1 /\ EndOf(runs[k]) <= n - 1 /\ EndOf(runs[k]) \in Nat
      BY <1>4, <1>6, <2>1
    <3>2. after[k] = runs[k]
      BY <1>2, <2>1
    <3>3. EndOf(runs[k]) <= n
      BY <1>1, <3>1
    <3> QED BY <3>1, <3>2, <3>3
  <2>2. CASE k = m + 1
    BY <1>1, <1>2, <1>5, <2>2
  <2> QED BY <1>3, <2>1, <2>2
<1>8. \A k, l \in 1..m + 1 : k < l => EndOf(after[k]) <= after[l].first
  <2> TAKE k, l \in 1..m + 1
  <2> HAVE k < l
  <2>1. k \in 1..m
    BY <1>1
  <2>2. CASE l \in 1..m
    BY <1>2, <1>6, <2>1, <2>2
  <2>3. CASE l = m + 1
    BY <1>2, <1>5, <1>6, <2>1, <2>3
  <2> QED BY <1>3, <2>2, <2>3
<1>9. \A i \in 1..n : \E k \in 1..m + 1 : RunCovers(after[k], i)
  <2> TAKE i \in 1..n
  <2>1. CASE i = n
    <3>1. RunCovers(run, n)
      BY <1>1 DEF RunCovers
    <3> QED BY <1>1, <1>2, <2>1, <3>1
  <2>2. CASE i # n
    <3>1. PICK k \in 1..m : RunCovers(runs[k], i)
      BY <1>6, <2>2
    <3> QED BY <1>1, <1>2, <3>1
  <2> QED BY <2>1, <2>2
<1>10. \A k \in 1..m + 1 : \A i \in 1..n :
          RunCovers(after[k], i) => RunKey(after[k]) = RunKey(observed[i])
  <2> TAKE k \in 1..m + 1
  <2> TAKE i \in 1..n
  <2> HAVE RunCovers(after[k], i)
  <2>1. CASE k \in 1..m
    <3>1. RunCovers(runs[k], i) /\ after[k] = runs[k] /\ runs[k] \in RunsOf(O) /\ i \in Nat
      BY <1>2, <2>1
    <3>2. i <= EndOf(runs[k])
      BY <3>1, CoversUntilEnd
    <3>3. i \in 1..n - 1
      BY <1>1, <1>4, <1>6, <2>1, <3>2
    <3> QED BY <1>6, <2>1, <3>1, <3>3
  <2>2. CASE k = m + 1
    <3>1. RunCovers(run, i) /\ i \in Nat
      BY <1>2, <2>2
    <3>2. run.first < i
      BY <3>1, CoversUntilEnd
    <3>3. i = n
      BY <1>1, <1>5, <3>2
    <3> QED BY <1>2, <2>2, <3>3
  <2> QED BY <1>3, <2>1, <2>2
<1>11. \A k, l \in 1..m + 1 : l = k + 1 => RunKey(after[k]) # RunKey(after[l])
  <2> TAKE k, l \in 1..m + 1
  <2> HAVE l = k + 1
  <2>1. k \in 1..m
    BY <1>1
  <2>2. CASE l \in 1..m
    BY <1>2, <1>6, <2>1, <2>2
  <2>3. CASE l = m + 1
    <3>1. k = m /\ m # 0
      BY <1>1, <2>1, <2>3
    <3>2. n - 1 # 0
      <4> SUFFICES ASSUME n - 1 = 0 PROVE FALSE
        OBVIOUS
      <4>1. m = 0
        BY <1>6, RunCountNone
      <4> QED BY <3>1, <4>1
    <3>3. RunKey(runs[m]) = RunKey(observed[n - 1]) /\ n # 1
      BY <1>1, <1>6, <3>2
    <3> QED BY <1>2, <2>1, <2>3, <3>1, <3>3
  <2> QED BY <1>3, <2>2, <2>3
<1>12. m + 1 = RunCount(observed, n)
  BY <1>1, <1>6, RunCountNext
<1>13. m + 1 # 0 /\ EndOf(after[m + 1]) = n /\ RunKey(after[m + 1]) = RunKey(observed[n])
  BY <1>1, <1>2, <1>5
<1>14. Tiled(after, observed, n)
  BY <1>2, <1>7, <1>8, <1>9, <1>10, <1>11, <1>12, <1>13 DEF Tiled
<1> QED BY <1>14 DEF after

LEMMA TiledProlonged ==
    ASSUME NEW O, NEW observed \in Seq(O), NEW n \in 1..Len(observed), n # 1,
           NEW runs \in Seq(RunsOf(O)), Tiled(runs, observed, n - 1),
           RunKey(observed[n - 1]) = RunKey(observed[n]),
           NEW after \in Seq(RunsOf(O)), Len(after) = Len(runs),
           \A k \in 1..Len(runs) : after[k].first = runs[k].first /\ RunKey(after[k]) = RunKey(runs[k]),
           \A k \in 1..Len(runs) :
              after[k].cells = runs[k].cells + IF k = Len(runs) THEN 1 ELSE 0
    PROVE  Tiled(after, observed, n)
<1> DEFINE m == Len(runs)
<1>1. n \in Nat \ {0} /\ n - 1 \in Nat \ {0} /\ m \in Nat /\ n \in Nat
  OBVIOUS
<1>2. /\ \A k \in 1..m : runs[k].cells >= 1 /\ EndOf(runs[k]) <= n - 1
      /\ \A k, l \in 1..m : k < l => EndOf(runs[k]) <= runs[l].first
      /\ \A i \in 1..n - 1 : \E k \in 1..m : RunCovers(runs[k], i)
      /\ \A k \in 1..m : \A i \in 1..n - 1 :
            RunCovers(runs[k], i) => RunKey(runs[k]) = RunKey(observed[i])
      /\ \A k, l \in 1..m : l = k + 1 => RunKey(runs[k]) # RunKey(runs[l])
      /\ m # 0 /\ EndOf(runs[m]) = n - 1 /\ RunKey(runs[m]) = RunKey(observed[n - 1])
      /\ m = RunCount(observed, n - 1)
  BY <1>1 DEF Tiled
<1>3. /\ \A k \in 1..m : runs[k] \in RunsOf(O) /\ after[k] \in RunsOf(O)
      /\ Len(after) = m /\ m \in 1..m
  BY <1>1, <1>2
<1>4. /\ \A k \in 1..m : after[k].first = runs[k].first /\ RunKey(after[k]) = RunKey(runs[k])
      /\ \A k \in 1..m : after[k].cells = runs[k].cells + IF k = m THEN 1 ELSE 0
  OBVIOUS
<1> HIDE DEF m
<1>5. \A k \in 1..m : /\ runs[k].first \in Nat /\ runs[k].cells \in Nat
                      /\ EndOf(runs[k]) \in Nat
                      /\ EndOf(after[k]) = EndOf(runs[k]) + IF k = m THEN 1 ELSE 0
  <2> TAKE k \in 1..m
  <2> DEFINE r == runs[k]
             a == after[k]
             more == IF k = m THEN 1 ELSE 0
  <2>1. r \in RunsOf(O) /\ a.first = r.first /\ a.cells = r.cells + more /\ more \in Nat
    BY <1>3, <1>4
  <2> HIDE DEF r, a, more
  <2>2. /\ r.first \in Nat /\ r.cells \in Nat /\ EndOf(r) \in Nat
        /\ EndOf(a) = EndOf(r) + more
    BY <2>1 DEF RunsOf, EndOf
  <2> QED BY <2>2 DEF r, a, more
<1>6. \A k \in 1..m : after[k].cells >= 1 /\ EndOf(after[k]) <= n
  <2> TAKE k \in 1..m
  <2>1. runs[k].cells >= 1 /\ EndOf(runs[k]) <= n - 1
    BY <1>2
  <2>2. after[k].cells >= 1
    BY <1>4, <1>5, <2>1
  <2>3. EndOf(after[k]) <= n
    <3> DEFINE e == EndOf(runs[k])
               f == EndOf(after[k])
    <3>1. e \in Nat /\ e <= n - 1 /\ (f = e \/ f = e + 1)
      BY <1>5, <2>1
    <3> HIDE DEF e, f
    <3>2. f <= n
      BY <1>1, <3>1
    <3> QED BY <3>2 DEF f
  <2> QED BY <2>2, <2>3
<1>7. \A k, l \in 1..m : k < l => EndOf(after[k]) <= after[l].first
  <2> TAKE k, l \in 1..m
  <2> HAVE k < l
  <2>1. k # m
    BY <1>1
  <2>2. EndOf(runs[k]) <= runs[l].first
    BY <1>2
  <2> QED BY <1>4, <1>5, <2>1, <2>2
<1>8. \A k \in 1..m : \A i \in Nat :
         RunCovers(after[k], i) <=> RunCovers(runs[k], i) \/ (k = m /\ i = n)
  <2> TAKE k \in 1..m
  <2> TAKE i \in Nat
  <2>1. k = m => runs[k].first + runs[k].cells = n - 1
    BY <1>2 DEF EndOf
  <2> DEFINE f == runs[k].first
             c == runs[k].cells
             g == after[k].first
             d == after[k].cells
  <2>2. f \in Nat /\ c \in Nat /\ g = f /\ d = c + IF k = m THEN 1 ELSE 0
    BY <1>4, <1>5
  <2>3. k = m => f + c = n - 1
    BY <2>1
  <2>4. /\ RunCovers(after[k], i) <=> i \in g + 1 .. g + d
        /\ RunCovers(runs[k], i) <=> i \in f + 1 .. f + c
    BY DEF RunCovers
  <2> HIDE DEF f, c, g, d
  <2>5. CASE k = m
    <3>1. g = f /\ d = c + 1 /\ f + c = n - 1
      BY <2>2, <2>3, <2>5
    <3>2. i \in g + 1 .. g + d <=> i \in f + 1 .. f + c \/ i = n
      BY <1>1, <2>2, <3>1
    <3> QED BY <2>4, <2>5, <3>2
  <2>6. CASE k # m
    <3>1. g = f /\ d = c
      BY <2>2, <2>6
    <3> QED BY <2>4, <2>6, <3>1
  <2> QED BY <2>5, <2>6
<1>9. \A i \in 1..n : i \in Nat /\ (i \in 1..n - 1 \/ i = n)
  BY <1>1
<1>10. \A i \in 1..n : \E k \in 1..m : RunCovers(after[k], i)
  <2> TAKE i \in 1..n
  <2>1. CASE i = n
    BY <1>3, <1>8, <1>9, <2>1
  <2>2. CASE i \in 1..n - 1
    <3>1. PICK k \in 1..m : RunCovers(runs[k], i)
      BY <1>2, <2>2
    <3> QED BY <1>8, <1>9, <3>1
  <2> QED BY <1>9, <2>1, <2>2
<1>11. \A k \in 1..m : \A i \in 1..n :
          RunCovers(after[k], i) => RunKey(after[k]) = RunKey(observed[i])
  <2> TAKE k \in 1..m
  <2> TAKE i \in 1..n
  <2> HAVE RunCovers(after[k], i)
  <2>1. CASE k = m /\ i = n
    BY <1>2, <1>4, <2>1
  <2>2. CASE RunCovers(runs[k], i)
    <3>1. i <= EndOf(runs[k])
      BY <1>3, <1>9, <2>2, CoversUntilEnd
    <3>2. EndOf(runs[k]) <= n - 1 /\ EndOf(runs[k]) \in Nat
      BY <1>2, <1>5
    <3>3. i \in 1..n - 1
      BY <1>1, <3>1, <3>2
    <3> QED BY <1>2, <1>4, <2>2, <3>3
  <2> QED BY <1>8, <1>9, <2>1, <2>2
<1>12. \A k, l \in 1..m : l = k + 1 => RunKey(after[k]) # RunKey(after[l])
  BY <1>2, <1>4
<1>13. m = RunCount(observed, n)
  BY <1>1, <1>2, RunCountNext
<1>14. m # 0 /\ EndOf(after[m]) = n /\ RunKey(after[m]) = RunKey(observed[n])
  <2>1. EndOf(runs[m]) = n - 1 /\ RunKey(runs[m]) = RunKey(observed[n])
    BY <1>2
  <2> QED BY <1>1, <1>2, <1>3, <1>4, <1>5, <2>1
<1> QED BY <1>3, <1>6, <1>7, <1>10, <1>11, <1>12, <1>13, <1>14 DEF Tiled

VisitsOf(O) ==
    [blocks : Seq({o.block : o \in O}), done : Seq(RunsOf(O)), current : Seq(RunsOf(O))]

(* The cells and runs given out for the first n cells.                      *)
Told(v, observed, n) ==
    /\ Len(v.blocks) = n /\ \A i \in 1..n : v.blocks[i] = observed[i].block
    /\ Len(v.current) = IF n = 0 THEN 0 ELSE 1
    /\ Tiled(v.done \o v.current, observed, n)

LEMMA VisitBegins ==
    ASSUME NEW O, NEW observed \in Seq(O), NEW n \in 1..Len(observed),
           NEW v \in VisitsOf(O), Told(v, observed, n - 1),
           NEW w \in VisitsOf(O),
           NEW run \in RunsOf(O), run.first = n - 1, run.cells = 1,
           RunKey(run) = RunKey(observed[n]),
           n = 1 \/ RunKey(observed[n - 1]) # RunKey(observed[n]),
           w.done = v.done \o v.current, w.current = <<run>>
    PROVE  Tiled(w.done \o w.current, observed, n)
<1> DEFINE runs == v.done \o v.current
<1>1. runs \in Seq(RunsOf(O))
  BY DEF VisitsOf
<1>2. Tiled(runs, observed, n - 1)
  BY DEF Told
<1>3. w.done \o w.current = runs \o <<run>>
  OBVIOUS
<1> HIDE DEF runs
<1>5. runs \o <<run>> = Append(runs, run)
  BY <1>1, AppendIsConcat
<1>4. Tiled(Append(runs, run), observed, n)
  BY <1>1, <1>2, TiledNew
<1> QED BY <1>3, <1>4, <1>5

LEMMA OneMore ==
    ASSUME NEW R, NEW s \in Seq(R), NEW t \in Seq(R), Len(t) = 1
    PROVE  /\ s \o t \in Seq(R) /\ Len(s \o t) = Len(s) + 1
           /\ (s \o t)[Len(s) + 1] = t[1]
           /\ \A i \in 1 .. Len(s) + 1 : i # Len(s) + 1 => (s \o t)[i] = s[i]
<1>1. Len(s) \in Nat /\ Len(s) + 1 \in 1 .. Len(s) + 1
  OBVIOUS
<1>2. s \o t \in Seq(R) /\ Len(s \o t) = Len(s) + Len(t)
  BY ConcatProperties
<1>3. \A i \in 1 .. Len(s) + Len(t) : (s \o t)[i] = IF i <= Len(s) THEN s[i] ELSE t[i - Len(s)]
  BY ConcatProperties
<1>4. \A i \in 1 .. Len(s) + 1 : (s \o t)[i] = IF i <= Len(s) THEN s[i] ELSE t[i - Len(s)]
  BY <1>3
<1>5. (s \o t)[Len(s) + 1] = t[1]
  <2>1. ~(Len(s) + 1 <= Len(s)) /\ (Len(s) + 1) - Len(s) = 1
    BY <1>1
  <2> QED BY <1>1, <1>4, <2>1
<1>6. \A i \in 1 .. Len(s) + 1 : i # Len(s) + 1 => (s \o t)[i] = s[i]
  <2> TAKE i \in 1 .. Len(s) + 1
  <2> HAVE i # Len(s) + 1
  <2>1. i <= Len(s)
    BY <1>1
  <2> QED BY <1>4, <2>1
<1> QED BY <1>2, <1>5, <1>6

LEMMA VisitProlongs ==
    ASSUME NEW O, NEW observed \in Seq(O), NEW n \in 1..Len(observed), n # 1,
           NEW v \in VisitsOf(O), Told(v, observed, n - 1),
           NEW w \in VisitsOf(O), Len(v.current) = 1, Len(w.current) = 1,
           RunKey(observed[n - 1]) = RunKey(observed[n]),
           w.done = v.done, w.current[1] = [v.current[1] EXCEPT !.cells = @ + 1]
    PROVE  Tiled(w.done \o w.current, observed, n)
<1> DEFINE runs == v.done \o v.current
           after == w.done \o w.current
           c == v.current[1]
           d == w.current[1]
           m == Len(runs)
<1>1. /\ v.done \in Seq(RunsOf(O)) /\ v.current \in Seq(RunsOf(O)) /\ w.current \in Seq(RunsOf(O))
      /\ c \in RunsOf(O) /\ w.done = v.done
  BY DEF VisitsOf
<1>2. /\ runs \in Seq(RunsOf(O)) /\ after \in Seq(RunsOf(O))
      /\ m = Len(v.done) + 1 /\ Len(after) = m /\ m \in Nat
      /\ runs[m] = c /\ after[m] = d
      /\ \A k \in 1..m : k # m => runs[k] = after[k]
  <2> DEFINE s == v.done
             t == v.current
             u == w.current
  <2>1. /\ s \in Seq(RunsOf(O)) /\ t \in Seq(RunsOf(O)) /\ u \in Seq(RunsOf(O))
        /\ Len(t) = 1 /\ Len(u) = 1
        /\ runs = s \o t /\ after = s \o u /\ c = t[1] /\ d = u[1]
    BY <1>1
  <2> HIDE DEF s, t, u, runs, after, c, d
  <2>2. /\ s \o t \in Seq(RunsOf(O)) /\ Len(s \o t) = Len(s) + 1
        /\ (s \o t)[Len(s) + 1] = t[1]
        /\ \A i \in 1 .. Len(s) + 1 : i # Len(s) + 1 => (s \o t)[i] = s[i]
    BY <2>1, OneMore
  <2>3. /\ s \o u \in Seq(RunsOf(O)) /\ Len(s \o u) = Len(s) + 1
        /\ (s \o u)[Len(s) + 1] = u[1]
        /\ \A i \in 1 .. Len(s) + 1 : i # Len(s) + 1 => (s \o u)[i] = s[i]
    BY <2>1, OneMore
  <2>4. Len(s) \in Nat
    BY <2>1
  <2> QED BY <2>1, <2>2, <2>3, <2>4 DEF s
<1>3. d.first = c.first /\ d.cells = c.cells + 1 /\ RunKey(d) = RunKey(c)
  BY <1>1 DEF RunsOf, RunKey
<1>4. Tiled(runs, observed, n - 1)
  BY DEF Told
<1> HIDE DEF runs, after, c, d
<1>5. \A k \in 1..m : k # m => runs[k] = after[k] /\ runs[k].cells \in Nat
  <2>1. \A k \in 1..m : runs[k] \in RunsOf(O)
    BY <1>2
  <2> QED BY <1>2, <2>1 DEF RunsOf
<1>6. \A k \in 1..m : after[k].first = runs[k].first /\ RunKey(after[k]) = RunKey(runs[k])
  BY <1>2, <1>3, <1>5
<1>7. \A k \in 1..m : after[k].cells = runs[k].cells + IF k = m THEN 1 ELSE 0
  BY <1>2, <1>3, <1>5
<1>8. Tiled(after, observed, n)
  BY <1>2, <1>4, <1>6, <1>7, TiledProlonged
<1> QED BY <1>8 DEF after

LEMMA VisitStep ==
    ASSUME NEW O, NEW observed \in Seq(O), NEW n \in 1..Len(observed),
           NEW v \in VisitsOf(O), Told(v, observed, n - 1)
    PROVE  Visit(v, observed[n]) \in VisitsOf(O) /\ Told(Visit(v, observed[n]), observed, n)
<1> DEFINE o == observed[n]
           w == Visit(v, o)
           c == v.current[1]
           run == [section |-> o.section, presence |-> o.presence, revision |-> o.revision,
                   first |-> n - 1, cells |-> 1]
<1>1. /\ n \in Nat \ {0} /\ n - 1 \in Nat /\ n \in Nat /\ o \in O
  OBVIOUS
<1>2. /\ v.blocks \in Seq({x.block : x \in O})
      /\ v.done \in Seq(RunsOf(O)) /\ v.current \in Seq(RunsOf(O))
  BY DEF VisitsOf
<1>3. /\ Len(v.blocks) = n - 1 /\ \A i \in 1..n - 1 : v.blocks[i] = observed[i].block
      /\ Len(v.current) = (IF n = 1 THEN 0 ELSE 1)
      /\ Tiled(v.done \o v.current, observed, n - 1)
  BY <1>1 DEF Told
<1>4. w.blocks = Append(v.blocks, o.block)
  BY DEF Visit
<1>5. /\ w.blocks \in Seq({x.block : x \in O})
      /\ Len(w.blocks) = n /\ \A i \in 1..n : w.blocks[i] = observed[i].block
  <2>1. o.block \in {x.block : x \in O}
    BY <1>1
  <2>2. /\ w.blocks \in Seq({x.block : x \in O}) /\ Len(w.blocks) = n
        /\ w.blocks[n] = o.block /\ \A i \in 1..n - 1 : w.blocks[i] = v.blocks[i]
    BY <1>1, <1>2, <1>3, <1>4, <2>1, AppendProperties
  <2>3. \A i \in 1..n : i \in 1..n - 1 \/ i = n
    BY <1>1
  <2> QED BY <1>3, <2>2, <2>3
<1>6. run \in RunsOf(O) /\ RunKey(run) = RunKey(o) /\ run.first = n - 1 /\ run.cells = 1
  BY <1>1 DEF RunsOf, RunKey
<1>7. w = [blocks |-> w.blocks, done |-> w.done, current |-> w.current]
  BY DEF Visit
<1>8. v.current = <<>> <=> n = 1
  BY <1>1, <1>2, <1>3
<1>9. ASSUME n # 1
      PROVE  c \in RunsOf(O) /\ RunKey(c) = RunKey(observed[n - 1])
  <2>1. c \in RunsOf(O) /\ Len(v.current) = 1
    BY <1>2, <1>3, <1>9
  <2>2. /\ Len(v.done \o v.current) = Len(v.done) + 1
        /\ (v.done \o v.current)[Len(v.done) + 1] = c
    <3> DEFINE s == v.done
               t == v.current
    <3>1. s \in Seq(RunsOf(O)) /\ t \in Seq(RunsOf(O)) /\ Len(t) = 1 /\ c = t[1]
      BY <1>2, <2>1
    <3> HIDE DEF s, t, c
    <3>2. Len(s \o t) = Len(s) + 1 /\ (s \o t)[Len(s) + 1] = c
      BY <3>1, OneMore
    <3> QED BY <3>2 DEF s, t
  <2>3. n - 1 # 0
    BY <1>1, <1>9
  <2> QED BY <1>3, <2>1, <2>2, <2>3 DEF Tiled
<1>10. SameRun(c, o) <=> RunKey(c) = RunKey(o)
  BY DEF SameRun, RunKey
<1>11. CASE n # 1 /\ RunKey(observed[n - 1]) = RunKey(o)
  <2>1. SameRun(c, o) /\ v.current # <<>>
    BY <1>8, <1>9, <1>10, <1>11
  <2>2. w.done = v.done /\ w.current = <<[c EXCEPT !.cells = @ + 1]>>
    BY <2>1 DEF Visit
  <2>3. [c EXCEPT !.cells = @ + 1] \in RunsOf(O)
    <3>1. c \in RunsOf(O)
      BY <1>9, <1>11
    <3> HIDE DEF c
    <3> QED BY <3>1 DEF RunsOf
  <2>4. w.current \in Seq(RunsOf(O)) /\ Len(w.current) = 1 /\ w.current[1] = [c EXCEPT !.cells = @ + 1]
    BY <2>2, <2>3
  <2>5. w \in VisitsOf(O)
    BY <1>2, <1>5, <1>7, <2>2, <2>4 DEF VisitsOf
  <2>6. Len(v.current) = 1
    BY <1>3, <1>11
  <2> HIDE DEF w, o
  <2>7. Tiled(w.done \o w.current, observed, n)
    BY <1>11, <2>2, <2>4, <2>5, <2>6, VisitProlongs DEF o
  <2> QED BY <1>1, <1>5, <2>4, <2>5, <2>7 DEF Told, w, o
<1>12. CASE n = 1 \/ RunKey(observed[n - 1]) # RunKey(o)
  <2>1. v.current = <<>> \/ ~SameRun(c, o)
    BY <1>8, <1>9, <1>10, <1>12
  <2>2. w.current = <<run>>
    BY <1>3, <2>1 DEF Visit
  <2>3. w.done = v.done \o v.current
    <3>1. CASE v.current = <<>>
      <4>1. w.done = v.done
        BY <3>1 DEF Visit
      <4> QED BY <1>2, <3>1, <4>1
    <3>2. CASE v.current # <<>>
      BY <2>1, <3>2 DEF Visit
    <3> QED BY <3>1, <3>2
  <2>4. w.current \in Seq(RunsOf(O)) /\ Len(w.current) = 1 /\ w.done \in Seq(RunsOf(O))
    BY <1>2, <1>6, <2>2, <2>3
  <2>5. w \in VisitsOf(O)
    BY <1>5, <1>7, <2>4 DEF VisitsOf
  <2> HIDE DEF w, run
  <2>6. Tiled(w.done \o w.current, observed, n)
    BY <1>6, <1>12, <2>2, <2>3, <2>5, VisitBegins
  <2> QED BY <1>1, <1>5, <2>4, <2>5, <2>6 DEF Told, w
<1> QED BY <1>11, <1>12

LEMMA VisitedTold ==
    ASSUME NEW O, NEW observed \in Seq(O)
    PROVE  \E v \in VisitsOf(O) :
              /\ Told(v, observed, Len(observed))
              /\ Visited(observed) = [blocks |-> v.blocks, runs |-> v.done \o v.current]
<1> DEFINE N == Len(observed)
           none == [blocks |-> <<>>, done |-> <<>>, current |-> <<>>]
           S == [n \in 0..N |-> {x \in VisitsOf(O) : Told(x, observed, n)}]
           step == [p \in (1..N) \X VisitsOf(O) |-> Visit(p[2], observed[p[1]])]
           Is(f) == f = [n \in 0..N |-> IF n = 0 THEN [blocks |-> <<>>, done |-> <<>>, current |-> <<>>]
                                        ELSE Visit(f[n - 1], observed[n])]
           after == CHOOSE f : Is(f)
<1>1. N \in Nat
  OBVIOUS
<1>2. none \in S[0]
  <2>1. none \in VisitsOf(O) /\ none.done = <<>> /\ none.current = <<>> /\ none.blocks = <<>>
    BY DEF VisitsOf
  <2>2. none.done \o none.current = <<>>
    BY <2>1
  <2>3. Tiled(<<>>, observed, 0)
    BY RunCountNone DEF Tiled
  <2>4. Told(none, observed, 0)
    BY <2>1, <2>2, <2>3 DEF Told
  <2> QED BY <1>1, <2>1, <2>4
<1>3. \A n \in 1..N : \A x \in S[n - 1] :
         x \in VisitsOf(O) /\ Visit(x, observed[n]) \in S[n]
  <2> TAKE n \in 1..N
  <2> TAKE x \in S[n - 1]
  <2>1. n - 1 \in 0..N /\ n \in 0..N
    BY <1>1
  <2>2. x \in VisitsOf(O) /\ Told(x, observed, n - 1)
    BY <2>1
  <2>3. Visit(x, observed[n]) \in VisitsOf(O) /\ Told(Visit(x, observed[n]), observed, n)
    BY <2>2, VisitStep
  <2> QED BY <2>1, <2>2, <2>3
<1>4. \A n \in 1..N, x \in VisitsOf(O) : step[<<n, x>>] = Visit(x, observed[n])
  OBVIOUS
<1>5. S[N] = {x \in VisitsOf(O) : Told(x, observed, N)}
  BY <1>1
<1>16. none = [blocks |-> <<>>, done |-> <<>>, current |-> <<>>]
  OBVIOUS
<1> HIDE DEF S, step, N, none
<1>6. PICK f : Unrolled(f, N, none, step) /\ \A i \in 0..N : f[i] \in S[i]
  <2>1. \A n \in 1..N : \A x \in S[n - 1] : step[<<n, x>>] \in S[n]
    BY <1>3, <1>4
  <2> QED BY <1>1, <1>2, <2>1, Unrolls
<1> DEFINE g == [n \in 0..N |-> IF n = 0 THEN none ELSE Visit(f[n - 1], observed[n])]
<1>7. \A n \in 0..N : f[n] = IF n = 0 THEN none ELSE Visit(f[n - 1], observed[n])
  <2> TAKE n \in 0..N
  <2>1. CASE n = 0
    BY <1>6, <2>1 DEF Unrolled
  <2>2. CASE n # 0
    <3>1. n \in 1..N /\ n - 1 \in 0..N
      BY <1>1, <2>2
    <3>2. f[n - 1] \in S[n - 1] /\ f[n] = step[<<n, f[n - 1]>>]
      BY <1>6, <3>1 DEF Unrolled
    <3> QED BY <1>3, <1>4, <2>2, <3>1, <3>2
  <2> QED BY <2>1, <2>2
<1>8. Is(g)
  <2>1. \A n \in 0..N : n # 0 => n - 1 \in 0..N
    BY <1>1
  <2>2. \A n \in 0..N : g[n] = f[n]
    BY <1>7
  <2>3. \A n \in 0..N : g[n] = IF n = 0 THEN none ELSE Visit(g[n - 1], observed[n])
    BY <1>7, <2>1, <2>2
  <2> QED BY <2>3 DEF none
<1> HIDE DEF g
<1>9. Is(after)
  BY <1>8
<1>10. Visited(observed) = [blocks |-> after[N].blocks, runs |-> after[N].done \o after[N].current]
  BY DEF Visited, N
<1> HIDE DEF after
<1>11. after[0] = none /\ \A n \in 1..N : after[n] = Visit(after[n - 1], observed[n])
  BY <1>1, <1>9, <1>16
<1> DEFINE T == {n \in 0..N : after[n] \in S[n]}
<1>12. 0 \in T
  BY <1>1, <1>2, <1>11
<1>13. \A n \in 1..N : n - 1 \in T => n \in T
  <2> TAKE n \in 1..N
  <2> HAVE n - 1 \in T
  <2>1. n \in 0..N /\ after[n - 1] \in S[n - 1]
    BY <1>1
  <2>2. after[n] = Visit(after[n - 1], observed[n])
    BY <1>11
  <2> QED BY <1>3, <2>1, <2>2
<1> HIDE DEF T
<1>14. 0..N \subseteq T
  BY <1>1, <1>12, <1>13, Induced
<1>15. after[N] \in S[N]
  BY <1>1, <1>14 DEF T
<1> QED BY <1>5, <1>10, <1>15 DEF N

(* What the preflight has counted after the first n cells.                  *)
CountedTo(observed, n) ==
    [runs |-> RunCount(observed, n),
     last |-> IF n = 0 THEN <<>> ELSE <<RunKey(observed[n])>>,
     resolved |-> \A i \in 1..n : observed[i].block # Absent]

LEMMA CountedStep ==
    ASSUME NEW observed, NEW n \in Nat \ {0}
    PROVE  Counted(CountedTo(observed, n - 1), observed[n]) = CountedTo(observed, n)
<1> DEFINE o == observed[n]
           p == CountedTo(observed, n - 1)
           w == Counted(p, o)
<1>1. n \in 1..n /\ (\A i \in 1..n : i \in 1..n - 1 \/ i = n) /\ 1..n - 1 \subseteq 1..n
  OBVIOUS
<1>2. /\ p.runs = RunCount(observed, n - 1)
      /\ p.last = IF n - 1 = 0 THEN <<>> ELSE <<RunKey(observed[n - 1])>>
      /\ p.resolved = \A i \in 1..n - 1 : observed[i].block # Absent
  BY DEF CountedTo
<1> HIDE DEF p
<1>3. w = [runs |-> p.runs + IF p.last = <<RunKey(o)>> THEN 0 ELSE 1, last |-> <<RunKey(o)>>,
           resolved |-> p.resolved /\ o.block # Absent]
  BY DEF Counted
<1>4. p.last = <<RunKey(o)>> <=> n # 1 /\ RunKey(observed[n - 1]) = RunKey(o)
  <2> DEFINE k == RunKey(o)
             l == RunKey(observed[n - 1])
  <2>1. p.last = IF n = 1 THEN <<>> ELSE <<l>>
    BY <1>2
  <2> HIDE DEF k, l
  <2>2. <<l>> = <<k>> <=> l = k
    OBVIOUS
  <2>3. <<>> # <<k>>
    OBVIOUS
  <2>4. p.last = <<k>> <=> n # 1 /\ l = k
    BY <2>1, <2>2, <2>3
  <2> QED BY <2>4 DEF k, l
<1>5. p.runs + (IF p.last = <<RunKey(o)>> THEN 0 ELSE 1) = RunCount(observed, n)
  BY <1>2, <1>4, RunCountNext
<1>6. (p.resolved /\ o.block # Absent) = \A i \in 1..n : observed[i].block # Absent
  BY <1>1, <1>2
<1>7. CountedTo(observed, n) =
         [runs |-> RunCount(observed, n), last |-> <<RunKey(o)>>,
          resolved |-> \A i \in 1..n : observed[i].block # Absent]
  BY DEF CountedTo
<1>8. w = CountedTo(observed, n)
  BY <1>3, <1>5, <1>6, <1>7
<1> QED BY <1>8 DEF p

LEMMA PreflightCounted ==
    ASSUME NEW observed, Len(observed) \in Nat
    PROVE  Preflight(observed) = CountedTo(observed, Len(observed))
<1> DEFINE N == Len(observed)
           none == [runs |-> 0, last |-> <<>>, resolved |-> TRUE]
           Is(f) == f = [n \in 0..N |-> IF n = 0 THEN [runs |-> 0, last |-> <<>>, resolved |-> TRUE]
                                        ELSE Counted(f[n - 1], observed[n])]
           after == CHOOSE f : Is(f)
           g == [n \in 0..N |-> CountedTo(observed, n)]
<1>1. N \in Nat
  OBVIOUS
<1>2. CountedTo(observed, 0) = none
  <2>1. \A i \in 1..0 : observed[i].block # Absent
    OBVIOUS
  <2>2. (\A i \in 1..0 : observed[i].block # Absent) = TRUE
    BY <2>1
  <2> QED BY <2>2, RunCountNone DEF CountedTo
<1>12. none = [runs |-> 0, last |-> <<>>, resolved |-> TRUE]
  OBVIOUS
<1> HIDE DEF none, N
<1>3. \A n \in 1..N : /\ n - 1 \in 0..N /\ n \in 0..N /\ n # 0
                      /\ Counted(CountedTo(observed, n - 1), observed[n]) = CountedTo(observed, n)
  <2> TAKE n \in 1..N
  <2>1. n \in Nat \ {0} /\ n - 1 \in 0..N /\ n \in 0..N
    BY <1>1
  <2> QED BY <2>1, CountedStep
<1>4. Is(g)
  <2>1. \A n \in 0..N : n = 0 \/ n \in 1..N
    BY <1>1
  <2>2. \A n \in 0..N : g[n] = IF n = 0 THEN none ELSE Counted(g[n - 1], observed[n])
    BY <1>2, <1>3, <2>1
  <2> QED BY <2>2 DEF none
<1> HIDE DEF g
<1>5. Is(after)
  BY <1>4
<1>6. Preflight(observed) = after[N]
  BY DEF Preflight, N
<1> HIDE DEF after
<1>7. after[0] = none /\ \A n \in 1..N : after[n] = Counted(after[n - 1], observed[n])
  <2>1. 0 \in 0..N /\ \A n \in 1..N : n \in 0..N /\ n # 0
    BY <1>1
  <2>2. \A n \in 0..N : after[n] = IF n = 0 THEN none ELSE Counted(after[n - 1], observed[n])
    BY <1>5, <1>12
  <2> QED BY <2>1, <2>2
<1> DEFINE T == {n \in 0..N : after[n] = CountedTo(observed, n)}
<1>8. 0 \in T
  BY <1>1, <1>2, <1>7
<1>9. \A n \in 1..N : n - 1 \in T => n \in T
  <2> TAKE n \in 1..N
  <2> HAVE n - 1 \in T
  <2> QED BY <1>3, <1>7
<1> HIDE DEF T
<1>10. 0..N \subseteq T
  BY <1>1, <1>8, <1>9, Induced
<1>11. after[N] = CountedTo(observed, N)
  BY <1>1, <1>10 DEF T
<1> QED BY <1>6, <1>11 DEF N

----------------------------------------------------------------------------
(* The answers agree.                                                       *)

(* The cells of a box and what is read of them.                             *)
Reads(world, cells, observed) ==
    /\ Len(cells) \in Nat \ {0} /\ Len(observed) = Len(cells) /\ DOMAIN cells = 1..Len(cells)
    /\ \A i \in 1..Len(cells) : /\ cells[i] \in Triple
                                /\ observed[i] = CellAt(world, cells[i])
                                /\ observed[i].section = SectionOf(cells[i])
                                /\ observed[i].offset = OffsetOf(cells[i])
    /\ Coherent(observed)

LEMMA OneRun ==
    ASSUME NEW O, NEW runs \in Seq(RunsOf(O)), NEW observed, NEW n \in Nat,
           Tiled(runs, observed, n), NEW i \in 1..n
    PROVE  Cardinality({k \in 1..Len(runs) : RunCovers(runs[k], i)}) = 1
<1> DEFINE K == {k \in 1..Len(runs) : RunCovers(runs[k], i)}
<1>1. PICK k \in 1..Len(runs) : RunCovers(runs[k], i)
  BY DEF Tiled
<1>2. \A l \in K : runs[l] \in RunsOf(O) /\ l \in 1..Len(runs) /\ RunCovers(runs[l], i)
  OBVIOUS
<1>3. \A l \in K : i <= EndOf(runs[l]) /\ runs[l].first < i
                   /\ EndOf(runs[l]) \in Nat /\ runs[l].first \in Nat
  BY <1>2, CoversUntilEnd
<1>4. \A l, m \in K : l < m => EndOf(runs[l]) <= runs[m].first
  BY DEF Tiled
<1>5. k \in K
  BY <1>1
<1>6. \A l \in K : l = k
  <2> SUFFICES ASSUME NEW l \in K, l # k PROVE FALSE
    OBVIOUS
  <2>1. l < k \/ k < l
    BY <1>2, <1>5
  <2>2. EndOf(runs[l]) <= runs[k].first \/ EndOf(runs[k]) <= runs[l].first
    BY <1>4, <1>5, <2>1
  <2>3. /\ i <= EndOf(runs[l]) /\ runs[l].first < i /\ i <= EndOf(runs[k]) /\ runs[k].first < i
        /\ EndOf(runs[l]) \in Nat /\ runs[l].first \in Nat
        /\ EndOf(runs[k]) \in Nat /\ runs[k].first \in Nat
    BY <1>3, <1>5
  <2> QED BY <2>2, <2>3
<1> HIDE DEF K
<1>7. K = {k}
  BY <1>5, <1>6
<1>8. Cardinality({k}) = 1
  BY FS_Singleton
<1> QED BY <1>7, <1>8 DEF K

LEMMA CellsRight ==
    ASSUME NEW world, NEW cells, NEW observed, NEW O, observed \in Seq(O),
           Reads(world, cells, observed),
           NEW v \in VisitsOf(O), Told(v, observed, Len(cells))
    PROVE  CellsAgree(world, cells, v.blocks, v.done \o v.current)
<1> DEFINE runs == v.done \o v.current
           n == Len(cells)
<1>1. runs \in Seq(RunsOf(O))
  <2>1. v.done \in Seq(RunsOf(O)) /\ v.current \in Seq(RunsOf(O))
    BY DEF VisitsOf
  <2> QED BY <2>1, ConcatProperties
<1>2. n \in Nat /\ Tiled(runs, observed, n) /\ \A i \in 1..n : v.blocks[i] = observed[i].block
  BY DEF Told, Reads
<1>3. \A i \in 1..n : observed[i] = CellAt(world, cells[i]) /\ observed[i].section = SectionOf(cells[i])
  BY DEF Reads
<1> HIDE DEF runs, n
<1>4. ASSUME NEW i \in 1..n
      PROVE  /\ v.blocks[i] = CellAt(world, cells[i]).block
             /\ Cardinality({k \in 1..Len(runs) : RunCovers(runs[k], i)}) = 1
             /\ \E k \in 1..Len(runs) : RunCovers(runs[k], i) /\ SameRun(runs[k], CellAt(world, cells[i]))
                                        /\ runs[k].section = SectionOf(cells[i])
  <2>1. PICK k \in 1..Len(runs) : RunCovers(runs[k], i)
    BY <1>2 DEF Tiled
  <2>2. RunKey(runs[k]) = RunKey(observed[i])
    BY <1>2, <2>1 DEF Tiled
  <2>3. SameRun(runs[k], observed[i]) /\ runs[k].section = observed[i].section
    BY <2>2 DEF SameRun, RunKey
  <2>4. Cardinality({l \in 1..Len(runs) : RunCovers(runs[l], i)}) = 1
    BY <1>1, <1>2, OneRun
  <2> QED BY <1>2, <1>3, <2>1, <2>3, <2>4
<1> QED BY <1>4 DEF CellsAgree, runs, n

LEMMA RanksCounted ==
    ASSUME NEW world, NEW cells, NEW observed,
           Reads(world, cells, observed)
    PROVE  \A i \in 1..Len(cells) :
              Rank(cells, i) = HowMany(observed, i, observed[i].section)
<1> TAKE i \in 1..Len(cells)
<1>1. \A j \in 1..i : observed[j].section = SectionOf(cells[j])
  BY DEF Reads
<1>2. observed[i].section = SectionOf(cells[i])
  BY DEF Reads
<1>3. {j \in 1..i : SectionOf(cells[j]) = SectionOf(cells[i])} = Own(observed, i, observed[i].section)
  BY <1>1, <1>2 DEF Own
<1> QED BY <1>3 DEF Rank, HowMany

SectionsOfSegments(segments) == {segments[k].section : k \in 1..Len(segments)}
SectionsOfCells(cells) == {SectionOf(c) : c \in ToSet(cells)}

(* Every section that was read has its one segment, which says what was     *)
(* read of it.                                                              *)
LEMMA SegmentsSay ==
    ASSUME NEW world, NEW cells, NEW observed, NEW O, observed \in Seq(O),
           Reads(world, cells, observed),
           NEW segments \in Seq(SegmentsOf(O)), Gathered(segments, observed, Len(cells))
    PROVE  /\ \A k \in 1..Len(segments) : \A i \in 1..Len(cells) :
                 segments[k].section = observed[i].section => SaysOf(segments[k], observed[i])
           /\ SectionsOfSegments(segments) = SectionsOfCells(cells)
           /\ (\A k \in 1..Len(segments) : segments[k].resolved)
                 <=> \A i \in 1..Len(cells) : observed[i].block # Absent
<1> DEFINE n == Len(cells)
           m == Len(segments)
<1>1. /\ \A k \in 1..m : \E i \in 1..n : SaysOf(segments[k], observed[i])
      /\ \A i \in 1..n : \E k \in 1..m : segments[k].section = observed[i].section
  BY DEF Gathered
<1>2. \A i, j \in 1..n : observed[i].section = observed[j].section => SameSection(observed[i], observed[j])
  BY DEF Reads, Coherent
<1>3. DOMAIN cells = 1..n /\ \A i \in 1..n : observed[i].section = SectionOf(cells[i])
  BY DEF Reads
<1> HIDE DEF n, m
<1>4. ASSUME NEW k \in 1..m, NEW i \in 1..n, segments[k].section = observed[i].section
      PROVE  SaysOf(segments[k], observed[i])
  <2>1. PICK j \in 1..n : SaysOf(segments[k], observed[j])
    BY <1>1
  <2>2. SameSection(observed[i], observed[j])
    BY <1>2, <1>4, <2>1 DEF SaysOf
  <2> QED BY <1>4, <2>1, <2>2 DEF SaysOf, SameSection
<1>5. {segments[k].section : k \in 1..m} = {SectionOf(c) : c \in ToSet(cells)}
  <2>1. ASSUME NEW k \in 1..m
        PROVE  segments[k].section \in {SectionOf(c) : c \in ToSet(cells)}
    <3>1. PICK i \in 1..n : SaysOf(segments[k], observed[i])
      BY <1>1
    <3> QED BY <1>3, <3>1 DEF SaysOf, ToSet
  <2>2. ASSUME NEW c \in ToSet(cells)
        PROVE  SectionOf(c) \in {segments[k].section : k \in 1..m}
    <3>1. PICK i \in 1..n : c = cells[i]
      BY <1>3 DEF ToSet
    <3>2. PICK k \in 1..m : segments[k].section = observed[i].section
      BY <1>1
    <3> QED BY <1>3, <3>1, <3>2
  <2> QED BY <2>1, <2>2
<1>6. ASSUME \A k \in 1..m : segments[k].resolved, NEW i \in 1..n
      PROVE  observed[i].block # Absent
  <2>1. PICK k \in 1..m : segments[k].section = observed[i].section
    BY <1>1
  <2> QED BY <1>4, <1>6, <2>1 DEF SaysOf
<1>7. ASSUME \A i \in 1..n : observed[i].block # Absent, NEW k \in 1..m
      PROVE  segments[k].resolved
  <2>1. PICK i \in 1..n : SaysOf(segments[k], observed[i])
    BY <1>1
  <2> QED BY <1>7, <2>1 DEF SaysOf
<1> QED BY <1>4, <1>5, <1>6, <1>7 DEF n, m, SectionsOfSegments, SectionsOfCells

LEMMA SegmentsRight ==
    ASSUME NEW world, NEW cells, NEW observed, NEW O, observed \in Seq(O),
           Reads(world, cells, observed),
           NEW segments \in Seq(SegmentsOf(O)), Gathered(segments, observed, Len(cells)),
           NEW v \in VisitsOf(O), Told(v, observed, Len(cells))
    PROVE  SegmentsAgree(segments, cells, v.blocks, v.done \o v.current)
<1> DEFINE runs == v.done \o v.current
           n == Len(cells)
           m == Len(segments)
           Sections == {segments[k].section : k \in 1..m}
<1>1. runs \in Seq(RunsOf(O))
  <2>1. v.done \in Seq(RunsOf(O)) /\ v.current \in Seq(RunsOf(O))
    BY DEF VisitsOf
  <2> QED BY <2>1, ConcatProperties
<1>2. n \in Nat /\ Tiled(runs, observed, n) /\ \A i \in 1..n : v.blocks[i] = observed[i].block
  BY DEF Told, Reads
<1>3. m \in Nat /\ DOMAIN segments = 1..m /\ ToSet(segments) = {segments[k] : k \in 1..m}
      /\ ToSet(runs) = {runs[k] : k \in 1..Len(runs)}
  <2>1. m \in Nat /\ DOMAIN segments = 1..m /\ ToSet(segments) = {segments[k] : k \in 1..m}
    BY DEF ToSet
  <2> HIDE DEF runs
  <2>2. ToSet(runs) = {runs[k] : k \in 1..Len(runs)}
    BY <1>1 DEF ToSet
  <2> QED BY <2>1, <2>2
<1>4. \A i \in 1..n : observed[i].section = SectionOf(cells[i]) /\ observed[i].offset = OffsetOf(cells[i])
  BY DEF Reads
<1>5. \A k \in 1..m : \A i \in 1..n :
         segments[k].section = observed[i].section => SaysOf(segments[k], observed[i])
  BY SegmentsSay
<1>6. \A k \in 1..m : segments[k] \in SegmentsOf(O) /\ Holds(segments[k], observed, n)
  BY DEF Gathered
<1>7. {g.section : g \in ToSet(segments)} = Sections
  BY <1>3
<1>8. Cardinality(Sections) = m
  <2> DEFINE f == [k \in 1..m |-> segments[k].section]
  <2>1. DOMAIN f = 1..m /\ Sections = {f[k] : k \in 1..m}
    OBVIOUS
  <2>2. \A k, l \in 1..m : f[k] = f[l] => k = l
    BY DEF Gathered
  <2> HIDE DEF f, Sections, m
  <2> QED BY <1>3, <2>1, <2>2, Enumerated
<1>9. Sections = {SectionOf(c) : c \in ToSet(cells)}
  <2>1. SectionsOfSegments(segments) = SectionsOfCells(cells)
    BY SegmentsSay
  <2> QED BY <2>1 DEF SectionsOfSegments, SectionsOfCells
<1>10. \A i \in 1..n : Rank(cells, i) = HowMany(observed, i, observed[i].section)
  BY RanksCounted
<1> HIDE DEF runs, n, m, Sections
<1>11. ASSUME NEW g \in ToSet(segments)
       PROVE  LET own == {i \in 1..n : SectionOf(cells[i]) = g.section} IN
              /\ \A r \in ToSet(runs) : r.section = g.section => SameRun(r, g)
              /\ Len(g.offsets) = Cardinality(own)
              /\ Len(g.blocks) = IF g.resolved THEN Cardinality(own) ELSE 0
              /\ \A i \in own :
                    /\ g.offsets[Rank(cells, i)] = OffsetOf(cells[i])
                    /\ v.blocks[i] = IF g.resolved THEN g.blocks[Rank(cells, i)] ELSE Absent
  <2> DEFINE own == {i \in 1..n : SectionOf(cells[i]) = g.section}
  <2>1. /\ g \in SegmentsOf(O) /\ Holds(g, observed, n)
        /\ \A i \in 1..n : g.section = observed[i].section => SaysOf(g, observed[i])
    BY <1>3, <1>5, <1>6
  <2>2. own = Own(observed, n, g.section)
    BY <1>4 DEF Own
  <2>3. Cardinality(own) = HowMany(observed, n, g.section)
    BY <2>2 DEF HowMany
  <2>4. ASSUME NEW r \in ToSet(runs), r.section = g.section
        PROVE  SameRun(r, g)
    <3>1. PICK k \in 1..Len(runs) : r = runs[k]
      BY <1>3
    <3> DEFINE i == r.first + 1
    <3>2. r \in RunsOf(O) /\ r.cells >= 1 /\ EndOf(r) <= n
      BY <1>1, <1>2, <3>1 DEF Tiled
    <3>3. i \in 1..n /\ RunCovers(r, i)
      BY <1>2, <3>2 DEF EndOf, RunsOf, RunCovers
    <3> HIDE DEF i
    <3>4. RunKey(r) = RunKey(observed[i])
      BY <1>2, <3>1, <3>3 DEF Tiled
    <3>5. /\ r.section = observed[i].section /\ r.presence = observed[i].presence
          /\ r.revision = observed[i].revision
      BY <3>4 DEF RunKey
    <3>6. SaysOf(g, observed[i])
      BY <2>1, <2>4, <3>3, <3>5
    <3> QED BY <3>5, <3>6 DEF SaysOf, SameRun, RunKey
  <2>5. ASSUME NEW i \in own
        PROVE  /\ g.offsets[Rank(cells, i)] = OffsetOf(cells[i])
               /\ v.blocks[i] = IF g.resolved THEN g.blocks[Rank(cells, i)] ELSE Absent
    <3>1. i \in 1..n /\ observed[i].section = g.section
      BY <1>4
    <3>2. Rank(cells, i) = HowMany(observed, i, g.section)
      BY <1>10, <3>1
    <3>3. /\ g.offsets[HowMany(observed, i, g.section)] = observed[i].offset
          /\ g.resolved => g.blocks[HowMany(observed, i, g.section)] = observed[i].block
      BY <2>1, <3>1 DEF Holds
    <3>4. SaysOf(g, observed[i])
      BY <2>1, <3>1
    <3>5. ~g.resolved => observed[i].block = Absent
      BY <3>4 DEF SaysOf
    <3> QED BY <1>2, <1>4, <3>1, <3>2, <3>3, <3>5
  <2>6. Len(g.offsets) = Cardinality(own) /\ Len(g.blocks) = IF g.resolved THEN Cardinality(own) ELSE 0
    BY <2>1, <2>3 DEF Holds
  <2> QED BY <2>4, <2>5, <2>6
<1> QED BY <1>3, <1>7, <1>8, <1>9, <1>11 DEF SegmentsAgree, n, m, runs

LEMMA GuardRight ==
    ASSUME NEW world, Sound(world), NEW cells, NEW observed, NEW O, observed \in Seq(O),
           Reads(world, cells, observed), NEW pinned,
           NEW segments \in Seq(SegmentsOf(O)), Gathered(segments, observed, Len(cells))
    PROVE  GuardPasses(pinned, segments) <=>
              \A s \in SectionsOfCells(cells) \cap pinned :
                 s \in DOMAIN world /\ world[s].presence = "Ready"
<1> DEFINE m == Len(segments)
           Fine(s) == s \in DOMAIN world /\ world[s].presence = "Ready"
<1>1. \A k \in 1..m : segments[k].presence = "Ready" <=> Fine(segments[k].section)
  <2> TAKE k \in 1..m
  <2>1. PICK i \in 1..Len(cells) : SaysOf(segments[k], observed[i])
    BY DEF Gathered
  <2> DEFINE c == cells[i]
             s == SectionOf(c)
  <2>2. c \in Triple /\ observed[i] = CellAt(world, c)
    BY DEF Reads
  <2> HIDE DEF c
  <2>3. CellAt(world, c).section = s
        /\ CellAt(world, c).presence = IF s \in DOMAIN world THEN world[s].presence ELSE "Unavailable"
    BY <2>2, CellsOfSection
  <2> HIDE DEF s
  <2>4. segments[k].section = s
        /\ segments[k].presence = IF s \in DOMAIN world THEN world[s].presence ELSE "Unavailable"
    BY <2>1, <2>2, <2>3 DEF SaysOf
  <2> QED BY <2>4
<1>2. SectionsOfCells(cells) = {segments[k].section : k \in 1..m}
  BY SegmentsSay DEF SectionsOfSegments
<1>3. GuardPasses(pinned, segments) <=>
         \A k \in 1..m : segments[k].section \in pinned => segments[k].presence = "Ready"
  BY DEF GuardPasses
<1> HIDE DEF m, Fine
<1>4. (\A s \in SectionsOfCells(cells) \cap pinned : Fine(s)) <=>
         \A k \in 1..m : segments[k].section \in pinned => Fine(segments[k].section)
  BY <1>2
<1> QED BY <1>1, <1>3, <1>4 DEF Fine

AllResolved(segments) == \A g \in ToSet(segments) : g.resolved

(* What there is to know of an admissible box.                              *)
LEMMA BoxRead ==
    ASSUME NEW world, Sound(world), NEW lo \in Triple, NEW hi \in Triple, Ordered(lo, hi)
    PROVE  LET cells == CellsIn(lo, hi)
               observed == Observed(world, lo, hi)
               segments == Segments(observed)
               given == Visited(observed)
               told == Preflight(observed)
           IN  /\ ToSet(cells) = CellsOf(lo, hi) /\ Len(cells) = Cardinality(ToSet(cells))
               /\ Len(cells) = BoxCount(lo, hi)
               /\ SectionsOfCells(cells) = SectionsTouched(lo, hi)
               /\ CellsAgree(world, cells, given.blocks, given.runs)
               /\ SegmentsAgree(segments, cells, given.blocks, given.runs)
               /\ \A pinned : GuardPasses(pinned, segments) <=>
                     \A s \in SectionsOfCells(cells) \cap pinned :
                        s \in DOMAIN world /\ world[s].presence = "Ready"
               /\ \E R : given.runs \in Seq(R)
               /\ told.runs = Len(given.runs)
               /\ told.resolved = AllResolved(segments)
               /\ \A k \in 1..Len(given.runs) - 1 : RunKey(given.runs[k]) # RunKey(given.runs[k + 1])
               /\ given = [blocks |-> given.blocks, runs |-> given.runs]
<1> DEFINE cells == CellsIn(lo, hi)
           observed == Observed(world, lo, hi)
           segments == Segments(observed)
           given == Visited(observed)
           told == Preflight(observed)
           O == {CellAt(world, c) : c \in CellsOf(lo, hi)}
           n == Len(cells)
<1>1. /\ observed \in Seq(O)
      /\ Len(observed) = BoxCount(lo, hi) /\ n = BoxCount(lo, hi)
      /\ BoxCount(lo, hi) \in Nat \ {0}
      /\ \A i \in 1..Len(observed) :
            /\ cells[i] \in Triple
            /\ observed[i] = CellAt(world, cells[i])
            /\ observed[i].section = SectionOf(cells[i])
            /\ observed[i].offset = OffsetOf(cells[i])
      /\ Coherent(observed)
  <2>1. BoxCount(lo, hi) \in Nat \ {0}
    BY SpansOfBox
  <2>2. /\ observed \in Seq(O)
        /\ Len(observed) = BoxCount(lo, hi) /\ Len(cells) = BoxCount(lo, hi)
        /\ \A i \in 1..Len(observed) :
              /\ cells[i] \in Triple
              /\ observed[i] = CellAt(world, cells[i])
              /\ observed[i].section = SectionOf(cells[i])
              /\ observed[i].offset = OffsetOf(cells[i])
        /\ Coherent(observed)
    BY ObservedCells
  <2> QED BY <2>1, <2>2
<1>2. DOMAIN cells = 1..n /\ CellsOf(lo, hi) = {cells[i] : i \in 1..n} /\ Cardinality(CellsOf(lo, hi)) = n
  <2>1. DOMAIN cells = 1..BoxCount(lo, hi)
    BY BoxListed
  <2>2. CellsOf(lo, hi) = {cells[i] : i \in 1..BoxCount(lo, hi)}
    BY BoxListed
  <2>3. Cardinality(CellsOf(lo, hi)) = BoxCount(lo, hi)
    BY BoxCounted
  <2> QED BY <1>1, <2>1, <2>2, <2>3
<1> HIDE DEF cells, observed, O
<1>3. Reads(world, cells, observed)
  BY <1>1, <1>2 DEF Reads
<1>4. ToSet(cells) = CellsOf(lo, hi)
  BY <1>2 DEF ToSet
<1>5. segments \in Seq(SegmentsOf(O)) /\ Gathered(segments, observed, n)
  BY <1>1, SegmentsGathered
<1>6. PICK v \in VisitsOf(O) : Told(v, observed, n) /\ given = [blocks |-> v.blocks, runs |-> v.done \o v.current]
  BY <1>1, VisitedTold
<1> DEFINE runs == v.done \o v.current
<1>7. given.blocks = v.blocks /\ given.runs = runs /\ given = [blocks |-> given.blocks, runs |-> given.runs]
  <2>1. given = [blocks |-> v.blocks, runs |-> runs]
    BY <1>6
  <2> HIDE DEF given, runs
  <2>2. given.blocks = v.blocks /\ given.runs = runs
    BY <2>1
  <2> QED BY <2>1, <2>2
<1>8. CellsAgree(world, cells, given.blocks, given.runs)
  BY <1>1, <1>3, <1>6, <1>7, CellsRight
<1>9. SegmentsAgree(segments, cells, given.blocks, given.runs)
  BY <1>1, <1>3, <1>5, <1>6, <1>7, SegmentsRight
<1>10. \A pinned : GuardPasses(pinned, segments) <=>
          \A s \in SectionsOfCells(cells) \cap pinned :
             s \in DOMAIN world /\ world[s].presence = "Ready"
  BY <1>1, <1>3, <1>5, GuardRight
<1>11. runs \in Seq(RunsOf(O)) /\ Tiled(runs, observed, n)
  <2>1. v.done \in Seq(RunsOf(O)) /\ v.current \in Seq(RunsOf(O))
    BY DEF VisitsOf
  <2> QED BY <1>6, <2>1, ConcatProperties DEF Told
<1>12. told = CountedTo(observed, n)
  BY <1>1, PreflightCounted
<1>13. told.runs = Len(runs) /\ told.resolved = \A i \in 1..n : observed[i].block # Absent
  BY <1>11, <1>12 DEF Tiled, CountedTo
<1>14. ToSet(segments) = {segments[k] : k \in 1..Len(segments)}
  BY <1>5 DEF ToSet
<1>15. told.resolved = \A g \in ToSet(segments) : g.resolved
  <2>1. (\A k \in 1..Len(segments) : segments[k].resolved) <=> \A i \in 1..n : observed[i].block # Absent
    BY <1>1, <1>3, <1>5, SegmentsSay
  <2> HIDE DEF segments
  <2>2. (\A g \in ToSet(segments) : g.resolved) <=> \A k \in 1..Len(segments) : segments[k].resolved
    BY <1>14
  <2> QED BY <1>13, <2>1, <2>2
<1> HIDE DEF segments, given, told, runs, n
<1>16. Len(runs) \in Nat /\ DOMAIN runs = 1..Len(runs)
  BY <1>11
<1>17. \A k \in 1..Len(runs) - 1 : RunKey(runs[k]) # RunKey(runs[k + 1])
  <2> TAKE k \in 1..Len(runs) - 1
  <2>1. k \in 1..Len(runs) /\ k + 1 \in 1..Len(runs)
    BY <1>16
  <2> QED BY <1>11, <2>1 DEF Tiled
<1>18. SectionsOfCells(cells) = SectionsTouched(lo, hi)
  BY <1>4 DEF SectionsOfCells, SectionsTouched
<1>19. \E R : runs \in Seq(R)
  BY <1>11
<1> QED BY <1>1, <1>2, <1>4, <1>7, <1>8, <1>9, <1>10, <1>13, <1>15, <1>17, <1>18, <1>19
        DEF cells, observed, segments, given, told, n, AllResolved

LEMMA UsedRuns ==
    ASSUME NEW buffer, Len(buffer) \in Nat, NEW R, NEW runs \in Seq(R), Len(runs) <= Len(buffer)
    PROVE  /\ SubSeq(Overlaid(buffer, runs), 1, Len(runs)) = runs
           /\ \A k \in 1..Len(buffer) : k > Len(runs) => Overlaid(buffer, runs)[k] = buffer[k]
<1> DEFINE m == Len(runs)
           into == Overlaid(buffer, runs)
           S == {runs[k] : k \in 1..m}
           used == SubSeq(into, 1, m)
<1>1. into = [k \in 1..Len(buffer) |-> IF k <= m THEN runs[k] ELSE buffer[k]]
  BY DEF Overlaid
<1>2. m \in Nat /\ m <= Len(buffer)
  OBVIOUS
<1>3. \A k \in 1..m : into[k] = runs[k] /\ into[k] \in S
  BY <1>1, <1>2
<1>4. \A k \in 1..Len(buffer) : k > m => into[k] = buffer[k]
  BY <1>1, <1>2
<1> HIDE DEF into, S
<1>5. /\ used \in Seq(S) /\ Len(used) = IF 1 <= m THEN m - 1 + 1 ELSE 0
      /\ \A k \in 1 .. m - 1 + 1 : used[k] = into[1 + k - 1]
  BY <1>2, <1>3, 1 \in Int, m \in Int, SubSeqProperties
<1> HIDE DEF used
<1>6. Len(used) = m /\ DOMAIN used = 1..m
  BY <1>2, <1>5
<1>7. \A k \in 1..m : used[k] = runs[k]
  BY <1>2, <1>3, <1>5
<1>8. used = runs
  <2>1. used = [k \in 1..m |-> used[k]]
    BY <1>5, <1>6
  <2>2. runs = [k \in 1..m |-> runs[k]]
    OBVIOUS
  <2> QED BY <1>7, <2>1, <2>2
<1> QED BY <1>4, <1>8 DEF used, into

LEMMA OwnedAnswers ==
    ASSUME NEW world, Sound(world), NEW lo \in Triple, NEW hi \in Triple, NEW pinned
    PROVE  LET owned == ReadBoxGuarded(world, lo, hi, pinned)
           IN  /\ owned.ok <=>
                     /\ Admissible(lo, hi)
                     /\ \A s \in SectionsTouched(lo, hi) \cap pinned :
                           s \in DOMAIN world /\ world[s].presence = "Ready"
               /\ ~owned.ok => owned = Refused
               /\ owned.ok => owned = [ok |-> TRUE, count |-> BoxCount(lo, hi),
                                       segments |-> Segments(Observed(world, lo, hi))]
<1> DEFINE segments == Segments(Observed(world, lo, hi))
           box == ReadBox(world, lo, hi)
           owned == ReadBoxGuarded(world, lo, hi, pinned)
           Fine == \A s \in SectionsTouched(lo, hi) \cap pinned :
                      s \in DOMAIN world /\ world[s].presence = "Ready"
<1>1. owned = IF box.ok /\ GuardPasses(pinned, box.segments) THEN box ELSE Refused
  BY DEF ReadBoxGuarded, Guarded
<1>2. box = IF ~Admissible(lo, hi) THEN Refused
            ELSE [ok |-> TRUE, count |-> BoxCount(lo, hi), segments |-> segments]
  BY DEF ReadBox
<1>3. ~Refused.ok
  BY DEF Refused
<1> HIDE DEF segments, box, owned
<1>4. CASE ~Admissible(lo, hi)
  <2>1. box = Refused /\ owned = Refused
    BY <1>1, <1>2, <1>3, <1>4
  <2> QED BY <1>3, <1>4, <2>1 DEF segments, owned
<1>5. CASE Admissible(lo, hi)
  <2>1. /\ box = [ok |-> TRUE, count |-> BoxCount(lo, hi), segments |-> segments]
        /\ box.ok /\ box.segments = segments
    BY <1>2, <1>5
  <2>2. Ordered(lo, hi)
    BY <1>5 DEF Admissible, Ordered
  <2>3. GuardPasses(pinned, segments) <=> Fine
    <3> DEFINE cells == CellsIn(lo, hi)
    <3>1. SectionsOfCells(cells) = SectionsTouched(lo, hi)
      BY <2>2, BoxRead
    <3>2. \A p : GuardPasses(p, segments) <=>
             \A s \in SectionsOfCells(cells) \cap p :
                s \in DOMAIN world /\ world[s].presence = "Ready"
      BY <2>2, BoxRead, Zenon DEF segments
    <3> HIDE DEF cells
    <3> QED BY <3>1, <3>2
  <2> HIDE DEF Fine
  <2>4. owned = IF Fine THEN box ELSE Refused
    BY <1>1, <2>1, <2>3
  <2>5. owned.ok <=> Fine
    BY <1>3, <2>1, <2>4
  <2>6. /\ owned.ok <=> Admissible(lo, hi) /\ Fine
        /\ ~owned.ok => owned = Refused
        /\ owned.ok => owned = [ok |-> TRUE, count |-> BoxCount(lo, hi), segments |-> segments]
    BY <1>5, <2>1, <2>4, <2>5
  <2> QED BY <2>6 DEF owned, segments, Fine
<1> QED BY <1>4, <1>5

LEMMA AnswersRefused ==
    ASSUME NEW q, NEW world, NEW used,
           ~ReadBoxGuarded(world, q.lo, q.hi, q.pinned).ok
    PROVE  LET owned == ReadBoxGuarded(world, q.lo, q.hi, q.pinned)
           IN  owned = Refused =>
                  AnswersRead(q, world, owned, VisitBox(world, q.lo, q.hi, q.pinned),
                              ReadInto(world, q.lo, q.hi, q.pinned, q.blocks, q.runs), used)
<1> DEFINE owned == ReadBoxGuarded(world, q.lo, q.hi, q.pinned)
           visit == VisitBox(world, q.lo, q.hi, q.pinned)
           into == ReadInto(world, q.lo, q.hi, q.pinned, q.blocks, q.runs)
<1>1. SUFFICES ASSUME owned = Refused PROVE AnswersRead(q, world, owned, visit, into, used)
  OBVIOUS
<1>2. visit = Refused
  BY DEF VisitBox
<1>3. into = [result |-> Refused, blocks |-> q.blocks, runs |-> q.runs]
  BY DEF ReadInto
<1> HIDE DEF owned, into, visit
<1>4. Refused.ok = FALSE
  BY DEF Refused
<1>5. /\ ~owned.ok /\ ~visit.ok /\ visit.ok = owned.ok
      /\ ~into.result.ok /\ into.blocks = q.blocks /\ into.runs = q.runs
  BY <1>1, <1>2, <1>3, <1>4
<1> QED BY <1>5 DEF AnswersRead

LEMMA AnswersGiven ==
    ASSUME NEW q, NEW world, Sound(world), q.lo \in Triple, q.hi \in Triple, Ordered(q.lo, q.hi),
           Len(q.blocks) \in Nat, Len(q.runs) \in Nat,
           ReadBoxGuarded(world, q.lo, q.hi, q.pinned) =
              [ok |-> TRUE, count |-> BoxCount(q.lo, q.hi),
               segments |-> Segments(Observed(world, q.lo, q.hi))]
    PROVE  LET into == ReadInto(world, q.lo, q.hi, q.pinned, q.blocks, q.runs)
           IN  AnswersRead(q, world, ReadBoxGuarded(world, q.lo, q.hi, q.pinned),
                           VisitBox(world, q.lo, q.hi, q.pinned), into,
                           SubSeq(into.runs, 1, into.result.runs))
<1> DEFINE lo == q.lo
           hi == q.hi
           owned == ReadBoxGuarded(world, lo, hi, q.pinned)
           visit == VisitBox(world, lo, hi, q.pinned)
           into == ReadInto(world, lo, hi, q.pinned, q.blocks, q.runs)
           used == SubSeq(into.runs, 1, into.result.runs)
           cells == CellsIn(lo, hi)
           observed == Observed(world, lo, hi)
           segments == Segments(observed)
           given == Visited(observed)
           told == Preflight(observed)
           n == BoxCount(lo, hi)
<1>1. lo \in Triple /\ hi \in Triple /\ Ordered(lo, hi)
  OBVIOUS
<1>2. owned = [ok |-> TRUE, count |-> n, segments |-> segments]
  OBVIOUS
<1>3. visit = [ok |-> TRUE, given |-> given, told |-> told.runs]
  BY DEF VisitBox
<1>4. into = IF Len(q.blocks) # n \/ Len(q.runs) < told.runs
             THEN [result |-> Refused, blocks |-> q.blocks, runs |-> q.runs]
             ELSE [result |-> [ok |-> TRUE, count |-> n, runs |-> told.runs, resolved |-> told.resolved],
                   blocks |-> given.blocks, runs |-> Overlaid(q.runs, given.runs)]
  BY DEF ReadInto
<1>5. /\ ToSet(cells) = CellsOf(lo, hi) /\ Len(cells) = Cardinality(ToSet(cells)) /\ Len(cells) = n
      /\ CellsAgree(world, cells, given.blocks, given.runs)
      /\ SegmentsAgree(segments, cells, given.blocks, given.runs)
      /\ \E R : given.runs \in Seq(R)
      /\ told.runs = Len(given.runs)
      /\ told.resolved = \A g \in ToSet(segments) : g.resolved
      /\ \A k \in 1..Len(given.runs) - 1 : RunKey(given.runs[k]) # RunKey(given.runs[k + 1])
      /\ given = [blocks |-> given.blocks, runs |-> given.runs]
  <2> HIDE DEF lo, hi
  <2>1. /\ ToSet(cells) = CellsOf(lo, hi) /\ Len(cells) = Cardinality(ToSet(cells)) /\ Len(cells) = n
        /\ CellsAgree(world, cells, given.blocks, given.runs)
        /\ SegmentsAgree(segments, cells, given.blocks, given.runs)
    BY <1>1, BoxRead
  <2>2. \E R : given.runs \in Seq(R)
    BY <1>1, BoxRead
  <2>3. /\ told.runs = Len(given.runs)
        /\ \A k \in 1..Len(given.runs) - 1 : RunKey(given.runs[k]) # RunKey(given.runs[k + 1])
        /\ given = [blocks |-> given.blocks, runs |-> given.runs]
    BY <1>1, BoxRead
  <2>4. told.resolved = AllResolved(segments)
    BY <1>1, BoxRead
  <2> QED BY <2>1, <2>2, <2>3, <2>4 DEF AllResolved
<1>6. AnswersRead(q, world, owned, visit, into, used) <=>
         /\ ~into.result.ok => into.blocks = q.blocks /\ into.runs = q.runs
         /\ owned.ok /\ ~into.result.ok =>
               \/ Len(q.blocks) # Cardinality(CellsOf(lo, hi))
               \/ Len(q.runs) < Len(visit.given.runs)
         /\ visit.ok = owned.ok
         /\ visit.ok => visit.told = Len(visit.given.runs)
         /\ into.result.ok =>
               /\ owned.ok /\ owned.count = into.result.count
               /\ visit.given = [blocks |-> into.blocks, runs |-> used]
               /\ ToSet(cells) = CellsOf(lo, hi) /\ Len(cells) = Cardinality(ToSet(cells))
               /\ CellsAgree(world, cells, into.blocks, used)
               /\ SegmentsAgree(owned.segments, cells, into.blocks, used)
               /\ \A k \in 1..Len(used) - 1 : RunKey(used[k]) # RunKey(used[k + 1])
               /\ \A k \in 1..Len(q.runs) : k > Len(used) => into.runs[k] = q.runs[k]
               /\ into.result.resolved = \A g \in ToSet(owned.segments) : g.resolved
  BY DEF AnswersRead
<1>7. used = SubSeq(into.runs, 1, into.result.runs)
  OBVIOUS
<1> HIDE DEF owned, visit, into, used, cells, observed, segments, given, told, n, lo, hi
<1>8. /\ owned.ok /\ owned.count = n /\ owned.segments = segments
      /\ visit.ok /\ visit.given = given /\ visit.told = told.runs
      /\ visit.ok = owned.ok
  BY <1>2, <1>3
<1>9. CASE Len(q.blocks) # n \/ Len(q.runs) < told.runs
  <2>1. into.result.ok = FALSE /\ into.blocks = q.blocks /\ into.runs = q.runs
    BY <1>4, <1>9 DEF Refused
  <2>2. Len(q.blocks) # Cardinality(CellsOf(lo, hi)) \/ Len(q.runs) < Len(visit.given.runs)
    BY <1>5, <1>8, <1>9
  <2>3. AnswersRead(q, world, owned, visit, into, used)
    BY <1>5, <1>6, <1>8, <2>1, <2>2
  <2> QED BY <2>3 DEF owned, visit, into, used, lo, hi
<1>10. CASE ~(Len(q.blocks) # n \/ Len(q.runs) < told.runs)
  <2>1. /\ into.result.ok = TRUE /\ into.result.count = n /\ into.result.runs = told.runs
        /\ into.result.resolved = told.resolved
        /\ into.blocks = given.blocks /\ into.runs = Overlaid(q.runs, given.runs)
    BY <1>4, <1>10
  <2>2. PICK R : given.runs \in Seq(R)
    BY <1>5
  <2>3. Len(given.runs) <= Len(q.runs)
    <3>1. Len(given.runs) \in Nat /\ ~(Len(q.runs) < Len(given.runs))
      BY <1>5, <1>10, <2>2
    <3> QED BY <3>1
  <2> DEFINE runs == given.runs
  <2>4. /\ SubSeq(Overlaid(q.runs, runs), 1, Len(runs)) = runs
        /\ \A k \in 1..Len(q.runs) : k > Len(runs) => Overlaid(q.runs, runs)[k] = q.runs[k]
    BY <2>2, <2>3, UsedRuns
  <2>5. used = runs
    BY <1>5, <1>7, <2>1, <2>4
  <2>6. visit.given = [blocks |-> into.blocks, runs |-> used]
    BY <1>5, <1>8, <2>1, <2>5
  <2>7. CellsAgree(world, cells, into.blocks, used) /\ SegmentsAgree(owned.segments, cells, into.blocks, used)
    BY <1>5, <1>8, <2>1, <2>5
  <2>8. /\ \A k \in 1..Len(used) - 1 : RunKey(used[k]) # RunKey(used[k + 1])
        /\ \A k \in 1..Len(q.runs) : k > Len(used) => into.runs[k] = q.runs[k]
    BY <1>5, <2>1, <2>4, <2>5
  <2>9. into.result.resolved = \A g \in ToSet(owned.segments) : g.resolved
    BY <1>5, <1>8, <2>1
  <2>10. visit.told = Len(visit.given.runs)
    BY <1>5, <1>8
  <2>11. AnswersRead(q, world, owned, visit, into, used)
    BY <1>5, <1>6, <1>8, <2>1, <2>6, <2>7, <2>8, <2>9, <2>10
  <2> QED BY <2>11 DEF owned, visit, into, used, lo, hi
<1> QED BY <1>9, <1>10

LEMMA ReadRight ==
    ASSUME NEW q, IsRead(q)
    PROVE  ReadAgrees(q)
<1> DEFINE lo == q.lo
           hi == q.hi
           world == ReadWorld(q.view, q.baseline)
           owned == ReadBoxGuarded(world, lo, hi, q.pinned)
           visit == VisitBox(world, lo, hi, q.pinned)
           into == ReadInto(world, lo, hi, q.pinned, q.blocks, q.runs)
           used == SubSeq(into.runs, 1, into.result.runs)
           sections == SectionsTouched(lo, hi)
           Present(s) == s \in DOMAIN q.view.directory /\ q.view.directory[s].presence = "Ready"
<1>1. lo \in Triple /\ hi \in Triple /\ Len(q.blocks) \in Nat /\ Len(q.runs) \in Nat
  BY DEF IsRead, IsSeq, Triple
<1>2. /\ Sound(world)
      /\ \A s : s \in DOMAIN world /\ world[s].presence = "Ready" <=> Present(s)
  BY WorldRead
<1>3. RegionAgrees(q, sections)
  BY <1>1, RegionRight
<1>4. ReadAgrees(q) <=>
         /\ RegionAgrees(q, sections)
         /\ owned.ok = (Admissible(lo, hi) /\ \A s \in sections \cap q.pinned : Present(s))
         /\ AnswersRead(q, world, owned, visit, into, used)
  BY DEF ReadAgrees, SectionsTouched
<1> HIDE DEF Present, world, sections
<1>5. /\ owned.ok <=> Admissible(lo, hi) /\ \A s \in sections \cap q.pinned : Present(s)
      /\ ~owned.ok => owned = Refused
      /\ owned.ok => owned = [ok |-> TRUE, count |-> BoxCount(lo, hi),
                              segments |-> Segments(Observed(world, lo, hi))]
  <2> HIDE DEF lo, hi
  <2>1. /\ owned.ok <=> /\ Admissible(lo, hi)
                        /\ \A s \in sections \cap q.pinned :
                              s \in DOMAIN world /\ world[s].presence = "Ready"
        /\ ~owned.ok => owned = Refused
        /\ owned.ok => owned = [ok |-> TRUE, count |-> BoxCount(lo, hi),
                                segments |-> Segments(Observed(world, lo, hi))]
    BY <1>1, <1>2, OwnedAnswers DEF sections
  <2> HIDE DEF owned
  <2> QED BY <1>2, <2>1
<1>6. owned.ok \in BOOLEAN
  <2> DEFINE some == [ok |-> TRUE, count |-> BoxCount(lo, hi),
                      segments |-> Segments(Observed(world, lo, hi))]
  <2>1. Refused.ok = FALSE /\ some.ok = TRUE
    BY DEF Refused
  <2> HIDE DEF owned, some
  <2>2. owned = Refused \/ owned = some
    BY <1>5 DEF some
  <2> QED BY <2>1, <2>2
<1>7. CASE ~owned.ok
  <2>1. AnswersRead(q, world, owned, visit, into, used)
    BY <1>5, <1>7, AnswersRefused
  <2> QED BY <1>3, <1>4, <1>5, <1>6, <2>1
<1>8. CASE owned.ok
  <2>1. Ordered(lo, hi)
    BY <1>5, <1>8 DEF Admissible, Ordered
  <2>2. AnswersRead(q, world, owned, visit, into, used)
    BY <1>1, <1>2, <1>5, <1>8, <2>1, AnswersGiven
  <2> QED BY <1>3, <1>4, <1>5, <1>6, <2>2
<1> QED BY <1>7, <1>8

(* Whatever the view, the box, the pins and the buffers, the three ways to  *)
(* read a box of blocks (read_box, read_box_into_buffers, visit_box with    *)
(* their guarded variants) agree with each other, with the cut and with the *)
(* region a pin of the same box covers.                                     *)
THEOREM ReadsRight == ReadSpec => []ReadsAgree
<1>1. question = NoQuestion => ReadsAgree
  BY DEF NoQuestion, ReadsAgree
<1>2. ReadsAgree /\ [question = NoQuestion /\ IsRead(question')]_question => ReadsAgree'
  <2> SUFFICES ASSUME ReadsAgree, [question = NoQuestion /\ IsRead(question')]_question
               PROVE  ReadsAgree'
    OBVIOUS
  <2>1. CASE IsRead(question')
    <3> DEFINE q == question'
    <3>1. IsRead(q)
      BY <2>1
    <3> HIDE DEF q
    <3>2. ReadAgrees(q)
      BY <3>1, ReadRight
    <3> QED BY <3>2 DEF ReadsAgree, q
  <2>2. CASE UNCHANGED question
    BY <2>2 DEF ReadsAgree, ReadAgrees
  <2> QED BY <2>1, <2>2
<1> QED BY <1>1, <1>2, PTL DEF ReadSpec

----------------------------------------------------------------------------
(* Keys: how many digits a number has.                                      *)

(* The numbers up to n with as many digits as the recursion gives them.     *)
DigitTable(n) ==
    {g \in [0..n -> Nat] : \A i \in 0..n : g[i] = IF i < 10 THEN 1 ELSE 1 + g[i \div 10]}

LEMMA Tenth ==
    ASSUME NEW n \in Nat, n >= 10
    PROVE  n \div 10 \in Nat /\ n \div 10 < n
OBVIOUS

LEMMA DigitTableExists ==
    ASSUME NEW N \in Nat
    PROVE  DigitTable(N) # {}
<1> DEFINE T == {n \in 0..N : DigitTable(n) # {}}
<1>1. 0 \in T
  <2> DEFINE g == [i \in 0..0 |-> 1]
  <2>1. g \in DigitTable(0)
    BY DEF DigitTable
  <2> QED BY <2>1
<1>2. ASSUME NEW n \in 1..N, n - 1 \in T
      PROVE  n \in T
  <2>1. n \in Nat /\ n - 1 \in Nat
    OBVIOUS
  <2>2. PICK f : f \in DigitTable(n - 1)
    BY <1>2
  <2>3. f \in [0..n - 1 -> Nat] /\ \A i \in 0..n - 1 : f[i] = IF i < 10 THEN 1 ELSE 1 + f[i \div 10]
    BY <2>2 DEF DigitTable
  <2> DEFINE next == IF n < 10 THEN 1 ELSE 1 + f[n \div 10]
             g == [i \in 0..n |-> IF i = n THEN next ELSE f[i]]
  <2>4. next \in Nat
    BY <2>1, <2>3, Tenth
  <2>5. g \in [0..n -> Nat] /\ g[n] = next /\ \A i \in 0..n - 1 : g[i] = f[i]
    BY <2>1, <2>3, <2>4
  <2>6. next = IF n < 10 THEN 1 ELSE 1 + f[n \div 10]
    OBVIOUS
  <2> HIDE DEF g, next
  <2>7. \A i \in 0..n : i >= 10 => i \div 10 \in 0..n - 1 /\ g[i \div 10] = f[i \div 10]
    <3> TAKE i \in 0..n
    <3> HAVE i >= 10
    <3>1. i \div 10 \in 0..n - 1
      BY <2>1, Tenth
    <3> QED BY <2>5, <3>1
  <2>8. \A i \in 0..n : g[i] = IF i < 10 THEN 1 ELSE 1 + g[i \div 10]
    <3> TAKE i \in 0..n
    <3>1. CASE i = n
      BY <2>1, <2>5, <2>6, <2>7, <3>1
    <3>2. CASE i # n
      <4>1. i \in 0..n - 1
        BY <2>1, <3>2
      <4> QED BY <2>3, <2>5, <2>7, <4>1
    <3> QED BY <3>1, <3>2
  <2> QED BY <2>1, <2>5, <2>8 DEF DigitTable
<1> HIDE DEF T
<1>3. 0..N \subseteq T
  BY <1>1, <1>2, Induced
<1> QED BY <1>3 DEF T

LEMMA DigitTableUnique ==
    ASSUME NEW n \in Nat, NEW m \in Nat, n <= m, NEW f \in DigitTable(n), NEW g \in DigitTable(m)
    PROVE  \A i \in 0..n : f[i] = g[i]
<1> DEFINE U == {i \in 0..n : f[i] # g[i]}
<1> SUFFICES ASSUME U # {} PROVE FALSE
  OBVIOUS
<1>1. U \subseteq Nat
  OBVIOUS
<1>2. PICK k \in U : \A i \in U : k <= i
  BY <1>1, LeastNumber, Zenon
<1>3. /\ k \in 0..n /\ k \in 0..m /\ f[k] # g[k]
      /\ f[k] = IF k < 10 THEN 1 ELSE 1 + f[k \div 10]
      /\ g[k] = IF k < 10 THEN 1 ELSE 1 + g[k \div 10]
  BY <1>2 DEF DigitTable
<1>4. k >= 10
  BY <1>3
<1>5. k \div 10 \in 0..n /\ k \div 10 < k
  BY <1>3, <1>4, Tenth
<1>6. f[k \div 10] = g[k \div 10]
  <2> DEFINE l == k \div 10
  <2>1. l \in 0..n /\ l < k /\ k \in Nat
    BY <1>3, <1>5
  <2> HIDE DEF l
  <2>2. l \notin U
    BY <1>2, <2>1
  <2>3. f[l] = g[l]
    BY <2>1, <2>2
  <2> QED BY <2>3 DEF l
<1> QED BY <1>3, <1>6

LEMMA DigitsDefined ==
    /\ DigitsOf \in [Nat -> Nat]
    /\ \A n \in Nat : DigitsOf[n] = IF n < 10 THEN 1 ELSE 1 + DigitsOf[n \div 10]
<1> DEFINE table == [n \in Nat |-> CHOOSE g \in DigitTable(n) : TRUE]
           F == [n \in Nat |-> table[n][n]]
           Is(f) == f = [n \in Nat |-> IF n < 10 THEN 1 ELSE 1 + f[n \div 10]]
<1>1. \A n \in Nat : table[n] \in DigitTable(n)
  BY DigitTableExists
<1> HIDE DEF table
<1>2. \A n \in Nat : F[n] \in Nat
  BY <1>1 DEF DigitTable
<1>3. \A n \in Nat : F[n] = IF n < 10 THEN 1 ELSE 1 + F[n \div 10]
  <2> TAKE n \in Nat
  <2>1. table[n][n] = IF n < 10 THEN 1 ELSE 1 + table[n][n \div 10]
    BY <1>1 DEF DigitTable
  <2>2. CASE n < 10
    BY <2>1, <2>2
  <2>3. CASE n >= 10
    <3> DEFINE l == n \div 10
    <3>1. l \in Nat /\ l <= n /\ l \in 0..l
      BY <2>3, Tenth
    <3> HIDE DEF l
    <3>2. table[l][l] = table[n][l]
      BY <1>1, <3>1, DigitTableUnique
    <3>3. F[l] = table[n][l] /\ F[n] = table[n][n]
      BY <3>1, <3>2
    <3> HIDE DEF F
    <3> QED BY <2>1, <2>3, <3>3 DEF l
  <2> QED BY <2>2, <2>3
<1>4. Is(F)
  <2> HIDE DEF F
  <2>1. F = [n \in Nat |-> F[n]]
    BY DEF F
  <2> QED BY <1>3, <2>1
<1> HIDE DEF F
<1>5. DigitsOf = CHOOSE f : Is(f)
  BY DEF DigitsOf
<1>6. Is(DigitsOf)
  BY <1>4, <1>5
<1>7. \A n \in Nat : DigitsOf[n] = IF n < 10 THEN 1 ELSE 1 + DigitsOf[n \div 10]
  BY <1>6
<1>8. \A n \in Nat : DigitsOf[n] \in Nat
  <2> DEFINE U == {n \in Nat : DigitsOf[n] \notin Nat}
  <2> SUFFICES ASSUME U # {} PROVE FALSE
    OBVIOUS
  <2>1. PICK k \in U : \A i \in U : k <= i
    BY LeastNumber
  <2>2. k \in Nat /\ DigitsOf[k] = IF k < 10 THEN 1 ELSE 1 + DigitsOf[k \div 10]
    BY <1>7
  <2>3. k >= 10
    BY <2>1, <2>2
  <2> DEFINE l == k \div 10
  <2>4. l \in Nat /\ l < k
    BY <2>2, <2>3, Tenth
  <2>5. DigitsOf[k] = 1 + DigitsOf[l]
    BY <2>2, <2>3
  <2> HIDE DEF l
  <2>6. l \notin U
    BY <2>1, <2>4
  <2> QED BY <2>1, <2>4, <2>5, <2>6
<1> QED BY <1>6, <1>7, <1>8
----------------------------------------------------------------------------
(* Numbers.                                                                 *)

(* A greater number has no fewer digits.                                    *)
LEMMA DigitsGrow ==
    ASSUME NEW n \in Nat, NEW m \in Nat, m <= n
    PROVE  DigitsOf[m] <= DigitsOf[n]
<1> DEFINE U == {i \in Nat : \E j \in 0..i : ~(DigitsOf[j] <= DigitsOf[i])}
<1> SUFFICES ASSUME U # {} PROVE FALSE
  OBVIOUS
<1>1. PICK k \in U : \A i \in U : k <= i
  BY LeastNumber
<1>2. PICK j \in 0..k : ~(DigitsOf[j] <= DigitsOf[k])
  BY <1>1
<1>3. k \in Nat /\ j \in Nat /\ j <= k
  BY <1>1
<1>4. /\ DigitsOf[k] = IF k < 10 THEN 1 ELSE 1 + DigitsOf[k \div 10]
      /\ DigitsOf[j] = IF j < 10 THEN 1 ELSE 1 + DigitsOf[j \div 10]
      /\ DigitsOf \in [Nat -> Nat]
  BY <1>3, DigitsDefined
<1>5. CASE j < 10
  <2>1. CASE k < 10
    BY <1>2, <1>4, <1>5, <2>1
  <2>2. CASE k >= 10
    <3>1. k \div 10 \in Nat
      BY <1>3, <2>2, Tenth
    <3> QED BY <1>2, <1>3, <1>4, <1>5, <2>2, <3>1
  <2> QED BY <1>3, <2>1, <2>2
<1>6. CASE j >= 10
  <2> DEFINE a == j \div 10
             b == k \div 10
  <2>1. k >= 10 /\ j \in Int /\ k \in Int /\ 10 \in Nat \ {0}
    BY <1>3, <1>6
  <2>2. a \in Nat /\ b \in Nat /\ b < k
    BY <1>3, <1>6, <2>1, Tenth
  <2>3. a <= b
    BY <1>3, <2>1, DividedOrder
  <2>4. DigitsOf[k] = 1 + DigitsOf[b] /\ DigitsOf[j] = 1 + DigitsOf[a]
    BY <1>3, <1>4, <1>6, <2>1
  <2> HIDE DEF a, b
  <2>5. b \notin U
    BY <1>1, <1>3, <2>2
  <2>6. DigitsOf[a] <= DigitsOf[b]
    BY <2>2, <2>3, <2>5
  <2>7. DigitsOf[a] \in Nat /\ DigitsOf[b] \in Nat
    BY <1>4, <2>2
  <2> QED BY <1>2, <2>4, <2>6, <2>7
<1> QED BY <1>3, <1>5, <1>6

----------------------------------------------------------------------------
(* Texts and keys.                                                          *)

(* What a number prints as parses, and parses as that number.               *)
LEMMA NumeralParses ==
    ASSUME NEW v \in Int
    PROVE  /\ Canonical(Numeral(v)) /\ Value(Numeral(v)) = v /\ Numeral(v).zeros = 0
           /\ Numeral(v).number \in Nat
           /\ Numeral(v).number = IF v < 0 THEN -v ELSE v
<1> DEFINE n == IF v < 0 THEN -v ELSE v
           p == Numeral(v)
<1>1. /\ p.minus = (v < 0) /\ p.zeros = 0 /\ p.number = n /\ p.other = FALSE
  BY DEF Numeral
<1>2. n \in Nat
  OBVIOUS
<1>3. Empty.number = -1
  BY DEF Empty
<1> HIDE DEF p
<1>4. p # Empty
  BY <1>1, <1>2, <1>3
<1>5. ~(p.minus /\ p.number = 0) /\ Value(p) = v
  <2>1. CASE v < 0
    <3>1. p.minus = TRUE /\ p.number = -v
      BY <1>1, <2>1
    <3> QED BY <2>1, <3>1 DEF Value
  <2>2. CASE ~(v < 0)
    <3>1. (v < 0) = FALSE
      BY <2>2
    <3>2. p.minus = FALSE /\ p.number = v
      BY <1>1, <2>2, <3>1
    <3> QED BY <2>2, <3>2 DEF Value
  <2> QED BY <2>1, <2>2
<1> QED BY <1>1, <1>2, <1>4, <1>5 DEF Canonical, p

(* A text that parses is what its number prints as.                         *)
LEMMA CanonicalPrints ==
    ASSUME NEW p, IsText(p), Canonical(p)
    PROVE  Value(p) \in Int /\ Numeral(Value(p)) = p
<1>1. p \in [minus : BOOLEAN, zeros : Nat, number : Nat, other : BOOLEAN]
  BY DEF IsText, Canonical
<1>2. p = [minus |-> p.minus, zeros |-> p.zeros, number |-> p.number, other |-> p.other]
  BY <1>1
<1>3. p.minus \in BOOLEAN /\ p.number \in Nat /\ p.zeros = 0 /\ p.other = FALSE
  BY <1>1 DEF Canonical
<1>4. p.minus => p.number > 0
  BY <1>3 DEF Canonical
<1>5. CASE p.minus
  <2>1. p.minus = TRUE
    BY <1>3, <1>5
  <2>2. Value(p) = -p.number /\ Value(p) \in Int /\ Value(p) < 0 /\ -Value(p) = p.number
    BY <1>3, <1>4, <1>5 DEF Value
  <2>3. Numeral(Value(p)) = [minus |-> TRUE, zeros |-> 0, number |-> p.number, other |-> FALSE]
    BY <2>2 DEF Numeral
  <2> QED BY <1>2, <1>3, <2>1, <2>2, <2>3
<1>6. CASE ~p.minus
  BY <1>2, <1>3, <1>6 DEF Numeral, Value
<1> QED BY <1>5, <1>6

LEMMA CoordParses ==
    ASSUME NEW v \in Coord
    PROVE  ParsesAsCoord(Numeral(v))
<1>1. CoordMax \in Nat /\ v \in Int /\ -CoordMax - 1 <= v /\ v <= CoordMax
  BY KeysAssumption DEF Coord
<1> DEFINE n == Numeral(v).number
<1>2. /\ Canonical(Numeral(v)) /\ Value(Numeral(v)) = v /\ Numeral(v).zeros = 0
      /\ n \in Nat /\ n = IF v < 0 THEN -v ELSE v
  BY <1>1, NumeralParses
<1> HIDE DEF n
<1>3. n <= CoordMax + 1 /\ CoordMax + 1 \in Nat
  BY <1>1, <1>2
<1>4. DigitsOf[n] <= DigitsOf[CoordMax + 1]
  BY <1>2, <1>3, DigitsGrow
<1>5. DigitsOf[n] \in Nat
  BY <1>2, DigitsDefined
<1>6. Numeral(v).zeros + DigitsOf[n] <= DigitsOf[CoordMax + 1]
  BY <1>2, <1>4, <1>5
<1> QED BY <1>2, <1>6 DEF ParsesAsCoord, n

LEMMA LayerParses ==
    ASSUME NEW v \in 0..SectionYMax
    PROVE  ParsesAsLayer(Numeral(v))
BY KeysAssumption, NumeralParses DEF ParsesAsLayer

Ids == Coord \X (0..SectionYMax) \X Coord

LEMMA IdTyped ==
    ASSUME NEW s \in Ids
    PROVE  /\ s \in Triple /\ s = [i \in 1..3 |-> s[i]]
           /\ s[1] \in Coord /\ s[2] \in 0..SectionYMax /\ s[3] \in Coord
           /\ \A i \in 1..3 : s[i] \in Int
<1>1. s[1] \in Coord /\ s[2] \in 0..SectionYMax /\ s[3] \in Coord
  BY DEF Ids
<1>2. \A v \in Coord : v \in Int
  BY KeysAssumption DEF Coord
<1>3. s = <<s[1], s[2], s[3]>>
  BY DEF Ids
<1>4. s[1] \in Int /\ s[2] \in Int /\ s[3] \in Int
  BY <1>1, <1>2, KeysAssumption
<1> HIDE DEF Ids
<1>5. \A i \in 1..3 : i = 1 \/ i = 2 \/ i = 3
  OBVIOUS
<1>6. s \in Triple
  BY <1>3, <1>4 DEF Triple
<1>7. s = [i \in 1..3 |-> s[i]]
  BY <1>3
<1> QED BY <1>1, <1>4, <1>5, <1>6, <1>7
(* A section's key parses as that section.                                  *)
LEMMA KeyParses ==
    ASSUME NEW s \in Ids
    PROVE  IsSectionKey(KeyOf(s)) /\ IdOf(KeyOf(s)) = s
<1>1. /\ s = [i \in 1..3 |-> s[i]]
      /\ s[1] \in Coord /\ s[2] \in 0..SectionYMax /\ s[3] \in Coord
      /\ \A i \in 1..3 : s[i] \in Int
  BY IdTyped
<1> DEFINE parts == [i \in 1..3 |-> Numeral(s[i])]
<1>2. KeyOf(s).prefix = "s" /\ KeyOf(s).parts = parts
  BY DEF KeyOf
<1>3. \A i \in 1..3 : parts[i] = Numeral(s[i]) /\ Value(parts[i]) = s[i]
  BY <1>1, NumeralParses
<1>4. Len(parts) = 3
  OBVIOUS
<1> HIDE DEF parts
<1>5. /\ ParsesAsCoord(parts[1]) /\ ParsesAsLayer(parts[2]) /\ ParsesAsCoord(parts[3])
  BY <1>1, <1>3, CoordParses, LayerParses
<1>6. IdOf(KeyOf(s)) = [i \in 1..3 |-> Value(parts[i])]
  BY <1>2 DEF IdOf
<1>7. [i \in 1..3 |-> Value(parts[i])] = [i \in 1..3 |-> s[i]]
  BY <1>3
<1> QED BY <1>1, <1>2, <1>4, <1>5, <1>6, <1>7 DEF IsSectionKey

(* What is looked at of the text of a key.                                  *)
IsKeyText(k) ==
    /\ k = [prefix |-> k.prefix, parts |-> k.parts]
    /\ IsSeq(k.parts) /\ \A i \in DOMAIN k.parts : IsText(k.parts[i])

LEMMA PartsOf ==
    ASSUME NEW k, IsKeyText(k)
    PROVE  /\ Len(k.parts) \in Nat /\ DOMAIN k.parts = 1..Len(k.parts)
           /\ k.parts = [i \in 1..Len(k.parts) |-> k.parts[i]]
           /\ \A i \in 1..Len(k.parts) : IsText(k.parts[i])
<1> DEFINE s == k.parts
<1>1. Len(s) \in Nat /\ s = [i \in 1..Len(s) |-> s[i]] /\ \A i \in DOMAIN s : IsText(s[i])
  BY DEF IsKeyText, IsSeq
<1> HIDE DEF s
<1>2. DOMAIN s = 1..Len(s)
  BY <1>1
<1> QED BY <1>1, <1>2 DEF s

(* A text that parses is the key of the section it is parsed as.            *)
LEMMA ParsedKey ==
    ASSUME NEW k, IsKeyText(k), IsSectionKey(k)
    PROVE  IdOf(k) \in Ids /\ KeyOf(IdOf(k)) = k
<1> DEFINE p == k.parts
           s == IdOf(k)
<1>1. /\ k.prefix = "s" /\ Len(p) = 3
      /\ ParsesAsCoord(p[1]) /\ ParsesAsLayer(p[2]) /\ ParsesAsCoord(p[3])
  BY DEF IsSectionKey
<1>2. p = [i \in 1..3 |-> p[i]] /\ \A i \in 1..3 : IsText(p[i])
  BY <1>1, PartsOf
<1>3. s = [i \in 1..3 |-> Value(p[i])]
  BY DEF IdOf
<1>4. k = [prefix |-> "s", parts |-> p]
  BY <1>1 DEF IsKeyText
<1>5. KeyOf(s) = [prefix |-> "s", parts |-> [i \in 1..3 |-> Numeral(s[i])]]
  BY DEF KeyOf
<1> HIDE DEF p, s
<1>6. \A i \in 1..3 : Canonical(p[i])
  <2>1. \A i \in 1..3 : i = 1 \/ i = 2 \/ i = 3
    OBVIOUS
  <2> QED BY <1>1, <2>1 DEF ParsesAsCoord, ParsesAsLayer
<1>7. \A i \in 1..3 : s[i] = Value(p[i]) /\ Numeral(s[i]) = p[i]
  BY <1>2, <1>3, <1>6, CanonicalPrints
<1>8. s[1] \in Coord /\ s[2] \in 0..SectionYMax /\ s[3] \in Coord
  BY <1>1, <1>7 DEF ParsesAsCoord, ParsesAsLayer
<1>9. s = <<s[1], s[2], s[3]>>
  BY <1>3, <1>7
<1>10. s \in Ids
  BY <1>8, <1>9 DEF Ids
<1>11. [i \in 1..3 |-> Numeral(s[i])] = [i \in 1..3 |-> p[i]]
  BY <1>7
<1>12. KeyOf(s) = k
  BY <1>2, <1>4, <1>5, <1>11
<1> QED BY <1>10, <1>12 DEF s

(* The same of a column and its key.                                        *)
LEMMA ParsedChunkKey ==
    ASSUME NEW k, IsKeyText(k), IsChunkKey(k)
    PROVE  /\ ChunkKeyOf(ChunkIdOf(k)) = k
           /\ ChunkIdOf(k) = <<ChunkIdOf(k)[1], ChunkIdOf(k)[2]>>
           /\ ChunkIdOf(k)[1] \in Coord /\ ChunkIdOf(k)[2] \in Coord
<1> DEFINE p == k.parts
           ch == ChunkIdOf(k)
<1>1. k.prefix = "c" /\ Len(p) = 2 /\ ParsesAsCoord(p[1]) /\ ParsesAsCoord(p[2])
  BY DEF IsChunkKey
<1>2. p = [i \in 1..2 |-> p[i]] /\ IsText(p[1]) /\ IsText(p[2])
  BY <1>1, PartsOf
<1>3. ch = <<Value(p[1]), Value(p[2])>>
  BY DEF ChunkIdOf
<1>4. k = [prefix |-> "c", parts |-> p]
  BY <1>1 DEF IsKeyText
<1>5. ChunkKeyOf(ch) = [prefix |-> "c", parts |-> <<Numeral(ch[1]), Numeral(ch[2])>>]
  BY DEF ChunkKeyOf
<1> HIDE DEF p, ch
<1>6. ch[1] = Value(p[1]) /\ ch[2] = Value(p[2])
  BY <1>3
<1>7. Numeral(ch[1]) = p[1] /\ Numeral(ch[2]) = p[2]
  BY <1>1, <1>2, <1>6, CanonicalPrints DEF ParsesAsCoord
<1>8. p = <<p[1], p[2]>>
  BY <1>2
<1>9. ChunkKeyOf(ch) = k
  BY <1>4, <1>5, <1>7, <1>8
<1>10. ch = <<ch[1], ch[2]>> /\ ch[1] \in Coord /\ ch[2] \in Coord
  BY <1>1, <1>3, <1>6 DEF ParsesAsCoord
<1> QED BY <1>9, <1>10 DEF ch

LEMMA KeysRight ==
    ASSUME NEW texts, \A k \in texts : IsKeyText(k)
    PROVE  KeysAgree(texts)
<1> SUFFICES ASSUME NEW k \in texts
             PROVE  /\ ~(IsSectionKey(k) /\ IsChunkKey(k))
                    /\ IsSectionKey(k) =>
                          /\ KeyOf(IdOf(k)) = k
                          /\ \E n \in 1 .. SectionYMax + 1 : SectionsOf(ChunkOf(IdOf(k)))[n] = IdOf(k)
                    /\ IsChunkKey(k) =>
                          /\ ChunkKeyOf(ChunkIdOf(k)) = k
                          /\ \A s \in ToSet(SectionsOf(ChunkIdOf(k))) :
                                IsSectionKey(KeyOf(s)) /\ ChunkOf(s) = ChunkIdOf(k)
  BY DEF KeysAgree
<1>0. IsKeyText(k) /\ SectionYMax \in Nat
  BY KeysAssumption
<1>1. ~(IsSectionKey(k) /\ IsChunkKey(k))
  BY DEF IsSectionKey, IsChunkKey
<1>2. ASSUME IsSectionKey(k)
      PROVE  /\ KeyOf(IdOf(k)) = k
             /\ \E n \in 1 .. SectionYMax + 1 : SectionsOf(ChunkOf(IdOf(k)))[n] = IdOf(k)
  <2> DEFINE s == IdOf(k)
  <2>1. s \in Ids /\ KeyOf(s) = k
    BY <1>0, <1>2, ParsedKey
  <2> HIDE DEF s
  <2>2. s[2] \in 0..SectionYMax /\ s = <<s[1], s[2], s[3]>>
    BY <2>1 DEF Ids
  <2> DEFINE n == s[2] + 1
  <2>3. n \in 1 .. SectionYMax + 1 /\ n - 1 = s[2]
    BY <1>0, <2>2
  <2>4. ChunkOf(s)[1] = s[1] /\ ChunkOf(s)[2] = s[3]
    BY DEF ChunkOf
  <2> HIDE DEF n
  <2>5. SectionsOf(ChunkOf(s))[n] = s
    BY <2>2, <2>3, <2>4 DEF SectionsOf
  <2> QED BY <2>1, <2>3, <2>5 DEF s
<1>3. ASSUME IsChunkKey(k)
      PROVE  /\ ChunkKeyOf(ChunkIdOf(k)) = k
             /\ \A s \in ToSet(SectionsOf(ChunkIdOf(k))) :
                   IsSectionKey(KeyOf(s)) /\ ChunkOf(s) = ChunkIdOf(k)
  <2> DEFINE ch == ChunkIdOf(k)
  <2>1. ChunkKeyOf(ch) = k /\ ch = <<ch[1], ch[2]>> /\ ch[1] \in Coord /\ ch[2] \in Coord
    BY <1>0, <1>3, ParsedChunkKey
  <2> HIDE DEF ch
  <2>2. ASSUME NEW s \in ToSet(SectionsOf(ch))
        PROVE  IsSectionKey(KeyOf(s)) /\ ChunkOf(s) = ch
    <3>1. PICK n \in 1 .. SectionYMax + 1 : s = <<ch[1], n - 1, ch[2]>>
      BY DEF ToSet, SectionsOf
    <3>2. n - 1 \in 0..SectionYMax
      BY <1>0
    <3>3. s \in Ids
      BY <2>1, <3>1, <3>2 DEF Ids
    <3>4. ChunkOf(s) = ch
      BY <2>1, <3>1 DEF ChunkOf
    <3> QED BY <3>3, <3>4, KeyParses
  <2> QED BY <2>1, <2>2 DEF ch
<1> QED BY <1>1, <1>2, <1>3

----------------------------------------------------------------------------
(* Sections in order.                                                       *)

LEMMA IdsOrdered ==
    ASSUME NEW s \in Triple, NEW t \in Triple
    PROVE  /\ s = t \/ IdBefore(s, t) \/ IdBefore(t, s)
           /\ ~IdBefore(s, s)
           /\ \A u \in Triple : IdBefore(s, t) /\ IdBefore(t, u) => IdBefore(s, u)
<1>1. /\ s = <<s[1], s[2], s[3]>> /\ s[1] \in Int /\ s[2] \in Int /\ s[3] \in Int
      /\ t = <<t[1], t[2], t[3]>> /\ t[1] \in Int /\ t[2] \in Int /\ t[3] \in Int
  BY DEF Triple
<1>2. s = t \/ IdBefore(s, t) \/ IdBefore(t, s)
  BY <1>1 DEF IdBefore
<1>3. ~IdBefore(s, s)
  BY <1>1 DEF IdBefore
<1>4. ASSUME NEW u \in Triple, IdBefore(s, t), IdBefore(t, u)
      PROVE  IdBefore(s, u)
  <2>1. u[1] \in Int /\ u[2] \in Int /\ u[3] \in Int
    BY DEF Triple
  <2> QED BY <1>1, <1>4, <2>1 DEF IdBefore
<1> QED BY <1>2, <1>3, <1>4

LastOf(S, m) == m \in S /\ \A s \in S : s = m \/ IdBefore(s, m)

(* Finitely many sections have a last one.                                  *)
LEMMA LastSection ==
    ASSUME NEW S \in SUBSET Triple, IsFiniteSet(S), S # {}
    PROVE  \E m \in S : LastOf(S, m)
<1> DEFINE Sets(n) == {R \in SUBSET Triple : IsFiniteSet(R) /\ Cardinality(R) = n}
           T == {n \in Nat : \A R \in Sets(n) : R # {} => \E m \in R : LastOf(R, m)}
           N == Cardinality(S)
<1>1. N \in Nat
  BY FS_CardinalityType
<1>2. 0 \in T
  BY FS_EmptySet
<1>3. ASSUME NEW n \in 1..N, n - 1 \in T
      PROVE  n \in T
  <2> SUFFICES ASSUME NEW R \in Sets(n), R # {}
               PROVE  \E m \in R : LastOf(R, m)
    BY <1>1
  <2>1. PICK x \in R : TRUE
    OBVIOUS
  <2> DEFINE Q == R \ {x}
  <2>2. IsFiniteSet(Q) /\ Cardinality(Q) = n - 1 /\ Q \in SUBSET Triple
    BY <2>1, FS_RemoveElement
  <2>3. Q \in Sets(n - 1)
    BY <2>2
  <2>4. CASE Q = {}
    BY <2>1, <2>4 DEF LastOf
  <2>5. CASE Q # {}
    <3>1. PICK m \in Q : LastOf(Q, m)
      BY <1>3, <2>3, <2>5
    <3>2. x \in Triple /\ m \in Triple /\ \A s \in R : s \in Triple /\ (s = x \/ s \in Q)
      BY <2>1
    <3>3. CASE IdBefore(x, m)
      BY <3>1, <3>2, <3>3 DEF LastOf
    <3>4. CASE ~IdBefore(x, m)
      <4>1. IdBefore(m, x)
        BY <3>1, <3>2, <3>4, IdsOrdered
      <4>2. ASSUME NEW s \in R, s # x
            PROVE  IdBefore(s, x)
        <5>1. s \in Triple /\ (s = m \/ IdBefore(s, m))
          BY <3>1, <3>2, <4>2 DEF LastOf
        <5> QED BY <3>2, <4>1, <5>1, IdsOrdered
      <4> QED BY <2>1, <4>2 DEF LastOf
    <3> QED BY <3>3, <3>4
  <2> QED BY <2>4, <2>5
<1> HIDE DEF T
<1>4. 0..N \subseteq T
  BY <1>1, <1>2, <1>3, Induced
<1>5. N \in T /\ S \in Sets(N)
  BY <1>1, <1>4
<1> QED BY <1>5 DEF T

Increasing(f, n) == \A i, j \in 1..n : i < j => IdBefore(f[i], f[j])

(* Finitely many sections can be listed in their order.                     *)
LEMMA SectionsListed ==
    ASSUME NEW S \in SUBSET Triple, IsFiniteSet(S)
    PROVE  \E f \in [1..Cardinality(S) -> S] : Increasing(f, Cardinality(S))
<1> DEFINE Sets(n) == {R \in SUBSET Triple : IsFiniteSet(R) /\ Cardinality(R) = n}
           T == {n \in Nat : \A R \in Sets(n) : \E f \in [1..n -> R] : Increasing(f, n)}
           N == Cardinality(S)
<1>1. N \in Nat
  BY FS_CardinalityType
<1>2. 0 \in T
  <2> SUFFICES ASSUME NEW R \in Sets(0)
               PROVE  \E f \in [1..0 -> R] : Increasing(f, 0)
    OBVIOUS
  <2> DEFINE f == [i \in 1..0 |-> 0]
  <2>1. f \in [1..0 -> R] /\ Increasing(f, 0)
    BY DEF Increasing
  <2> QED BY <2>1
<1>3. ASSUME NEW n \in 1..N, n - 1 \in T
      PROVE  n \in T
  <2> SUFFICES ASSUME NEW R \in Sets(n)
               PROVE  \E f \in [1..n -> R] : Increasing(f, n)
    BY <1>1
  <2>1. R # {}
    BY <1>1, FS_EmptySet
  <2>2. PICK m \in R : LastOf(R, m)
    BY <2>1, LastSection
  <2> DEFINE Q == R \ {m}
  <2>3. IsFiniteSet(Q) /\ Cardinality(Q) = n - 1 /\ Q \in SUBSET Triple
    BY <2>2, FS_RemoveElement
  <2>4. Q \in Sets(n - 1)
    BY <2>3
  <2>5. PICK g \in [1..n - 1 -> Q] : Increasing(g, n - 1)
    BY <1>3, <2>4
  <2> DEFINE f == [i \in 1..n |-> IF i = n THEN m ELSE g[i]]
  <2>6. \A i \in 1..n : i # n => i \in 1..n - 1
    BY <1>1
  <2>7. f \in [1..n -> R]
    BY <2>2, <2>5, <2>6
  <2>8. Increasing(f, n)
    <3> SUFFICES ASSUME NEW i \in 1..n, NEW j \in 1..n, i < j
                 PROVE  IdBefore(f[i], f[j])
      BY DEF Increasing
    <3>1. i \in 1..n - 1 /\ f[i] = g[i] /\ g[i] \in Q
      BY <1>1, <2>5
    <3>2. CASE j = n
      BY <2>2, <3>1, <3>2 DEF LastOf
    <3>3. CASE j # n
      <4>1. j \in 1..n - 1 /\ f[j] = g[j]
        BY <2>6, <3>3
      <4> QED BY <2>5, <3>1, <4>1 DEF Increasing
    <3> QED BY <3>2, <3>3
  <2> QED BY <2>7, <2>8
<1> HIDE DEF T
<1>4. 0..N \subseteq T
  BY <1>1, <1>2, <1>3, Induced
<1>5. N \in T /\ S \in Sets(N)
  BY <1>1, <1>4
<1> QED BY <1>5 DEF T

(* Such a listing has every section once.                                   *)
LEMMA ListedOnce ==
    ASSUME NEW S \in SUBSET Triple, IsFiniteSet(S), NEW f \in [1..Cardinality(S) -> S],
           Increasing(f, Cardinality(S))
    PROVE  {f[i] : i \in 1..Cardinality(S)} = S
<1> DEFINE n == Cardinality(S)
           R == {f[i] : i \in 1..n}
<1>1. n \in Nat
  BY FS_CardinalityType
<1>2. DOMAIN f = 1..n /\ Increasing(f, n) /\ \A i \in 1..n : f[i] \in S
  OBVIOUS
<1> HIDE DEF n
<1>3. ASSUME NEW i \in 1..n, NEW j \in 1..n, f[i] = f[j]
      PROVE  i = j
  <2>1. i \in Int /\ j \in Int /\ f[i] \in Triple
    BY <1>1, <1>2
  <2>2. ~(i < j) /\ ~(j < i)
    BY <1>2, <1>3, <2>1, IdsOrdered DEF Increasing
  <2> QED BY <2>1, <2>2
<1>4. R \subseteq S /\ R = {f[i] : i \in 1..n}
  BY <1>2
<1> HIDE DEF R
<1>5. IsFiniteSet(R) /\ Cardinality(R) = n
  <2> DEFINE g == f
  <2>1. DOMAIN g = 1..n /\ R = {g[i] : i \in 1..n}
    BY <1>2, <1>4
  <2>2. \A i, j \in 1..n : g[i] = g[j] => i = j
    BY <1>3
  <2> HIDE DEF g
  <2> QED BY <1>1, <2>1, <2>2, Enumerated
<1> QED BY <1>4, <1>5, FS_Subset DEF n, R

----------------------------------------------------------------------------
(* The sections a query names.                                              *)

Valid(keys) == \A i \in 1..Len(keys) : IsSectionKey(keys[i])

Named(keys) == {IdOf(k) : k \in ToSet(keys)}

AreKeyTexts(keys) == IsSeq(keys) /\ \A k \in ToSet(keys) : IsKeyText(k)

LEMMA KeysOf ==
    ASSUME NEW keys, AreKeyTexts(keys)
    PROVE  /\ Len(keys) \in Nat /\ DOMAIN keys = 1..Len(keys)
           /\ keys = [i \in 1..Len(keys) |-> keys[i]]
           /\ ToSet(keys) = {keys[i] : i \in 1..Len(keys)}
           /\ \A i \in 1..Len(keys) : IsKeyText(keys[i])
<1>1. Len(keys) \in Nat /\ keys = [i \in 1..Len(keys) |-> keys[i]]
  BY DEF AreKeyTexts, IsSeq
<1>2. DOMAIN keys = 1..Len(keys)
  BY <1>1
<1>3. ToSet(keys) = {keys[i] : i \in 1..Len(keys)}
  BY <1>2 DEF ToSet
<1>4. \A i \in 1..Len(keys) : IsKeyText(keys[i])
  BY <1>3 DEF AreKeyTexts
<1> QED BY <1>1, <1>2, <1>3, <1>4

(* They are finitely many, and their keys are the texts.                    *)
LEMMA NamedSections ==
    ASSUME NEW keys, AreKeyTexts(keys), Valid(keys)
    PROVE  /\ Named(keys) \in SUBSET Ids /\ IsFiniteSet(Named(keys))
           /\ \A s \in Named(keys) : KeyOf(s) \in ToSet(keys)
           /\ \A k \in ToSet(keys) : IdOf(k) \in Named(keys) /\ KeyOf(IdOf(k)) = k
<1> DEFINE n == Len(keys)
           S == Named(keys)
           f == [i \in 1..n |-> IdOf(keys[i])]
<1>1. /\ n \in Nat /\ ToSet(keys) = {keys[i] : i \in 1..n}
      /\ \A i \in 1..n : IsKeyText(keys[i]) /\ IsSectionKey(keys[i])
  BY KeysOf DEF Valid
<1>2. S = {IdOf(keys[i]) : i \in 1..n}
  BY <1>1 DEF Named
<1> HIDE DEF n, S
<1>3. \A i \in 1..n : IdOf(keys[i]) \in Ids /\ KeyOf(IdOf(keys[i])) = keys[i]
  BY <1>1, ParsedKey
<1>4. f \in Surjection(1..n, S)
  BY <1>2 DEF Surjection
<1>5. IsFiniteSet(1..n)
  BY <1>1, 1 \in Int, n \in Int, FS_Interval
<1>6. IsFiniteSet(S)
  BY <1>4, <1>5, FS_Surjection
<1>7. S \in SUBSET Ids /\ \A s \in S : KeyOf(s) \in ToSet(keys)
  BY <1>1, <1>2, <1>3
<1>8. \A k \in ToSet(keys) : IdOf(k) \in S /\ KeyOf(IdOf(k)) = k
  BY <1>1, <1>2, <1>3
<1> QED BY <1>6, <1>7, <1>8 DEF S

(* They are listed once each, in their order.                               *)
LEMMA CanonicalizedListing ==
    ASSUME NEW keys, AreKeyTexts(keys), Valid(keys)
    PROVE  LET n == Cardinality(Named(keys)) IN
           /\ n \in Nat /\ Canonicalized(keys) \in [1..n -> Named(keys)]
           /\ Increasing(Canonicalized(keys), n)
           /\ {Canonicalized(keys)[i] : i \in 1..n} = Named(keys)
<1> DEFINE S == Named(keys)
           n == Cardinality(S)
           s == Canonicalized(keys)
<1>1. S \in SUBSET Ids /\ IsFiniteSet(S)
  BY NamedSections
<1>2. S \in SUBSET Triple
  BY <1>1, IdTyped
<1>3. s = CHOOSE f \in [1..Cardinality(S) -> S] : Increasing(f, Cardinality(S))
  BY Zenon DEF Canonicalized, Increasing, Named
<1> HIDE DEF S, s
<1>4. \E f \in [1..Cardinality(S) -> S] : Increasing(f, Cardinality(S))
  BY <1>1, <1>2, SectionsListed
<1>5. s \in [1..Cardinality(S) -> S] /\ Increasing(s, Cardinality(S))
  BY <1>3, <1>4
<1>6. {s[i] : i \in 1..Cardinality(S)} = S
  BY <1>1, <1>2, <1>5, ListedOnce
<1>7. n \in Nat
  BY <1>1, FS_CardinalityType
<1> QED BY <1>5, <1>6, <1>7 DEF S, s

IdsAsked(q) == {s \in Ids : KeyOf(s) \in Asked(q)}

LEMMA AskedKeys ==
    ASSUME NEW q, AreKeyTexts(q.request.keys)
    PROVE  /\ ToSet(q.request.keys) = Asked(q) <=> Valid(q.request.keys)
           /\ Valid(q.request.keys) => IdsAsked(q) = Named(q.request.keys)
<1> DEFINE keys == q.request.keys
<1>1. Asked(q) = {KeyOf(s) : s \in Ids} \cap ToSet(keys)
  BY DEF Asked, Ids
<1> HIDE DEF keys
<1>2. AreKeyTexts(keys) /\ ToSet(keys) = {keys[i] : i \in 1..Len(keys)}
  BY KeysOf DEF keys
<1>3. ASSUME ToSet(keys) = Asked(q)
      PROVE  Valid(keys)
  <2> SUFFICES ASSUME NEW i \in 1..Len(keys)
               PROVE  IsSectionKey(keys[i])
    BY DEF Valid
  <2>1. PICK s \in Ids : keys[i] = KeyOf(s)
    BY <1>1, <1>2, <1>3
  <2> QED BY <2>1, KeyParses
<1>4. ASSUME Valid(keys)
      PROVE  ToSet(keys) = Asked(q) /\ IdsAsked(q) = Named(keys)
  <2>1. /\ Named(keys) \in SUBSET Ids
        /\ \A s \in Named(keys) : KeyOf(s) \in ToSet(keys)
        /\ \A k \in ToSet(keys) : IdOf(k) \in Named(keys) /\ KeyOf(IdOf(k)) = k
    BY <1>2, <1>4, NamedSections
  <2>2. ToSet(keys) = Asked(q)
    BY <1>1, <2>1
  <2>3. ASSUME NEW s \in IdsAsked(q)
        PROVE  s \in Named(keys)
    <3>1. s \in Ids /\ KeyOf(s) \in ToSet(keys)
      BY <1>1 DEF IdsAsked
    <3>2. IdOf(KeyOf(s)) = s
      BY <3>1, KeyParses
    <3>3. IdOf(KeyOf(s)) \in Named(keys)
      BY <2>1, <3>1
    <3> QED BY <3>2, <3>3
  <2>4. ASSUME NEW s \in Named(keys)
        PROVE  s \in IdsAsked(q)
    BY <2>1, <2>2 DEF IdsAsked
  <2> QED BY <2>2, <2>3, <2>4
<1> QED BY <1>3, <1>4 DEF keys

----------------------------------------------------------------------------
(* Plans and walks.                                                         *)

LEMMA PlanAnswers ==
    ASSUME NEW request, NEW view, NEW limit \in Nat, NEW granted \in BOOLEAN,
           request.cancel \in BOOLEAN, Len(request.keys) \in Nat
    PROVE  LET plan == Plan(request, view, limit, granted) IN
           /\ plan.ok \in BOOLEAN
           /\ plan.ok <=> /\ limit >= 1 /\ granted /\ Addressed(request, view)
                          /\ Len(request.keys) <= limit /\ Valid(request.keys)
           /\ plan.ok =>
                 plan = [ok |-> TRUE, stamp |-> Stamp(view), budget |-> limit,
                         sections |-> Canonicalized(request.keys),
                         hash |-> PlanHash(request, view, Canonicalized(request.keys), limit)]
<1> DEFINE sections == Canonicalized(request.keys)
           plan == Plan(request, view, limit, granted)
           given == [ok |-> TRUE, stamp |-> Stamp(view), budget |-> limit, sections |-> sections,
                     hash |-> PlanHash(request, view, sections, limit)]
           out == \/ limit = 0 \/ ~granted \/ ~Addressed(request, view)
                  \/ Exceeds(Len(request.keys), limit)
                  \/ ~Valid(request.keys)
<1>1. plan = IF out THEN Refused ELSE given
  BY DEF Plan, Valid
<1>2. Refused.ok = FALSE /\ given.ok = TRUE
  BY DEF Refused
<1>3. ~out <=> /\ limit >= 1 /\ granted /\ Addressed(request, view)
               /\ Len(request.keys) <= limit /\ Valid(request.keys)
  BY DEF Exceeds
<1> HIDE DEF plan, given, out
<1>4. plan.ok \in BOOLEAN /\ (plan.ok <=> ~out) /\ (plan.ok => plan = given)
  BY <1>1, <1>2
<1> QED BY <1>3, <1>4 DEF plan, given

Lists(f, n, S) == f \in [1..n -> S] /\ Increasing(f, n) /\ {f[i] : i \in 1..n} = S

Covered(view, S, pinned) ==
    \A s \in S \cap pinned :
        s \in DOMAIN view.directory /\ view.directory[s].presence = "Ready"

Walked(r, view, sections, n, used) ==
    /\ Len(r.items) = n /\ DOMAIN r.items = 1..n
    /\ \A i \in 1..n : r.items[i] = Access(view, sections[i])
    /\ r.used = used + n
    /\ r.missing = {i \in ToSet(r.items) : i.presence # "Ready"}

(* Every section of the plan is looked up, in the plan's order.             *)
LEMMA WalkAnswers ==
    ASSUME NEW view, NEW plan, NEW n \in Nat, NEW S, Lists(plan.sections, n, S),
           plan.budget \in Nat, plan.budget >= 1, NEW used \in Nat, NEW pinned
    PROVE  LET r == Walk(plan, view, used, pinned) IN
           /\ r.ok \in BOOLEAN
           /\ r.ok <=> /\ SameCut(plan, view) /\ used + n <= plan.budget
                       /\ Covered(view, S, pinned)
           /\ r.ok => Walked(r, view, plan.sections, n, used)
<1> DEFINE sections == plan.sections
           items == [i \in 1..Len(sections) |-> Access(view, sections[i])]
           r == Walk(plan, view, used, pinned)
           given == [ok |-> TRUE, items |-> items, stamp |-> plan.stamp, used |-> used + Len(items),
                     hash |-> plan.hash, missing |-> {i \in ToSet(items) : i.presence # "Ready"}]
           out == \/ ~SameCut(plan, view)
                  \/ Exceeds(used, plan.budget) \/ Exceeds(used + Len(items), plan.budget)
                  \/ ~GuardPasses(pinned, items)
           covered == \A s \in S \cap pinned :
                         s \in DOMAIN view.directory /\ view.directory[s].presence = "Ready"
<1>1. r = IF out THEN Refused ELSE given
  BY DEF Walk
<1>2. Len(sections) = n
  BY DEF Lists
<1>3. Len(items) = n /\ DOMAIN items = 1..n /\ \A i \in 1..n : items[i] = Access(view, sections[i])
  <2> HIDE DEF sections
  <2> QED BY <1>2
<1>4. \A i \in 1..n : sections[i] \in S
  BY DEF Lists
<1>5. \A s \in S : \E i \in 1..n : sections[i] = s
  BY DEF Lists
<1> HIDE DEF items, sections
<1>6. GuardPasses(pinned, items) <=> covered
  <2>1. \A i \in 1..n :
           /\ items[i].section = sections[i]
           /\ items[i].presence = "Ready" <=>
                 sections[i] \in DOMAIN view.directory /\ view.directory[sections[i]].presence = "Ready"
    BY <1>3 DEF Access
  <2>2. ASSUME GuardPasses(pinned, items), NEW s \in S \cap pinned
        PROVE  s \in DOMAIN view.directory /\ view.directory[s].presence = "Ready"
    <3>1. PICK i \in 1..n : sections[i] = s
      BY <1>5
    <3>2. items[i].presence = "Ready"
      BY <1>3, <2>1, <2>2, <3>1 DEF GuardPasses
    <3> QED BY <2>1, <3>1, <3>2
  <2>3. ASSUME covered, NEW i \in 1..n, items[i].section \in pinned
        PROVE  items[i].presence = "Ready"
    <3>1. sections[i] \in S \cap pinned
      BY <1>4, <2>1, <2>3
    <3> QED BY <2>1, <2>3, <3>1
  <2>4. covered => GuardPasses(pinned, items)
    <3> HIDE DEF covered
    <3> QED BY <1>3, <2>3 DEF GuardPasses
  <2> QED BY <2>2, <2>4
<1>7. ~out <=> SameCut(plan, view) /\ used + n <= plan.budget /\ covered
  <2> HIDE DEF covered
  <2>1. ~Exceeds(used, plan.budget) /\ ~Exceeds(used + Len(items), plan.budget)
           <=> used + n <= plan.budget
    BY <1>3 DEF Exceeds
  <2> QED BY <1>6, <2>1
<1>8. /\ Refused.ok = FALSE /\ given.ok = TRUE /\ given.items = items /\ given.used = used + Len(items)
      /\ given.missing = {i \in ToSet(items) : i.presence # "Ready"}
  BY DEF Refused
<1> HIDE DEF r, given, out, covered
<1>9. r.ok \in BOOLEAN /\ (r.ok <=> ~out) /\ (r.ok => r = given)
  BY <1>1, <1>8
<1>10. r.ok =>
          /\ r.items = items /\ r.used = used + n
          /\ r.missing = {i \in ToSet(r.items) : i.presence # "Ready"}
  BY <1>3, <1>8, <1>9
<1>11. r.ok => /\ Len(r.items) = n /\ DOMAIN r.items = 1..n
               /\ \A i \in 1..n : r.items[i] = Access(view, sections[i])
  BY <1>3, <1>10
<1>12. r.ok => Walked(r, view, sections, n, used)
  BY <1>10, <1>11 DEF Walked
<1> QED BY <1>7, <1>9, <1>12 DEF r, covered, sections, Covered

(* The order the texts came in is not seen in a plan.                       *)
LEMMA PlanOrder ==
    ASSUME NEW request, NEW view, NEW limit, NEW granted,
           DOMAIN request = {"cancel", "context", "keys", "world"}, AreKeyTexts(request.keys)
    PROVE  Plan([request EXCEPT !.keys = Reverse(@)], view, limit, granted) =
           Plan(request, view, limit, granted)
<1> DEFINE keys == request.keys
           n == Len(keys)
           turned == Reverse(keys)
           other == [request EXCEPT !.keys = Reverse(@)]
<1>1. n \in Nat /\ ToSet(keys) = {keys[i] : i \in 1..n}
  BY KeysOf
<1>2. /\ other.cancel = request.cancel /\ other.context = request.context
      /\ other.world = request.world /\ other.keys = turned
  OBVIOUS
<1>3. turned = [i \in 1..n |-> keys[n - i + 1]]
  BY DEF Reverse
<1> HIDE DEF keys, n
<1>4. Len(turned) = n /\ DOMAIN turned = 1..n /\ \A i \in 1..n : turned[i] = keys[n - i + 1]
  BY <1>1, <1>3
<1> HIDE DEF turned, other
<1>5. \A i \in 1..n : n - i + 1 \in 1..n /\ n - (n - i + 1) + 1 = i
  BY <1>1
<1>6. ToSet(turned) = ToSet(keys)
  <2>1. ToSet(turned) = {turned[i] : i \in 1..n}
    BY <1>4 DEF ToSet
  <2>2. \A i \in 1..n : turned[i] \in ToSet(keys)
    BY <1>1, <1>4, <1>5
  <2>3. ASSUME NEW i \in 1..n PROVE keys[i] \in ToSet(turned)
    <3>1. turned[n - i + 1] = keys[i]
      BY <1>4, <1>5
    <3> QED BY <1>5, <2>1, <3>1
  <2> QED BY <1>1, <2>1, <2>2, <2>3
<1>7. Canonicalized(turned) = Canonicalized(keys)
  BY <1>6 DEF Canonicalized
<1>8. (\E i \in 1..Len(turned) : ~IsSectionKey(turned[i])) <=> (\E i \in 1..n : ~IsSectionKey(keys[i]))
  <2>1. ASSUME NEW i \in 1..n, ~IsSectionKey(turned[i])
        PROVE  \E j \in 1..n : ~IsSectionKey(keys[j])
    BY <1>4, <1>5, <2>1
  <2>2. ASSUME NEW i \in 1..n, ~IsSectionKey(keys[i])
        PROVE  \E j \in 1..n : ~IsSectionKey(turned[j])
    <3>1. turned[n - i + 1] = keys[i]
      BY <1>4, <1>5
    <3> QED BY <1>5, <2>2, <3>1
  <2> QED BY <1>4, <2>1, <2>2
<1>9. Addressed(other, view) <=> Addressed(request, view)
  BY <1>2 DEF Addressed
<1>10. PlanHash(other, view, Canonicalized(turned), limit) = PlanHash(request, view, Canonicalized(keys), limit)
  BY <1>2, <1>7 DEF PlanHash
<1>11. Plan(other, view, limit, granted) = Plan(request, view, limit, granted)
  BY <1>2, <1>4, <1>7, <1>8, <1>9, <1>10 DEF Plan, keys, n
<1> QED BY <1>11 DEF other

----------------------------------------------------------------------------
(* The cells of a section.                                                  *)

(* The cell at an offset is in the section, and has that offset.            *)
LEMMA CellOfOffset ==
    ASSUME NEW s \in Triple, NEW off \in CellOffset,
           NEW c, c = <<s[1] * Extent + (off % Extent),
                        s[2] * Extent + (off \div (Extent * Extent)),
                        s[3] * Extent + ((off \div Extent) % Extent)>>
    PROVE  c \in Triple /\ SectionOf(c) = s /\ OffsetOf(c) = off
<1> DEFINE E == Extent
           x == off % E
           w == off \div E
           z == w % E
           y == w \div E
           d == E * E
<1>0. /\ E \in Nat \ {0} /\ off \in Int /\ 0 <= off /\ off <= E * E * E - 1
      /\ s[1] \in Int /\ s[2] \in Int /\ s[3] \in Int /\ s = <<s[1], s[2], s[3]>>
  BY KeysAssumption DEF CellOffset, Triple
<1>1. Rest(off, E, w, x)
  BY <1>0, Divides
<1>2. w \in Int
  BY <1>1 DEF Rest
<1>3. Rest(w, E, y, z)
  BY <1>0, <1>2, Divides
<1>4. c = <<s[1] * E + x, s[2] * E + (off \div d), s[3] * E + z>>
  OBVIOUS
<1>5. /\ SectionOf(c) = [i \in 1..3 |-> c[i] \div E]
      /\ OffsetOf(c) = (c[2] % E) * E * E + (c[3] % E) * E + (c[1] % E)
  BY DEF SectionOf, OffsetOf
<1>6. d = E * E /\ d \in Nat \ {0}
  BY <1>0
<1> HIDE DEF E, x, w, z, y, d
<1>7. /\ x \in Int /\ 0 <= x /\ x <= E - 1 /\ z \in Int /\ 0 <= z /\ z <= E - 1
      /\ y \in Int /\ w = y * E + z /\ off = w * E + x
  BY <1>0, <1>1, <1>3 DEF Rest
<1>8. z * E + x >= 0 /\ z * E + x <= d - 1
  <2>1. z * E >= 0 /\ (E - 1 - z) * E >= 0
    BY <1>0, <1>7
  <2> QED BY <1>0, <1>6, <1>7, <2>1
<1>9. off = y * d + (z * E + x)
  BY <1>0, <1>6, <1>7
<1>10. off \div d = y
  <2> DEFINE r == z * E + x
  <2>1. Rest(off, d, y, r)
    BY <1>0, <1>6, <1>7, <1>8, <1>9 DEF Rest
  <2> HIDE DEF r
  <2> QED BY <1>6, <2>1, Divided
<1>11. 0 <= y /\ y <= E - 1
  <2>1. y * d <= off /\ off < (y + 1) * d /\ off < E * d
    BY <1>0, <1>6, <1>7, <1>8, <1>9
  <2>2. ~(y <= -1)
    <3> SUFFICES ASSUME y <= -1 PROVE FALSE
      OBVIOUS
    <3>1. (-1 - y) * d >= 0
      BY <1>6, <1>7
    <3> QED BY <1>0, <1>6, <1>7, <2>1, <3>1
  <2>3. ~(y >= E)
    <3> SUFFICES ASSUME y >= E PROVE FALSE
      OBVIOUS
    <3>1. (y - E) * d >= 0
      BY <1>0, <1>6, <1>7
    <3> QED BY <1>0, <1>6, <1>7, <2>1, <3>1
  <2> QED BY <1>0, <1>7, <2>2, <2>3
<1>12. /\ c[1] = s[1] * E + x /\ c[2] = s[2] * E + y /\ c[3] = s[3] * E + z
       /\ c = <<c[1], c[2], c[3]>>
  BY <1>4, <1>10
<1>13. c[1] \in Int /\ c[2] \in Int /\ c[3] \in Int
  BY <1>0, <1>7, <1>12
<1>14. Rest(c[1], E, s[1], x) /\ Rest(c[2], E, s[2], y) /\ Rest(c[3], E, s[3], z)
  BY <1>0, <1>7, <1>11, <1>12 DEF Rest
<1>15. /\ c[1] \div E = s[1] /\ c[1] % E = x /\ c[2] \div E = s[2] /\ c[2] % E = y
       /\ c[3] \div E = s[3] /\ c[3] % E = z
  BY <1>0, <1>14, Divided
<1>16. SectionOf(c) = s
  BY <1>0, <1>5, <1>15
<1>17. OffsetOf(c) = off
  <2>1. OffsetOf(c) = y * E * E + z * E + x
    BY <1>5, <1>15
  <2> QED BY <1>0, <1>6, <1>7, <1>9, <2>1
<1> QED BY <1>12, <1>13, <1>16, <1>17 DEF Triple

(* What a block read of the view says of every cell of a section.           *)
LEMMA CellsOfAnswer ==
    ASSUME NEW view, NEW baseline, NEW c, NEW s, SectionOf(c) = s
    PROVE  LET o == CellAt(ReadWorld(view, baseline), c)
               presence == Access(view, s).presence
           IN
           /\ o.section = s /\ o.offset = OffsetOf(c)
           /\ IF s \in DOMAIN view.directory THEN o.presence = presence
              ELSE o.presence = "Unavailable" /\ presence = "Unchanged"
           /\ o.block # Absent => presence \in Stored
<1> DEFINE world == ReadWorld(view, baseline)
           o == CellAt(world, c)
           presence == Access(view, s).presence
<1>1. /\ DOMAIN world = DOMAIN view.directory
      /\ \A t \in DOMAIN world :
            /\ world[t].presence = view.directory[t].presence
            /\ world[t].presence \notin Stored => world[t].storage = Absent
  BY DEF ReadWorld
<1>2. presence = IF s \in DOMAIN view.directory THEN view.directory[s].presence ELSE "Unchanged"
  BY DEF Access
<1> HIDE DEF world, presence
<1>3. CASE s \in DOMAIN world
  <2>1. o = [section |-> s, presence |-> world[s].presence, revision |-> world[s].revision,
             offset |-> OffsetOf(c),
             block |-> IF world[s].storage = Absent THEN Absent
                       ELSE world[s].storage[OffsetOf(c)]]
    BY <1>3 DEF CellAt
  <2> HIDE DEF o
  <2>2. /\ o.section = s /\ o.offset = OffsetOf(c) /\ o.presence = world[s].presence
        /\ world[s].storage = Absent => o.block = Absent
    BY <2>1
  <2> QED BY <1>1, <1>2, <1>3, <2>2 DEF o, world, presence
<1>4. CASE s \notin DOMAIN world
  <2>1. o = [section |-> s, presence |-> "Unavailable", revision |-> 0, offset |-> OffsetOf(c),
             block |-> Absent]
    BY <1>4 DEF CellAt
  <2> HIDE DEF o
  <2>2. o.section = s /\ o.offset = OffsetOf(c) /\ o.presence = "Unavailable" /\ o.block = Absent
    BY <2>1
  <2> QED BY <1>1, <1>2, <1>4, <2>2 DEF o, world, presence
<1> QED BY <1>3, <1>4

----------------------------------------------------------------------------
(* Every query.                                                             *)

LEMMA QueryAnswers ==
    ASSUME NEW q, NEW plan, NEW r, NEW S \in SUBSET Ids, NEW n, n = Cardinality(S), n \in Nat,
           plan = Plan(q.request, q.planned, q.limit, q.granted),
           DOMAIN q.request = {"cancel", "context", "keys", "world"}, AreKeyTexts(q.request.keys),
           Lists(plan.sections, n, S), Walked(r, q.view, plan.sections, n, q.used)
    PROVE  AnswersQuery(q, plan, r, S)
<1> DEFINE items == r.items
           sections == plan.sections
           world == ReadWorld(q.view, q.baseline)
           CellIn(s, off) == <<s[1] * Extent + (off % Extent),
                               s[2] * Extent + (off \div (Extent * Extent)),
                               s[3] * Extent + ((off \div Extent) % Extent)>>
<1>0. /\ Len(items) = n /\ DOMAIN items = 1..n
      /\ \A i \in 1..n : items[i] = Access(q.view, sections[i])
      /\ r.used = q.used + n
      /\ r.missing = {i \in ToSet(items) : i.presence # "Ready"}
  BY DEF Walked
<1>3. /\ sections \in [1..n -> S] /\ Increasing(sections, n)
      /\ S = {sections[i] : i \in 1..n}
  BY DEF Lists
<1> HIDE DEF items, sections
<1>1. ToSet(items) = {items[i] : i \in 1..n}
  BY <1>0 DEF ToSet
<1>2. \A i \in 1..n : items[i] = Access(q.view, sections[i]) /\ items[i].section = sections[i]
                      /\ sections[i] \in S
  <2> TAKE i \in 1..n
  <2>1. items[i] = Access(q.view, sections[i])
    BY <1>0
  <2>2. items[i].section = sections[i]
    BY <2>1 DEF Access
  <2>3. sections[i] \in S
    BY <1>3
  <2> QED BY <2>1, <2>2, <2>3
<1>4. {i.section : i \in ToSet(items)} = S
  <2>1. {i.section : i \in ToSet(items)} = {items[i].section : i \in 1..n}
    BY <1>1
  <2>2. {items[i].section : i \in 1..n} = {sections[i] : i \in 1..n}
    BY <1>2
  <2> QED BY <1>3, <2>1, <2>2, Zenon
<1>5. \A i, j \in 1..n : i < j => IdBefore(items[i].section, items[j].section)
  BY <1>2, <1>3 DEF Increasing
<1>6. Plan([q.request EXCEPT !.keys = Reverse(@)], q.planned, q.limit, q.granted) = plan
  <2> DEFINE request == q.request
  <2>1. DOMAIN request = {"cancel", "context", "keys", "world"} /\ AreKeyTexts(request.keys)
    OBVIOUS
  <2> HIDE DEF request
  <2>2. Plan([request EXCEPT !.keys = Reverse(@)], q.planned, q.limit, q.granted) =
        Plan(request, q.planned, q.limit, q.granted)
    BY <2>1, PlanOrder
  <2> QED BY <2>2 DEF request
<1>7. ASSUME NEW i \in ToSet(items)
      PROVE  i.presence # "Ready" <=> i \in r.missing
  BY <1>0, <1>7
<1>8. ASSUME NEW i \in ToSet(items), NEW off \in CellOffset
      PROVE  LET o == CellAt(world, CellIn(i.section, off)) IN
             /\ o.section = i.section /\ o.offset = off
             /\ IF i.section \in DOMAIN q.view.directory
                THEN o.presence = i.presence
                ELSE o.presence = "Unavailable" /\ i.presence = "Unchanged"
             /\ o.block # Absent => i.presence \in Stored
  <2> DEFINE s == i.section
             c == CellIn(s, off)
  <2>1. i = Access(q.view, s) /\ s \in Triple
    BY <1>1, <1>2, IdTyped
  <2>2. c = <<s[1] * Extent + (off % Extent),
              s[2] * Extent + (off \div (Extent * Extent)),
              s[3] * Extent + ((off \div Extent) % Extent)>>
    OBVIOUS
  <2> HIDE DEF s, c
  <2>3. c \in Triple /\ SectionOf(c) = s /\ OffsetOf(c) = off
    BY <2>1, <2>2, CellOfOffset
  <2> DEFINE o == CellAt(ReadWorld(q.view, q.baseline), c)
             presence == Access(q.view, s).presence
  <2>4. /\ o.section = s /\ o.offset = OffsetOf(c)
        /\ IF s \in DOMAIN q.view.directory THEN o.presence = presence
           ELSE o.presence = "Unavailable" /\ presence = "Unchanged"
        /\ o.block # Absent => presence \in Stored
    BY <2>3, CellsOfAnswer
  <2>5. presence = i.presence
    BY <2>1
  <2> HIDE DEF o, presence
  <2>6. /\ o.section = s /\ o.offset = off
        /\ IF s \in DOMAIN q.view.directory THEN o.presence = i.presence
           ELSE o.presence = "Unavailable" /\ i.presence = "Unchanged"
        /\ o.block # Absent => i.presence \in Stored
    BY <2>3, <2>4, <2>5
  <2> QED BY <2>6 DEF o, s, c
<1> HIDE DEF world, CellIn
<1>9. \A i \in ToSet(items) :
         /\ i.presence # "Ready" <=> i \in r.missing
         /\ \A off \in CellOffset :
               LET o == CellAt(world, CellIn(i.section, off)) IN
               /\ o.section = i.section /\ o.offset = off
               /\ IF i.section \in DOMAIN q.view.directory
                  THEN o.presence = i.presence
                  ELSE o.presence = "Unavailable" /\ i.presence = "Unchanged"
               /\ o.block # Absent => i.presence \in Stored
  BY <1>7, <1>8, Zenon
<1>10. Len(items) = n
  BY <1>0
<1> QED BY <1>0, <1>4, <1>5, <1>6, <1>9, <1>10, Zenon DEF AnswersQuery, items, world, CellIn

LEMMA QueryRight ==
    ASSUME NEW q, IsQuery(q)
    PROVE  QueryAgrees(q)
<1> DEFINE keys == q.request.keys
           plan == Plan(q.request, q.planned, q.limit, q.granted)
           r == IF plan.ok THEN Walk(plan, q.view, q.used, q.pinned) ELSE Refused
           S == Named(keys)
           n == Cardinality(S)
           ids == IdsAsked(q)
           covered == \A s \in ids \cap q.pinned :
                         s \in DOMAIN q.view.directory /\ q.view.directory[s].presence = "Ready"
           answered == /\ ToSet(q.request.keys) = Asked(q)
                       /\ q.granted /\ q.limit >= 1 /\ Len(q.request.keys) <= q.limit
                       /\ q.used + Cardinality(ids) <= q.limit
                       /\ ~q.request.cancel
                       /\ <<q.request.world, q.request.context>> = <<q.view.world, q.view.context>>
                       /\ Stamp(q.planned) = Stamp(q.view)
                       /\ covered
<1>1. /\ q.limit \in Nat /\ q.used \in Nat /\ q.granted \in BOOLEAN /\ q.request.cancel \in BOOLEAN
      /\ DOMAIN q.request = {"cancel", "context", "keys", "world"}
      /\ AreKeyTexts(keys)
  BY DEF IsQuery, AreKeyTexts, IsKeyText
<1>2. Len(keys) \in Nat /\ \A k \in ToSet(keys) : IsKeyText(k)
  BY <1>1, KeysOf DEF AreKeyTexts
<1>3. KeysAgree(ToSet(keys))
  BY <1>2, KeysRight
<1>4. /\ plan.ok \in BOOLEAN
      /\ plan.ok <=> /\ q.limit >= 1 /\ q.granted /\ Addressed(q.request, q.planned)
                     /\ Len(keys) <= q.limit /\ Valid(keys)
      /\ plan.ok =>
            plan = [ok |-> TRUE, stamp |-> Stamp(q.planned), budget |-> q.limit,
                    sections |-> Canonicalized(keys),
                    hash |-> PlanHash(q.request, q.planned, Canonicalized(keys), q.limit)]
  BY <1>1, <1>2, PlanAnswers
<1>5. /\ ToSet(keys) = Asked(q) <=> Valid(keys)
      /\ Valid(keys) => ids = S
  BY <1>1, AskedKeys
<1>6. Refused.ok = FALSE
  BY DEF Refused
<1>7. CASE ~plan.ok
  <2>1. r = Refused
    BY <1>7
  <2>2. ~answered
    <3>1. CASE ~Valid(keys)
      BY <1>5, <3>1
    <3>2. CASE Valid(keys)
      <4>1. SUFFICES ASSUME answered PROVE FALSE
        OBVIOUS
      <4>2. q.planned.world = q.view.world /\ q.planned.context = q.view.context
        BY <4>1 DEF Stamp
      <4>3. Addressed(q.request, q.planned)
        BY <4>1, <4>2 DEF Addressed
      <4> QED BY <1>4, <1>7, <3>2, <4>1, <4>3
    <3> QED BY <3>1, <3>2
  <2> HIDE DEF r, answered, plan
  <2>3. r.ok = FALSE /\ answered = FALSE
    BY <1>6, <2>1, <2>2 DEF answered
  <2>4. r.ok = answered
    BY <2>3
  <2>5. ~r.ok
    BY <2>3
  <2> QED BY <1>3, <2>4, <2>5, Zenon DEF QueryAgrees, r, answered, plan, covered, ids, IdsAsked, Ids, keys
<1>8. CASE plan.ok
  <2>1. /\ Valid(keys) /\ q.limit >= 1 /\ q.granted /\ Addressed(q.request, q.planned)
        /\ Len(keys) <= q.limit
        /\ plan.sections = Canonicalized(keys) /\ plan.budget = q.limit
        /\ plan.stamp = Stamp(q.planned)
    BY <1>4, <1>8
  <2>2. ids = S /\ ToSet(keys) = Asked(q)
    BY <1>5, <2>1
  <2>3. S \in SUBSET Ids
    BY <1>1, <2>1, NamedSections
  <2>4. /\ n \in Nat /\ Canonicalized(keys) \in [1..n -> S]
        /\ Increasing(Canonicalized(keys), n)
        /\ {Canonicalized(keys)[i] : i \in 1..n} = S
    BY <1>1, <2>1, CanonicalizedListing
  <2>5. r = Walk(plan, q.view, q.used, q.pinned)
    BY <1>8
  <2>6. plan = Plan(q.request, q.planned, q.limit, q.granted)
    OBVIOUS
  <2>7. n = Cardinality(S)
    OBVIOUS
  <2> HIDE DEF plan, r, S, n
  <2>8. Lists(plan.sections, n, S) /\ plan.budget \in Nat /\ plan.budget >= 1
    BY <1>1, <2>1, <2>4 DEF Lists
  <2>9. /\ r.ok \in BOOLEAN
        /\ r.ok <=> /\ SameCut(plan, q.view) /\ q.used + n <= plan.budget
                    /\ Covered(q.view, S, q.pinned)
        /\ r.ok => Walked(r, q.view, plan.sections, n, q.used)
    BY <1>1, <2>4, <2>5, <2>8, WalkAnswers
  <2>10. r.ok => AnswersQuery(q, plan, r, S)
    <3> SUFFICES ASSUME r.ok PROVE AnswersQuery(q, plan, r, S)
      OBVIOUS
    <3>1. Walked(r, q.view, plan.sections, n, q.used)
      BY <2>9
    <3> QED BY <1>1, <2>3, <2>4, <2>6, <2>7, <2>8, <3>1, QueryAnswers
  <2>11. SameCut(plan, q.view) <=> Stamp(q.planned) = Stamp(q.view)
    BY <2>1 DEF SameCut
  <2>12. SameCut(plan, q.view) =>
           <<q.request.world, q.request.context>> = <<q.view.world, q.view.context>>
    <3> SUFFICES ASSUME Stamp(q.planned) = Stamp(q.view)
                 PROVE  q.request.world = q.view.world /\ q.request.context = q.view.context
      BY <2>11
    <3>1. q.planned.world = q.view.world /\ q.planned.context = q.view.context
      BY DEF Stamp
    <3> QED BY <2>1, <3>1 DEF Addressed
  <2>13. ~q.request.cancel
    BY <2>1 DEF Addressed
  <2>14. r.ok <=> answered
    <3>1. covered <=> Covered(q.view, S, q.pinned)
      BY <2>2 DEF Covered
    <3>2. Cardinality(ids) = n
      BY <2>2, <2>7
    <3> HIDE DEF covered, ids
    <3> QED BY <2>1, <2>2, <2>9, <2>11, <2>12, <2>13, <3>1, <3>2
  <2> HIDE DEF ids, covered, answered
  <2>15. r.ok = answered
    BY <2>9, <2>14 DEF answered
  <2>16. r.ok => AnswersQuery(q, plan, r, ids)
    BY <2>2, <2>10
  <2> QED BY <1>3, <2>15, <2>16, Zenon DEF QueryAgrees, r, answered, plan, covered, ids, IdsAsked, Ids, keys
<1> QED BY <1>7, <1>8

(* A query is answered just when its texts are keys of sections, the budget *)
(* is enough, the view is the cut it was planned on and no pinned section   *)
(* is missing; the answer lists every section once, in order, with the      *)
(* presence a block read of the view reports (QueryPlanner::plan,           *)
(* QueryExecutor::walk_with_presence_guard).                                *)
THEOREM QueriesRight == QuerySpec => []QueriesAgree
<1>1. question = NoQuestion => QueriesAgree
  BY DEF NoQuestion, QueriesAgree
<1>2. QueriesAgree /\ [question = NoQuestion /\ IsQuery(question')]_question => QueriesAgree'
  <2> SUFFICES ASSUME QueriesAgree, [question = NoQuestion /\ IsQuery(question')]_question
               PROVE  QueriesAgree'
    OBVIOUS
  <2>1. CASE IsQuery(question')
    <3> DEFINE q == question'
    <3>1. IsQuery(q)
      BY <2>1
    <3> HIDE DEF q
    <3>2. QueryAgrees(q)
      BY <3>1, QueryRight
    <3> QED BY <3>2 DEF QueriesAgree, q
  <2>2. CASE UNCHANGED question
    BY <2>2 DEF QueriesAgree, QueryAgrees
  <2> QED BY <2>1, <2>2
<1> QED BY <1>1, <1>2, PTL DEF QuerySpec
===============================================================================
