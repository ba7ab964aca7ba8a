------------------------- MODULE BlockStorageProofs -------------------------
(***************************************************************************)
(* Theorems about BlockStorage for any number of cells, any set of blocks  *)
(* and any palette capacity from two on.                                   *)
(***************************************************************************)
EXTENDS BlockStorage, FiniteSetTheorems, WellFoundedInduction, TLAPS

(* A set of naturals has a least member.                                   *)
LEMMA LeastNatural ==
    ASSUME NEW T, T \subseteq Nat, T # {}
    PROVE  \E m \in T : \A k \in T : m <= k
<1>1. IsWellFoundedOn(OpToRel(<, Nat), Nat)
  BY NatLessThanWellFounded
<1>2. PICK m \in T : \A k \in T : ~ (<<k, m>> \in OpToRel(<, Nat))
  BY <1>1, WFMin, Zenon
<1>3. \A k \in T : ~ (k < m)
  BY <1>2 DEF OpToRel
<1>4. m \in Nat /\ \A k \in T : k \in Nat
  OBVIOUS
<1>5. \A k \in T : m <= k
  BY <1>3, <1>4
<1> QED BY <1>5

(* The first cell of a kind.                                               *)
LEMMA FirstCellFacts ==
    ASSUME NEW f \in Cells, NEW b \in Kinds(f)
    PROVE  /\ FirstCell(f, b) \in Cell /\ f[FirstCell(f, b)] = b
           /\ \A d \in Cell : d < FirstCell(f, b) => f[d] # b
<1> DEFINE T == {c \in Cell : f[c] = b}
<1>1. T \subseteq Nat /\ T # {}
  BY StorageAssumption DEF Kinds, Cell
<1>2. PICK c \in T : \A d \in T : c <= d
  BY <1>1, LeastNatural
<1>3. \A d \in Cell : d < c => f[d] # b
  BY <1>2, <1>1 DEF Cell
<1> QED BY <1>2, <1>3 DEF FirstCell

(* A section has at least one kind of block, and finitely many.            *)
LEMMA KindsFacts ==
    ASSUME NEW f \in Cells
    PROVE  /\ IsFiniteSet(Kinds(f)) /\ Kinds(f) \subseteq Block
           /\ Cardinality(Kinds(f)) \in Nat \ {0}
           /\ 0 \in Cell /\ f[0] \in Kinds(f)
           /\ \A c \in Cell : f[c] \in Kinds(f)
<1>1. IsFiniteSet(Cell) /\ 0 \in Cell
  BY FS_Interval, StorageAssumption DEF Cell
<1>2. f \in Surjection(Cell, Kinds(f))
  BY DEF Cells, Kinds, Surjection
<1>3. IsFiniteSet(Kinds(f))
  BY <1>1, <1>2, FS_Surjection
<1>4. Kinds(f) # {}
  BY <1>1 DEF Kinds
<1>5. Cardinality(Kinds(f)) \in Nat /\ Cardinality(Kinds(f)) # 0
  BY <1>3, <1>4, FS_CardinalityType, FS_EmptySet
<1> QED BY <1>1, <1>3, <1>5 DEF Cells, Kinds

(* Kinds have different places, within the number of kinds.                *)
LEMMA PlaceInjective ==
    ASSUME NEW f \in Cells
    PROVE  /\ \A b \in Kinds(f) : Place(f, b) \in 0..(Cardinality(Kinds(f)) - 1)
           /\ \A a, b \in Kinds(f) : Place(f, a) = Place(f, b) => a = b
<1> DEFINE K == Kinds(f)
           Before(b) == {a \in K : FirstCell(f, a) < FirstCell(f, b)}
<1>1. IsFiniteSet(K) /\ Cardinality(K) \in Nat
  BY KindsFacts
<1>2. \A b \in K : FirstCell(f, b) \in Nat /\ f[FirstCell(f, b)] = b
  BY FirstCellFacts, StorageAssumption DEF Cell
<1>3. \A b \in K : IsFiniteSet(Before(b)) /\ Cardinality(Before(b)) \in Nat /\ Before(b) \subseteq K
  BY <1>1, FS_Subset, FS_CardinalityType
<1>4. \A b \in K : Cardinality(Before(b)) < Cardinality(K)
  <2> TAKE b \in K
  <2>1. b \notin Before(b)
    BY <1>2
  <2>2. Before(b) \in SUBSET K /\ Before(b) # K
    BY <2>1
  <2> QED BY <1>1, <1>3, <2>2, FS_Subset
<1>5. ASSUME NEW a \in K, NEW b \in K, FirstCell(f, a) < FirstCell(f, b)
      PROVE  Cardinality(Before(a)) < Cardinality(Before(b))
  <2>1. Before(a) \subseteq Before(b) /\ a \in Before(b) /\ a \notin Before(a)
    BY <1>2, <1>5
  <2> QED BY <1>3, <2>1, FS_Subset
<1>6. ASSUME NEW a \in K, NEW b \in K, Cardinality(Before(a)) = Cardinality(Before(b))
      PROVE  a = b
  <2>1. ~ FirstCell(f, a) < FirstCell(f, b) /\ ~ FirstCell(f, b) < FirstCell(f, a)
    BY <1>3, <1>5, <1>6
  <2>2. FirstCell(f, a) = FirstCell(f, b)
    BY <1>2, <2>1
  <2> QED BY <1>2, <2>2
<1>7. \A b \in K : Place(f, b) = Cardinality(Before(b))
  BY DEF Place
<1>8. \A b \in Kinds(f) : Place(f, b) \in 0..(Cardinality(Kinds(f)) - 1)
  <2> TAKE b \in Kinds(f)
  <2>1. Place(f, b) \in Nat /\ Place(f, b) < Cardinality(Kinds(f))
    BY <1>3, <1>4, <1>7, Zenon
  <2> QED BY <1>1, <2>1
<1>9. \A a, b \in Kinds(f) : Place(f, a) = Place(f, b) => a = b
  BY <1>6, <1>7, Zenon
<1> QED BY <1>8, <1>9

(* The table of a palette made from cells is filled, each place by a kind. *)
LEMMA PlaceSurjective ==
    ASSUME NEW f \in Cells
    PROVE  \A i \in 0..(Cardinality(Kinds(f)) - 1) : \E b \in Kinds(f) : Place(f, b) = i
<1> DEFINE K == Kinds(f)
           n == Cardinality(K)
           g == [b \in K |-> Place(f, b)]
<1>1. IsFiniteSet(K) /\ n \in Nat \ {0}
  BY KindsFacts
<1>2. IsFiniteSet(0..(n - 1)) /\ Cardinality(0..(n - 1)) = n
  BY <1>1, FS_Interval
<1>3. g \in [K -> 0..(n - 1)] /\ \A a, b \in K : g[a] = g[b] => a = b
  BY PlaceInjective, Zenon
<1>4. g \in Injection(K, 0..(n - 1))
  BY <1>3, Zenon DEF Injection, IsInjective
<1>5. g \in Surjection(K, 0..(n - 1))
  BY <1>1, <1>2, <1>4, FS_Injection
<1>6. \A i \in 0..(n - 1) : \E b \in K : g[b] = i
  BY <1>5, Zenon DEF Surjection
<1> QED BY <1>6

(* The palette made from cells shows them, without a dead or a double      *)
(* entry.                                                                  *)
LEMMA PaletteOfFacts ==
    ASSUME NEW f \in Cells
    PROVE  LET p == PaletteOf(f)
               n == Cardinality(Kinds(f))
           IN  /\ p = Palette(p.entries, p.index) /\ p.kind = "Palette"
               /\ p.entries \in [0..(n - 1) -> Block] /\ p.index \in [Cell -> 0..(n - 1)]
               /\ \A c \in Cell : p.entries[p.index[c]] = f[c]
               /\ \A j, k \in 0..(n - 1) : p.entries[j] = p.entries[k] => j = k
               /\ {p.index[c] : c \in Cell} = 0..(n - 1)
<1> DEFINE p == PaletteOf(f)
           n == Cardinality(Kinds(f))
<1>1. p.kind = "Palette" /\ p = Palette(p.entries, p.index)
  BY DEF PaletteOf, Palette
<1>2. p.entries = [i \in 0..(n - 1) |-> CHOOSE b \in Kinds(f) : Place(f, b) = i]
  BY DEF PaletteOf, Palette
<1>3. p.index = [c \in Cell |-> Place(f, f[c])]
  BY DEF PaletteOf, Palette
<1>4. \A c \in Cell : f[c] \in Kinds(f) /\ Place(f, f[c]) \in 0..(n - 1)
  BY KindsFacts, PlaceInjective
<1>5. \A i \in 0..(n - 1) : p.entries[i] \in Kinds(f) /\ Place(f, p.entries[i]) = i
  BY <1>2, PlaceSurjective, Zenon
<1>6. p.entries \in [0..(n - 1) -> Block] /\ p.index \in [Cell -> 0..(n - 1)]
  BY <1>2, <1>3, <1>4, <1>5, KindsFacts
<1>7. \A c \in Cell : p.entries[p.index[c]] = f[c]
  <2> TAKE c \in Cell
  <2> DEFINE i == Place(f, f[c])
  <2>1. p.index[c] = i /\ i \in 0..(n - 1) /\ f[c] \in Kinds(f)
    BY <1>3, <1>4
  <2>2. p.entries[i] \in Kinds(f) /\ Place(f, p.entries[i]) = i
    BY <1>5, <2>1
  <2>3. p.entries[i] = f[c]
    BY <2>1, <2>2, PlaceInjective
  <2> QED BY <2>1, <2>3
<1>8. \A j, k \in 0..(n - 1) : p.entries[j] = p.entries[k] => j = k
  BY <1>5, Zenon
<1>9. \A i \in 0..(n - 1) : \E c \in Cell : p.index[c] = i
  <2> TAKE i \in 0..(n - 1)
  <2>1. PICK b \in Kinds(f) : Place(f, b) = i
    BY PlaceSurjective, Zenon
  <2>2. PICK c \in Cell : f[c] = b
    BY <2>1 DEF Kinds
  <2> QED BY <1>3, <2>1, <2>2
<1>10. {p.index[c] : c \in Cell} = 0..(n - 1)
  BY <1>3, <1>4, <1>9
<1> QED BY <1>1, <1>6, <1>7, <1>8, <1>10, Zenon

----------------------------------------------------------------------------
(* Storages.                                                               *)

(* A storage of legal shape that is Raw only if it must be.                *)
Legal(s) ==
    /\ s \in Storage /\ Distinct(s)
    /\ s.kind = "Raw" => Cardinality(Kinds(Contents(s))) > Capacity

(* The fields of the three encodings.                                      *)
LEMMA Shapes ==
    /\ \A b : Uniform(b).kind = "Uniform" /\ Uniform(b).block = b
    /\ \A e, i : /\ Palette(e, i).kind = "Palette"
                 /\ Palette(e, i).entries = e /\ Palette(e, i).index = i
    /\ \A f : Raw(f).kind = "Raw" /\ Raw(f).cells = f
BY DEF Uniform, Palette, Raw

(* A storage has one of the three shapes, the one its kind says.           *)
LEMMA StorageCases ==
    ASSUME NEW s \in Storage
    PROVE  \/ s.kind = "Uniform" /\ s.block \in Block /\ s = Uniform(s.block)
           \/ /\ s.kind = "Palette" /\ s = Palette(s.entries, s.index)
              /\ \E n \in 2..Capacity : s.entries \in [0..(n - 1) -> Block] /\ s.index \in [Cell -> 0..(n - 1)]
           \/ s.kind = "Raw" /\ s.cells \in Cells /\ s = Raw(s.cells)
<1>1. CASE \E b \in Block : s = Uniform(b)
  BY <1>1, Shapes
<1>2. CASE s \in Palettes
  <2>1. PICK n \in 2..Capacity : s \in PalettesOf(n)
    BY <1>2 DEF Palettes
  <2>2. PICK e \in [0..(n - 1) -> Block], i \in [Cell -> 0..(n - 1)] : s = Palette(e, i)
    BY <2>1 DEF PalettesOf, Table
  <2>3. s.kind = "Palette" /\ s.entries = e /\ s.index = i
    BY <2>2, Shapes, Zenon
  <2> QED BY <2>2, <2>3
<1>3. CASE \E f \in Cells : s = Raw(f)
  BY <1>3, Shapes
<1>4. s \in {Uniform(b) : b \in Block} \/ s \in Palettes \/ s \in {Raw(f) : f \in Cells}
  BY DEF Storage
<1> QED BY <1>1, <1>2, <1>3, <1>4

(* The converse, for tables of a given size.                               *)
LEMMA PaletteInStorage ==
    ASSUME NEW n \in 2..Capacity, NEW e \in [0..(n - 1) -> Block], NEW i \in [Cell -> 0..(n - 1)]
    PROVE  Palette(e, i) \in Storage
<1>1. Palette(e, i) \in PalettesOf(n)
  BY DEF PalettesOf, Table
<1> QED BY <1>1, Zenon DEF Storage, Palettes

(* What a read of every cell gives, by the kind of the storage.            *)
LEMMA ContentsByKind ==
    ASSUME NEW s
    PROVE  /\ s.kind = "Uniform" => Contents(s) = [c \in Cell |-> s.block]
           /\ s.kind = "Palette" => Contents(s) = [c \in Cell |-> s.entries[s.index[c]]]
           /\ s.kind = "Raw" => Contents(s) = [c \in Cell |-> s.cells[c]]
BY DEF Contents, ReadCell

(* The contents of a storage are cells.                                    *)
LEMMA ContentsTyped ==
    ASSUME NEW s \in Storage
    PROVE  Contents(s) \in Cells
<1>1. CASE s.kind = "Uniform"
  BY <1>1, StorageCases, ContentsByKind DEF Cells
<1>2. CASE s.kind = "Palette"
  <2>1. PICK n \in 2..Capacity : s.entries \in [0..(n - 1) -> Block] /\ s.index \in [Cell -> 0..(n - 1)]
    BY <1>2, StorageCases
  <2> QED BY <1>2, <2>1, ContentsByKind DEF Cells
<1>3. CASE s.kind = "Raw"
  BY <1>3, StorageCases, ContentsByKind DEF Cells
<1> QED BY <1>1, <1>2, <1>3, StorageCases

(* A Raw storage has the cells it was made from.                           *)
LEMMA RawFacts ==
    ASSUME NEW f \in Cells
    PROVE  Raw(f) \in Storage /\ Raw(f).kind = "Raw" /\ Contents(Raw(f)) = f
<1>1. Raw(f).kind = "Raw" /\ Raw(f).cells = f
  BY Shapes
<1>2. Contents(Raw(f)) = [c \in Cell |-> f[c]]
  BY <1>1, ContentsByKind
<1>3. Raw(f) \in Storage
  BY Zenon DEF Storage
<1> QED BY <1>1, <1>2, <1>3 DEF Cells

(* The optimal storage of some cells is legal and has just those cells.    *)
LEMMA OptimalFacts ==
    ASSUME NEW f \in Cells
    PROVE  Legal(Optimal(f)) /\ Contents(Optimal(f)) = f /\ WellFormed(Optimal(f))
<1> DEFINE n == Cardinality(Kinds(f))
           p == PaletteOf(f)
<1>1. n \in Nat \ {0} /\ IsFiniteSet(Kinds(f)) /\ f[0] \in Block /\ 0 \in Cell
  BY KindsFacts
<1>2. CASE n = 1
  <2>1. PICK b : Kinds(f) = {b}
    BY <1>1, <1>2, FS_Singleton
  <2>2. \A c \in Cell : f[c] = f[0]
    BY <2>1, KindsFacts
  <2>3. Optimal(f) = Uniform(f[0])
    BY <1>2 DEF Optimal
  <2>4. Contents(Optimal(f)) = f
    BY <2>2, <2>3, Shapes, ContentsByKind DEF Cells
  <2> QED BY <1>1, <2>3, <2>4, Shapes DEF Legal, Storage, Distinct, WellFormed
<1>3. CASE n # 1 /\ n <= Capacity
  <2>1. Optimal(f) = p
    BY <1>3 DEF Optimal
  <2>2. n \in 2..Capacity
    BY <1>1, <1>3, StorageAssumption
  <2>3. /\ p = Palette(p.entries, p.index) /\ p.kind = "Palette"
        /\ p.entries \in [0..(n - 1) -> Block] /\ p.index \in [Cell -> 0..(n - 1)]
        /\ \A c \in Cell : p.entries[p.index[c]] = f[c]
        /\ \A j, k \in 0..(n - 1) : p.entries[j] = p.entries[k] => j = k
        /\ {p.index[c] : c \in Cell} = 0..(n - 1)
    BY PaletteOfFacts, Zenon
  <2>4. p \in Storage
    <3>1. Palette(p.entries, p.index) \in Storage
      BY <2>2, <2>3, PaletteInStorage, Zenon
    <3> QED BY <2>3, <3>1, Zenon
  <2>5. Contents(p) = f
    BY <2>3, ContentsByKind DEF Cells
  <2>6. DOMAIN p.entries = 0..(n - 1)
    BY <2>3
  <2>7. TableSize(p) = n
    BY <2>2, <2>6, FS_Interval DEF TableSize
  <2>8. Distinct(p) /\ WellFormed(p)
    BY <2>2, <2>3, <2>6, <2>7 DEF Distinct, WellFormed
  <2>9. Legal(p)
    BY <2>3, <2>4, <2>8 DEF Legal
  <2> QED BY <2>1, <2>5, <2>8, <2>9
<1>4. CASE n > Capacity
  <2>1. Optimal(f) = Raw(f)
    BY <1>1, <1>4, StorageAssumption DEF Optimal
  <2>2. Contents(Raw(f)) = f
    BY Shapes, ContentsByKind DEF Cells
  <2>3. Raw(f) \in Storage /\ Raw(f).kind = "Raw"
    BY Shapes, Zenon DEF Storage
  <2> QED BY <1>4, <2>1, <2>2, <2>3 DEF Legal, Distinct, WellFormed
<1> QED BY <1>1, <1>2, <1>3, <1>4, StorageAssumption

----------------------------------------------------------------------------
(* Writes.                                                                 *)

(* A slot of a palette takes a new block: no other cell may be looking.    *)
LEMMA SetSlotFacts ==
    ASSUME NEW p \in Storage, p.kind = "Palette", Distinct(p), NEW c \in Cell, NEW b \in Block,
           NEW n \in 2..Capacity,
           p.entries \in [0..(n - 1) -> Block], p.index \in [Cell -> 0..(n - 1)],
           \A j \in 0..(n - 1) : p.entries[j] # b,
           NEW k \in 0..n, k < Capacity, k \notin LiveSlots(p, c)
    PROVE  LET q == SetSlot(p, c, k, b)
           IN  /\ q \in Storage /\ q.kind = "Palette" /\ Distinct(q)
               /\ Contents(q) = [Contents(p) EXCEPT ![c] = b]
<1> DEFINE q == SetSlot(p, c, k, b)
           m == IF k = n THEN n + 1 ELSE n
<1>1. /\ q.kind = "Palette"
      /\ q.entries = [j \in 0..(n - 1) \cup {k} |-> IF j = k THEN b ELSE p.entries[j]]
      /\ q.index = [p.index EXCEPT ![c] = k]
      /\ q = Palette(q.entries, q.index)
  BY Shapes DEF SetSlot
<1>2. m \in 2..Capacity /\ 0..(m - 1) = 0..(n - 1) \cup {k} /\ k \in 0..(m - 1)
  BY StorageAssumption
<1>3. q.entries \in [0..(m - 1) -> Block] /\ q.index \in [Cell -> 0..(m - 1)]
  BY <1>1, <1>2
<1>4. q \in Storage
  <2>1. Palette(q.entries, q.index) \in Storage
    BY <1>2, <1>3, PaletteInStorage, Zenon
  <2> QED BY <1>1, <2>1, Zenon
<1>5. \A i, j \in 0..(n - 1) : p.entries[i] = p.entries[j] => i = j
  BY DEF Distinct
<1>6. Distinct(q)
  BY <1>1, <1>5 DEF Distinct
<1>7. \A d \in Cell : q.entries[q.index[d]] = IF d = c THEN b ELSE p.entries[p.index[d]]
  <2> TAKE d \in Cell
  <2>1. CASE d = c
    BY <1>1, <2>1
  <2>2. CASE d # c
    <3>1. p.index[d] \in LiveSlots(p, c) /\ p.index[d] \in 0..(n - 1)
      BY <2>2 DEF LiveSlots
    <3> QED BY <1>1, <2>2, <3>1
  <2> QED BY <2>1, <2>2
<1>8. Contents(q) = [Contents(p) EXCEPT ![c] = b]
  <2>1. Contents(q) = [d \in Cell |-> q.entries[q.index[d]]]
    BY <1>1, ContentsByKind
  <2>2. Contents(p) = [d \in Cell |-> p.entries[p.index[d]]]
    BY ContentsByKind
  <2>3. DOMAIN Contents(p) = Cell /\ \A d \in Cell : Contents(p)[d] = p.entries[p.index[d]]
    BY <2>2
  <2> DEFINE was == Contents(p)
             is == Contents(q)
  <2>4. is = [d \in Cell |-> IF d = c THEN b ELSE was[d]]
    BY <1>7, <2>1, <2>3
  <2> HIDE DEF was, is, q
  <2>5. DOMAIN was = Cell
    BY <2>3 DEF was
  <2>6. is = [was EXCEPT ![c] = b]
    BY <2>4, <2>5
  <2> QED BY <2>6 DEF was, is
<1> QED BY <1>1, <1>4, <1>6, <1>8

(* A full palette without a dead slot shows every entry.                   *)
LEMMA FullPalette ==
    ASSUME NEW p \in Storage, p.kind = "Palette", Distinct(p), NEW c \in Cell, NEW b \in Block,
           p.entries \in [Slot -> Block], p.index \in [Cell -> Slot],
           \A j \in Slot : p.entries[j] # b,
           DeadSlots(p, c) = {}
    PROVE  Cardinality(Kinds([Contents(p) EXCEPT ![c] = b])) > Capacity
<1> DEFINE f == [Contents(p) EXCEPT ![c] = b]
           e == p.entries
           R == {e[j] : j \in Slot}
<1>1. f \in Cells
  BY ContentsTyped DEF Cells
<1>2. \A j \in Slot : \E d \in Cell : d # c /\ p.index[d] = j
  BY DEF DeadSlots, LiveSlots
<1>3. \A j \in Slot : e[j] \in Kinds(f)
  <2> TAKE j \in Slot
  <2>1. PICK d \in Cell : d # c /\ p.index[d] = j
    BY <1>2
  <2>2. f[d] = e[j]
    BY <2>1, ContentsByKind
  <2> QED BY <2>2 DEF Kinds
<1>4. b \in Kinds(f) \ R
  <2>1. f[c] = b
    BY ContentsByKind
  <2> QED BY <2>1 DEF Kinds
<1>5. IsFiniteSet(Slot) /\ Cardinality(Slot) = Capacity
  BY FS_Interval, StorageAssumption DEF Slot
<1>6. e \in Surjection(Slot, R) /\ e \in Injection(Slot, R)
  BY DEF Surjection, Injection, IsInjective, Distinct
<1>7. IsFiniteSet(R) /\ Cardinality(R) = Capacity
  BY <1>5, <1>6, FS_Surjection
<1>8. IsFiniteSet(Kinds(f)) /\ R \in SUBSET (Kinds(f) \ {b})
  BY <1>1, <1>3, <1>4, KindsFacts
<1>9. IsFiniteSet(Kinds(f) \ {b}) /\ Cardinality(Kinds(f) \ {b}) = Cardinality(Kinds(f)) - 1
  BY <1>4, <1>8, FS_RemoveElement
<1>10. Cardinality(R) <= Cardinality(Kinds(f) \ {b})
  BY <1>8, <1>9, FS_Subset
<1>11. Cardinality(Kinds(f)) \in Nat
  BY <1>8, FS_CardinalityType
<1> QED BY <1>7, <1>9, <1>10, <1>11, StorageAssumption

(* Writing a palette.                                                      *)
LEMMA WritePaletteFacts ==
    ASSUME NEW p, Legal(p), p.kind = "Palette", NEW c \in Cell, NEW b \in Block, ReadCell(p, c) # b
    PROVE  /\ Legal(WritePalette(p, c, b))
           /\ Contents(WritePalette(p, c, b)) = [Contents(p) EXCEPT ![c] = b]
<1> DEFINE f == [Contents(p) EXCEPT ![c] = b]
<1>1. p \in Storage /\ Distinct(p)
  BY DEF Legal
<1>2. PICK n \in 2..Capacity : p.entries \in [0..(n - 1) -> Block] /\ p.index \in [Cell -> 0..(n - 1)]
  BY <1>1, StorageCases
<1>3. DOMAIN p.entries = 0..(n - 1) /\ TableSize(p) = n
  <2>1. DOMAIN p.entries = 0..(n - 1)
    BY <1>2
  <2>2. Cardinality(0..(n - 1)) = n
    BY FS_Interval, StorageAssumption
  <2> QED BY <2>1, <2>2 DEF TableSize
<1>4. Contents(p) = [d \in Cell |-> p.entries[p.index[d]]]
  BY ContentsByKind
<1>5. CASE \E k \in DOMAIN p.entries : p.entries[k] = b
  <2> DEFINE k == CHOOSE k \in DOMAIN p.entries : p.entries[k] = b
             q == Palette(p.entries, [p.index EXCEPT ![c] = k])
  <2>1. k \in 0..(n - 1) /\ p.entries[k] = b
    BY <1>3, <1>5
  <2>2. WritePalette(p, c, b) = q
    BY <1>5 DEF WritePalette
  <2> HIDE DEF k
  <2>3. q.kind = "Palette" /\ q.entries = p.entries /\ q.index = [p.index EXCEPT ![c] = k]
    BY Shapes
  <2>4. q \in Storage
    BY <1>2, <2>1, PaletteInStorage, Zenon
  <2>5. Distinct(q)
    BY <1>1, <2>3 DEF Distinct
  <2>6. Contents(q) = [d \in Cell |-> q.entries[q.index[d]]]
    BY <2>3, ContentsByKind
  <2>7. Contents(q) = f
    <3>1. \A d \in Cell : q.entries[q.index[d]] = IF d = c THEN b ELSE p.entries[p.index[d]]
      BY <1>2, <2>1, <2>3
    <3> QED BY <1>4, <2>6, <3>1
  <2>8. Legal(q)
    BY <2>3, <2>4, <2>5 DEF Legal
  <2> QED BY <2>2, <2>7, <2>8
<1>6. CASE ~ (\E k \in DOMAIN p.entries : p.entries[k] = b)
  <2>1. \A k \in 0..(n - 1) : p.entries[k] # b
    BY <1>3, <1>6
  <2>2. ASSUME NEW k \in 0..n, k < Capacity, k \notin LiveSlots(p, c),
               WritePalette(p, c, b) = SetSlot(p, c, k, b)
        PROVE  Legal(WritePalette(p, c, b)) /\ Contents(WritePalette(p, c, b)) = f
    <3> DEFINE q == SetSlot(p, c, k, b)
    <3>1. q \in Storage /\ q.kind = "Palette" /\ Distinct(q) /\ Contents(q) = f
      BY <1>1, <1>2, <2>1, <2>2, SetSlotFacts
    <3>2. Legal(q)
      BY <3>1 DEF Legal
    <3> QED BY <2>2, <3>1, <3>2
  <2>3. CASE Room(p)
    <3>1. n < Capacity /\ WritePalette(p, c, b) = SetSlot(p, c, n, b)
      BY <1>3, <1>6, <2>3 DEF WritePalette, Room
    <3>2. n \notin LiveSlots(p, c)
      BY <1>2 DEF LiveSlots
    <3> QED BY <2>2, <3>1, <3>2
  <2>4. CASE ~Room(p) /\ DeadSlots(p, c) # {}
    <3> DEFINE k == ReusedSlot(p, c)
    <3>1. n = Capacity
      BY <1>3, <2>4, StorageAssumption DEF Room
    <3>2. DeadSlots(p, c) \subseteq Nat
      BY DEF DeadSlots, Slot
    <3>3. k \in DeadSlots(p, c)
      BY <2>4, <3>2, LeastNatural DEF ReusedSlot
    <3>4. k \in 0..(n - 1) /\ k \notin LiveSlots(p, c)
      BY <3>1, <3>3 DEF DeadSlots, Slot
    <3>5. WritePalette(p, c, b) = SetSlot(p, c, k, b)
      BY <1>6, <2>4 DEF WritePalette
    <3> QED BY <2>2, <3>1, <3>4, <3>5
  <2>5. CASE ~Room(p) /\ DeadSlots(p, c) = {}
    <3>1. n = Capacity
      BY <1>3, <2>5, StorageAssumption DEF Room
    <3>2. WritePalette(p, c, b) = Raw(f)
      BY <1>6, <2>5 DEF WritePalette
    <3>3. p.entries \in [Slot -> Block] /\ p.index \in [Cell -> Slot]
      BY <1>2, <3>1 DEF Slot
    <3>4. \A j \in Slot : p.entries[j] # b
      BY <2>1, <3>1 DEF Slot
    <3>5. Cardinality(Kinds(f)) > Capacity
      BY <1>1, <2>5, <3>3, <3>4, FullPalette
    <3>6. f \in Cells
      BY <1>1, ContentsTyped DEF Cells
    <3>7. Raw(f).kind = "Raw" /\ Raw(f).cells = f
      BY Shapes
    <3>8. Contents(Raw(f)) = f
      BY <3>6, RawFacts
    <3>9. Raw(f) \in Storage
      BY <3>6, Zenon DEF Storage
    <3> QED BY <3>2, <3>5, <3>7, <3>8, <3>9 DEF Legal, Distinct
  <2> QED BY <2>3, <2>4, <2>5
<1> QED BY <1>5, <1>6

(* Whatever the encoding, a write changes one cell and keeps the storage   *)
(* legal.                                                                  *)
LEMMA WriteFacts ==
    ASSUME NEW s, Legal(s), NEW c \in Cell, NEW b \in Block
    PROVE  /\ Legal(WriteCell(s, c, b))
           /\ Contents(WriteCell(s, c, b)) = [Contents(s) EXCEPT ![c] = b]
<1> DEFINE f == [Contents(s) EXCEPT ![c] = b]
<1>1. s \in Storage /\ Contents(s) \in Cells /\ f \in Cells
  BY ContentsTyped DEF Legal, Cells
<1>2. CASE ReadCell(s, c) = b
  <2>1. WriteCell(s, c, b) = s
    BY <1>2 DEF WriteCell
  <2>2. Contents(s)[c] = b
    BY <1>2 DEF Contents
  <2> QED BY <1>1, <2>1, <2>2 DEF Cells
<1>3. CASE ReadCell(s, c) # b /\ s.kind = "Uniform"
  <2> DEFINE e == [k \in 0..1 |-> IF k = 0 THEN s.block ELSE b]
             i == [d \in Cell |-> IF d = c THEN 1 ELSE 0]
             q == Palette(e, i)
  <2>1. WriteCell(s, c, b) = q
    BY <1>3 DEF WriteCell, WriteUniform
  <2>2. s.block \in Block /\ s.block # b
    BY <1>1, <1>3, StorageCases DEF ReadCell
  <2>3. 2 \in 2..Capacity /\ e \in [0..(2 - 1) -> Block] /\ i \in [Cell -> 0..(2 - 1)]
    BY <2>2, StorageAssumption
  <2>4. q \in Storage
    BY <2>3, PaletteInStorage, Zenon
  <2>5. q.kind = "Palette" /\ q.entries = e /\ q.index = i
    BY Shapes, Zenon
  <2>6. Distinct(q)
    BY <2>2, <2>5 DEF Distinct
  <2>7. Contents(q) = [d \in Cell |-> q.entries[q.index[d]]]
    BY <2>5, ContentsByKind
  <2>8. Contents(s) = [d \in Cell |-> s.block]
    BY <1>3, ContentsByKind
  <2>9. Contents(q) = f
    BY <2>5, <2>7, <2>8
  <2> QED BY <2>1, <2>4, <2>5, <2>6, <2>9 DEF Legal
<1>4. CASE ReadCell(s, c) # b /\ s.kind = "Palette"
  BY <1>4, WritePaletteFacts DEF WriteCell
<1>5. CASE ReadCell(s, c) # b /\ s.kind = "Raw"
  <2>1. WriteCell(s, c, b) = Optimal([s.cells EXCEPT ![c] = b])
    BY <1>5 DEF WriteCell, WriteRaw
  <2>2. Contents(s) = s.cells
    BY <1>1, <1>5, StorageCases, ContentsByKind DEF Cells
  <2> QED BY <1>1, <2>1, <2>2, OptimalFacts
<1> QED BY <1>1, <1>2, <1>3, <1>4, <1>5, StorageCases

----------------------------------------------------------------------------
(* The theorems.                                                           *)

(* Both storages are legal, and they agree outside the pending cells,      *)
(* whose values are the writer's.                                          *)
StorageInv ==
    /\ Legal(storage) /\ Legal(peer)
    /\ applying \in BOOLEAN /\ (applying => DOMAIN pending # {})
    /\ DOMAIN pending \subseteq Cell /\ pending \in [DOMAIN pending -> Block]
    /\ \A c \in Cell :
          IF c \in DOMAIN pending THEN pending[c] = Contents(storage)[c]
          ELSE Contents(peer)[c] = Contents(storage)[c]

(* A follower with no write pending.                                       *)
LEMMA NoChangeFacts == NoChange \in [{} -> Block] /\ DOMAIN NoChange = {}
BY DEF NoChange

(* A section of one block is legal.                                        *)
LEMMA UniformLegal ==
    ASSUME NEW b \in Block
    PROVE  Legal(Uniform(b))
<1>1. Uniform(b).kind = "Uniform"
  BY Shapes
<1>2. Uniform(b) \in Storage
  BY Zenon DEF Storage
<1> QED BY <1>1, <1>2 DEF Legal, Distinct

(* What a receiver accepts has cells for contents.                         *)
LEMMA WireCells ==
    ASSUME NEW p \in Wire, Accepts(p)
    PROVE  Contents(p) \in Cells
<1>1. CASE \E b \in Block : p = Uniform(b)
  BY <1>1, UniformLegal, ContentsTyped DEF Legal
<1>2. CASE p.kind = "Palette" /\ p.index \in [Cell -> Nat] /\ p.entries \in [DOMAIN p.entries -> Block]
  <2>1. {p.index[c] : c \in Cell} = DOMAIN p.entries
    BY <1>2 DEF Accepts, WellFormed
  <2>2. \A c \in Cell : p.entries[p.index[c]] \in Block
    BY <1>2, <2>1
  <2>3. Contents(p) = [c \in Cell |-> p.entries[p.index[c]]]
    BY <1>2, ContentsByKind
  <2> QED BY <2>2, <2>3 DEF Cells
<1>3. CASE \E f \in Cells : p = Raw(f)
  <2>1. PICK f \in Cells : p = Raw(f)
    BY <1>3
  <2>2. Contents(p) = [c \in Cell |-> f[c]]
    BY <2>1, Shapes, ContentsByKind
  <2> QED BY <2>2 DEF Cells
<1> QED BY <1>1, <1>2, <1>3, StorageAssumption

(* What the two storages show.                                             *)
Shown == <<Contents(storage), Contents(peer)>>

(* Every step keeps the invariant; on the cells of writer and follower it  *)
(* is a step of the two arrays or no change.                               *)
LEMMA StorageStep ==
    ASSUME StorageInv, Next
    PROVE  StorageInv' /\ (Array!Next \/ Shown' = Shown)
<1> USE DEF StorageInv
<1>1. ASSUME NEW c \in Cell, NEW b \in Block, Write(c, b)
      PROVE  StorageInv' /\ Array!Next
  <2>1. Legal(storage') /\ Contents(storage') = [Contents(storage) EXCEPT ![c] = b]
    BY <1>1, WriteFacts DEF Write
  <2>2. DOMAIN pending' = DOMAIN pending \cup {c} /\ pending' \in [DOMAIN pending' -> Block]
    BY <1>1 DEF Write
  <2>3. Contents(storage) \in Cells
    BY ContentsTyped DEF Legal
  <2>4. ASSUME NEW d \in Cell
        PROVE  IF d \in DOMAIN pending' THEN pending'[d] = Contents(storage')[d]
               ELSE Contents(peer')[d] = Contents(storage')[d]
    BY <1>1, <2>1, <2>2, <2>3 DEF Write, Cells
  <2>5. Array!Write(c, b)
    <3>1. peer' = peer
      BY <1>1 DEF Write
    <3>2. Contents(peer)' = Contents(peer) /\ Contents(storage)' = Contents(storage')
      BY <3>1 DEF Contents, ReadCell
    <3> QED BY <2>1, <3>2 DEF Array!Write
  <2> QED BY <1>1, <2>1, <2>2, <2>4, <2>5 DEF Write, Array!Next
<1>2. ASSUME NEW c \in Cell, ApplyEntry(c)
      PROVE  StorageInv' /\ Array!Next
  <2>1. c \in DOMAIN pending /\ pending[c] \in Block /\ storage' = storage
    BY <1>2 DEF ApplyEntry
  <2>2. Legal(peer') /\ Contents(peer') = [Contents(peer) EXCEPT ![c] = pending[c]]
    BY <1>2, <2>1, WriteFacts DEF ApplyEntry
  <2>3. DOMAIN pending' = DOMAIN pending \ {c} /\ pending' \in [DOMAIN pending' -> Block]
    BY <1>2 DEF ApplyEntry
  <2>4. Contents(peer) \in Cells
    BY ContentsTyped DEF Legal
  <2>5. ASSUME NEW d \in Cell
        PROVE  IF d \in DOMAIN pending' THEN pending'[d] = Contents(storage')[d]
               ELSE Contents(peer')[d] = Contents(storage')[d]
    BY <1>2, <2>1, <2>2, <2>3, <2>4 DEF ApplyEntry, Cells
  <2>6. applying' \in BOOLEAN /\ (applying' => DOMAIN pending' # {})
    BY <1>2, <2>1, <2>3 DEF ApplyEntry
  <2>7. pending[c] = Contents(storage)[c] /\ Contents(storage)' = Contents(storage)
    BY <2>1
  <2>8. Array!Follow(c)
    BY <2>2, <2>7 DEF Array!Follow
  <2> QED BY <2>1, <2>2, <2>3, <2>5, <2>6, <2>8 DEF Array!Next
<1>3. ASSUME SendFull
      PROVE  StorageInv' /\ Array!Next
  <2>1. Contents(storage) \in Cells
    BY ContentsTyped DEF Legal
  <2>2. Contents(Payload(storage)) = Contents(storage)
    BY <2>1, OptimalFacts DEF Payload
  <2>3. Legal(peer') /\ Contents(peer') = Contents(storage)
    BY <1>3, <2>1, <2>2, OptimalFacts DEF SendFull, Decode
  <2>4. Array!CatchUp
    BY <1>3, <2>3 DEF SendFull, Array!CatchUp
  <2> QED BY <1>3, <2>3, <2>4, NoChangeFacts DEF SendFull, Array!Next
<1>4. ASSUME SendDelta
      PROVE  StorageInv' /\ Shown' = Shown
  <2>1. DOMAIN pending # {}
    <3>1. SUFFICES ASSUME DOMAIN pending = {} PROVE pending = NoChange
      BY <1>4 DEF SendDelta
    <3>2. \A f, g \in [{} -> Block] : f = g
      OBVIOUS
    <3> QED BY <3>1, <3>2, NoChangeFacts
  <2> QED BY <1>4, <2>1 DEF SendDelta, Shown
<1>5. ASSUME NEW p \in Wire, Load(p)
      PROVE  StorageInv' /\ Array!Next
  <2>1. Contents(p) \in Cells
    BY <1>5, WireCells DEF Load
  <2>2. Legal(storage') /\ Contents(storage') = Contents(p) /\ peer' = storage'
    BY <1>5, <2>1, OptimalFacts DEF Load, Decode
  <2>3. Array!Load(Contents(p))
    BY <2>2 DEF Array!Load
  <2>4. Array!Next
    BY <2>1, <2>3 DEF Array!Next, Cells
  <2> QED BY <1>5, <2>2, <2>4, NoChangeFacts DEF Load
<1> QED BY <1>1, <1>2, <1>3, <1>4, <1>5 DEF Next

(* Legal storages, for block_storage.rs as a whole: no history of writes,  *)
(* payloads and deltas leaves a malformed table behind.                    *)
THEOREM StorageInvariant == Spec => []StorageInv
<1>1. Init => StorageInv
  BY UniformLegal, NoChangeFacts, ContentsByKind, Shapes DEF Init, StorageInv
<1>2. StorageInv /\ [Next]_vars => StorageInv'
  <2>1. ASSUME StorageInv, UNCHANGED vars PROVE StorageInv'
    BY <2>1 DEF StorageInv, vars
  <2> QED BY <2>1, StorageStep
<1> QED BY <1>1, <1>2, PTL DEF Spec

(* TypeOK of BlockStorage: the palettes of both replicas stay within their *)
(* capacity, with different entries and indices inside the table, whatever *)
(* order of writes, dead-slot reuse, deltas and loads.                     *)
THEOREM StorageTyped == Spec => []TypeOK
<1>1. StorageInv => TypeOK
  BY NoChangeFacts DEF StorageInv, TypeOK, Legal
<1> QED BY <1>1, StorageInvariant, PTL

(* RawOnlyWhenFull: write_palette escalates only when no slot is dead, and *)
(* a Raw section is compacted by the write that makes a palette possible.  *)
THEOREM RawIsNeeded == Spec => []RawOnlyWhenFull
<1>1. StorageInv => RawOnlyWhenFull
  BY DEF StorageInv, RawOnlyWhenFull, Legal
<1> QED BY <1>1, StorageInvariant, PTL

(* PayloadAccepted: encoded_payload of any reachable storage passes every  *)
(* check of decode_full and decodes to the same cells.                     *)
THEOREM OwnPayloadsDecode == Spec => []PayloadAccepted
<1>1. ASSUME StorageInv PROVE PayloadAccepted
  <2>1. Contents(storage) \in Cells
    BY <1>1, ContentsTyped DEF StorageInv, Legal
  <2>2. Contents(Payload(storage)) = Contents(storage) /\ WellFormed(Payload(storage))
    BY <2>1, OptimalFacts DEF Payload
  <2>3. Contents(Decode(Payload(storage))) = Contents(storage)
    BY <2>1, <2>2, OptimalFacts DEF Decode
  <2>4. Accepts(Payload(storage))
    BY <2>2 DEF Accepts, Payload
  <2> QED BY <2>3, <2>4 DEF PayloadAccepted
<1> QED BY <1>1, StorageInvariant, PTL

(* PeerAgrees: two replicas with the same cells have the same canonical    *)
(* payload, whatever palettes their histories left them with.              *)
THEOREM ReplicasAgree == Spec => []PeerAgrees
<1>1. ASSUME StorageInv, pending = NoChange PROVE Payload(peer) = Payload(storage)
  <2>1. \A c \in Cell : Contents(peer)[c] = Contents(storage)[c]
    BY <1>1, NoChangeFacts DEF StorageInv
  <2>2. Contents(peer) = Contents(storage)
    BY <2>1 DEF Contents
  <2> QED BY <2>2 DEF Payload
<1> QED BY <1>1, StorageInvariant, PTL DEF PeerAgrees

(* ImplementsArray: block_storage.rs is an array of blocks; every write    *)
(* changes the cell it names and no other, in every encoding, and so does  *)
(* every entry of a delta that apply_delta writes into the follower.       *)
THEOREM StorageIsArray == Spec => ImplementsArray
<1>1. Init => Array!Init
  <2> SUFFICES ASSUME NEW b \in Block, storage = Uniform(b)
               PROVE  Contents(Uniform(b)) = [c \in Cell |-> b]
    BY DEF Init, Array!Init
  <2> QED BY Shapes, ContentsByKind
<1>2. StorageInv /\ [Next]_vars => [Array!Next]_(Array!vars)
  <2>1. ASSUME UNCHANGED vars PROVE Shown' = Shown
    BY <2>1 DEF vars, Shown
  <2>2. Shown' = Shown => UNCHANGED Array!vars
    BY DEF Shown, Array!vars
  <2>3. ASSUME StorageInv, [Next]_vars PROVE Array!Next \/ Shown' = Shown
    BY <2>1, <2>3, StorageStep
  <2> QED BY <2>2, <2>3
<1> QED BY <1>1, <1>2, StorageInvariant, PTL DEF Spec, ImplementsArray, Array!Spec
=============================================================================
