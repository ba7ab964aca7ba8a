----------------------------- MODULE BlocksProofs -----------------------------
(* What blocks are made of: block types keep their meaning, the fields of a *)
(* block's state stay apart, and the binding of cells to entities stays one *)
(* to one, for any catalogs, layouts, rooms, cells, entities, holders and   *)
(* policies of types.                                                       *)
EXTENDS Binding, BlockCatalog, FiniteSetTheorems, FunctionTheorems, SequenceTheorems,
        WellFoundedInduction, TLAPS

----------------------------------------------------------------------------
(* Recursion and induction over the natural numbers.                        *)

(* A claim about every number holds if no number is the least one that      *)
(* refutes it.                                                              *)
LEMMA Least ==
    ASSUME NEW T, T \subseteq Nat, T # {}
    PROVE  \E n \in T : \A m \in T : n <= m
<1> DEFINE R == OpToRel(<, Nat)
<1>1. PICK x \in T : \A y \in T : <<y, x>> \notin R
  BY NatLessThanWellFounded, WFMin
<1>2. \A y \in T : ~(y < x)
  BY <1>1 DEF OpToRel
<1> QED BY <1>2

(* What the first n steps of a recursion compute, from base by step.        *)
Partial(n, base, step) ==
    {f \in [0..n -> Int] : f[0] = base /\ \A i \in 1..n : f[i] = step[<<i, f[i - 1]>>]}

(* No number is the least for which the steps up to it compute nothing.     *)
LEMMA PartialExists ==
    ASSUME NEW base \in Int, NEW step \in [Nat \X Int -> Int], NEW n \in Nat
    PROVE  Partial(n, base, step) # {}
<1> DEFINE T == {k \in Nat : Partial(k, base, step) = {}}
<1> SUFFICES ASSUME T # {} PROVE FALSE
  OBVIOUS
<1>1. PICK k \in T : \A m \in T : k <= m
  BY Least
<1>2. CASE k = 0
  <2> DEFINE f == [i \in 0..0 |-> base]
  <2>1. f \in Partial(0, base, step)
    BY DEF Partial
  <2> QED BY <2>1, <1>2
<1>3. CASE k # 0
  <2>1. k - 1 \in Nat /\ k - 1 \notin T /\ k \in Nat
    BY <1>1, <1>3
  <2>2. PICK f : f \in Partial(k - 1, base, step)
    BY <2>1
  <2>3. f \in [0..k - 1 -> Int]
    BY <2>2 DEF Partial
  <2> DEFINE g == [i \in 0..k |-> IF i = k THEN step[<<k, f[k - 1]>>] ELSE f[i]]
  <2>4. step[<<k, f[k - 1]>>] \in Int
    BY <2>1, <2>3
  <2>5. g \in [0..k -> Int]
    BY <2>1, <2>3, <2>4
  <2>6. g[0] = base
    BY <2>1, <2>2, <1>3 DEF Partial
  <2>8. ASSUME NEW i \in 1..k PROVE g[i] = step[<<i, g[i - 1]>>]
    <3>1. i - 1 \in 0..k - 1 /\ g[i - 1] = f[i - 1]
      BY <2>1
    <3>2. CASE i = k
      <4>1. g[k] = step[<<k, f[k - 1]>>]
        BY <2>1
      <4> HIDE DEF g
      <4> QED BY <4>1, <3>1, <3>2
    <3>3. CASE i # k
      <4>1. i \in 1..k - 1 /\ g[i] = f[i]
        BY <3>3, <2>1
      <4>2. f[i] = step[<<i, f[i - 1]>>]
        BY <4>1, <2>2 DEF Partial
      <4> QED BY <4>1, <4>2, <3>1
    <3> QED BY <3>2, <3>3
  <2>7. g \in Partial(k, base, step)
    BY <2>5, <2>6, <2>8 DEF Partial
  <2> QED BY <2>7
<1> QED BY <1>2, <1>3

(* Two computations agree as far as both go.                                *)
LEMMA PartialUnique ==
    ASSUME NEW base \in Int, NEW step \in [Nat \X Int -> Int], NEW n \in Nat, NEW m \in Nat, n <= m,
           NEW f \in Partial(n, base, step), NEW g \in Partial(m, base, step)
    PROVE  \A i \in 0..n : f[i] = g[i]
<1> DEFINE T == {k \in 0..n : f[k] # g[k]}
<1> SUFFICES ASSUME T # {} PROVE FALSE
  OBVIOUS
<1>0. T \subseteq Nat
  OBVIOUS
<1>1. PICK k \in T : \A j \in T : k <= j
  BY <1>0, Least, Zenon
<1>2. CASE k = 0
  BY <1>1, <1>2 DEF Partial
<1>3. CASE k # 0
  <2>1. k - 1 \in 0..n /\ k - 1 \notin T /\ k \in 1..n /\ k \in 1..m
    BY <1>1, <1>3
  <2> QED BY <2>1, <1>1 DEF Partial
<1> QED BY <1>2, <1>3

(* What the partial computations agree on is a solution for all numbers.    *)
LEMMA RecursionExists ==
    ASSUME NEW base \in Int, NEW step \in [Nat \X Int -> Int]
    PROVE  \E f \in [Nat -> Int] : f[0] = base /\ \A i \in Nat \ {0} : f[i] = step[<<i, f[i - 1]>>]
<1> DEFINE part == [n \in Nat |-> CHOOSE f \in Partial(n, base, step) : TRUE]
           F == [n \in Nat |-> part[n][n]]
<1>1. \A n \in Nat : part[n] \in Partial(n, base, step)
  BY PartialExists
<1> HIDE DEF part
<1>2. F \in [Nat -> Int]
  BY <1>1 DEF Partial
<1>3. F[0] = base
  BY <1>1 DEF Partial
<1>4. ASSUME NEW i \in Nat \ {0} PROVE F[i] = step[<<i, F[i - 1]>>]
  <2>1. i - 1 \in Nat /\ i - 1 \in 0..i - 1 /\ i \in 1..i /\ i - 1 <= i /\ i \in Nat
    OBVIOUS
  <2>2. part[i - 1] \in Partial(i - 1, base, step) /\ part[i] \in Partial(i, base, step)
    BY <1>1, <2>1
  <2>3. part[i - 1][i - 1] = part[i][i - 1]
    BY <2>1, <2>2, PartialUnique
  <2>4. part[i][i] = step[<<i, part[i][i - 1]>>]
    BY <2>1, <2>2 DEF Partial
  <2> QED BY <2>1, <2>3, <2>4
<1> QED BY <1>2, <1>3, <1>4

----------------------------------------------------------------------------
(* Block types.                                                             *)

(* A type that was handed out names a row: the room's own, counted from the *)
(* scope bit, or the official one, counted from the first official type.    *)
Names(h, officials, locals) ==
    IF h.type >= ScopeMask
    THEN /\ h.type - ScopeMask < Len(locals[h.room])
         /\ locals[h.room][h.type - ScopeMask + 1] = h.is
    ELSE /\ h.type - FirstOfficial < Len(officials)
         /\ officials[h.type - FirstOfficial + 1] = h.is

Handed == [room : Room, type : Nat, is : Definition]

CatalogInv ==
    /\ official \in Seq(Definition)
    /\ rooms \in [Room -> Seq(Definition)]
    /\ handed \subseteq Handed
    /\ \A h \in handed : h.type >= FirstOfficial
    /\ \A h \in handed : Names(h, official, rooms)

(* A row that a type names is what the type resolves to.                    *)
LEMMA NamesResolve ==
    ASSUME CatalogInv, NEW h \in Handed, h.type >= FirstOfficial, Names(h, official, rooms)
    PROVE  Resolve(h.room, h.type) = h.is
<1>1. h.type \in Nat /\ h.type \notin Builtins
  BY CatalogAssumption DEF Handed
<1> QED BY <1>1, CatalogAssumption DEF Names, Resolve, IsLocal, Row, CatalogInv, Handed

(* Catalogs only grow at their end, so a row keeps its type.                *)
LEMMA NamesKept ==
    ASSUME CatalogInv, NEW h \in Handed, h.type >= FirstOfficial, Names(h, official, rooms),
           NEW o2 \in Seq(Definition), NEW r2 \in [Room -> Seq(Definition)],
           Len(official) <= Len(o2),
           \A i \in 1..Len(official) : o2[i] = official[i],
           \A r \in Room : Len(rooms[r]) <= Len(r2[r])
                           /\ \A i \in 1..Len(rooms[r]) : r2[r][i] = rooms[r][i]
    PROVE  Names(h, o2, r2)
<1>1. h.type \in Nat /\ h.room \in Room
  BY DEF Handed
<1>2. rooms[h.room] \in Seq(Definition) /\ official \in Seq(Definition)
  BY <1>1 DEF CatalogInv
<1>3. /\ Len(rooms[h.room]) \in Nat /\ Len(official) \in Nat
      /\ Len(r2[h.room]) \in Nat /\ Len(o2) \in Nat
  BY <1>1, <1>2, LenProperties
<1>4. CASE h.type >= ScopeMask
  <2>1. h.type - ScopeMask + 1 \in 1..Len(rooms[h.room])
    BY <1>1, <1>3, <1>4, CatalogAssumption DEF Names
  <2> QED BY <2>1, <1>1, <1>3, <1>4, CatalogAssumption DEF Names
<1>5. CASE ~(h.type >= ScopeMask)
  <2>1. h.type - FirstOfficial + 1 \in 1..Len(official)
    BY <1>1, <1>3, <1>5, CatalogAssumption DEF Names
  <2> QED BY <2>1, <1>1, <1>3, <1>5, CatalogAssumption DEF Names
<1> QED BY <1>4, <1>5

(* Rows appended to one room: the others stay, and its own keep their place. *)
LEMMA RoomGrows ==
    ASSUME CatalogInv, NEW r \in Room, NEW more \in Seq(Definition),
           rooms' = [rooms EXCEPT ![r] = @ \o more]
    PROVE  /\ rooms' \in [Room -> Seq(Definition)]
           /\ \A q \in Room : /\ Len(rooms[q]) <= Len(rooms'[q])
                              /\ \A i \in 1..Len(rooms[q]) : rooms'[q][i] = rooms[q][i]
           /\ Len(rooms'[r]) = Len(rooms[r]) + Len(more)
           /\ \A i \in 1..Len(more) : rooms'[r][Len(rooms[r]) + i] = more[i]
<1>1. rooms \in [Room -> Seq(Definition)] /\ rooms[r] \in Seq(Definition)
  BY DEF CatalogInv
<1>2. /\ rooms[r] \o more \in Seq(Definition)
      /\ Len(rooms[r] \o more) = Len(rooms[r]) + Len(more)
      /\ \A i \in 1 .. Len(rooms[r]) + Len(more) :
            (rooms[r] \o more)[i] = IF i <= Len(rooms[r]) THEN rooms[r][i] ELSE more[i - Len(rooms[r])]
  BY <1>1, ConcatProperties
<1>3. Len(rooms[r]) \in Nat /\ Len(more) \in Nat
  BY <1>1, LenProperties
<1>4. rooms'[r] = rooms[r] \o more /\ \A q \in Room : q # r => rooms'[q] = rooms[q]
  BY <1>1
<1>5. \A i \in 1..Len(rooms[r]) : rooms'[r][i] = rooms[r][i]
  BY <1>2, <1>3, <1>4
<1>6. \A i \in 1..Len(more) : rooms'[r][Len(rooms[r]) + i] = more[i]
  BY <1>2, <1>3, <1>4
<1>7. \A q \in Room : Len(rooms[q]) \in Nat
  BY <1>1, LenProperties
<1> QED BY <1>1, <1>2, <1>3, <1>4, <1>5, <1>6, <1>7

(* Every row stays where it is; new ones come after it.                     *)
CatalogsGrow ==
    /\ official' \in Seq(Definition) /\ rooms' \in [Room -> Seq(Definition)]
    /\ Len(official) <= Len(official')
    /\ \A i \in 1..Len(official) : official'[i] = official[i]
    /\ \A q \in Room : /\ Len(rooms[q]) <= Len(rooms'[q])
                       /\ \A i \in 1..Len(rooms[q]) : rooms'[q][i] = rooms[q][i]

(* What a registration or an import has to show: catalogs that grew at      *)
(* their ends, and newly handed types that name the rows they are for.      *)
LEMMA Grown ==
    ASSUME CatalogInv, NEW new, handed' = handed \cup new,
           CatalogsGrow,
           \A h \in new : /\ h \in Handed /\ h.type >= FirstOfficial
                          /\ Names(h, official', rooms')
    PROVE  CatalogInv'
<1>1. ASSUME NEW h \in handed
      PROVE  h \in Handed /\ h.type >= FirstOfficial /\ Names(h, official', rooms')
  <2>1. h \in Handed /\ h.type >= FirstOfficial /\ Names(h, official, rooms)
    BY DEF CatalogInv
  <2> QED BY <2>1, NamesKept DEF CatalogsGrow
<1>2. handed' \subseteq Handed
  BY <1>1
<1>3. (\A h \in handed : h.type >= FirstOfficial)'
  BY <1>1
<1>4. (\A h \in handed : Names(h, official, rooms))'
  BY <1>1
<1>5. (official \in Seq(Definition) /\ rooms \in [Room -> Seq(Definition)])'
  BY DEF CatalogsGrow
<1> QED BY <1>2, <1>3, <1>4, <1>5, Zenon DEF CatalogInv

(* OfficialCatalog::register gives out the next official type.              *)
LEMMA StepOfficial ==
    ASSUME CatalogInv, NEW t \in Type, NEW d \in Definition, RegisterOfficial(t, d)
    PROVE  CatalogInv' /\ CatalogsGrow
<1>1. official \in Seq(Definition) /\ Len(official) \in Nat /\ rooms \in [Room -> Seq(Definition)]
  BY LenProperties DEF CatalogInv
<1>2. /\ official' = Append(official, d) /\ rooms' = rooms
      /\ t \in Nat /\ t >= FirstOfficial /\ ~(t >= ScopeMask)
      /\ t = FirstOfficial + Len(official)
      /\ handed' = handed \cup {[room |-> r, type |-> t, is |-> d] : r \in Room}
  BY CatalogAssumption DEF RegisterOfficial, IsLocal, Type
<1>3. /\ official' \in Seq(Definition) /\ Len(official') = Len(official) + 1
      /\ \A i \in 1..Len(official) : official'[i] = official[i]
      /\ official'[Len(official) + 1] = d
  BY <1>1, <1>2
<1>4. \A q \in Room : Len(rooms[q]) \in Nat
  BY <1>1, LenProperties
<1>5. ASSUME NEW r \in Room
      PROVE  LET h == [room |-> r, type |-> t, is |-> d]
             IN  h \in Handed /\ h.type >= FirstOfficial /\ Names(h, official', rooms')
  BY <1>1, <1>2, <1>3, CatalogAssumption DEF Names, Handed
<1> DEFINE new == {[room |-> r, type |-> t, is |-> d] : r \in Room}
<1>6. handed' = handed \cup new
  BY <1>2
<1>7. \A h \in new : h \in Handed /\ h.type >= FirstOfficial /\ Names(h, official', rooms')
  BY <1>5
<1> HIDE DEF new
<1>8. /\ rooms' \in [Room -> Seq(Definition)]
      /\ \A q \in Room : /\ Len(rooms[q]) <= Len(rooms'[q])
                         /\ \A i \in 1..Len(rooms[q]) : rooms'[q][i] = rooms[q][i]
      /\ Len(official) <= Len(official')
  BY <1>1, <1>2, <1>3, <1>4
<1> QED BY <1>3, <1>6, <1>7, <1>8, Grown DEF CatalogsGrow

(* RoomLocalCatalog::register gives out the room's next type.               *)
LEMMA StepLocal ==
    ASSUME CatalogInv, NEW r \in Room, NEW d \in Definition, RegisterLocal(r, d)
    PROVE  CatalogInv' /\ CatalogsGrow
<1>1. /\ official \in Seq(Definition) /\ Len(official) \in Nat
      /\ rooms \in [Room -> Seq(Definition)] /\ rooms[r] \in Seq(Definition)
      /\ Len(rooms[r]) \in Nat
  BY LenProperties DEF CatalogInv
<1> DEFINE more == <<d>>
<1>2. more \in Seq(Definition) /\ Len(more) = 1 /\ more[1] = d
  OBVIOUS
<1>3. official' = official /\ rooms' = [rooms EXCEPT ![r] = @ \o more]
  <2>1. Append(rooms[r], d) = rooms[r] \o more
    BY <1>1
  <2> QED BY <1>1, <2>1 DEF RegisterLocal
<1> HIDE DEF more
<1>4. /\ rooms' \in [Room -> Seq(Definition)]
      /\ \A q \in Room : /\ Len(rooms[q]) <= Len(rooms'[q])
                         /\ \A i \in 1..Len(rooms[q]) : rooms'[q][i] = rooms[q][i]
      /\ Len(rooms'[r]) = Len(rooms[r]) + 1
      /\ rooms'[r][Len(rooms[r]) + 1] = d
  <2>1. /\ rooms' \in [Room -> Seq(Definition)]
        /\ \A q \in Room : /\ Len(rooms[q]) <= Len(rooms'[q])
                           /\ \A i \in 1..Len(rooms[q]) : rooms'[q][i] = rooms[q][i]
        /\ Len(rooms'[r]) = Len(rooms[r]) + Len(more)
        /\ \A i \in 1..Len(more) : rooms'[r][Len(rooms[r]) + i] = more[i]
    BY <1>2, <1>3, RoomGrows
  <2>2. 1 \in 1..Len(more)
    BY <1>2
  <2>3. rooms'[r][Len(rooms[r]) + 1] = d
    BY <1>2, <2>1, <2>2
  <2> QED BY <1>2, <2>1, <2>3
<1> DEFINE h == [room |-> r, type |-> ScopeMask + Len(rooms[r]), is |-> d]
<1>5. handed' = handed \cup {h}
  BY DEF RegisterLocal, RoomType
<1>6. h \in Handed /\ h.type >= FirstOfficial /\ Names(h, official', rooms')
  BY <1>1, <1>3, <1>4, CatalogAssumption DEF Names, Handed
<1> HIDE DEF h
<1>7. /\ official' \in Seq(Definition) /\ Len(official) <= Len(official')
      /\ \A i \in 1..Len(official) : official'[i] = official[i]
  BY <1>1, <1>3
<1> DEFINE new == {h}
<1>9. handed' = handed \cup new
  BY <1>5
<1>8. \A x \in new : x \in Handed /\ x.type >= FirstOfficial /\ Names(x, official', rooms')
  BY <1>6
<1> HIDE DEF new
<1> QED BY <1>4, <1>7, <1>8, <1>9, Grown DEF CatalogsGrow

(* import_from gives each imported row the room's next type in turn.        *)
LEMMA StepImport ==
    ASSUME CatalogInv, NEW r \in Room, NEW from \in Room, Import(r, from)
    PROVE  CatalogInv' /\ CatalogsGrow
<1> DEFINE more == rooms[from]
           Copy(n) == [room |-> r, type |-> ScopeMask + Len(rooms[r]) + n - 1, is |-> more[n]]
<1>1. /\ official \in Seq(Definition) /\ Len(official) \in Nat
      /\ rooms \in [Room -> Seq(Definition)] /\ rooms[r] \in Seq(Definition)
      /\ Len(rooms[r]) \in Nat /\ more \in Seq(Definition) /\ Len(more) \in Nat
  BY LenProperties DEF CatalogInv
<1>2. official' = official /\ rooms' = [rooms EXCEPT ![r] = @ \o more]
  BY <1>1, SubSeqFull DEF Import, Staged
<1>3. /\ rooms' \in [Room -> Seq(Definition)]
      /\ \A q \in Room : /\ Len(rooms[q]) <= Len(rooms'[q])
                         /\ \A i \in 1..Len(rooms[q]) : rooms'[q][i] = rooms[q][i]
      /\ Len(rooms'[r]) = Len(rooms[r]) + Len(more)
      /\ \A i \in 1..Len(more) : rooms'[r][Len(rooms[r]) + i] = more[i]
  BY <1>1, <1>2, RoomGrows
<1>4. ASSUME NEW n \in 1..Len(more)
      PROVE  /\ RoomType(Staged(r, from, n - 1), more[n]) = ScopeMask + Len(rooms[r]) + n - 1
             /\ Resolve(from, ScopeMask + n - 1) = more[n]
  <2>1. SubSeq(more, 1, n - 1) \in Seq(Definition) /\ Len(SubSeq(more, 1, n - 1)) = n - 1
    <3>1. \A i \in 1 .. n - 1 : more[i] \in Definition
      BY <1>1, ElementOfSeq
    <3> QED BY <1>1, <3>1, SubSeqProperties
  <2>2. Len(Staged(r, from, n - 1)) = Len(rooms[r]) + (n - 1)
    BY <1>1, <2>1, ConcatProperties DEF Staged
  <2>3. ScopeMask + n - 1 \notin Builtins /\ ScopeMask + n - 1 - ScopeMask = n - 1
    BY <1>1, CatalogAssumption
  <2>4. ScopeMask + n - 1 >= ScopeMask /\ n - 1 < Len(more) /\ n - 1 + 1 = n
    BY <1>1, CatalogAssumption
  <2>5. ASSUME NEW k, k \notin Builtins, k >= ScopeMask, k - ScopeMask = n - 1
        PROVE  Resolve(from, k) = more[n]
    BY <2>4, <2>5 DEF Resolve, IsLocal, Row
  <2>6. ScopeMask + (Len(rooms[r]) + (n - 1)) = ScopeMask + Len(rooms[r]) + n - 1
    BY <1>1, CatalogAssumption
  <2>7. Resolve(from, ScopeMask + n - 1) = more[n]
    <3> DEFINE k == ScopeMask + n - 1
    <3>1. k \notin Builtins /\ k >= ScopeMask /\ k - ScopeMask = n - 1
      BY <1>1, CatalogAssumption
    <3> HIDE DEF k
    <3>2. Resolve(from, k) = more[n]
      BY <2>5, <3>1
    <3> QED BY <3>2 DEF k
  <2>8. RoomType(Staged(r, from, n - 1), more[n]) = ScopeMask + Len(rooms[r]) + n - 1
    BY <2>2, <2>6 DEF RoomType
  <2> HIDE DEF more
  <2> QED BY <2>7, <2>8
<1>5. handed' = handed \cup {Copy(n) : n \in 1..Len(more)}
  <2>1. Remap(r, from) = {<<ScopeMask + n - 1, ScopeMask + Len(rooms[r]) + n - 1>> : n \in 1..Len(more)}
    BY <1>4 DEF Remap
  <2> DEFINE pair(n) == <<ScopeMask + n - 1, ScopeMask + Len(rooms[r]) + n - 1>>
             out(m) == [room |-> r, type |-> m[2], is |-> Resolve(from, m[1])]
  <2>2. \A n \in 1..Len(more) : out(pair(n)) = Copy(n)
    BY <1>4
  <2>3. Remap(r, from) = {pair(n) : n \in 1..Len(more)}
    BY <2>1
  <2>4. handed' = handed \cup {out(m) : m \in Remap(r, from)}
    BY DEF Import
  <2> HIDE DEF out, pair, Copy
  <2>5. {out(m) : m \in Remap(r, from)} = {Copy(n) : n \in 1..Len(more)}
    BY <2>2, <2>3
  <2> QED BY <2>4, <2>5
<1>6. ASSUME NEW n \in 1..Len(more)
      PROVE  Copy(n) \in Handed /\ Copy(n).type >= FirstOfficial /\ Names(Copy(n), official', rooms')
  <2>1. Copy(n) \in Handed
    BY <1>1, ElementOfSeq, CatalogAssumption DEF Handed
  <2> QED BY <1>1, <1>3, <2>1, CatalogAssumption DEF Names
<1>7. \A h \in {Copy(n) : n \in 1..Len(more)} :
         h \in Handed /\ h.type >= FirstOfficial /\ Names(h, official', rooms')
  BY <1>6
<1>8. /\ official' \in Seq(Definition) /\ Len(official) <= Len(official')
      /\ \A i \in 1..Len(official) : official'[i] = official[i]
  BY <1>1, <1>2
<1> DEFINE copies == {Copy(n) : n \in 1..Len(more)}
<1> HIDE DEF Copy, copies
<1> QED BY <1>3, <1>5, <1>7, <1>8, Grown DEF copies, CatalogsGrow

(* Blocks that are placed and written leave the catalogs alone.             *)
LEMMA StepNone ==
    ASSUME CatalogInv, UNCHANGED <<official, rooms, handed>>
    PROVE  CatalogInv' /\ CatalogsGrow
<1>1. CatalogInv'
  BY DEF CatalogInv
<1>2. Len(official) \in Nat /\ \A q \in Room : Len(rooms[q]) \in Nat
  BY LenProperties DEF CatalogInv
<1>3. CatalogsGrow
  BY <1>2 DEF CatalogInv, CatalogsGrow
<1> QED BY <1>1, <1>3

LEMMA StepCatalog ==
    ASSUME CatalogInv, [CatalogNext]_catalogVars
    PROVE  CatalogInv' /\ CatalogsGrow
<1>1. ASSUME NEW t \in Type, NEW d \in Definition, RegisterOfficial(t, d)
      PROVE  CatalogInv' /\ CatalogsGrow
  BY <1>1, StepOfficial
<1>2. ASSUME NEW r \in Room, NEW d \in Definition, RegisterLocal(r, d)
      PROVE  CatalogInv' /\ CatalogsGrow
  BY <1>2, StepLocal
<1>3. ASSUME NEW r \in Room, NEW from \in Room, Import(r, from)
      PROVE  CatalogInv' /\ CatalogsGrow
  BY <1>3, StepImport
<1>4. ASSUME NEW r \in Room, NEW t \in Type, PlaceBlock(r, t)
      PROVE  CatalogInv' /\ CatalogsGrow
  BY <1>4, StepNone DEF PlaceBlock
<1>5. ASSUME NEW i \in 1..StateBits, NEW v \in 0..Pow2[StateBits] - 1, SetField(i, v)
      PROVE  CatalogInv' /\ CatalogsGrow
  BY <1>5, StepNone DEF SetField
<1>6. ASSUME UNCHANGED catalogVars
      PROVE  CatalogInv' /\ CatalogsGrow
  BY <1>6, StepNone DEF catalogVars
<1> QED BY <1>1, <1>2, <1>3, <1>4, <1>5, <1>6 DEF CatalogNext

(* Every type a registration or an import hands out resolves to its         *)
(* definition for good, and is none of the reserved ones.                   *)
THEOREM TypesKept == CatalogSpec => []TypesKeepMeaning
<1>1. CatalogInit => CatalogInv
  BY DEF CatalogInit, CatalogInv
<1>2. CatalogInv /\ [CatalogNext]_catalogVars => CatalogInv'
  BY StepCatalog
<1>3. CatalogInv => TypesKeepMeaning
  BY NamesResolve DEF CatalogInv, TypesKeepMeaning
<1> QED BY <1>1, <1>2, <1>3, PTL DEF CatalogSpec

----------------------------------------------------------------------------
(* Fields of a block's state.                                               *)

(* Powers of two, as their definition says, are positive.                   *)
LEMMA Pow2Def ==
    /\ Pow2 \in [Nat -> Nat \ {0}]
    /\ Pow2[0] = 1
    /\ \A n \in Nat : Pow2[n + 1] = 2 * Pow2[n]
<1> DEFINE Double == [p \in Nat \X Int |-> 2 * p[2]]
           Right(f) == f = [n \in Nat |-> IF n = 0 THEN 1 ELSE 2 * f[n - 1]]
<1>1. Double \in [Nat \X Int -> Int] /\ \A i \in Nat, x \in Int : Double[<<i, x>>] = 2 * x
  OBVIOUS
<1> HIDE DEF Double
<1>2. PICK f \in [Nat -> Int] : f[0] = 1 /\ \A i \in Nat \ {0} : f[i] = Double[<<i, f[i - 1]>>]
  BY <1>1, RecursionExists, 1 \in Int
<1>3. ASSUME NEW i \in Nat \ {0} PROVE f[i] = 2 * f[i - 1]
  <2>1. i \in Nat /\ i - 1 \in Nat /\ f[i - 1] \in Int
    OBVIOUS
  <2> QED BY <2>1, <1>1, <1>2
<1>4. Right(f)
  BY <1>2, <1>3
<1>5. Pow2 = CHOOSE g : Right(g)
  BY DEF Pow2
<1> HIDE DEF Right
<1>6. Right(Pow2)
  BY <1>4, <1>5
<1> DEFINE T == {n \in Nat : Pow2[n] \notin Nat \ {0}}
<1>7. DOMAIN Pow2 = Nat /\ Pow2[0] = 1 /\ \A n \in Nat \ {0} : Pow2[n] = 2 * Pow2[n - 1]
  BY <1>6 DEF Right
<1>10. Pow2 = [n \in Nat |-> Pow2[n]]
  BY <1>6 DEF Right
<1>8. T = {}
  <2> SUFFICES ASSUME T # {} PROVE FALSE
    OBVIOUS
  <2>1. PICK k \in T : \A j \in T : k <= j
    BY Least
  <2>2. k # 0 /\ k - 1 \in Nat /\ k - 1 \notin T
    BY <2>1, <1>7
  <2> QED BY <2>1, <2>2, <1>7
<1>9. Pow2 \in [Nat -> Nat \ {0}]
  BY <1>8, <1>10
<1>11. ASSUME NEW n \in Nat PROVE Pow2[n + 1] = 2 * Pow2[n]
  BY <1>7, n + 1 \in Nat \ {0}, (n + 1) - 1 = n
<1> QED BY <1>7, <1>9, <1>11

(* The power of a sum of exponents is the product of their powers.          *)
LEMMA Pow2Sum ==
    ASSUME NEW m \in Nat, NEW n \in Nat
    PROVE  Pow2[m + n] = Pow2[m] * Pow2[n]
<1> DEFINE T == {k \in Nat : Pow2[m + k] # Pow2[m] * Pow2[k]}
<1> SUFFICES ASSUME T # {} PROVE FALSE
  OBVIOUS
<1>1. PICK k \in T : \A j \in T : k <= j
  BY Least
<1>2. k # 0
  BY <1>1, Pow2Def
<1>3. k - 1 \in Nat /\ k - 1 \notin T
  BY <1>1, <1>2
<1> DEFINE a == Pow2[m]
           b == Pow2[k - 1]
<1>4. a \in Nat /\ b \in Nat
  BY <1>3, Pow2Def
<1>5. Pow2[m + (k - 1)] = a * b
  BY <1>3
<1>6. Pow2[m + k] = 2 * (a * b)
  <2>1. m + (k - 1) \in Nat /\ (m + (k - 1)) + 1 = m + k
    BY <1>3
  <2> QED BY <2>1, <1>5, Pow2Def
<1>7. Pow2[k] = 2 * b
  <2>1. (k - 1) + 1 = k
    BY <1>3
  <2> QED BY <2>1, <1>3, Pow2Def
<1> HIDE DEF a, b
<1>8. 2 * (a * b) = a * (2 * b)
  BY <1>4
<1> QED BY <1>1, <1>6, <1>7, <1>8 DEF a

(* The width of a layout is the last of the sums of its widths.             *)
LEMMA WidthIs ==
    ASSUME NEW L \in Seq(Nat), NEW s \in [0..Len(L) -> Int],
           s[0] = 0, \A i \in 1..Len(L) : s[i] = s[i - 1] + L[i]
    PROVE  WidthOf(L) = s[Len(L)]
<1> DEFINE Right(f) == f = [i \in 0..Len(L) |-> IF i = 0 THEN 0 ELSE f[i - 1] + L[i]]
<1>1. Len(L) \in Nat
  OBVIOUS
<1>2. Right(s)
  BY <1>1
<1> DEFINE w == CHOOSE f : Right(f)
<1>3. WidthOf(L) = w[Len(L)]
  BY DEF WidthOf
<1> HIDE DEF Right
<1>4. Right(w)
  BY <1>2
<1> HIDE DEF w
<1>5. w[0] = 0 /\ \A i \in 1..Len(L) : w[i] = w[i - 1] + L[i]
  BY <1>1, <1>4 DEF Right
<1> DEFINE T == {i \in 0..Len(L) : w[i] # s[i]}
<1>6. T = {}
  <2> SUFFICES ASSUME T # {} PROVE FALSE
    OBVIOUS
  <2>0. T \subseteq Nat
    BY <1>1
  <2>1. PICK k \in T : \A j \in T : k <= j
    BY <2>0, Least, Zenon
  <2>2. k # 0 /\ k \in 1..Len(L) /\ k - 1 \in 0..Len(L) /\ k - 1 \notin T
    BY <2>1, <1>1, <1>5
  <2> QED BY <2>1, <2>2, <1>5
<1> QED BY <1>1, <1>3, <1>6

(* The sums of a layout's widths never decrease and are the widths of its   *)
(* prefixes.                                                                *)
LEMMA PartialSums ==
    ASSUME NEW L \in Seq(Nat)
    PROVE  \E s \in [0..Len(L) -> Nat] :
              /\ s[0] = 0
              /\ \A i \in 1..Len(L) : s[i] = s[i - 1] + L[i]
              /\ \A i, j \in 0..Len(L) : i <= j => s[i] <= s[j]
              /\ \A i \in 0..Len(L) : WidthOf(SubSeq(L, 1, i)) = s[i]
<1> DEFINE step == [p \in Nat \X Int |-> p[2] + IF p[1] \in 1..Len(L) THEN L[p[1]] ELSE 0]
<1>1. Len(L) \in Nat /\ \A i \in 1..Len(L) : L[i] \in Nat
  OBVIOUS
<1>2. /\ step \in [Nat \X Int -> Int]
      /\ \A i \in 1..Len(L), x \in Int : step[<<i, x>>] = x + L[i]
  BY <1>1
<1> HIDE DEF step
<1>3. PICK s : s \in Partial(Len(L), 0, step)
  BY <1>1, <1>2, 0 \in Int, PartialExists
<1>4. s \in [0..Len(L) -> Int] /\ s[0] = 0
  BY <1>3 DEF Partial
<1>5. ASSUME NEW i \in 1..Len(L) PROVE s[i] = s[i - 1] + L[i]
  <2>1. i - 1 \in 0..Len(L)
    BY <1>1
  <2>2. s[i - 1] \in Int /\ s[i] = step[<<i, s[i - 1]>>]
    BY <1>3, <1>4, <2>1 DEF Partial
  <2> QED BY <1>2, <2>2
<1>6. \A i, j \in 0..Len(L) : i <= j => s[i] <= s[j]
  <2> DEFINE T == {j \in 0..Len(L) : \E i \in 0..j : ~(s[i] <= s[j])}
  <2>1. T = {}
    <3> SUFFICES ASSUME T # {} PROVE FALSE
      OBVIOUS
    <3>0. T \subseteq Nat
      BY <1>1
    <3>1. PICK k \in T : \A j \in T : k <= j
      BY <3>0, Least, Zenon
    <3>2. PICK i \in 0..k : ~(s[i] <= s[k])
      BY <3>1
    <3>7. k \in 0..Len(L) /\ i \in 0..Len(L)
      BY <1>1
    <3>9. s[k] \in Int /\ s[i] \in Int
      BY <1>4, <3>7
    <3>8. i # k
      BY <3>2, <3>9
    <3>3. k \in 0..Len(L) /\ s[k] \in Int /\ i \in 0..k - 1 /\ s[i] \in Int
      BY <3>7, <3>8, <3>9
    <3>4. k \in 1..Len(L) /\ k - 1 \in 0..Len(L) /\ k - 1 \notin T
      <4>1. k \in 1..Len(L) /\ k - 1 \in 0..Len(L) /\ ~(k <= k - 1)
        BY <1>1, <3>3
      <4> HIDE DEF T
      <4> QED BY <3>1, <4>1
    <3>5. s[i] <= s[k - 1]
      BY <3>3, <3>4
    <3>6. s[k] = s[k - 1] + L[k] /\ L[k] \in Nat /\ s[k - 1] \in Int
      BY <1>1, <1>4, <1>5, <3>4
    <3> QED BY <3>2, <3>3, <3>5, <3>6
  <2> QED BY <1>1, <2>1
<1>7. s \in [0..Len(L) -> Nat]
  <2>1. ASSUME NEW i \in 0..Len(L) PROVE s[i] \in Nat
    BY <1>1, <1>4, <1>6
  <2> QED BY <1>4, <2>1
<1>8. ASSUME NEW i \in 0..Len(L) PROVE WidthOf(SubSeq(L, 1, i)) = s[i]
  <2> DEFINE P == SubSeq(L, 1, i)
             r == [k \in 0..i |-> s[k]]
  <2>1. P \in Seq(Nat) /\ Len(P) = i /\ \A k \in 1..i : P[k] = L[k]
    <3>1. i \in Nat /\ \A k \in 1..i : L[k] \in Nat
      BY <1>1
    <3> QED BY <1>1, <3>1, SubSeqProperties
  <2>2. r \in [0..i -> Int] /\ r[0] = 0 /\ r[i] = s[i]
    BY <1>1, <1>4
  <2>3. ASSUME NEW k \in 1..i PROVE r[k] = r[k - 1] + P[k]
    <3>1. k \in 1..Len(L) /\ k \in 0..i /\ k - 1 \in 0..i
      BY <1>1
    <3> QED BY <3>1, <2>1, <1>5
  <2> HIDE DEF P, r
  <2>4. WidthOf(P) = r[Len(P)]
    BY <2>1, <2>2, <2>3, WidthIs
  <2> QED BY <2>1, <2>2, <2>4 DEF P
<1> QED BY <1>4, <1>5, <1>6, <1>7, <1>8

(* What StateLayout::new accepts.                                           *)
Fitting(L) == L \in Seq(Nat) /\ LayoutFits(L)

(* Beyond what a field of n values that begins at a ends at.                *)
Beyond(b, a, n) == \E c \in Nat \ {0} : b = c * (n * a)

LEMMA SumSplit ==
    ASSUME NEW a \in Nat, NEW b \in Nat, NEW e, e = a + b, NEW w \in Nat, e <= w,
           NEW d, d = w - e
    PROVE  d \in Nat /\ w = d + (b + a) /\ b + a \in Nat /\ a \in Nat
OBVIOUS

(* Every field ends within the state and before any later field begins.     *)
LEMMA Spaced ==
    ASSUME NEW L, Fitting(L), NEW i \in 1..Len(L)
    PROVE  /\ Pow2[Offset(L, i)] \in Nat \ {0} /\ Pow2[L[i]] \in Nat \ {0}
           /\ Beyond(Pow2[StateBits], Pow2[Offset(L, i)], Pow2[L[i]])
           /\ \A j \in i + 1 .. Len(L) :
                 Beyond(Pow2[Offset(L, j)], Pow2[Offset(L, i)], Pow2[L[i]])
<1> USE DEF Fitting
<1>1. PICK s \in [0..Len(L) -> Nat] :
              /\ s[0] = 0
              /\ \A k \in 1..Len(L) : s[k] = s[k - 1] + L[k]
              /\ \A k, j \in 0..Len(L) : k <= j => s[k] <= s[j]
              /\ \A k \in 0..Len(L) : WidthOf(SubSeq(L, 1, k)) = s[k]
  BY PartialSums
<1>2. Len(L) \in Nat /\ L[i] \in Nat /\ StateBits \in Nat
  BY CatalogAssumption
<1>3. \A j \in 1..Len(L) : Offset(L, j) = s[j - 1] /\ s[j - 1] \in Nat
  <2> TAKE j \in 1..Len(L)
  <2>1. j - 1 \in 0..Len(L)
    BY <1>2
  <2> QED BY <1>1, <2>1 DEF Offset
<1>4. s[i] = s[i - 1] + L[i] /\ s[i] \in Nat /\ i \in 0..Len(L)
  <2>1. i \in 0..Len(L)
    BY <1>2
  <2> QED BY <1>1, <2>1
<1>5. ASSUME NEW w \in Nat, s[i] <= w
      PROVE  Beyond(Pow2[w], Pow2[Offset(L, i)], Pow2[L[i]])
  <2> DEFINE d == w - s[i]
  <2>1. d \in Nat /\ w = d + (L[i] + s[i - 1]) /\ L[i] + s[i - 1] \in Nat /\ s[i - 1] \in Nat
    <3>1. s[i - 1] \in Nat
      BY <1>3
    <3>2. s[i] = s[i - 1] + L[i] /\ s[i] \in Nat /\ L[i] \in Nat
      BY <1>2, <1>4
    <3> DEFINE a == s[i - 1]
               b == L[i]
               e == s[i]
    <3>3. a \in Nat /\ b \in Nat /\ e \in Nat /\ e = a + b /\ e <= w /\ d = w - e
      BY <1>5, <3>1, <3>2
    <3> HIDE DEF a, b, e, d
    <3>4. d \in Nat /\ w = d + (b + a) /\ b + a \in Nat /\ a \in Nat
      BY <3>3, SumSplit
    <3> QED BY <3>4 DEF a, b
  <2>2. Pow2[L[i] + s[i - 1]] = Pow2[L[i]] * Pow2[s[i - 1]]
    BY <1>2, <2>1, Pow2Sum
  <2> HIDE DEF d
  <2>3. Pow2[d + (L[i] + s[i - 1])] = Pow2[d] * Pow2[L[i] + s[i - 1]]
    BY <2>1, Pow2Sum
  <2>4. Pow2[d] \in Nat \ {0}
    BY <2>1, Pow2Def
  <2> QED BY <2>1, <2>2, <2>3, <2>4, <1>3 DEF Beyond
<1>6. s[i] <= StateBits
  <2>1. SubSeq(L, 1, Len(L)) = L
    BY SubSeqFull
  <2>4. Len(L) \in 0..Len(L)
    BY <1>2
  <2>5. WidthOf(SubSeq(L, 1, Len(L))) = s[Len(L)]
    BY <1>1, <2>4, Zenon
  <2>2. WidthOf(L) = s[Len(L)] /\ Len(L) \in 0..Len(L)
    BY <2>1, <2>4, <2>5
  <2>3. s[i] <= s[Len(L)] /\ s[Len(L)] \in Nat
    BY <1>1, <1>2, <1>4, <2>2
  <2> QED BY <1>2, <1>4, <2>2, <2>3 DEF LayoutFits
<1>7. ASSUME NEW j \in i + 1 .. Len(L)
      PROVE  s[i] <= s[j - 1] /\ j \in 1..Len(L)
  <2>1. j - 1 \in 0..Len(L) /\ i <= j - 1 /\ j \in 1..Len(L)
    BY <1>2
  <2> QED BY <1>1, <1>4, <2>1
<1>8. Pow2[Offset(L, i)] \in Nat \ {0} /\ Pow2[L[i]] \in Nat \ {0}
  BY <1>2, <1>3, Pow2Def
<1>9. ASSUME NEW j \in i + 1 .. Len(L)
      PROVE  Beyond(Pow2[Offset(L, j)], Pow2[Offset(L, i)], Pow2[L[i]])
  <2>1. Offset(L, j) \in Nat /\ s[i] <= Offset(L, j)
    BY <1>3, <1>7
  <2> QED BY <1>5, <2>1
<1>10. Beyond(Pow2[StateBits], Pow2[Offset(L, i)], Pow2[L[i]])
  BY <1>2, <1>5, <1>6
<1> QED BY <1>8, <1>9, <1>10

(* A number is cut at the ends of a field of n values that begins at b.    *)
Cut(s, b, n, x, f, l) ==
    /\ x \in Nat /\ f \in 0..n - 1 /\ l \in 0..b - 1
    /\ s = (x * n + f) * b + l

(* A number is q times b and a rest.                                        *)
Rest(s, b, q, r) == q \in Nat /\ r \in 0..b - 1 /\ s = q * b + r

(* Quotient and rest are the ones with which a number is written.           *)
LEMMA Divided ==
    ASSUME NEW b \in Nat \ {0}, NEW s, NEW q, NEW r, Rest(s, b, q, r)
    PROVE  s \div b = q /\ s % b = r
BY DEF Rest

(* Shifting and masking give the field that a number is cut at.             *)
LEMMA FieldOf ==
    ASSUME NEW b \in Nat \ {0}, NEW n \in Nat \ {0}, NEW s, NEW x, NEW f, NEW l,
           Cut(s, b, n, x, f, l)
    PROVE  (s \div b) % n = f
<1> DEFINE q == x * n + f
<1>1. Rest(q, n, x, f) /\ Rest(s, b, q, l) /\ q \in Nat
  BY DEF Rest, Cut
<1> HIDE DEF q
<1> QED BY <1>1, Divided

(* Every number is cut so.                                                  *)
LEMMA FieldCuts ==
    ASSUME NEW b \in Nat \ {0}, NEW n \in Nat \ {0}, NEW s \in Nat
    PROVE  \E x, l : Cut(s, b, n, x, (s \div b) % n, l)
<1> DEFINE q == s \div b
           l == s % b
           x == q \div n
           f == q % n
<1>1. q \in Nat /\ l \in 0..b - 1 /\ s = q * b + l
  OBVIOUS
<1> HIDE DEF q, l
<1>2. x \in Nat /\ f \in 0..n - 1 /\ q = x * n + f
  BY <1>1
<1> HIDE DEF x, f
<1>3. Cut(s, b, n, x, f, l)
  BY <1>1, <1>2 DEF Cut
<1> QED BY <1>3 DEF f, q

(* Taking a field out and putting another value in changes nothing else.    *)
LEMMA Overwritten ==
    ASSUME NEW a \in Nat \ {0}, NEW m \in Nat \ {0}, NEW s \in Nat, NEW v \in 0..m - 1,
           NEW t, t = s - ((s \div a) % m) * a + v * a
    PROVE  \E x, f, l : Cut(s, a, m, x, f, l) /\ Cut(t, a, m, x, v, l)
<1> DEFINE f == (s \div a) % m
<1>1. PICK x, l : Cut(s, a, m, x, f, l)
  BY FieldCuts
<1>2. t = s - f * a + v * a
  OBVIOUS
<1> HIDE DEF f
<1>3. Cut(t, a, m, x, v, l)
  BY <1>1, <1>2 DEF Cut
<1> QED BY <1>1, <1>3

(* Above a field nothing depends on its value, for b is a multiple of what *)
(* the field ends at.                                                      *)
LEMMA Above ==
    ASSUME NEW a \in Nat \ {0}, NEW m \in Nat \ {0}, NEW b, Beyond(b, a, m),
           NEW s, NEW t, NEW x, NEW f, NEW v, NEW l, Cut(s, a, m, x, f, l), Cut(t, a, m, x, v, l)
    PROVE  s \div b = t \div b
<1>1. PICK c \in Nat \ {0} : b = c * (m * a)
  BY DEF Beyond
<1>2. ASSUME NEW r, NEW g, Cut(r, a, m, x, g, l)
      PROVE  r \div b = x \div c
  <2> DEFINE y == x \div c
             z == x % c
             w == g * a + l
             u == m * a
  <2>0. x \in Nat /\ g \in 0..m - 1 /\ l \in 0..a - 1 /\ r = (x * m + g) * a + l
    BY <1>2 DEF Cut
  <2>1. y \in Nat /\ z \in 0..c - 1 /\ x = y * c + z
    BY <2>0
  <2>2. g * a \in Nat /\ g * a <= (m - 1) * a /\ (m - 1) * a = m * a - a /\ m * a \in Nat
    <3>1. m - 1 - g \in Nat /\ a \in Nat
      BY <2>0
    <3>2. (m - 1 - g) * a \in Nat
      BY <3>1
    <3> QED BY <3>2, <2>0
  <2>3. w \in 0..u - 1 /\ u \in Nat \ {0}
    BY <2>0, <2>2
  <2>4. r = x * u + w
    BY <2>0
  <2> HIDE DEF y, z, w, u
  <2>5. x * u + w = y * (c * u) + (z * u + w)
    BY <2>1, <2>3
  <2>6. z * u + w \in 0..c * u - 1 /\ c * u \in Nat \ {0}
    <3>1. (c - 1 - z) * u \in Nat /\ z * u \in Nat
      BY <2>1, <2>3
    <3>2. (c - 1 - z) * u = c * u - u - z * u
      BY <2>1, <2>3
    <3>3. c * u \in Nat
      BY <2>3
    <3> QED BY <2>3, <3>1, <3>2, <3>3
  <2>8. b = c * u
    BY <1>1 DEF u
  <2>7. Rest(r, b, y, z * u + w) /\ b \in Nat \ {0}
    BY <2>1, <2>4, <2>5, <2>6, <2>8 DEF Rest
  <2> QED BY <2>7, Divided DEF y
<1> QED BY <1>2, Zenon

(* Nor does anything below it, for it begins at a multiple of what a field *)
(* below ends at.                                                          *)
LEMMA Below ==
    ASSUME NEW b \in Nat \ {0}, NEW n \in Nat \ {0}, NEW a, Beyond(a, b, n),
           NEW m \in Nat \ {0}, NEW s, NEW x, NEW f, NEW l, Cut(s, a, m, x, f, l)
    PROVE  (s \div b) % n = (l \div b) % n
<1> DEFINE g == (l \div b) % n
           q == x * m + f
<1>4. PICK c \in Nat \ {0} : a = c * (n * b)
  BY DEF Beyond
<1>0. q \in Nat /\ l \in Nat /\ s = q * a + l
  BY <1>4 DEF Cut
<1> HIDE DEF q
<1>1. PICK p, e : Cut(l, b, n, p, g, e)
  BY <1>0, FieldCuts
<1> HIDE DEF g
<1> DEFINE h == q * c + p
<1>2. Cut(s, b, n, h, g, e)
  <2>1. p \in Nat /\ g \in 0..n - 1 /\ e \in 0..b - 1 /\ l = (p * n + g) * b + e
    BY <1>1 DEF Cut
  <2>2. h \in Nat
    BY <1>0, <2>1
  <2>3. q * (c * (n * b)) = ((q * c) * n) * b
    BY <1>0
  <2>4. (h * n + g) * b = ((q * c) * n) * b + (p * n + g) * b
    BY <1>0, <2>1
  <2>5. s = (h * n + g) * b + e
    BY <1>0, <1>4, <2>1, <2>3, <2>4
  <2> HIDE DEF h
  <2> QED BY <2>1, <2>2, <2>5 DEF Cut
<1> HIDE DEF h
<1>3. (s \div b) % n = g
  BY <1>2, FieldOf
<1> QED BY <1>3 DEF g

(* A write of one field changes that field alone and stays in the state.    *)
LEMMA WriteStays ==
    ASSUME NEW L, Fitting(L), NEW i \in 1..Len(L), NEW s \in 0 .. Pow2[StateBits] - 1,
           NEW v \in 0 .. Pow2[L[i]] - 1
    PROVE  LET t == WriteField(L, s, i, v) IN
           /\ t \in 0 .. Pow2[StateBits] - 1
           /\ ReadField(L, t, i) = v
           /\ \A j \in 1..Len(L) : j # i => ReadField(L, t, j) = ReadField(L, s, j)
<1> DEFINE a == Pow2[Offset(L, i)]
           m == Pow2[L[i]]
           t == WriteField(L, s, i, v)
<1>1. a \in Nat \ {0} /\ m \in Nat \ {0}
  BY Spaced
<1>2. Pow2[StateBits] \in Nat /\ s \in Nat
  BY Pow2Def, CatalogAssumption
<1>3. t = s - ((s \div a) % m) * a + v * a
  BY DEF WriteField, ReadField
<1>4. \A u : ReadField(L, u, i) = (u \div a) % m
  BY DEF ReadField
<1> HIDE DEF a, m, t
<1>5. v \in 0..m - 1
  BY DEF m
<1>6. PICK x, f, l : Cut(s, a, m, x, f, l) /\ Cut(t, a, m, x, v, l)
  BY <1>1, <1>2, <1>3, <1>5, Overwritten
<1>7. ReadField(L, t, i) = v
  BY <1>1, <1>4, <1>5, <1>6, FieldOf
<1>8. t \in 0 .. Pow2[StateBits] - 1
  <2> DEFINE B == Pow2[StateBits]
  <2>1. Beyond(B, a, m)
    BY Spaced DEF a, m
  <2>2. s \div B = t \div B
    BY <1>1, <1>6, <2>1, Above
  <2>3. t \in Nat
    BY <1>1, <1>5, <1>6 DEF Cut
  <2>4. B \in Nat \ {0} /\ s \in 0..B - 1
    BY Pow2Def, CatalogAssumption
  <2> HIDE DEF B
  <2>5. s \div B = 0
    BY <2>4
  <2>6. t \in 0..B - 1
    BY <2>2, <2>3, <2>4, <2>5
  <2> QED BY <2>6 DEF B
<1>9. ASSUME NEW j \in 1..Len(L), j # i
      PROVE  ReadField(L, t, j) = ReadField(L, s, j)
  <2> DEFINE b == Pow2[Offset(L, j)]
             n == Pow2[L[j]]
  <2>1. b \in Nat \ {0} /\ n \in Nat \ {0}
    BY Spaced
  <2>2. \A u : ReadField(L, u, j) = (u \div b) % n
    BY DEF ReadField
  <2>0. Len(L) \in Nat
    BY DEF Fitting
  <2>3. CASE i < j
    <3>1. j \in i + 1 .. Len(L)
      BY <2>0, <2>3
    <3>2. Beyond(b, a, m)
      BY <3>1, Spaced DEF a, m
    <3> HIDE DEF b, n
    <3>3. s \div b = t \div b
      BY <1>1, <1>6, <3>2, Above
    <3> QED BY <2>2, <3>3
  <2>4. CASE j < i
    <3>1. i \in j + 1 .. Len(L)
      BY <2>0, <2>4
    <3>2. Beyond(a, b, n)
      BY <3>1, Spaced DEF a
    <3> HIDE DEF b, n
    <3>4. (s \div b) % n = (l \div b) % n /\ (t \div b) % n = (l \div b) % n
      BY <1>1, <1>6, <2>1, <3>2, Below
    <3> QED BY <2>2, <3>4
  <2> QED BY <1>9, <2>0, <2>3, <2>4
<1> QED BY <1>7, <1>8, <1>9 DEF t

----------------------------------------------------------------------------
(* The cell.                                                                *)

(* A block that was placed has the layout of the row that its type names.   *)
HasRow(room, type, layout, officials, locals) ==
    \E d \in Definition :
        LET h == [room |-> room, type |-> type, is |-> d] IN
        /\ h \in Handed /\ type >= FirstOfficial
        /\ Names(h, officials, locals)
        /\ layout = d.layout

(* What a cell is made of.                                                  *)
Cells ==
    [room : Room \cup {Nothing}, type : Nat, state : 0 .. Pow2[StateBits] - 1,
     layout : Seq(Nat), written : UNION {[1..n -> Nat] : n \in Nat}]

(* A placed cell has a row, and its state reads as what was written to it.  *)
CellInv ==
    /\ cell \in Cells
    /\ cell.written \in [1..Len(cell.layout) -> Nat]
    /\ cell = NoCell \/ HasRow(cell.room, cell.type, cell.layout, official, rooms)
    /\ \A i \in 1..Len(cell.layout) :
          ReadField(cell.layout, cell.state, i) = cell.written[i]

(* The state that a block is placed with.                                   *)
LEMMA ZeroFits == 0 \in 0 .. Pow2[StateBits] - 1
<1>1. StateBits \in Nat
  BY CatalogAssumption
<1>2. Pow2[StateBits] \in Nat \ {0}
  BY <1>1, Pow2Def
<1> DEFINE p == Pow2[StateBits]
<1> HIDE DEF p
<1>3. p \in Nat \ {0} => 0 \in 0 .. p - 1
  OBVIOUS
<1> QED BY <1>2, <1>3 DEF p

(* Every definition has a layout that StateLayout::new accepted.            *)
LEMMA DefinitionFits ==
    ASSUME NEW d \in Definition
    PROVE  Fitting(d.layout)
BY CatalogAssumption DEF Definition, Fitting

(* A type that resolves names the row that it resolves to.                  *)
LEMMA ResolvedNames ==
    ASSUME CatalogInv, NEW r \in Room, NEW t \in Type, Resolve(r, t) # Nothing
    PROVE  /\ Resolve(r, t) \in Definition
           /\ HasRow(r, t, Resolve(r, t).layout, official, rooms)
<1> DEFINE d == Resolve(r, t)
           h == [room |-> r, type |-> t, is |-> d]
<1>1. t \in Nat /\ t \notin Builtins
  BY CatalogAssumption DEF Type, Resolve
<1>2. /\ official \in Seq(Definition) /\ Len(official) \in Nat
      /\ rooms[r] \in Seq(Definition) /\ Len(rooms[r]) \in Nat
  BY LenProperties DEF CatalogInv
<1>3. CASE t >= ScopeMask
  <2> DEFINE i == t - ScopeMask
  <2>1. i \in Nat /\ d = Row(rooms[r], i)
    BY <1>1, <1>3, CatalogAssumption DEF Resolve, IsLocal
  <2>2. i < Len(rooms[r]) /\ d = rooms[r][i + 1]
    BY <2>1 DEF Row
  <2>3. d \in Definition
    BY <1>2, <2>1, <2>2, ElementOfSeq
  <2> HIDE DEF d
  <2>4. h \in Handed /\ t >= FirstOfficial /\ Names(h, official, rooms)
    BY <1>1, <1>3, <2>2, <2>3, CatalogAssumption DEF Handed, Names
  <2> HIDE DEF h
  <2> QED BY <2>3, <2>4, Zenon DEF HasRow, h, d
<1>4. CASE ~(t >= ScopeMask)
  <2> DEFINE i == t - FirstOfficial
  <2>1. t >= FirstOfficial /\ i \in Nat /\ d = Row(official, i)
    BY <1>1, <1>4, CatalogAssumption DEF Resolve, IsLocal
  <2>2. i < Len(official) /\ d = official[i + 1]
    BY <2>1 DEF Row
  <2>3. d \in Definition
    BY <1>2, <2>1, <2>2, ElementOfSeq
  <2> HIDE DEF d
  <2>4. h \in Handed /\ t >= FirstOfficial /\ Names(h, official, rooms)
    BY <1>1, <1>4, <2>1, <2>2, <2>3, CatalogAssumption DEF Handed, Names
  <2> HIDE DEF h
  <2> QED BY <2>3, <2>4, Zenon DEF HasRow, h, d
<1> QED BY <1>3, <1>4

(* Catalogs that grow leave a placed block its row.                         *)
LEMMA PlacedKept ==
    ASSUME CatalogInv, CatalogsGrow, NEW r, NEW t, NEW layout,
           HasRow(r, t, layout, official, rooms)
    PROVE  HasRow(r, t, layout, official', rooms')
<1>1. PICK d \in Definition :
           /\ [room |-> r, type |-> t, is |-> d] \in Handed /\ t >= FirstOfficial
           /\ Names([room |-> r, type |-> t, is |-> d], official, rooms)
           /\ layout = d.layout
  BY Zenon DEF HasRow
<1> DEFINE h == [room |-> r, type |-> t, is |-> d]
<1>2. h \in Handed /\ h.type >= FirstOfficial /\ Names(h, official, rooms)
  BY <1>1
<1> HIDE DEF h
<1>3. Names(h, official', rooms')
  BY <1>2, NamesKept DEF CatalogsGrow
<1> QED BY <1>1, <1>3, Zenon DEF HasRow, h

(* BlockTables::resolve_type and a state of zero.                           *)
LEMMA StepPlace ==
    ASSUME CatalogInv, CellInv, NEW r \in Room, NEW t \in Type, PlaceBlock(r, t)
    PROVE  CellInv'
<1> DEFINE L == Resolve(r, t).layout
           zeros == [i \in 1..Len(L) |-> 0]
<1>1. Resolve(r, t) \in Definition /\ HasRow(r, t, L, official, rooms)
  BY ResolvedNames DEF PlaceBlock
<1>2. Fitting(L)
  BY <1>1, DefinitionFits
<1>3. /\ cell' = [room |-> r, type |-> t, state |-> 0, layout |-> L, written |-> zeros]
      /\ official' = official /\ rooms' = rooms
  BY DEF PlaceBlock
<1> HIDE DEF L
<1>4. L \in Seq(Nat) /\ Len(L) \in Nat /\ t \in Nat
  BY <1>2, CatalogAssumption DEF Fitting, Type
<1>5. zeros \in [1..Len(L) -> Nat]
  OBVIOUS
<1>6. ASSUME NEW i \in 1..Len(L) PROVE ReadField(L, 0, i) = zeros[i]
  <2>1. Pow2[Offset(L, i)] \in Nat \ {0} /\ Pow2[L[i]] \in Nat \ {0}
    BY <1>2, Spaced
  <2>2. \A a, b \in Nat \ {0} : (0 \div a) % b = 0
    OBVIOUS
  <2> QED BY <2>1, <2>2 DEF ReadField
<1>7. 0 \in 0 .. Pow2[StateBits] - 1
  BY ZeroFits
<1> HIDE DEF zeros
<1>8. cell' \in Cells
  <2>1. zeros \in UNION {[1..n -> Nat] : n \in Nat}
    BY <1>4, <1>5
  <2> QED BY <1>3, <1>4, <1>7, <2>1 DEF Cells
<1>9. (cell.written \in [1..Len(cell.layout) -> Nat])'
  BY <1>3, <1>5
<1>10. HasRow(cell.room, cell.type, cell.layout, official, rooms)'
  BY <1>1, <1>3
<1>11. (\A i \in 1..Len(cell.layout) : ReadField(cell.layout, cell.state, i) = cell.written[i])'
  BY <1>3, <1>6
<1> QED BY <1>8, <1>9, <1>10, <1>11, Zenon DEF CellInv

(* StateLayout::write by the layout of the row, which is still the cell's.  *)
LEMMA StepSet ==
    ASSUME CatalogInv, CellInv, NEW i, NEW v \in Nat, SetField(i, v)
    PROVE  CellInv'
<1> DEFINE L == cell.layout
           s == cell.state
           t == WriteField(L, s, i, v)
<1>1. L \in Seq(Nat) /\ s \in 0 .. Pow2[StateBits] - 1 /\ i \in 1..Len(L)
  BY DEF CellInv, Cells, SetField
<1>2. HasRow(cell.room, cell.type, L, official, rooms)
  BY <1>1 DEF CellInv, NoCell
<1>3. PICK d \in Definition :
           /\ [room |-> cell.room, type |-> cell.type, is |-> d] \in Handed
           /\ cell.type >= FirstOfficial
           /\ Names([room |-> cell.room, type |-> cell.type, is |-> d], official, rooms)
           /\ L = d.layout
  BY <1>2, Zenon DEF HasRow
<1>4. Resolve(cell.room, cell.type) = d /\ Fitting(L)
  <2> DEFINE h == [room |-> cell.room, type |-> cell.type, is |-> d]
  <2>1. h \in Handed /\ h.type >= FirstOfficial /\ Names(h, official, rooms)
    BY <1>3
  <2>2. h.room = cell.room /\ h.type = cell.type /\ h.is = d
    OBVIOUS
  <2> HIDE DEF h
  <2>3. Resolve(h.room, h.type) = h.is
    BY <2>1, NamesResolve
  <2> QED BY <1>3, <2>2, <2>3, DefinitionFits
<1>5. /\ v \in 0 .. Pow2[L[i]] - 1
      /\ cell' = [cell EXCEPT !.state = t, !.written[i] = v]
      /\ official' = official /\ rooms' = rooms
  <2>1. L[i] \in Nat /\ v < Pow2[L[i]]
    BY <1>1, <1>3, <1>4 DEF SetField
  <2>2. Pow2[L[i]] \in Nat
    BY <2>1, Pow2Def
  <2> QED BY <1>3, <1>4, <2>1, <2>2 DEF SetField
<1>6. /\ t \in 0 .. Pow2[StateBits] - 1
      /\ ReadField(L, t, i) = v
      /\ \A j \in 1..Len(L) : j # i => ReadField(L, t, j) = ReadField(L, s, j)
  BY <1>1, <1>4, <1>5, WriteStays
<1> DEFINE w == [cell.written EXCEPT ![i] = v]
<1>7. /\ cell \in Cells /\ cell.written \in [1..Len(L) -> Nat]
      /\ \A j \in 1..Len(L) : ReadField(L, s, j) = cell.written[j]
  BY DEF CellInv
<1>8. w \in [1..Len(L) -> Nat] /\ w[i] = v /\ \A j \in 1..Len(L) : j # i => w[j] = cell.written[j]
  BY <1>1, <1>7
<1>9. /\ cell'.room = cell.room /\ cell'.type = cell.type /\ cell'.layout = L
      /\ cell'.state = t /\ cell'.written = w
      /\ DOMAIN cell' = DOMAIN cell
  BY <1>5, <1>7 DEF Cells
<1> HIDE DEF t, w
<1>10. cell' \in Cells
  <2>1. w \in UNION {[1..n -> Nat] : n \in Nat}
    <3>1. Len(L) \in Nat /\ w \in [1..Len(L) -> Nat]
      BY <1>1, <1>8
    <3> HIDE DEF L
    <3> QED BY <3>1
  <2>2. cell' = [cell EXCEPT !.state = t, !.written = w]
    BY <1>5, <1>7 DEF Cells, w
  <2> QED BY <1>6, <1>7, <2>1, <2>2 DEF Cells
<1>11. (cell.written \in [1..Len(cell.layout) -> Nat])'
  BY <1>8, <1>9
<1>12. HasRow(cell.room, cell.type, cell.layout, official, rooms)'
  BY <1>2, <1>5, <1>9
<1>13. ASSUME NEW j \in 1..Len(L) PROVE ReadField(L, t, j) = w[j]
  BY <1>6, <1>7, <1>8
<1>14. (\A j \in 1..Len(cell.layout) : ReadField(cell.layout, cell.state, j) = cell.written[j])'
  BY <1>9, <1>13
<1> QED BY <1>10, <1>11, <1>12, <1>14, Zenon DEF CellInv

(* Registrations and imports do not touch the cell, nor the row it is of.   *)
LEMMA StepCell ==
    ASSUME CatalogInv, CellInv, [CatalogNext]_catalogVars
    PROVE  CellInv'
<1>1. CASE UNCHANGED cell
  <2>1. CatalogsGrow
    BY StepCatalog
  <2>2. cell = NoCell \/ HasRow(cell.room, cell.type, cell.layout, official', rooms')
    BY <2>1, PlacedKept DEF CellInv
  <2> QED BY <1>1, <2>2 DEF CellInv
<1>2. ASSUME NEW r \in Room, NEW t \in Type, PlaceBlock(r, t)
      PROVE  CellInv'
  BY <1>2, StepPlace
<1>3. ASSUME NEW i \in 1..StateBits, NEW v \in 0..Pow2[StateBits] - 1, SetField(i, v)
      PROVE  CellInv'
  <2>1. v \in Nat
    BY Pow2Def, CatalogAssumption
  <2> QED BY <1>3, <2>1, StepSet
<1> QED BY <1>1, <1>2, <1>3
     DEF CatalogNext, catalogVars, RegisterOfficial, RegisterLocal, Import

(* The fields of a block's state read back what was last written to each,   *)
(* and no write reaches beyond the state's bits (StateLayout::read, write), *)
(* for any layouts that StateLayout::new accepts and any width of a state.  *)
THEOREM FieldsApart == CatalogSpec => []FieldsIndependent
<1>1. CatalogInit => CatalogInv /\ CellInv
  <2>1. CatalogInit => CatalogInv
    BY DEF CatalogInit, CatalogInv
  <2>2. CatalogInit => CellInv
    <3> SUFFICES ASSUME cell = NoCell PROVE CellInv
      BY DEF CatalogInit
    <3>1. 0 \in 0 .. Pow2[StateBits] - 1
      BY ZeroFits
    <3>2. << >> \in [1..0 -> Nat] /\ Len(<< >>) = 0 /\ << >> \in Seq(Nat)
      OBVIOUS
    <3>3. << >> \in UNION {[1..n -> Nat] : n \in Nat}
      BY <3>2
    <3> QED BY <3>1, <3>2, <3>3 DEF CellInv, Cells, NoCell
  <2> QED BY <2>1, <2>2
<1>2. CatalogInv /\ CellInv /\ [CatalogNext]_catalogVars => (CatalogInv /\ CellInv)'
  BY StepCatalog, StepCell
<1>3. CellInv => FieldsIndependent
  BY DEF CellInv, Cells, FieldsIndependent
<1> QED BY <1>1, <1>2, <1>3, PTL DEF CatalogSpec

----------------------------------------------------------------------------
(* Updates of a transaction.                                                *)

(* A transaction nothing was staged in stages nothing, and one that was     *)
(* never split was staged under the id it would publish, and no other.      *)
Tidy(t) ==
    /\ t.used = {} => /\ \A c \in Cell : t.blocks[c] = None /\ t.references[c] = None
                      /\ \A e \in EntityId : t.entities[e] = None
    /\ ~t.split => IF t.commit = None THEN t.used = {} ELSE t.used = {t.commit}

BindingInv ==
    /\ binding \in BindingState
    /\ Valid(binding)
    /\ staging \in [Holder -> Transaction \cup {None}]
    /\ \A h \in Holder : staging[h] # None => Tidy(staging[h])

(* What staging changes in a transaction before the id is observed.         *)
SameStage(t, u) ==
    /\ u \in Transaction
    /\ u.commit = t.commit /\ u.split = t.split /\ u.used = t.used

(* observe_commit after any staging keeps the transaction tidy.             *)
LEMMA ObserveTidy ==
    ASSUME NEW t, NEW u, Tidy(t), SameStage(t, u), NEW id \in CommitId \cup {0}
    PROVE  Observe(u, id) \in Transaction /\ Tidy(Observe(u, id))
<1> DEFINE o == Observe(u, id)
<1>1. u \in Transaction /\ u.calls \in Nat /\ u.used \in SUBSET (CommitId \cup {0})
      /\ u.split \in BOOLEAN /\ u.commit \in CommitId \cup {0, None}
  BY DEF SameStage, Transaction
<1>2. id # None
  BY BindingAssumption
<1>3. PICK y \in BOOLEAN : y = (u.split \/ u.commit \notin {None, id})
  OBVIOUS
<1>4. PICK m \in CommitId \cup {0} : m = (IF u.commit = None THEN id ELSE u.commit)
  BY <1>1, <1>2
<1>5. o = [u EXCEPT !.commit = m, !.split = y, !.used = u.used \cup {id}, !.calls = u.calls + 1]
  BY <1>1, <1>3, <1>4, Zenon DEF Observe, o
<1> HIDE DEF o
<1>6. /\ o \in Transaction
      /\ o.commit = m /\ o.split = y /\ o.used = u.used \cup {id}
  <2>1. PICK n \in Nat : n = u.calls + 1
    BY <1>1
  <2>2. PICK ids \in SUBSET (CommitId \cup {0}) : ids = u.used \cup {id}
    BY <1>1
  <2>3. o = [u EXCEPT !.commit = m, !.split = y, !.used = ids, !.calls = n]
    BY <1>5, <2>1, <2>2
  <2> QED BY <1>1, <2>2, <2>3 DEF Transaction
<1>7. o.used # {}
  BY <1>6
<1>8. ASSUME ~o.split PROVE o.commit # None /\ o.used = {o.commit}
  <2>1. ~u.split /\ u.commit \in {None, id} /\ m = id
    BY <1>3, <1>4, <1>6, <1>8
  <2>2. u.used = {} \/ u.used = {id}
    BY <2>1 DEF Tidy, SameStage
  <2> QED BY <1>2, <1>6, <2>1, <2>2
<1>9. o \in Transaction /\ Tidy(o)
  BY <1>6, <1>7, <1>8 DEF Tidy
<1> QED BY <1>9 DEF o

(* Staging half of a change, as the calls do it one field at a time.        *)
LEMMA FieldStage ==
    ASSUME NEW t \in Transaction
    PROVE  /\ SameStage(t, t)
           /\ \A c \in Cell, b \in Block : SameStage(t, [t EXCEPT !.blocks[c] = b])
           /\ \A c \in Cell, e \in EntityId \cup {Gone} : SameStage(t, [t EXCEPT !.references[c] = e])
           /\ \A e \in EntityId, r \in Record \cup {Gone} : SameStage(t, [t EXCEPT !.entities[e] = r])
<1>1. ASSUME NEW c \in Cell, NEW b \in Block
      PROVE  SameStage(t, [t EXCEPT !.blocks[c] = b])
  <2>1. PICK bs \in [Cell -> Block \cup {None}] : bs = [t.blocks EXCEPT ![c] = b]
    BY DEF Transaction
  <2>2. [t EXCEPT !.blocks[c] = b] = [t EXCEPT !.blocks = bs]
    BY <2>1
  <2>3. [t EXCEPT !.blocks = bs] \in Transaction
    BY <2>1 DEF Transaction
  <2> QED BY <2>2, <2>3 DEF SameStage, Transaction
<1>2. ASSUME NEW c \in Cell, NEW e \in EntityId \cup {Gone}
      PROVE  SameStage(t, [t EXCEPT !.references[c] = e])
  <2>1. PICK rs \in [Cell -> EntityId \cup {None, Gone}] : rs = [t.references EXCEPT ![c] = e]
    BY DEF Transaction
  <2>2. [t EXCEPT !.references[c] = e] = [t EXCEPT !.references = rs]
    BY <2>1
  <2>3. [t EXCEPT !.references = rs] \in Transaction
    BY <2>1 DEF Transaction
  <2> QED BY <2>2, <2>3 DEF SameStage, Transaction
<1>3. ASSUME NEW e \in EntityId, NEW r \in Record \cup {Gone}
      PROVE  SameStage(t, [t EXCEPT !.entities[e] = r])
  <2>1. PICK es \in [EntityId -> Record \cup {None, Gone}] : es = [t.entities EXCEPT ![e] = r]
    BY DEF Transaction
  <2>2. [t EXCEPT !.entities[e] = r] = [t EXCEPT !.entities = es]
    BY <2>1
  <2>3. [t EXCEPT !.entities = es] \in Transaction
    BY <2>1 DEF Transaction
  <2> QED BY <2>2, <2>3 DEF SameStage, Transaction
<1> QED BY <1>1, <1>2, <1>3 DEF SameStage

(* place and remove stage several fields, the entity that goes included.    *)
LEMMA WithoutStage ==
    ASSUME NEW t, NEW u, SameStage(t, u), NEW e \in EntityId \cup {None}
    PROVE  SameStage(t, WithoutEntity(u, e))
<1>1. u \in Transaction
  BY DEF SameStage
<1>2. CASE e = None
  BY <1>2 DEF WithoutEntity
<1>3. CASE e # None
  <2>1. SameStage(u, [u EXCEPT !.entities[e] = Gone])
    BY <1>1, <1>3, FieldStage
  <2> QED BY <1>3, <2>1 DEF WithoutEntity, SameStage
<1> QED BY <1>2, <1>3

(* The entity place and remove see at a cell is one, or none.               *)
LEMMA EntityAtTyped ==
    ASSUME NEW t \in Transaction, NEW c \in Cell
    PROVE  EntityAt(t, c) \in EntityId \cup {None}
BY DEF EntityAt, Transaction, BindingState, ReferenceTable

(* place stages a block, its reference and its entity.                      *)
LEMMA PlacedStage ==
    ASSUME NEW t \in Transaction, NEW c \in Cell, NEW b \in Block, NEW e \in EntityId, NEW r \in Record
    PROVE  SameStage(t, Placed(t, c, b, e, r))
<1> DEFINE x == [t EXCEPT !.blocks[c] = b]
           y == [x EXCEPT !.references[c] = e]
           z == [y EXCEPT !.entities[e] = r]
<1>1. SameStage(t, x)
  BY FieldStage
<1>2. SameStage(x, y)
  <2>1. x \in Transaction
    BY <1>1 DEF SameStage
  <2> HIDE DEF x
  <2> QED BY <2>1, FieldStage
<1>3. SameStage(y, z)
  <2>1. y \in Transaction
    BY <1>2 DEF SameStage
  <2> HIDE DEF y
  <2> QED BY <2>1, FieldStage
<1>4. SameStage(t, z)
  <2> HIDE DEF x, y, z
  <2> QED BY <1>1, <1>2, <1>3 DEF SameStage
<1>5. z = [t EXCEPT !.blocks[c] = b, !.references[c] = e, !.entities[e] = r]
  BY DEF Transaction
<1> HIDE DEF x, y, z
<1> QED BY <1>4, <1>5, WithoutStage, EntityAtTyped DEF Placed

(* remove stages a block without them.                                      *)
LEMMA RemovedStage ==
    ASSUME NEW t \in Transaction, NEW c \in Cell, NEW b \in Block
    PROVE  SameStage(t, Removed(t, c, b))
<1> DEFINE x == [t EXCEPT !.blocks[c] = b]
           y == [x EXCEPT !.references[c] = Gone]
<1>1. SameStage(t, x)
  BY FieldStage
<1>2. SameStage(x, y)
  <2>1. x \in Transaction
    BY <1>1 DEF SameStage
  <2> HIDE DEF x
  <2> QED BY <2>1, FieldStage
<1>3. SameStage(t, y)
  <2> HIDE DEF x, y
  <2> QED BY <1>1, <1>2 DEF SameStage
<1>4. y = [t EXCEPT !.blocks[c] = b, !.references[c] = Gone]
  BY DEF Transaction
<1> HIDE DEF x, y
<1> QED BY <1>3, <1>4, WithoutStage, EntityAtTyped DEF Removed

(* A staging call changes the holder's own transaction only.                *)
LEMMA StageStep ==
    ASSUME BindingInv, NEW h \in Holder, NEW id \in CommitId \cup {0}, NEW u,
           CanStage(h), SameStage(staging[h], u), Stage(h, id, u)
    PROVE  BindingInv'
<1>1. binding' = binding /\ staging' = [staging EXCEPT ![h] = Observe(u, id)]
  BY DEF Stage
<1>2. Tidy(staging[h])
  BY DEF BindingInv, CanStage
<1>3. Observe(u, id) \in Transaction /\ Tidy(Observe(u, id))
  BY <1>2, ObserveTidy
<1>4. staging' \in [Holder -> Transaction \cup {None}]
  BY <1>1, <1>3 DEF BindingInv
<1>5. \A g \in Holder : staging'[g] # None => Tidy(staging'[g])
  BY <1>1, <1>3 DEF BindingInv
<1>6. (\A g \in Holder : staging[g] # None => Tidy(staging[g]))'
  BY <1>5
<1>7. (binding \in BindingState /\ Valid(binding))'
  BY <1>1 DEF BindingInv
<1> QED BY <1>4, <1>6, <1>7, Zenon DEF BindingInv

----------------------------------------------------------------------------
(* Publication.                                                             *)

(* A transaction is begun with nothing staged.                              *)
LEMMA FreshTidy ==
    ASSUME NEW s \in BindingState
    PROVE  Fresh(s) \in Transaction /\ Tidy(Fresh(s))
BY DEF Fresh, Transaction, Tidy

(* What a transaction would publish is a state.                             *)
LEMMA AppliedTyped ==
    ASSUME NEW t \in Transaction
    PROVE  Applied(t) \in BindingState
<1>1. ASSUME NEW c \in Cell PROVE Over(t.base.section[c], t.blocks[c]) \in Block
  BY BindingAssumption DEF Over, Transaction, BindingState
<1>2. ASSUME NEW c \in Cell PROVE Over(t.base.references[c], t.references[c]) \in EntityId \cup {None}
  BY DEF Over, Transaction, BindingState, ReferenceTable
<1>3. ASSUME NEW e \in EntityId PROVE Over(t.base.entities[e], t.entities[e]) \in Record \cup {None}
  <2>1. t.base.entities[e] \in Record \cup {None} /\ t.entities[e] \in Record \cup {None, Gone}
    BY DEF Transaction, BindingState
  <2> QED BY <2>1 DEF Over
<1> HIDE DEF Over
<1> QED BY <1>1, <1>2, <1>3 DEF Applied, BindingState, ReferenceTable

(* A transaction that nothing was staged in publishes its base again.       *)
LEMMA NothingApplied ==
    ASSUME NEW t \in Transaction, Tidy(t), t.used = {}
    PROVE  Applied(t) = t.base
<1>1. t.base \in BindingState
  BY DEF Transaction
<1>2. \A c \in Cell : /\ Over(t.base.section[c], t.blocks[c]) = t.base.section[c]
                      /\ Over(t.base.references[c], t.references[c]) = t.base.references[c]
  BY DEF Tidy, Over
<1>3. \A e \in EntityId : Over(t.base.entities[e], t.entities[e]) = t.base.entities[e]
  BY DEF Tidy, Over
<1>4. /\ Applied(t).section = t.base.section
      /\ Applied(t).references = t.base.references
      /\ Applied(t).entities = t.base.entities
  BY <1>1, <1>2, <1>3 DEF Applied, BindingState, ReferenceTable
<1>5. Applied(t) \in BindingState
  BY AppliedTyped
<1> QED BY <1>1, <1>4, <1>5 DEF BindingState

(* begin takes the current cut.                                             *)
LEMMA StepBegin ==
    ASSUME BindingInv, NEW h \in Holder, Begin(h)
    PROVE  BindingInv'
<1>1. Fresh(binding) \in Transaction /\ Tidy(Fresh(binding))
  BY FreshTidy DEF BindingInv
<1>2. (binding \in BindingState /\ Valid(binding))'
  BY DEF Begin, BindingInv
<1>3. (staging \in [Holder -> Transaction \cup {None}])'
  BY <1>1 DEF Begin, BindingInv
<1>4. (\A g \in Holder : staging[g] # None => Tidy(staging[g]))'
  BY <1>1 DEF Begin, BindingInv
<1> QED BY <1>2, <1>3, <1>4, Zenon DEF BindingInv

(* publish checks what it installs.                                        *)
LEMMA StepPublish ==
    ASSUME BindingInv, NEW h \in Holder, Publish(h)
    PROVE  BindingInv'
<1>1. staging[h] \in Transaction
  BY DEF Publish, BindingInv
<1>2. (binding \in BindingState /\ Valid(binding))'
  <2>1. Applied(staging[h]) \in BindingState
    BY <1>1, AppliedTyped
  <2>2. binding' = Applied(staging[h]) /\ Valid(Applied(staging[h]))
    BY DEF Publish, Publishable
  <2> QED BY <2>1, <2>2
<1>3. (staging \in [Holder -> Transaction \cup {None}])'
  BY DEF Publish, BindingInv
<1>4. (\A g \in Holder : staging[g] # None => Tidy(staging[g]))'
  BY DEF Publish, BindingInv
<1> QED BY <1>2, <1>3, <1>4, Zenon DEF BindingInv

(* A discard drops a transaction.                                          *)
LEMMA StepDiscard ==
    ASSUME BindingInv, NEW h \in Holder, Discard(h)
    PROVE  BindingInv'
<1>1. (binding \in BindingState /\ Valid(binding))'
  BY DEF Discard, BindingInv
<1>2. (staging \in [Holder -> Transaction \cup {None}])'
  BY DEF Discard, BindingInv
<1>3. (\A g \in Holder : staging[g] # None => Tidy(staging[g]))'
  BY DEF Discard, BindingInv
<1> QED BY <1>1, <1>2, <1>3, Zenon DEF BindingInv

(* Every staging call is one of a holder's own transaction.                 *)
LEMMA StepStage ==
    ASSUME BindingInv, NEW h \in Holder,
           \/ \E c \in Cell, b \in Block, e \in EntityId, r \in Offered[h] : Place(h, c, b, e, r)
           \/ \E c \in Cell, b \in Block : RemoveCell(h, c, b)
           \/ \E id \in CommitId :
                 \/ \E c \in Cell, b \in Block : StageBlock(h, id, c, b)
                 \/ \E c \in Cell, e \in EntityId \cup {Gone} : StageReference(h, id, c, e)
                 \/ \E e \in EntityId, r \in Offered[h] \cup {Gone} : StageEntity(h, id, e, r)
    PROVE  BindingInv'
<1>1. Offered[h] \subseteq Record
  BY BindingAssumption
<1>2. CanStage(h) /\ staging[h] \in Transaction
  <2>1. CanStage(h)
    BY Zenon DEF Place, RemoveCell, StageBlock, StageReference, StageEntity
  <2> QED BY <2>1 DEF CanStage, BindingInv
<1>3. OwnId(staging[h]) \in CommitId \cup {0}
  BY <1>2 DEF OwnId, Transaction
<1>4. ASSUME NEW c \in Cell, NEW b \in Block, NEW e \in EntityId, NEW r \in Offered[h],
             Place(h, c, b, e, r)
      PROVE  BindingInv'
  BY <1>1, <1>2, <1>3, <1>4, PlacedStage, StageStep DEF Place
<1>5. ASSUME NEW c \in Cell, NEW b \in Block, RemoveCell(h, c, b)
      PROVE  BindingInv'
  BY <1>2, <1>3, <1>5, RemovedStage, StageStep DEF RemoveCell
<1>6. ASSUME NEW id \in CommitId, NEW c \in Cell, NEW b \in Block, StageBlock(h, id, c, b)
      PROVE  BindingInv'
  BY <1>2, <1>6, FieldStage, StageStep DEF StageBlock
<1>7. ASSUME NEW id \in CommitId, NEW c \in Cell, NEW e \in EntityId \cup {Gone},
             StageReference(h, id, c, e)
      PROVE  BindingInv'
  BY <1>2, <1>7, FieldStage, StageStep DEF StageReference
<1>8. ASSUME NEW id \in CommitId, NEW e \in EntityId, NEW r \in Offered[h] \cup {Gone},
             StageEntity(h, id, e, r)
      PROVE  BindingInv'
  BY <1>1, <1>2, <1>8, FieldStage, StageStep DEF StageEntity
<1> QED BY <1>4, <1>5, <1>6, <1>7, <1>8

(* The invariant of bindings holds of every state.                          *)
THEOREM BindingInvariant == BindingSpec => []BindingInv
<1>1. BindingInit => BindingInv
  <2> SUFFICES ASSUME BindingInit PROVE BindingInv
    OBVIOUS
  <2>1. PICK b \in Block : /\ ~NeedsEntity(b)
                          /\ binding = [section |-> [c \in Cell |-> b],
                                        references |-> [c \in Cell |-> None],
                                        entities |-> [e \in EntityId |-> None]]
    BY DEF BindingInit
  <2>2. binding \in BindingState
    BY <2>1 DEF BindingState, ReferenceTable
  <2>3. Valid(binding)
    BY <2>1 DEF Valid
  <2> QED BY <2>2, <2>3 DEF BindingInit, BindingInv
<1>2. ASSUME BindingInv, [BindingNext]_bindingVars
      PROVE  BindingInv'
  <2>1. ASSUME NEW h \in Holder, Begin(h) PROVE BindingInv'
    BY <1>2, <2>1, StepBegin
  <2>2. ASSUME NEW h \in Holder, Publish(h) PROVE BindingInv'
    BY <1>2, <2>2, StepPublish
  <2>3. ASSUME NEW h \in Holder, Discard(h) PROVE BindingInv'
    BY <1>2, <2>3, StepDiscard
  <2>4. CASE UNCHANGED bindingVars
    BY <1>2, <2>4 DEF bindingVars, BindingInv
  <2> QED BY <1>2, <2>1, <2>2, <2>3, <2>4, StepStage DEF BindingNext
<1> QED BY <1>1, <1>2, PTL DEF BindingSpec

(* The three loops of BindingState::validate pair cells and entities: the   *)
(* first two leave no reference without its cell and entity, the third      *)
(* leaves no entity without its one cell.                                   *)
LEMMA ValidPairs ==
    ASSUME BindingInv
    PROVE  PairedOneToOne
<1> DEFINE at == binding.references
           cells == {c \in Cell : NeedsEntity(binding.section[c])}
           live == {e \in EntityId : binding.entities[e] # None}
           by(e) == {c \in Cell : at[c] = e}
<1>1. /\ binding.section \in [Cell -> Block] /\ at \in [Cell -> EntityId \cup {None}]
      /\ binding.entities \in [EntityId -> Record \cup {None}]
  BY DEF BindingInv, BindingState, ReferenceTable
<1>2. {c \in Cell : at[c] # None} = cells
  BY DEF BindingInv, Valid
<1>3. ASSUME NEW c \in cells
      PROVE  /\ at[c] \in live
             /\ binding.entities[at[c]] = [type |-> TypeFor[binding.section[c]], alive |-> TRUE]
  <2>1. c \in Cell /\ at[c] # None /\ at[c] \in EntityId
    BY <1>1, <1>2
  <2>2. /\ binding.entities[at[c]] # None /\ binding.entities[at[c]].alive
        /\ binding.entities[at[c]].type = TypeFor[binding.section[c]]
    BY <2>1 DEF BindingInv, Valid
  <2>3. PICK r \in Record : r = binding.entities[at[c]]
    BY <1>1, <2>1, <2>2
  <2>4. r = [type |-> r.type, alive |-> r.alive] /\ r.alive \in BOOLEAN
    BY DEF Record
  <2>5. r.alive = TRUE
    BY <2>2, <2>3, <2>4
  <2> QED BY <2>1, <2>2, <2>3, <2>4, <2>5
<1>4. ASSUME NEW e \in live
      PROVE  \E c \in cells : by(e) = {c}
  <2>1. Cardinality(by(e)) = 1
    BY DEF BindingInv, Valid, ReferredOnce
  <2>2. IsFiniteSet(by(e))
    BY FS_Subset, BindingAssumption
  <2>3. PICK c : by(e) = {c}
    BY <2>1, <2>2, FS_Singleton
  <2>4. c \in Cell /\ at[c] = e
    BY <2>3
  <2>5. e # None
    BY BindingAssumption
  <2> QED BY <1>2, <2>3, <2>4, <2>5
<1>5. {at[c] : c \in cells} = live
  <2>1. \A e \in live : \E c \in cells : at[c] = e
    BY <1>4
  <2> HIDE DEF at, cells, live
  <2> QED BY <1>3, <2>1
<1>6. Cardinality(cells) = Cardinality(live)
  <2> DEFINE F == [c \in cells |-> at[c]]
  <2>1. \A a, b \in cells : at[a] = at[b] => a = b
    <3> SUFFICES ASSUME NEW a \in cells, NEW b \in cells, at[a] = at[b] PROVE a = b
      OBVIOUS
    <3>1. PICK c \in cells : by(at[a]) = {c}
      BY <1>3, <1>4
    <3>2. a \in by(at[a]) /\ b \in by(at[a])
      OBVIOUS
    <3> QED BY <3>1, <3>2
  <2>2. \A e \in live : \E c \in cells : at[c] = e
    BY <1>4
  <2>3. IsFiniteSet(cells)
    BY FS_Subset, BindingAssumption
  <2> HIDE DEF at, cells, live
  <2>4. F \in [cells -> live] /\ \A a, b \in cells : F[a] = F[b] => a = b
    BY <1>3, <2>1
  <2>5. \A e \in live : \E c \in cells : F[c] = e
    BY <2>2
  <2> HIDE DEF F
  <2>6. F \in Bijection(cells, live)
    BY <2>4, <2>5, Fun_IsBij
  <2>7. ExistsBijection(cells, live)
    BY <2>6, Fun_ExistsBij
  <2> QED BY <2>3, <2>7, FS_Bijection
<1> QED BY <1>2, <1>3, <1>5, <1>6, Zenon DEF PairedOneToOne

(* Whatever is staged and in whatever order, BindingState::validate lets    *)
(* only states in that pair cells and living entities of their types.       *)
THEOREM BoundOneToOne == BindingSpec => []PairedOneToOne
BY BindingInvariant, ValidPairs, PTL

(* What a published transaction did not stage stays as it was: its base is  *)
(* compared under the write lock, so nothing was published in between.      *)
LEMMA PublishStaged ==
    ASSUME BindingInv, NEW h \in Holder, Publish(h), binding' # binding
    PROVE  LET t == staging[h] IN
           /\ staging'[h] = None
           /\ Cardinality(t.used) = 1
           /\ \A c \in Cell :
                 /\ binding'.section[c] # binding.section[c] => t.blocks[c] # None
                 /\ binding'.references[c] # binding.references[c] => t.references[c] # None
           /\ \A e \in EntityId :
                 binding'.entities[e] # binding.entities[e] => t.entities[e] # None
<1>1. PICK t \in Transaction : t = staging[h]
  BY DEF Publish, BindingInv
<1>2. Tidy(t) /\ t.base = binding /\ ~t.split /\ binding' = Applied(t)
  BY <1>1 DEF Publish, Publishable, OnCurrentBase, BindingInv
<1>3. t.used # {}
  BY <1>2, NothingApplied
<1>4. Cardinality(t.used) = 1
  BY <1>2, <1>3, FS_Singleton DEF Tidy
<1>5. staging'[h] = None
  BY DEF Publish, BindingInv
<1>6. \A c \in Cell :
         /\ binding'.section[c] # binding.section[c] => t.blocks[c] # None
         /\ binding'.references[c] # binding.references[c] => t.references[c] # None
  BY <1>2 DEF Applied, Over
<1>7. \A e \in EntityId : binding'.entities[e] # binding.entities[e] => t.entities[e] # None
  BY <1>2 DEF Applied, Over
<1> QED BY <1>1, <1>4, <1>5, <1>6, <1>7

(* Only a publication moves the cut, and it moves what was staged for it    *)
(* under one commit id.                                                     *)
THEOREM StagedOnly == BindingSpec => OnlyStagedChanges
<1> DEFINE Told ==
      binding' # binding =>
        \E h \in {x \in Holder : staging[x] # None /\ staging'[x] = None} :
            LET t == staging[h] IN
            /\ Cardinality(t.used) = 1
            /\ \A c \in Cell :
                  /\ binding'.section[c] # binding.section[c] => t.blocks[c] # None
                  /\ binding'.references[c] # binding.references[c] => t.references[c] # None
            /\ \A e \in EntityId :
                  binding'.entities[e] # binding.entities[e] => t.entities[e] # None
<1>1. ASSUME BindingInv, [BindingNext]_bindingVars, binding' # binding
      PROVE  \E h \in Holder : Publish(h)
  BY <1>1 DEF BindingNext, bindingVars, Begin, Discard, Place, RemoveCell, StageBlock,
              StageReference, StageEntity, Stage
<1>2. ASSUME BindingInv, [BindingNext]_bindingVars
      PROVE  Told
  <2> SUFFICES ASSUME binding' # binding PROVE Told
    OBVIOUS
  <2>1. PICK h \in Holder : Publish(h)
    BY <1>1, <1>2
  <2>2. staging[h] # None
    BY <2>1 DEF Publish
  <2> QED BY <1>2, <2>1, <2>2, PublishStaged
<1>3. BindingInv /\ [BindingNext]_bindingVars => [Told]_bindingVars
  BY <1>2
<1> QED BY <1>3, BindingInvariant, PTL DEF BindingSpec, OnlyStagedChanges
=============================================================================
