---------------------------- MODULE DungeonLevelProofs ----------------------------
(***************************************************************************)
(* Theorems about FirstDungeonLevel and BspLevel, for every size of a      *)
(* level, whatever is drawn. Of the first level: the walk carves a tree    *)
(* that fills the maze, and the flag and any number of hippies are placed  *)
(* well in it. Of the deeper ones: all rooms and passages are joined, the  *)
(* outer wall is whole, and every door stands in a passage.                *)
(***************************************************************************)
EXTENDS FirstDungeonLevel, BspLevel, FiniteSetTheorems, SequenceTheorems, WellFoundedInduction, TLAPS

LEMMA LeastNatural ==
  ASSUME NEW S \in SUBSET Nat, S # {}
  PROVE  \E m \in S : \A k \in S : m <= k
<1>1. IsWellFoundedOn(OpToRel(<, Nat), Nat)
  BY NatLessThanWellFounded
<1>2. PICK m \in S : \A k \in S : ~(<<k, m>> \in OpToRel(<, Nat))
  BY <1>1, WFMin
<1>3. ASSUME NEW k \in S PROVE m <= k
  <2>1. ~(<<k, m>> \in OpToRel(<, Nat))
    BY <1>2
  <2>2. QED
    BY <2>1 DEF OpToRel
<1>4. QED
  BY <1>3

-----------------------------------------------------------------------------
(* The grid. What is carved is maze cells, with both coordinates odd, and    *)
(* links between two of them, with one coordinate odd.                     *)

Points == Int \X Int
IsLink(k) == k \in Points /\ (k[1] + k[2]) % 2 = 1

LEMMA MazeCellParts ==
  ASSUME NEW c \in MazeCells
  PROVE  /\ c \in Points /\ c[1] \in Nat /\ c[2] \in Nat
         /\ c[1] % 2 = 1 /\ c[2] % 2 = 1 /\ ~IsLink(c)
         /\ c[1] > 0 /\ c[1] < MazeWidth /\ c[2] > 0 /\ c[2] < MazeHeight - 1
<1>1. c \in (1..(MazeWidth - 1)) \X (1..(MazeHeight - 2)) /\ c[1] % 2 = 1 /\ c[2] % 2 = 1
  BY DEF MazeCells
<1>2. MazeWidth \in Nat /\ MazeHeight \in Nat
  BY MazeAssumption
<1>3. PICK x \in Nat, y \in Nat : x = c[1] /\ y = c[2] /\ c = <<x, y>>
  BY <1>1, <1>2
<1>4. (x + y) % 2 = 0
  BY <1>1, <1>3
<1>5. QED
  BY <1>1, <1>2, <1>3, <1>4 DEF Points, IsLink

LEMMA ArrivalIsMazeCell == MazeArrival \in MazeCells
  BY MazeAssumption DEF MazeArrival, MazeCells

LEMMA MazeIsFinite == IsFiniteSet(MazeCells)
<1>1. PICK xs, ys : xs = 1..(MazeWidth - 1) /\ ys = 1..(MazeHeight - 2)
  OBVIOUS
<1>2. IsFiniteSet(xs) /\ IsFiniteSet(ys)
  BY <1>1, MazeAssumption, FS_Interval
<1>3. IsFiniteSet(xs \X ys)
  BY <1>2, FS_Product
<1>4. MazeCells \subseteq xs \X ys
  BY <1>1 DEF MazeCells
<1>5. QED
  BY <1>3, <1>4, FS_Subset

LEMMA BesideIs ==
  ASSUME NEW c \in Points, NEW d \in Points
  PROVE  d \in Beside(c) <=>
           \/ d[1] = c[1] - 1 /\ d[2] = c[2]
           \/ d[1] = c[1] + 1 /\ d[2] = c[2]
           \/ d[1] = c[1] /\ d[2] = c[2] - 1
           \/ d[1] = c[1] /\ d[2] = c[2] + 1
<1>1. PICK x \in Int, y \in Int : c = <<x, y>>
  BY DEF Points
<1>2. PICK u \in Int, v \in Int : d = <<u, v>>
  BY DEF Points
<1>3. QED
  BY <1>1, <1>2 DEF Beside

LEMMA BesideIsMutual ==
  ASSUME NEW c \in Points, NEW d \in Points, d \in Beside(c)
  PROVE  c \in Beside(d) /\ c # d
<1>1. c[1] \in Int /\ c[2] \in Int /\ d[1] \in Int /\ d[2] \in Int
  BY DEF Points
<1>2. QED
  BY <1>1, BesideIs

\* Of two cells side by side one is a link.
LEMMA BesideAlternates ==
  ASSUME NEW c \in Points, NEW d \in Points, d \in Beside(c)
  PROVE  IsLink(c) <=> ~IsLink(d)
<1>1. PICK m \in Int, n \in Int : m = c[1] + c[2] /\ n = d[1] + d[2]
  BY DEF Points
<1>2. n = m + 1 \/ n = m - 1
  BY <1>1, BesideIs DEF Points
<1>3. m % 2 = 1 <=> n % 2 # 1
  BY <1>2
<1>4. QED
  BY <1>1, <1>3 DEF IsLink

Midway(c, d) == <<(c[1] + d[1]) \div 2, (c[2] + d[2]) \div 2>>

\* The link to a maze cell beyond another is beside these two and no other.
LEMMA BetweenJoins ==
  ASSUME NEW c \in MazeCells, NEW d \in MazeCells, d \in Beyond(c)
  PROVE  /\ IsLink(Midway(c, d)) /\ c # d
         /\ \A m \in MazeCells : m \in Beside(Midway(c, d)) <=> m = c \/ m = d
<1>1. PICK x \in Int, y \in Int : c = <<x, y>> /\ x = c[1] /\ y = c[2]
  BY MazeCellParts DEF Points
<1>2. PICK u \in Int, v \in Int : d = <<u, v>> /\ u = d[1] /\ v = d[2]
  BY MazeCellParts DEF Points
<1>3. x % 2 = 1 /\ y % 2 = 1 /\ u % 2 = 1 /\ v % 2 = 1
  BY <1>1, <1>2, MazeCellParts
<1>4. \/ u = x - 2 /\ v = y
      \/ u = x + 2 /\ v = y
      \/ u = x /\ v = y - 2
      \/ u = x /\ v = y + 2
  BY <1>1, <1>2 DEF Beyond
<1>5. PICK i \in Int, j \in Int : i = (x + u) \div 2 /\ j = (y + v) \div 2
  OBVIOUS
<1>6. \/ u = x - 2 /\ v = y /\ i = x - 1 /\ j = y
      \/ u = x + 2 /\ v = y /\ i = x + 1 /\ j = y
      \/ u = x /\ v = y - 2 /\ i = x /\ j = y - 1
      \/ u = x /\ v = y + 2 /\ i = x /\ j = y + 1
  BY <1>4, <1>5
<1>7. Midway(c, d) = <<i, j>> /\ <<i, j>> \in Points
  BY <1>1, <1>2, <1>5 DEF Midway, Points
<1>8. (i + j) % 2 = 1
  BY <1>3, <1>6
<1>9. ASSUME NEW m \in MazeCells PROVE m \in Beside(<<i, j>>) <=> m = c \/ m = d
  <2>1. PICK p \in Int, q \in Int : m = <<p, q>> /\ p = m[1] /\ q = m[2]
    BY MazeCellParts DEF Points
  <2>2. p % 2 = 1 /\ q % 2 = 1
    BY <2>1, MazeCellParts
  <2>3. m \in Beside(<<i, j>>) <=>
          \/ p = i - 1 /\ q = j
          \/ p = i + 1 /\ q = j
          \/ p = i /\ q = j - 1
          \/ p = i /\ q = j + 1
    BY <2>1 DEF Beside
  <2>4. m = c \/ m = d <=> (p = x /\ q = y) \/ (p = u /\ q = v)
    BY <1>1, <1>2, <2>1
  <2>5. CASE v = y /\ j = y /\ ((u = x - 2 /\ i = x - 1) \/ (u = x + 2 /\ i = x + 1))
    <3>1. p # i
      BY <1>3, <2>2, <2>5
    <3>2. (p = i - 1 \/ p = i + 1) <=> (p = x \/ p = u)
      BY <2>5
    <3>3. QED
      BY <2>3, <2>4, <2>5, <3>1, <3>2
  <2>6. CASE u = x /\ i = x /\ ((v = y - 2 /\ j = y - 1) \/ (v = y + 2 /\ j = y + 1))
    <3>1. q # j
      BY <1>3, <2>2, <2>6
    <3>2. (q = j - 1 \/ q = j + 1) <=> (q = y \/ q = v)
      BY <2>6
    <3>3. QED
      BY <2>3, <2>4, <2>6, <3>1, <3>2
  <2>7. QED
    BY <1>6, <2>5, <2>6
<1>10. c # d
  BY <1>1, <1>2, <1>4
<1>11. QED
  BY <1>7, <1>8, <1>9, <1>10 DEF IsLink

-----------------------------------------------------------------------------
(* What has been carved is a tree: there is a depth for each cell such that  *)
(* cells side by side are one apart in depth, and each cell but the arrival *)
(* has exactly one neighbour above it.                                     *)

Carved(cells) ==
  /\ IsFiniteSet(cells) /\ MazeArrival \in cells
  /\ \A c \in cells : c \in MazeCells \/ IsLink(c)
  /\ \A k \in cells, m \in MazeCells : IsLink(k) /\ m \in Beside(k) => m \in cells
  /\ Cardinality(cells) = 2 * Cardinality(cells \intersect MazeCells) - 1

Tree(cells, depth) ==
  /\ depth \in [cells -> Nat] /\ depth[MazeArrival] = 0
  /\ \A c, d \in cells : d \in Beside(c) => depth[d] = depth[c] + 1 \/ depth[c] = depth[d] + 1
  /\ \A c \in cells \ {MazeArrival} :
       \E p \in cells : p \in Beside(c) /\ depth[c] = depth[p] + 1
  /\ \A c, p, q \in cells :
       p \in Beside(c) /\ q \in Beside(c) /\ depth[c] = depth[p] + 1 /\ depth[c] = depth[q] + 1
         => p = q

LEMMA CarvedArePoints ==
  ASSUME NEW cells, Carved(cells)
  PROVE  \A c \in cells : c \in Points /\ (c \notin MazeCells => IsLink(c))
  BY MazeCellParts DEF Carved, IsLink

LEMMA FirstCellCarved == Carved({MazeArrival}) /\ Tree({MazeArrival}, [c \in {MazeArrival} |-> 0])
<1>1. PICK a, cells : a = MazeArrival /\ cells = {a}
  OBVIOUS
<1>2. a \in MazeCells /\ a \in Points /\ ~IsLink(a)
  BY <1>1, ArrivalIsMazeCell, MazeCellParts
<1>3. IsFiniteSet(cells) /\ Cardinality(cells) = 1 /\ cells \intersect MazeCells = cells
  BY <1>1, <1>2, FS_Singleton
<1>4. a \notin Beside(a)
  BY <1>2, BesideIsMutual
<1>5. Carved(cells)
  BY <1>1, <1>2, <1>3 DEF Carved
<1>6. Tree(cells, [c \in cells |-> 0])
  BY <1>1, <1>4 DEF Tree
<1>7. QED
  BY <1>1, <1>5, <1>6

\* The cells just dug touch what was carved before at one place only.
LEMMA DugNeighbours ==
  ASSUME NEW cells, Carved(cells), NEW h \in cells \intersect MazeCells,
         NEW n \in MazeCells \ cells, n \in Beyond(h),
         NEW k, k = Midway(h, n)
  PROVE  /\ k \notin cells /\ k # n /\ IsLink(k) /\ k \in Points
         /\ \A m \in MazeCells : m \in Beside(k) <=> m = h \/ m = n
         /\ \A c, d \in cells \union {k, n} :
              d \in Beside(c) <=> \/ c \in cells /\ d \in cells /\ d \in Beside(c)
                                  \/ c = k /\ d \in {h, n}
                                  \/ d = k /\ c \in {h, n}
<1>1. IsLink(k) /\ h # n /\ \A m \in MazeCells : m \in Beside(k) <=> m = h \/ m = n
  BY BetweenJoins
<1>2. k \in Points /\ n \in Points /\ ~IsLink(n) /\ k # n
  BY <1>1, MazeCellParts DEF IsLink
<1>3. k \notin cells
  BY <1>1 DEF Carved
<1>4. \A c \in cells \union {k, n} : c \in Points /\ (c \in MazeCells \/ IsLink(c))
  BY <1>1, <1>2, CarvedArePoints
<1>5. ASSUME NEW c \in cells \union {k, n} PROVE c \in Beside(k) <=> c = h \/ c = n
  <2>1. CASE c \in MazeCells
    BY <1>1, <2>1
  <2>2. CASE IsLink(c)
    <3>1. c \notin Beside(k)
      BY <1>1, <1>2, <1>4, <2>2, BesideAlternates
    <3>2. c # h /\ c # n
      BY <2>2, MazeCellParts
    <3>3. QED
      BY <3>1, <3>2
  <2>3. QED
    BY <1>4, <2>1, <2>2
<1>6. ASSUME NEW c \in cells \union {k, n} PROVE c \in Beside(n) <=> c = k
  <2>1. k \in Beside(n)
    BY <1>1, <1>2, BesideIsMutual
  <2>2. ASSUME c \in Beside(n), c # k PROVE FALSE
    <3>1. n \in Beside(c) /\ c # n
      BY <1>2, <1>4, <2>2, BesideIsMutual
    <3>2. IsLink(c)
      BY <1>2, <1>4, <2>2, BesideAlternates
    <3>3. c \in cells
      BY <2>2, <3>1
    <3>4. QED
      BY <3>1, <3>2, <3>3 DEF Carved
  <2>3. QED
    BY <2>1, <2>2
<1>7. ASSUME NEW c \in cells \union {k, n}, NEW d \in cells \union {k, n}
      PROVE  d \in Beside(c) <=> \/ c \in cells /\ d \in cells /\ d \in Beside(c)
                                 \/ c = k /\ d \in {h, n}
                                 \/ d = k /\ c \in {h, n}
  <2>1. d \in Beside(c) <=> c \in Beside(d)
    BY <1>4, BesideIsMutual
  <2>2. CASE c = k
    BY <1>3, <1>5, <2>2, <1>2, <1>1
  <2>3. CASE c = n
    BY <1>2, <1>6, <2>3
  <2>4. CASE c \in cells /\ d = k
    BY <1>3, <1>5, <2>1, <2>4
  <2>5. CASE c \in cells /\ d = n
    BY <1>2, <1>3, <1>6, <2>1, <2>5
  <2>6. CASE c \in cells /\ d \in cells
    BY <1>3, <2>6
  <2>7. QED
    BY <2>2, <2>3, <2>4, <2>5, <2>6
<1>8. QED
  BY <1>1, <1>2, <1>3, <1>7

LEMMA DiggingCarves ==
  ASSUME NEW cells, Carved(cells), NEW h \in cells \intersect MazeCells,
         NEW n \in MazeCells \ cells, n \in Beyond(h)
  PROVE  Carved(cells \union {Midway(h, n), n})
<1>1. PICK k, dug : k = Midway(h, n) /\ dug = cells \union {k, n}
  OBVIOUS
<1>2. k \notin cells /\ k # n /\ IsLink(k)
      /\ \A m \in MazeCells : m \in Beside(k) <=> m = h \/ m = n
  BY <1>1, DugNeighbours
<1>3. k \notin MazeCells /\ ~IsLink(n)
  BY <1>2, MazeCellParts
<1>4. IsFiniteSet(cells) /\ IsFiniteSet(cells \intersect MazeCells)
  BY MazeIsFinite, FS_Intersection DEF Carved
<1>5. PICK i, j : i = Cardinality(cells) /\ j = Cardinality(cells \intersect MazeCells)
  OBVIOUS
<1>6. i \in Nat /\ j \in Nat /\ i = 2 * j - 1
  BY <1>4, <1>5, FS_CardinalityType DEF Carved
<1>7. IsFiniteSet(dug) /\ Cardinality(dug) = i + 2
  <2>1. IsFiniteSet(cells \union {k}) /\ Cardinality(cells \union {k}) = i + 1
    BY <1>2, <1>4, <1>5, FS_AddElement
  <2>2. n \notin cells \union {k} /\ dug = (cells \union {k}) \union {n}
    BY <1>1, <1>2
  <2>3. IsFiniteSet(dug) /\ Cardinality(dug) = i + 1 + 1
    BY <2>1, <2>2, FS_AddElement
  <2>4. QED
    BY <1>6, <2>3
<1>8. Cardinality(dug \intersect MazeCells) = j + 1
  <2>1. dug \intersect MazeCells = (cells \intersect MazeCells) \union {n}
    BY <1>1, <1>3
  <2>2. QED
    BY <1>4, <1>5, <2>1, FS_AddElement
<1>9. Cardinality(dug) = 2 * Cardinality(dug \intersect MazeCells) - 1
  BY <1>6, <1>7, <1>8
<1>10. ASSUME NEW c \in dug, NEW m \in MazeCells, IsLink(c), m \in Beside(c) PROVE m \in dug
  BY <1>1, <1>2, <1>3, <1>10 DEF Carved
<1>11. \A c \in dug : c \in MazeCells \/ IsLink(c)
  BY <1>1, <1>2 DEF Carved
<1>12. MazeArrival \in dug
  BY <1>1 DEF Carved
<1>13. Carved(dug)
  BY <1>7, <1>9, <1>10, <1>11, <1>12 DEF Carved
<1>14. QED
  BY <1>1, <1>13

LEMMA DiggingBranches ==
  ASSUME NEW cells, Carved(cells), NEW h \in cells \intersect MazeCells,
         NEW n \in MazeCells \ cells, n \in Beyond(h), NEW depth, Tree(cells, depth)
  PROVE  \E deeper : Tree(cells \union {Midway(h, n), n}, deeper)
<1>1. PICK k, dug : k = Midway(h, n) /\ dug = cells \union {k, n}
  OBVIOUS
<1>2. /\ k \notin cells /\ k # n
      /\ \A c, d \in dug :
           d \in Beside(c) <=> \/ c \in cells /\ d \in cells /\ d \in Beside(c)
                               \/ c = k /\ d \in {h, n}
                               \/ d = k /\ c \in {h, n}
  BY <1>1, DugNeighbours
<1>3. depth \in [cells -> Nat] /\ depth[h] \in Nat /\ h \in cells /\ n \notin cells
  BY DEF Tree
<1>4. PICK t : t = [c \in dug |-> IF c \in cells THEN depth[c]
                                   ELSE IF c = k THEN depth[h] + 1 ELSE depth[h] + 2]
  OBVIOUS
<1>5. /\ t \in [dug -> Nat] /\ t[k] = t[h] + 1 /\ t[n] = t[k] + 1
      /\ \A c \in cells : t[c] = depth[c]
  BY <1>1, <1>2, <1>3, <1>4
<1>6. MazeArrival \in cells /\ t[MazeArrival] = 0
  BY <1>5 DEF Carved, Tree
<1>7. ASSUME NEW c \in dug, NEW d \in dug, d \in Beside(c)
      PROVE  t[d] = t[c] + 1 \/ t[c] = t[d] + 1
  <2>1. CASE c \in cells /\ d \in cells
    BY <1>5, <1>7, <2>1 DEF Tree
  <2>2. CASE c = k /\ d \in {h, n}
    BY <1>5, <2>2
  <2>3. CASE d = k /\ c \in {h, n}
    BY <1>5, <2>3
  <2>4. QED
    BY <1>2, <1>7, <2>1, <2>2, <2>3
<1>8. ASSUME NEW c \in dug \ {MazeArrival}
      PROVE  \E p \in dug : p \in Beside(c) /\ t[c] = t[p] + 1
  <2>1. CASE c \in cells
    <3>1. PICK p \in cells : p \in Beside(c) /\ depth[c] = depth[p] + 1
      BY <1>8, <2>1 DEF Tree
    <3>2. QED
      BY <1>1, <1>5, <2>1, <3>1
  <2>2. CASE c = k
    BY <1>1, <1>2, <1>3, <1>5, <2>2
  <2>3. CASE c = n
    BY <1>1, <1>2, <1>3, <1>5, <2>3
  <2>4. QED
    BY <1>1, <2>1, <2>2, <2>3
<1>9. ASSUME NEW c \in dug, NEW p \in dug, NEW q \in dug, p \in Beside(c), q \in Beside(c),
             t[c] = t[p] + 1, t[c] = t[q] + 1
      PROVE  p = q
  <2>1. \A r \in dug : t[r] \in Nat
    BY <1>5
  <2>2. CASE c = k
    <3>1. p \in {h, n} /\ q \in {h, n}
      BY <1>2, <1>9, <2>2
    <3>2. p # n /\ q # n
      BY <1>5, <1>9, <2>1, <2>2
    <3>3. QED
      BY <3>1, <3>2
  <2>3. CASE c = n
    <3>1. p = k /\ q = k
      BY <1>2, <1>3, <1>9, <2>3
    <3>2. QED
      BY <3>1
  <2>4. CASE c \in cells
    <3>1. p # k /\ q # k
      <4>1. ASSUME NEW r \in dug, r \in Beside(c), t[c] = t[r] + 1, r = k PROVE FALSE
        <5>1. c = h
          BY <1>2, <1>3, <2>4, <4>1
        <5>2. t[h] \in Nat
          BY <2>1, <5>1
        <5>3. QED
          BY <1>5, <4>1, <5>1, <5>2
      <4>2. QED
        BY <1>9, <4>1
    <3>2. p \in cells /\ q \in cells
      BY <1>2, <1>9, <2>4, <3>1
    <3>3. depth[c] = depth[p] + 1 /\ depth[c] = depth[q] + 1
      BY <1>5, <1>9, <2>4, <3>2
    <3>4. QED
      BY <1>9, <2>4, <3>2, <3>3 DEF Tree
  <2>5. QED
    BY <1>1, <2>2, <2>3, <2>4
<1>10. Tree(dug, t)
  BY <1>5, <1>6, <1>7, <1>8, <1>9 DEF Tree
<1>11. QED
  BY <1>1, <1>10

-----------------------------------------------------------------------------
(* What is reached.                                                        *)

Flooded(free, r) ==
  LET more == free \cap UNION {Beside(c) : c \in r}
  IN  IF more \subseteq r THEN r ELSE r \cup more

Floods(free, start, r, n) ==
  r = [k \in 0..n |-> IF k = 0 THEN {start} ELSE Flooded(free, r[k - 1])]

LEMMA FloodsExist ==
  ASSUME NEW free, NEW start, NEW n \in Nat
  PROVE  \E r : Floods(free, start, r, n)
<1> DEFINE Failing == {k \in Nat : ~ \E r : Floods(free, start, r, k)}
<1> SUFFICES Failing = {}
  OBVIOUS
<1>1. SUFFICES ASSUME Failing # {} PROVE FALSE
  OBVIOUS
<1>2. PICK m \in Failing : \A k \in Failing : m <= k
  BY <1>1, LeastNatural
<1>3. CASE m = 0
  <2>1. Floods(free, start, [k \in 0..0 |-> {start}], 0)
    BY DEF Floods
  <2>2. QED
    BY <1>3, <2>1
<1>4. CASE m # 0
  <2>1. m - 1 \in Nat /\ m - 1 \notin Failing
    BY <1>2, <1>4
  <2>2. PICK r : Floods(free, start, r, m - 1)
    BY <2>1
  <2> DEFINE g == [k \in 0..m |-> IF k < m THEN r[k] ELSE Flooded(free, r[m - 1])]
  <2>3. ASSUME NEW k \in 0..m
        PROVE  g[k] = IF k = 0 THEN {start} ELSE Flooded(free, g[k - 1])
    <3>1. CASE k = 0
      BY <1>2, <1>4, <2>2, <3>1 DEF Floods
    <3>2. CASE k # 0 /\ k < m
      <4>1. k \in 0..(m - 1) /\ k - 1 \in 0..m /\ k - 1 < m
        BY <1>2, <3>2
      <4>2. g[k] = r[k] /\ g[k - 1] = r[k - 1]
        BY <3>2, <4>1
      <4>3. r[k] = Flooded(free, r[k - 1])
        BY <2>2, <3>2, <4>1 DEF Floods
      <4>4. QED
        BY <3>2, <4>2, <4>3
    <3>3. CASE k = m
      <4>1. g[m - 1] = r[m - 1]
        BY <1>2, <1>4
      <4>2. QED
        BY <1>2, <1>4, <3>3, <4>1
    <3>4. QED
      BY <1>2, <3>1, <3>2, <3>3
  <2>4. Floods(free, start, g, m)
    BY <2>3 DEF Floods
  <2>5. QED
    BY <2>4
<1>5. QED
  BY <1>3, <1>4

Shut(free, r) == \A c \in r, d \in free : d \in Beside(c) => d \in r

LEMMA FloodingGrows ==
  ASSUME NEW free, NEW r, r \subseteq free, IsFiniteSet(free)
  PROVE  /\ r \subseteq Flooded(free, r) /\ Flooded(free, r) \subseteq free
         /\ Shut(free, r) => Flooded(free, r) = r
         /\ Shut(free, r) \/ Cardinality(Flooded(free, r)) > Cardinality(r)
<1> DEFINE near == UNION {Beside(c) : c \in r}
<1>1. \A d : d \in near <=> \E c \in r : d \in Beside(c)
  OBVIOUS
<1>2. Flooded(free, r) = IF free \cap near \subseteq r THEN r ELSE r \cup (free \cap near)
  BY DEF Flooded
<1> HIDE DEF near
<1>3. PICK more, wide : /\ more = free \cap near
                        /\ wide = IF more \subseteq r THEN r ELSE r \union more
  OBVIOUS
<1>4. Flooded(free, r) = wide /\ \A d : d \in more <=> d \in free /\ \E c \in r : d \in Beside(c)
  BY <1>1, <1>2, <1>3
<1>5. Shut(free, r) <=> more \subseteq r
  BY <1>4 DEF Shut
<1>6. r \subseteq wide /\ wide \subseteq free /\ (Shut(free, r) => wide = r)
  BY <1>3, <1>4, <1>5
<1>7. ASSUME ~Shut(free, r) PROVE Cardinality(wide) > Cardinality(r)
  <2>1. IsFiniteSet(wide) /\ r # wide
    BY <1>3, <1>5, <1>6, <1>7, FS_Subset
  <2>2. Cardinality(r) \in Nat /\ Cardinality(wide) \in Nat
    BY <1>6, <2>1, FS_Subset, FS_CardinalityType
  <2>3. Cardinality(r) <= Cardinality(wide) /\ Cardinality(r) # Cardinality(wide)
    BY <1>6, <2>1, FS_Subset
  <2>4. QED
    BY <2>2, <2>3
<1>8. QED
  BY <1>4, <1>6, <1>7

LEMMA ReachedIsShut ==
  ASSUME NEW free, IsFiniteSet(free), NEW start \in free
  PROVE  start \in Reached(free, start) /\ Reached(free, start) \subseteq free
         /\ Shut(free, Reached(free, start))
<1>1. PICK n \in Nat : n = Cardinality(free)
  BY FS_CardinalityType
<1> DEFINE r == CHOOSE f : Floods(free, start, f, n)
<1>2. Floods(free, start, r, n)
  BY FloodsExist
<1>3. Reached(free, start) = r[n]
  BY <1>1 DEF Reached, Floods, Flooded
<1> HIDE DEF r
<1> DEFINE Fine(k) == /\ start \in r[k] /\ r[k] \subseteq free
                      /\ Shut(free, r[k]) \/ Cardinality(r[k]) > k
           Failing == {k \in 0..n : ~ Fine(k)}
<1>4. Failing = {}
  <2>1. SUFFICES ASSUME Failing # {} PROVE FALSE
    OBVIOUS
  <2>2. PICK m \in Failing : \A k \in Failing : m <= k
    <3>1. Failing \in SUBSET Nat
      OBVIOUS
    <3>2. QED
      BY <2>1, <3>1, LeastNatural
  <2>3. CASE m = 0
    <3>1. r[0] = {start}
      BY <1>2 DEF Floods
    <3>2. Cardinality({start}) = 1
      BY FS_Singleton
    <3>3. QED
      BY <2>2, <2>3, <3>1, <3>2
  <2>4. CASE m # 0
    <3>1. m \in 0..n /\ m - 1 \in 0..n /\ m - 1 \notin Failing
      BY <2>2, <2>4
    <3>2. Fine(m - 1)
      BY <3>1
    <3>3. PICK s, t : s = r[m - 1] /\ t = Flooded(free, s)
      OBVIOUS
    <3>4. r[m] = t
      BY <1>2, <2>4, <3>1, <3>3 DEF Floods
    <3>5. s \subseteq free /\ start \in s
      BY <3>2, <3>3
    <3>6. /\ s \subseteq t /\ t \subseteq free /\ (Shut(free, s) => t = s)
          /\ Shut(free, s) \/ Cardinality(t) > Cardinality(s)
      BY <3>3, <3>5, FloodingGrows
    <3>7. Cardinality(s) \in Nat /\ Cardinality(t) \in Nat
      BY <3>5, <3>6, FS_Subset, FS_CardinalityType
    <3>8. Shut(free, t) \/ Cardinality(t) > m
      <4>1. CASE Shut(free, s)
        BY <3>6, <4>1
      <4>2. CASE ~Shut(free, s)
        <5>1. Cardinality(s) > m - 1 /\ Cardinality(t) > Cardinality(s)
          BY <3>2, <3>3, <3>6, <4>2
        <5>2. QED
          BY <3>1, <3>7, <5>1
      <4>3. QED
        BY <4>1, <4>2
    <3>9. Fine(m)
      BY <3>4, <3>5, <3>6, <3>8
    <3>10. QED
      BY <2>2, <3>9
  <2>5. QED
    BY <2>3, <2>4
<1>5. Fine(n)
  BY <1>4
<1>6. Shut(free, r[n])
  <2>1. PICK s : s = r[n]
    OBVIOUS
  <2>2. Cardinality(s) \in Nat /\ Cardinality(s) <= n
    BY <1>1, <1>5, <2>1, FS_Subset, FS_CardinalityType
  <2>3. QED
    BY <1>5, <2>1, <2>2
<1>7. QED
  BY <1>3, <1>5, <1>6

\* Where every cell but the first has a neighbour that lies higher, all is reached.
LEMMA AllIsReached ==
  ASSUME NEW free, IsFiniteSet(free), NEW start \in free, NEW depth \in [free -> Nat],
         \A c \in free \ {start} : \E p \in free : c \in Beside(p) /\ depth[p] < depth[c]
  PROVE  Reached(free, start) = free
<1>1. PICK R : R = Reached(free, start)
  OBVIOUS
<1>2. start \in R /\ R \subseteq free /\ Shut(free, R)
  BY <1>1, ReachedIsShut
<1> DEFINE Missed == {depth[c] : c \in free \ R}
<1>3. ASSUME free \ R # {} PROVE FALSE
  <2>1. Missed \in SUBSET Nat /\ Missed # {}
    BY <1>3
  <2>2. PICK m \in Missed : \A k \in Missed : m <= k
    BY <2>1, LeastNatural
  <2>3. PICK c \in free \ R : depth[c] = m
    BY <2>2
  <2>4. PICK p \in free : c \in Beside(p) /\ depth[p] < depth[c]
    BY <1>2, <2>3
  <2>5. p \in R
    <3>1. ASSUME p \notin R PROVE FALSE
      <4>1. depth[p] \in Missed
        BY <3>1
      <4>2. m <= depth[p] /\ depth[p] \in Nat /\ m \in Nat
        BY <2>1, <2>2, <4>1
      <4>3. QED
        BY <2>3, <2>4, <4>2
    <3>2. QED
      BY <3>1
  <2>6. QED
    BY <1>2, <2>3, <2>4, <2>5 DEF Shut
<1>4. QED
  BY <1>1, <1>2, <1>3

-----------------------------------------------------------------------------
(* Distances are depths.                                                   *)

Ahead(cells, r, n) ==
  LET ahead == {c \in cells \ DOMAIN r : Beside(c) \cap DOMAIN r # {}}
  IN  [c \in DOMAIN r \cup ahead |-> IF c \in ahead THEN n ELSE r[c]]

Measures(cells, r, n) ==
  r = [k \in 0..n |-> IF k = 0 THEN [c \in {MazeArrival} |-> 0] ELSE Ahead(cells, r[k - 1], k)]

LEMMA MeasuresExist ==
  ASSUME NEW cells, NEW n \in Nat
  PROVE  \E r : Measures(cells, r, n)
<1> DEFINE first == [c \in {MazeArrival} |-> 0]
<1> DEFINE Failing == {k \in Nat : ~ \E r : Measures(cells, r, k)}
<1> SUFFICES Failing = {}
  OBVIOUS
<1>1. SUFFICES ASSUME Failing # {} PROVE FALSE
  OBVIOUS
<1>2. PICK m \in Failing : \A k \in Failing : m <= k
  BY <1>1, LeastNatural
<1>3. CASE m = 0
  <2>1. Measures(cells, [k \in 0..0 |-> first], 0)
    BY DEF Measures
  <2>2. QED
    BY <1>3, <2>1
<1>4. CASE m # 0
  <2>1. m - 1 \in Nat /\ m - 1 \notin Failing
    BY <1>2, <1>4
  <2>2. PICK r : Measures(cells, r, m - 1)
    BY <2>1
  <2> DEFINE g == [k \in 0..m |-> IF k < m THEN r[k] ELSE Ahead(cells, r[m - 1], m)]
  <2> HIDE DEF first
  <2>3. ASSUME NEW k \in 0..m
        PROVE  g[k] = IF k = 0 THEN first ELSE Ahead(cells, g[k - 1], k)
    <3>1. CASE k = 0
      BY <1>2, <1>4, <2>2, <3>1 DEF Measures, first
    <3>2. CASE k # 0 /\ k < m
      <4>1. k \in 0..(m - 1) /\ k - 1 \in 0..m /\ k - 1 < m
        BY <1>2, <3>2
      <4>2. g[k] = r[k] /\ g[k - 1] = r[k - 1]
        BY <3>2, <4>1
      <4>3. r[k] = Ahead(cells, r[k - 1], k)
        BY <2>2, <3>2, <4>1 DEF Measures
      <4>4. QED
        BY <3>2, <4>2, <4>3
    <3>3. CASE k = m
      <4>1. g[m - 1] = r[m - 1]
        BY <1>2, <1>4
      <4>2. QED
        BY <1>2, <1>4, <3>3, <4>1
    <3>4. QED
      BY <1>2, <3>1, <3>2, <3>3
  <2>4. Measures(cells, g, m)
    BY <2>3 DEF Measures, first
  <2>5. QED
    BY <2>4
<1>5. QED
  BY <1>3, <1>4

\* Every depth down to that of a cell occurs, so that there are no more than cells.
LEMMA DepthsAreBounded ==
  ASSUME NEW cells, Carved(cells), NEW depth, Tree(cells, depth), NEW c \in cells
  PROVE  depth[c] < Cardinality(cells)
<1>1. PICK n \in Nat : n = depth[c]
  BY DEF Tree
<1>2. depth \in [cells -> Nat]
  BY DEF Tree
<1>3. ASSUME NEW j \in 0..n PROVE \E e \in cells : depth[e] = j
  <2> DEFINE Below == {depth[e] : e \in {e \in cells : depth[e] >= j}}
  <2>1. Below \in SUBSET Nat /\ n \in Below
    BY <1>1, <1>2
  <2>2. PICK m \in Below : \A k \in Below : m <= k
    BY <2>1, LeastNatural
  <2>3. PICK e \in cells : depth[e] = m /\ m >= j /\ m \in Nat
    BY <1>2, <2>2
  <2>4. CASE m = j
    BY <2>3, <2>4
  <2>5. CASE m # j
    <3>1. e # MazeArrival
      BY <1>3, <2>3, <2>5 DEF Tree
    <3>2. PICK p \in cells : depth[e] = depth[p] + 1
      BY <2>3, <3>1 DEF Tree
    <3>3. depth[p] \in Nat /\ depth[p] >= j
      BY <1>2, <1>3, <2>3, <2>5, <3>2
    <3>4. depth[p] \in Below
      BY <3>2, <3>3
    <3>5. m <= depth[p]
      BY <2>2, <3>4
    <3>6. QED
      BY <2>3, <3>2, <3>3, <3>5
  <2>6. QED
    BY <2>4, <2>5
<1>4. PICK f : f = [j \in 0..n |-> CHOOSE e \in cells : depth[e] = j]
  OBVIOUS
<1>5. \A j \in 0..n : f[j] \in cells /\ depth[f[j]] = j
  BY <1>3, <1>4
<1>6. f \in Injection(0..n, cells)
  BY <1>4, <1>5 DEF Injection, IsInjective
<1>7. IsFiniteSet(cells)
  BY DEF Carved
<1>8. Cardinality(0..n) <= Cardinality(cells) /\ Cardinality(0..n) = n + 1
  BY <1>6, <1>7, FS_Injection, FS_Interval
<1>9. Cardinality(cells) \in Nat
  BY <1>7, FS_CardinalityType
<1>10. QED
  BY <1>1, <1>8, <1>9

LEMMA MeasuredIsDepth ==
  ASSUME NEW cells, Carved(cells), NEW depth, Tree(cells, depth),
         NEW n \in Nat, NEW r, Measures(cells, r, n)
  PROVE  \A k \in 0..n :
           /\ DOMAIN r[k] = {c \in cells : depth[c] <= k}
           /\ \A c \in DOMAIN r[k] : r[k][c] = depth[c]
<1> DEFINE Fine(k) == /\ DOMAIN r[k] = {c \in cells : depth[c] <= k}
                      /\ \A c \in DOMAIN r[k] : r[k][c] = depth[c]
           Failing == {k \in 0..n : ~ Fine(k)}
<1>1. SUFFICES ASSUME Failing # {} PROVE FALSE
  OBVIOUS
<1>2. PICK m \in Failing : \A k \in Failing : m <= k
  <2>1. Failing \in SUBSET Nat
    OBVIOUS
  <2>2. QED
    BY <1>1, <2>1, LeastNatural
<1>3. depth \in [cells -> Nat] /\ depth[MazeArrival] = 0 /\ MazeArrival \in cells
  BY DEF Tree, Carved
<1>4. CASE m = 0
  <2>1. r[0] = [c \in {MazeArrival} |-> 0]
    BY DEF Measures
  <2>2. ASSUME NEW c \in cells, depth[c] <= 0 PROVE c = MazeArrival
    <3>1. ASSUME c # MazeArrival PROVE FALSE
      <4>1. PICK p \in cells : depth[c] = depth[p] + 1
        BY <3>1 DEF Tree
      <4>2. depth[p] \in Nat
        BY <1>3
      <4>3. QED
        BY <2>2, <4>1, <4>2
    <3>2. QED
      BY <3>1
  <2>3. DOMAIN r[0] = {c \in cells : depth[c] <= 0}
    BY <1>3, <2>1, <2>2
  <2>4. \A c \in DOMAIN r[0] : r[0][c] = depth[c]
    BY <1>3, <2>1
  <2>5. QED
    BY <1>2, <1>4, <2>3, <2>4
<1>5. CASE m # 0
  <2>1. m \in 0..n /\ m - 1 \in 0..n /\ m - 1 \notin Failing
    BY <1>2, <1>5
  <2>2. PICK s, t : s = r[m - 1] /\ t = r[m]
    OBVIOUS
  <2>3. /\ DOMAIN s = {c \in cells : depth[c] <= m - 1}
        /\ \A c \in DOMAIN s : s[c] = depth[c]
    BY <2>1, <2>2
  <2>4. PICK ahead : ahead = {c \in cells \ DOMAIN s : Beside(c) \cap DOMAIN s # {}}
    OBVIOUS
  <2>5. t = [c \in DOMAIN s \cup ahead |-> IF c \in ahead THEN m ELSE s[c]]
    <3>1. t = Ahead(cells, s, m)
      BY <1>5, <2>1, <2>2 DEF Measures
    <3>2. QED
      BY <2>4, <3>1 DEF Ahead
  <2>6. ASSUME NEW c \in cells PROVE c \in ahead <=> depth[c] = m
    <3>1. depth[c] \in Nat /\ m \in Nat
      BY <1>3, <2>1
    <3>2. ASSUME c \in ahead PROVE depth[c] = m
      <4>1. PICK p \in DOMAIN s : p \in Beside(c) /\ c \notin DOMAIN s
        BY <2>4, <3>2
      <4>2. p \in cells /\ depth[p] <= m - 1 /\ ~(depth[c] <= m - 1)
        BY <2>3, <4>1
      <4>3. depth[p] = depth[c] + 1 \/ depth[c] = depth[p] + 1
        BY <4>1, <4>2 DEF Tree
      <4>4. depth[p] \in Nat
        BY <1>3, <4>2
      <4>5. QED
        BY <3>1, <4>2, <4>3, <4>4
    <3>3. ASSUME depth[c] = m PROVE c \in ahead
      <4>1. c # MazeArrival
        BY <1>3, <1>5, <3>3
      <4>2. PICK p \in cells : p \in Beside(c) /\ depth[c] = depth[p] + 1
        BY <4>1 DEF Tree
      <4>3. depth[p] \in Nat
        BY <1>3
      <4>4. p \in DOMAIN s
        BY <2>3, <3>1, <3>3, <4>2, <4>3
      <4>5. c \notin DOMAIN s
        BY <2>3, <3>1, <3>3
      <4>6. QED
        BY <2>4, <4>2, <4>4, <4>5
    <3>4. QED
      BY <3>2, <3>3
  <2>7. DOMAIN t = DOMAIN s \cup ahead /\ ahead \subseteq cells
    BY <2>4, <2>5
  <2>8. ASSUME NEW c \in cells PROVE c \in DOMAIN t <=> depth[c] <= m
    <3>1. depth[c] \in Nat /\ m \in Nat
      BY <1>3, <2>1
    <3>2. c \in DOMAIN t <=> depth[c] <= m - 1 \/ depth[c] = m
      BY <2>3, <2>6, <2>7
    <3>3. QED
      BY <3>1, <3>2
  <2>9. DOMAIN t \subseteq cells
    BY <2>3, <2>7
  <2>10. \A c \in DOMAIN t : t[c] = depth[c]
    BY <2>3, <2>5, <2>6, <2>7
  <2>11. DOMAIN t = {c \in cells : depth[c] <= m}
    BY <2>8, <2>9
  <2>12. QED
    BY <1>2, <2>2, <2>10, <2>11
<1>6. QED
  BY <1>4, <1>5

LEMMA DistancesAreDepths ==
  ASSUME Carved(corridor), NEW depth, Tree(corridor, depth)
  PROVE  CorridorDistances = depth
<1>1. PICK n \in Nat : n = Cardinality(corridor)
  BY FS_CardinalityType DEF Carved
<1> DEFINE r == CHOOSE f : Measures(corridor, f, n)
<1>2. Measures(corridor, r, n)
  BY MeasuresExist
<1>3. CorridorDistances = r[n]
  BY <1>1 DEF CorridorDistances, Measures, Ahead
<1> HIDE DEF r
<1>4. PICK d : d = r[n]
  OBVIOUS
<1>5. /\ DOMAIN d = {c \in corridor : depth[c] <= n}
      /\ \A c \in DOMAIN d : d[c] = depth[c]
  <2>1. n \in 0..n
    OBVIOUS
  <2>2. QED
    BY <1>2, <1>4, <2>1, MeasuredIsDepth
<1>6. d = [c \in DOMAIN d |-> d[c]]
  <2>1. d = Ahead(corridor, r[n - 1], n) \/ d = [c \in {MazeArrival} |-> 0]
    BY <1>2, <1>4 DEF Measures
  <2>2. QED
    BY <2>1 DEF Ahead
<1>7. DOMAIN d = corridor
  <2>1. \A c \in corridor : depth[c] < n /\ depth[c] \in Nat
    BY <1>1, DepthsAreBounded DEF Tree
  <2>2. QED
    BY <1>5, <2>1
<1>8. depth = [c \in corridor |-> depth[c]]
  BY DEF Tree
<1>9. d = depth
  BY <1>5, <1>6, <1>7, <1>8
<1>10. QED
  BY <1>3, <1>4, <1>9

-----------------------------------------------------------------------------
(* When the walk is over the maze is full and its farthest cell a dead end.  *)

Explored(cells, c) == MazeCells \cap Beyond(c) \subseteq cells

LEMMA MazeIsFilled ==
  ASSUME NEW cells, Carved(cells), \A c \in cells \intersect MazeCells : Explored(cells, c)
  PROVE  MazeCells \subseteq cells
<1> DEFINE Left == {c[1] + c[2] : c \in MazeCells \ cells}
<1>1. SUFFICES ASSUME MazeCells \ cells # {} PROVE FALSE
  OBVIOUS
<1>2. Left \in SUBSET Nat /\ Left # {}
  <2>1. \A c \in MazeCells : c[1] + c[2] \in Nat
    BY MazeCellParts
  <2>2. QED
    BY <1>1, <2>1
<1>3. PICK m \in Left : \A k \in Left : m <= k
  BY <1>2, LeastNatural
<1>4. PICK c \in MazeCells \ cells : c[1] + c[2] = m
  BY <1>3
<1>5. PICK x \in Nat, y \in Nat : c = <<x, y>> /\ x = c[1] /\ y = c[2]
  BY MazeCellParts DEF Points
<1>6. /\ x % 2 = 1 /\ y % 2 = 1 /\ x > 0 /\ x < MazeWidth /\ y > 0 /\ y < MazeHeight - 1
      /\ MazeWidth \in Nat /\ MazeHeight \in Nat
  BY <1>5, MazeCellParts, MazeAssumption
<1>7. c # MazeArrival
  BY <1>4 DEF Carved
<1>8. x # 1 \/ y # 1
  BY <1>5, <1>7 DEF MazeArrival
<1>9. \E d \in MazeCells : c \in Beyond(d) /\ d[1] + d[2] < x + y
  <2>1. CASE x # 1
    <3>1. PICK u \in Nat : u = x - 2 /\ u % 2 = 1 /\ u > 0
      BY <1>6, <2>1
    <3>2. PICK d : d = <<u, y>>
      OBVIOUS
    <3>3. d \in MazeCells
      BY <1>6, <3>1, <3>2 DEF MazeCells
    <3>4. c \in Beyond(d)
      BY <1>5, <3>1, <3>2 DEF Beyond
    <3>5. QED
      BY <3>1, <3>2, <3>3, <3>4
  <2>2. CASE y # 1
    <3>1. PICK v \in Nat : v = y - 2 /\ v % 2 = 1 /\ v > 0
      BY <1>6, <2>2
    <3>2. PICK d : d = <<x, v>>
      OBVIOUS
    <3>3. d \in MazeCells
      BY <1>6, <3>1, <3>2 DEF MazeCells
    <3>4. c \in Beyond(d)
      BY <1>5, <3>1, <3>2 DEF Beyond
    <3>5. QED
      BY <3>1, <3>2, <3>3, <3>4
  <2>3. QED
    BY <1>8, <2>1, <2>2
<1>10. PICK d \in MazeCells : c \in Beyond(d) /\ d[1] + d[2] < x + y
  BY <1>9
<1>11. d \notin cells
  BY <1>4, <1>10 DEF Explored
<1>12. m <= d[1] + d[2]
  BY <1>3, <1>11
<1>13. d[1] \in Nat /\ d[2] \in Nat
  BY MazeCellParts
<1>14. QED
  BY <1>4, <1>5, <1>10, <1>12, <1>13

\* Of finitely many cells one is the last in the order by distance.
LEMMA LastIsThere ==
  ASSUME NEW S, IsFiniteSet(S), S # {}, S \subseteq Points,
         NEW cells, S \subseteq cells, NEW dist \in [cells -> Nat]
  PROVE  \E c \in S : \A d \in S : Nearer(dist, d, c)
<1> DEFINE After(c) == {d \in S : ~Nearer(dist, d, c)}
<1>1. \A c \in S : dist[c] \in Nat /\ c[1] \in Int /\ c[2] \in Int
  BY DEF Points
<1>2. \A c \in S : IsFiniteSet(After(c)) /\ Cardinality(After(c)) \in Nat
  <2>1. SUFFICES ASSUME NEW c \in S PROVE IsFiniteSet(After(c)) /\ Cardinality(After(c)) \in Nat
    OBVIOUS
  <2>2. PICK A : A = After(c)
    OBVIOUS
  <2>3. A \subseteq S
    BY <2>2
  <2>4. QED
    BY <2>2, <2>3, FS_Subset, FS_CardinalityType
<1> DEFINE Counts == {Cardinality(After(c)) : c \in S}
<1>3. PICK m \in Counts : \A k \in Counts : m <= k
  <2>1. Counts \in SUBSET Nat /\ Counts # {}
    BY <1>2
  <2>2. QED
    BY <2>1, LeastNatural
<1>4. PICK c \in S : m = Cardinality(After(c))
  BY <1>3
<1>5. ASSUME NEW d \in S, ~Nearer(dist, d, c) PROVE FALSE
  <2>1. Nearer(dist, c, d) /\ Nearer(dist, d, d)
    BY <1>1, <1>5 DEF Nearer
  <2>2. ASSUME NEW e \in S, Nearer(dist, e, c) PROVE Nearer(dist, e, d)
    <3>1. PICK i \in Nat, j \in Nat, k \in Nat : i = dist[e] /\ j = dist[c] /\ k = dist[d]
      BY <1>1
    <3>2. QED
      BY <1>1, <2>1, <2>2, <3>1 DEF Nearer
  <2>3. PICK A, B : A = After(c) /\ B = After(d)
    OBVIOUS
  <2>4. B \subseteq A /\ d \in A /\ d \notin B
    BY <1>5, <2>1, <2>2, <2>3
  <2>5. IsFiniteSet(A) /\ Cardinality(A) \in Nat /\ Cardinality(B) \in Nat
    BY <1>2, <2>3
  <2>6. Cardinality(B) <= Cardinality(A) /\ Cardinality(B) # Cardinality(A)
    BY <2>4, <2>5, FS_Subset
  <2>7. m <= Cardinality(B) /\ m = Cardinality(A)
    BY <1>3, <1>4, <2>3
  <2>8. QED
    BY <2>5, <2>6, <2>7
<1>6. QED
  BY <1>5

LEMMA DeadEndsAre ==
  ASSUME NEW c, Carved(corridor)
  PROVE  c \in DeadEnds <=>
           /\ c \in corridor /\ c # MazeArrival
           /\ \E p \in corridor : p \in Beside(c)
           /\ \A p, q \in corridor : p \in Beside(c) /\ q \in Beside(c) => p = q
<1>1. PICK near : near = Beside(c) \cap corridor
  OBVIOUS
<1>2. IsFiniteSet(near)
  <2>1. near \subseteq corridor /\ IsFiniteSet(corridor)
    BY <1>1 DEF Carved
  <2>2. QED
    BY <2>1, FS_Subset
<1>3. Cardinality(near) = 1 <=> \E p : near = {p}
  BY <1>2, FS_Singleton
<1>4. (\E p : near = {p}) <=> near # {} /\ \A p, q \in near : p = q
  <2>1. ASSUME NEW p \in near, \A q, r \in near : q = r PROVE near = {p}
    BY <2>1
  <2>2. QED
    BY <2>1
<1>5. QED
  BY <1>1, <1>3, <1>4 DEF DeadEnds

LEMMA FarthestIsDeadEnd ==
  ASSUME Carved(corridor), NEW depth, Tree(corridor, depth), NEW c \in corridor,
         c # MazeArrival, \A d \in corridor : depth[d] <= depth[c]
  PROVE  c \in DeadEnds
<1>1. \E p \in corridor : p \in Beside(c)
  BY DEF Tree
<1>2. ASSUME NEW p \in corridor, p \in Beside(c) PROVE depth[c] = depth[p] + 1
  <2>1. depth[p] = depth[c] + 1 \/ depth[c] = depth[p] + 1
    BY <1>2 DEF Tree
  <2>2. depth[c] \in Nat /\ depth[p] \in Nat /\ depth[p] <= depth[c]
    BY DEF Tree
  <2>3. QED
    BY <2>1, <2>2
<1>3. \A p, q \in corridor : p \in Beside(c) /\ q \in Beside(c) => p = q
  BY <1>2 DEF Tree
<1>4. QED
  BY <1>1, <1>3, DeadEndsAre

-----------------------------------------------------------------------------
(* Furnishing: the flag at the farthest cell, one hippie in each band.       *)

LEMMA FlagIsFarthest ==
  ASSUME Carved(corridor), NEW depth, Tree(corridor, depth), DeadEnds # {},
         NEW place, place = FlagPlace(depth)
  PROVE  /\ place \in DeadEnds /\ place \in corridor
         /\ \A c \in corridor : depth[c] <= depth[place]
         /\ Max({depth[c] : c \in corridor}) = depth[place]
<1>1. depth \in [corridor -> Nat] /\ depth[MazeArrival] = 0 /\ MazeArrival \in corridor
  BY DEF Tree, Carved
<1>2. corridor \subseteq Points /\ DeadEnds \subseteq corridor /\ DeadEnds \subseteq Points
  BY CarvedArePoints DEF DeadEnds
<1>3. IsFiniteSet(corridor) /\ IsFiniteSet(DeadEnds)
  <2>1. IsFiniteSet(corridor)
    BY DEF Carved
  <2>2. QED
    BY <1>2, <2>1, FS_Subset
<1>4. place \in DeadEnds /\ \A d \in DeadEnds : Nearer(depth, d, place)
  <2>1. \E c \in DeadEnds : \A d \in DeadEnds : Nearer(depth, d, c)
    BY <1>1, <1>2, <1>3, LastIsThere
  <2>2. QED
    BY <2>1 DEF FlagPlace
<1>5. PICK far \in corridor : \A d \in corridor : Nearer(depth, d, far)
  BY <1>1, <1>2, <1>3, LastIsThere
<1>6. \A d \in corridor : depth[d] <= depth[far]
  BY <1>1, <1>5 DEF Nearer
<1>7. depth[far] <= depth[place]
  <2>1. CASE far = MazeArrival
    BY <1>1, <1>2, <1>4, <2>1
  <2>2. CASE far # MazeArrival
    <3>1. far \in DeadEnds
      BY <1>6, <2>2, FarthestIsDeadEnd
    <3>2. QED
      BY <1>1, <1>2, <1>4, <3>1 DEF Nearer
  <2>3. QED
    BY <2>1, <2>2
<1>8. \A c \in corridor : depth[c] <= depth[place]
  BY <1>1, <1>2, <1>4, <1>6, <1>7
<1>9. Max({depth[c] : c \in corridor}) = depth[place]
  <2>1. PICK all : all = {depth[c] : c \in corridor}
    OBVIOUS
  <2>2. all \subseteq Nat /\ depth[place] \in all /\ \A y \in all : depth[place] >= y
    BY <1>1, <1>2, <1>4, <1>8, <2>1
  <2>3. ASSUME NEW x \in all, \A y \in all : x >= y PROVE x = depth[place]
    <3>1. x \in Nat /\ depth[place] \in Nat /\ x >= depth[place] /\ depth[place] >= x
      BY <2>2, <2>3
    <3>2. QED
      BY <3>1
  <2>4. Max(all) = depth[place]
    BY <2>2, <2>3 DEF Max
  <2>5. QED
    BY <2>1, <2>4
<1>10. QED
  BY <1>2, <1>4, <1>8, <1>9

LEMMA QuotientsGrow ==
  ASSUME NEW a \in Nat, NEW b \in Nat, NEW h \in Nat \ {0}, a <= b
  PROVE  a \div h \in Nat /\ b \div h \in Nat /\ a \div h <= b \div h
<1>1. PICK p, q : p = a \div h /\ q = b \div h
  OBVIOUS
<1>2. p \in Int /\ q \in Int
  BY <1>1
<1>3. h * p <= a /\ a < h * p + h /\ h * q <= b /\ b < h * q + h
  BY <1>1
<1>4. p >= 0 /\ q >= 0
  BY <1>2, <1>3
<1>5. p <= q
  <2>1. SUFFICES ASSUME p >= q + 1 PROVE FALSE
    BY <1>2
  <2>2. h * p >= h * (q + 1) /\ h * (q + 1) = h * q + h
    BY <1>2, <2>1
  <2>3. h * p \in Int /\ h * q \in Int
    BY <1>2
  <2>4. QED
    BY <1>3, <2>2, <2>3
<1>6. QED
  BY <1>1, <1>2, <1>4, <1>5

LEMMA BandsApart ==
  ASSUME NEW dist, NEW candidates, IsFiniteSet(candidates), NEW i \in Nat, NEW j \in Nat, i < j,
         NEW c \in Band(dist, candidates, i)
  PROVE  c \notin Band(dist, candidates, j)
<1>1. PICK n : n = Cardinality(candidates)
  OBVIOUS
<1>2. PICK before : before = {d \in candidates : d # c /\ Nearer(dist, d, c)}
  OBVIOUS
<1>3. PICK rank : rank = Cardinality(before)
  OBVIOUS
<1>4. n \in Nat /\ rank \in Nat
  <2>1. before \subseteq candidates
    BY <1>2
  <2>2. QED
    BY <1>1, <1>3, <2>1, FS_Subset, FS_CardinalityType
<1>5. (i + 1) * n \in Nat /\ j * n \in Nat /\ (i + 1) * n <= j * n
  <2>1. PICK k \in Nat : j = (i + 1) + k
    <3>1. j - (i + 1) \in Nat /\ j = (i + 1) + (j - (i + 1))
      OBVIOUS
    <3>2. QED
      BY <3>1
  <2>2. j * n = (i + 1) * n + k * n /\ k * n \in Nat /\ (i + 1) * n \in Nat
    BY <1>4, <2>1
  <2>3. QED
    BY <2>2
<1>6. HippieCount \in Nat \ {0}
  BY MazeAssumption
<1>7. PICK p \in Nat, q \in Nat : p = ((i + 1) * n) \div HippieCount /\ q = (j * n) \div HippieCount /\ p <= q
  <2>1. PICK a \in Nat, b \in Nat : a = (i + 1) * n /\ b = j * n /\ a <= b
    BY <1>5
  <2>2. a \div HippieCount \in Nat /\ b \div HippieCount \in Nat /\ a \div HippieCount <= b \div HippieCount
    BY <1>6, <2>1, QuotientsGrow
  <2>3. QED
    BY <2>1, <2>2
<1>8. rank < p
  BY <1>1, <1>2, <1>3, <1>7 DEF Band
<1>9. c \in Band(dist, candidates, j) => q <= rank
  BY <1>1, <1>2, <1>3, <1>7 DEF Band
<1>10. QED
  BY <1>4, <1>7, <1>8, <1>9

LEMMA OneHippieABand ==
  ASSUME NEW dist, NEW candidates, IsFiniteSet(candidates),
         NEW bands, bands = {Band(dist, candidates, i) : i \in 0..(HippieCount - 1)},
         NEW chosen, \A b \in bands : chosen[b] \in b
  PROVE  Cardinality({chosen[b] : b \in bands}) = HippieCount
<1>1. PICK last \in Int : last = HippieCount - 1 /\ last >= 0 /\ HippieCount = last + 1
  BY MazeAssumption
<1>2. PICK f : f = [i \in 0..last |-> chosen[Band(dist, candidates, i)]]
  OBVIOUS
<1>3. PICK people : people = {chosen[b] : b \in bands}
  OBVIOUS
<1>4. \A i \in 0..last : f[i] \in Band(dist, candidates, i) /\ f[i] \in people
  BY <1>1, <1>2, <1>3
<1>5. \A i, j \in 0..last : f[i] = f[j] => i = j
  <2>1. SUFFICES ASSUME NEW i \in 0..last, NEW j \in 0..last, f[i] = f[j], i < j PROVE FALSE
    OBVIOUS
  <2>2. i \in Nat /\ j \in Nat
    BY <1>1
  <2>3. f[i] \notin Band(dist, candidates, j)
    BY <1>4, <2>1, <2>2, BandsApart
  <2>4. QED
    BY <1>4, <2>1, <2>3
<1>6. \A h \in people : \E i \in 0..last : f[i] = h
  BY <1>1, <1>2, <1>3
<1>7. f \in Bijection(0..last, people)
  <2>1. f \in [0..last -> people]
    BY <1>2, <1>4
  <2>2. f \in Injection(0..last, people)
    BY <2>1, <1>5 DEF Injection, IsInjective
  <2>3. f \in Surjection(0..last, people)
    BY <2>1, <1>6 DEF Surjection
  <2>4. QED
    BY <2>2, <2>3 DEF Bijection
<1>8. IsFiniteSet(0..last) /\ Cardinality(0..last) = last + 1
  BY <1>1, FS_Interval
<1>9. Cardinality(people) = last + 1
  BY <1>7, <1>8, FS_Bijection DEF ExistsBijection
<1>10. QED
  BY <1>1, <1>3, <1>9

\* The flag at the farthest cell; as many hippies as asked for, each at a dead
\* end beyond the first quarter of the way, none at the arrival or the flag.
FurnishedWell(cells, depth, place, people) ==
  /\ place \in cells /\ \A c \in cells : depth[c] <= depth[place]
  /\ people \subseteq cells \ {MazeArrival, place}
  /\ Cardinality(people) = HippieCount
  /\ \A h \in people : 4 * depth[h] >= depth[place]
  /\ \A h \in people, p, q \in cells : p \in Beside(h) /\ q \in Beside(h) => p = q

LEMMA FurnishingIsGood ==
  ASSUME Carved(corridor), NEW depth, Tree(corridor, depth), Furnish
  PROVE  FurnishedWell(corridor, depth, flag', hippies')
<1> DEFINE place == FlagPlace(CorridorDistances)
           candidates == HippieCandidates(CorridorDistances, place)
           bands == {Band(CorridorDistances, candidates, i) : i \in 0..(HippieCount - 1)}
<1>1. /\ DeadEnds # {} /\ flag' = place
      /\ \E chosen \in [bands -> candidates] :
           /\ \A b \in bands : chosen[b] \in b
           /\ hippies' = {chosen[b] : b \in bands}
  BY DEF Furnish
<1>2. place = FlagPlace(CorridorDistances)
  OBVIOUS
<1>3. candidates = HippieCandidates(CorridorDistances, place)
  OBVIOUS
<1>4. bands = {Band(CorridorDistances, candidates, i) : i \in 0..(HippieCount - 1)}
  OBVIOUS
<1> HIDE DEF place, candidates, bands
<1>5. CorridorDistances = depth
  BY DistancesAreDepths
<1>6. PICK chosen \in [bands -> candidates] :
        /\ \A b \in bands : chosen[b] \in b
        /\ hippies' = {chosen[b] : b \in bands}
  BY <1>1
<1>7. /\ place \in DeadEnds /\ place \in corridor
      /\ \A c \in corridor : depth[c] <= depth[place]
      /\ Max({depth[c] : c \in corridor}) = depth[place]
  BY <1>1, <1>2, <1>5, FlagIsFarthest
<1>8. \A h \in hippies' : h \in DeadEnds /\ h # place /\ 4 * depth[h] >= depth[place]
  <2>1. \A h \in candidates : h \in DeadEnds /\ h # place /\ 4 * depth[h] >= depth[place]
    BY <1>3, <1>5, <1>7 DEF HippieCandidates
  <2>2. \A b \in bands : chosen[b] \in candidates
    BY <1>6
  <2>3. QED
    BY <1>6, <2>1, <2>2
<1>9. \A h \in hippies' :
        /\ h \in corridor /\ h # MazeArrival
        /\ \A p, q \in corridor : p \in Beside(h) /\ q \in Beside(h) => p = q
  BY <1>8, DeadEndsAre
<1>10. IsFiniteSet(candidates)
  <2>1. candidates \subseteq corridor /\ IsFiniteSet(corridor)
    BY <1>3 DEF HippieCandidates, DeadEnds, Carved
  <2>2. QED
    BY <2>1, FS_Subset
<1>11. Cardinality(hippies') = HippieCount
  <2>1. PICK dist : dist = CorridorDistances
    OBVIOUS
  <2>2. bands = {Band(dist, candidates, i) : i \in 0..(HippieCount - 1)}
    BY <1>4, <2>1
  <2>3. PICK people : people = {chosen[b] : b \in bands}
    OBVIOUS
  <2>4. Cardinality(people) = HippieCount
    BY <1>6, <1>10, <2>2, <2>3, OneHippieABand
  <2>5. QED
    BY <1>6, <2>3, <2>4
<1>12. hippies' \subseteq corridor \ {MazeArrival, flag'}
  BY <1>1, <1>8, <1>9
<1>13. QED
  BY <1>1, <1>7, <1>8, <1>9, <1>11, <1>12 DEF FurnishedWell

-----------------------------------------------------------------------------
(* The walk: of the cells it carved only those of its trail may have         *)
(* neighbours still to visit.                                                *)

Walked(cells, path) ==
  /\ path \in Seq(cells \intersect MazeCells)
  /\ \A c \in cells \intersect MazeCells :
       Explored(cells, c) \/ \E i \in 1..Len(path) : path[i] = c

MazeInv ==
  /\ maze \in {"none", "carving", "furnished", "failed"}
  /\ maze # "none" =>
       /\ Carved(corridor) /\ Walked(corridor, trail)
       /\ \E depth : /\ Tree(corridor, depth)
                     /\ maze = "furnished" => FurnishedWell(corridor, depth, flag, hippies)
  /\ maze \in {"furnished", "failed"} => trail = <<>>

LEMMA WalkStarts == Walked({MazeArrival}, <<MazeArrival>>)
<1>1. {MazeArrival} \intersect MazeCells = {MazeArrival}
  BY ArrivalIsMazeCell
<1>2. <<MazeArrival>> \in Seq({MazeArrival}) /\ Len(<<MazeArrival>>) = 1
  OBVIOUS
<1>3. 1 \in 1..Len(<<MazeArrival>>) /\ <<MazeArrival>>[1] = MazeArrival
  BY <1>2
<1>4. \A c \in {MazeArrival} : \E i \in 1..Len(<<MazeArrival>>) : <<MazeArrival>>[i] = c
  BY <1>3
<1>5. QED
  BY <1>1, <1>2, <1>4 DEF Walked

LEMMA DiggingWalks ==
  ASSUME NEW cells, Carved(cells), NEW path, Walked(cells, path), path # <<>>,
         NEW n \in MazeCells \ cells, n \in Beyond(Head(path))
  PROVE  Walked(cells \union {Midway(Head(path), n), n}, <<n>> \o path)
<1>1. PICK h : h = Head(path)
  OBVIOUS
<1>2. path \in Seq(cells \intersect MazeCells) /\ h \in cells \intersect MazeCells
  BY <1>1 DEF Walked
<1>3. PICK k : k = Midway(h, n)
  OBVIOUS
<1>4. k \notin MazeCells
  BY <1>1, <1>2, <1>3, BetweenJoins, MazeCellParts
<1>5. PICK dug : dug = cells \union {k, n}
  OBVIOUS
<1>6. dug \intersect MazeCells = (cells \intersect MazeCells) \union {n}
  BY <1>4, <1>5
<1>7. PICK longer : longer = <<n>> \o path
  OBVIOUS
<1>8. PICK l \in Nat : l = Len(path)
  BY <1>2
<1>9. longer \in Seq(dug \intersect MazeCells)
  <2>1. path \in Seq(dug \intersect MazeCells) /\ <<n>> \in Seq(dug \intersect MazeCells)
    BY <1>2, <1>6
  <2>2. QED
    BY <1>7, <2>1
<1>10. Len(longer) = l + 1 /\ longer[1] = n /\ \A i \in 1..l : longer[i + 1] = path[i]
  <2>1. Len(longer) = l + 1
    BY <1>2, <1>7, <1>8
  <2>2. longer[1] = n
    BY <1>2, <1>7, <1>8
  <2>3. \A i \in 1..l : longer[i + 1] = path[i]
    BY <1>2, <1>7, <1>8
  <2>4. QED
    BY <2>1, <2>2, <2>3
<1>11. ASSUME NEW c \in dug \intersect MazeCells
       PROVE  Explored(dug, c) \/ \E i \in 1..Len(longer) : longer[i] = c
  <2>1. CASE c = n
    BY <1>8, <1>10, <2>1
  <2>2. CASE c # n
    <3>1. c \in cells \intersect MazeCells
      BY <1>6, <1>11, <2>2
    <3>2. CASE Explored(cells, c)
      BY <1>5, <3>2 DEF Explored
    <3>3. CASE \E i \in 1..Len(path) : path[i] = c
      <4>1. PICK i \in 1..l : path[i] = c
        BY <1>8, <3>3
      <4>2. i + 1 \in 1..Len(longer) /\ longer[i + 1] = c
        BY <1>8, <1>10, <4>1
      <4>3. QED
        BY <4>2
    <3>4. QED
      BY <3>1, <3>2, <3>3 DEF Walked
  <2>3. QED
    BY <2>1, <2>2
<1>12. Walked(dug, longer)
  BY <1>9, <1>11 DEF Walked
<1>13. QED
  BY <1>1, <1>3, <1>5, <1>7, <1>12

LEMMA BacktrackingWalks ==
  ASSUME NEW cells, NEW path, Walked(cells, path), path # <<>>, Explored(cells, Head(path))
  PROVE  Walked(cells, Tail(path))
<1>1. path \in Seq(cells \intersect MazeCells)
  BY DEF Walked
<1>2. PICK l \in Nat : l = Len(path) /\ l > 0
  BY <1>1
<1>3. Tail(path) \in Seq(cells \intersect MazeCells) /\ Len(Tail(path)) = l - 1
  BY <1>1, <1>2
<1>4. \A i \in 1..(l - 1) : Tail(path)[i] = path[i + 1]
  BY <1>1, <1>2
<1>5. ASSUME NEW c \in cells \intersect MazeCells, NEW i \in 1..Len(path), path[i] = c
      PROVE  Explored(cells, c) \/ \E j \in 1..Len(Tail(path)) : Tail(path)[j] = c
  <2>1. CASE i = 1
    BY <1>1, <1>5, <2>1
  <2>2. CASE i # 1
    <3>1. i - 1 \in 1..(l - 1) /\ i = (i - 1) + 1
      BY <1>2, <1>5, <2>2
    <3>2. Tail(path)[i - 1] = c
      BY <1>4, <1>5, <3>1
    <3>3. QED
      BY <1>3, <3>1, <3>2
  <2>3. QED
    BY <2>1, <2>2
<1>6. QED
  BY <1>3, <1>5 DEF Walked

LEMMA MazeInvStep == MazeInv /\ [StartMaze \/ MazeNext]_mazeVars => MazeInv'
<1>1. SUFFICES ASSUME MazeInv, [StartMaze \/ MazeNext]_mazeVars PROVE MazeInv'
  OBVIOUS
<1>2. CASE StartMaze
  <2>1. corridor' = {MazeArrival} /\ trail' = <<MazeArrival>> /\ maze' = "carving"
    BY <1>2 DEF StartMaze
  <2>2. Carved(corridor') /\ Walked(corridor', trail') /\ \E depth : Tree(corridor', depth)
    BY <2>1, FirstCellCarved, WalkStarts
  <2>3. QED
    BY <2>1, <2>2 DEF MazeInv
<1>3. CASE Dig
  <2>1. maze = "carving" /\ trail # <<>> /\ maze' = maze
    BY <1>3 DEF Dig
  <2>2. Carved(corridor) /\ Walked(corridor, trail) /\ \E depth : Tree(corridor, depth)
    BY <1>1, <2>1 DEF MazeInv
  <2>3. PICK here : here = Head(trail)
    OBVIOUS
  <2>4. PICK next \in Unvisited(here) :
          corridor' = corridor \cup {Midway(here, next), next} /\ trail' = <<next>> \o trail
    BY <1>3, <2>3 DEF Dig, Midway
  <2>5. here \in corridor \intersect MazeCells
    BY <2>1, <2>2, <2>3 DEF Walked
  <2>6. next \in MazeCells \ corridor /\ next \in Beyond(here)
    BY <2>4 DEF Unvisited
  <2>7. Carved(corridor')
    BY <2>2, <2>4, <2>5, <2>6, DiggingCarves
  <2>8. \E depth : Tree(corridor', depth)
    BY <2>2, <2>4, <2>5, <2>6, DiggingBranches
  <2>9. Walked(corridor', trail')
    BY <2>1, <2>2, <2>3, <2>4, <2>6, DiggingWalks
  <2>10. QED
    BY <2>1, <2>7, <2>8, <2>9 DEF MazeInv
<1>4. CASE Backtrack
  <2>1. maze = "carving" /\ trail # <<>> /\ maze' = maze /\ corridor' = corridor /\ trail' = Tail(trail)
    BY <1>4 DEF Backtrack
  <2>2. Carved(corridor) /\ Walked(corridor, trail) /\ \E depth : Tree(corridor, depth)
    BY <1>1, <2>1 DEF MazeInv
  <2>3. Explored(corridor, Head(trail))
    BY <1>4 DEF Backtrack, Unvisited, Explored
  <2>4. Walked(corridor, trail')
    BY <2>1, <2>2, <2>3, BacktrackingWalks
  <2>5. QED
    BY <2>1, <2>2, <2>4 DEF MazeInv
<1>5. CASE Furnish
  <2>1. maze = "carving" /\ maze' = "furnished" /\ corridor' = corridor /\ trail' = trail /\ trail = <<>>
    BY <1>5 DEF Furnish
  <2>2. Carved(corridor) /\ Walked(corridor, trail)
    BY <1>1, <2>1 DEF MazeInv
  <2>3. PICK depth : Tree(corridor, depth)
    BY <1>1, <2>1 DEF MazeInv
  <2>4. FurnishedWell(corridor, depth, flag', hippies')
    BY <1>5, <2>2, <2>3, FurnishingIsGood
  <2>5. QED
    BY <2>1, <2>2, <2>3, <2>4 DEF MazeInv
<1>6. CASE RefuseMaze
  <2>1. maze = "carving" /\ maze' = "failed" /\ corridor' = corridor /\ trail' = trail /\ trail = <<>>
    BY <1>6 DEF RefuseMaze
  <2>2. Carved(corridor) /\ Walked(corridor, trail) /\ \E depth : Tree(corridor, depth)
    BY <1>1, <2>1 DEF MazeInv
  <2>3. QED
    BY <2>1, <2>2 DEF MazeInv
<1>7. CASE UNCHANGED mazeVars
  <2>1. maze' = maze /\ trail' = trail /\ corridor' = corridor /\ flag' = flag /\ hippies' = hippies
    BY <1>7 DEF mazeVars
  <2>2. QED
    BY <1>1, <2>1 DEF MazeInv
<1>8. QED
  BY <1>1, <1>2, <1>3, <1>4, <1>5, <1>6, <1>7 DEF MazeNext

LEMMA WalkedMazeIsPerfect == MazeInv => PerfectMaze
<1>1. SUFFICES ASSUME MazeInv, maze \in {"furnished", "failed"}
               PROVE  /\ MazeCells \subseteq corridor
                      /\ Reached(corridor, MazeArrival) = corridor
                      /\ Cardinality(corridor) = 2 * Cardinality(MazeCells) - 1
  BY DEF PerfectMaze
<1>2. Carved(corridor) /\ Walked(corridor, trail) /\ trail = <<>>
  BY <1>1 DEF MazeInv
<1>3. PICK depth : Tree(corridor, depth)
  BY <1>1 DEF MazeInv
<1>4. MazeCells \subseteq corridor
  <2>1. \A c \in corridor \intersect MazeCells : Explored(corridor, c)
    BY <1>2 DEF Walked
  <2>2. QED
    BY <1>2, <2>1, MazeIsFilled
<1>5. Cardinality(corridor) = 2 * Cardinality(MazeCells) - 1
  <2>1. corridor \intersect MazeCells = MazeCells
    BY <1>4
  <2>2. QED
    BY <1>2, <2>1 DEF Carved
<1>6. Reached(corridor, MazeArrival) = corridor
  <2>1. IsFiniteSet(corridor) /\ MazeArrival \in corridor /\ depth \in [corridor -> Nat]
    BY <1>2, <1>3 DEF Carved, Tree
  <2>2. ASSUME NEW c \in corridor \ {MazeArrival}
        PROVE  \E p \in corridor : c \in Beside(p) /\ depth[p] < depth[c]
    <3>1. PICK p \in corridor : p \in Beside(c) /\ depth[c] = depth[p] + 1
      BY <1>3 DEF Tree
    <3>2. c \in Points /\ p \in Points
      BY <1>2, CarvedArePoints
    <3>3. c \in Beside(p)
      BY <3>1, <3>2, BesideIsMutual
    <3>4. depth[p] \in Nat
      BY <2>1
    <3>5. QED
      BY <3>1, <3>3, <3>4
  <2>3. QED
    BY <2>1, <2>2, AllIsReached
<1>7. QED
  BY <1>4, <1>5, <1>6

LEMMA FlagStaysFree ==
  ASSUME Carved(corridor), NEW depth, Tree(corridor, depth),
         FurnishedWell(corridor, depth, flag, hippies)
  PROVE  Reached(corridor \ hippies, MazeArrival) = corridor \ hippies
<1>1. PICK free : free = corridor \ hippies
  OBVIOUS
<1>2. PICK d : d = [c \in free |-> depth[c]]
  OBVIOUS
<1>3. IsFiniteSet(free) /\ MazeArrival \in free /\ free \subseteq corridor
  <2>1. free \subseteq corridor /\ IsFiniteSet(corridor) /\ MazeArrival \in corridor
    BY <1>1 DEF Carved
  <2>2. MazeArrival \notin hippies
    BY DEF FurnishedWell
  <2>3. QED
    BY <1>1, <2>1, <2>2, FS_Subset
<1>4. \A c \in corridor : depth[c] \in Nat
  BY DEF Tree
<1>5. d \in [free -> Nat]
  BY <1>2, <1>3, <1>4
<1>6. ASSUME NEW c \in free \ {MazeArrival}
      PROVE  \E p \in free : c \in Beside(p) /\ d[p] < d[c]
  <2>1. PICK p \in corridor : p \in Beside(c) /\ depth[c] = depth[p] + 1
    BY <1>3 DEF Tree
  <2>2. c \in Points /\ p \in Points /\ c \in corridor
    BY <1>3, CarvedArePoints
  <2>3. c \in Beside(p)
    BY <2>1, <2>2, BesideIsMutual
  <2>4. p \notin hippies
    <3>1. SUFFICES ASSUME p \in hippies PROVE FALSE
      OBVIOUS
    <3>2. p # MazeArrival
      BY <3>1 DEF FurnishedWell
    <3>3. PICK q \in corridor : q \in Beside(p) /\ depth[p] = depth[q] + 1
      BY <3>2 DEF Tree
    <3>4. c = q
      BY <2>2, <2>3, <3>1, <3>3 DEF FurnishedWell
    <3>5. depth[c] \in Nat
      BY <1>4, <2>2
    <3>6. QED
      BY <2>1, <3>3, <3>4, <3>5
  <2>5. p \in free /\ d[p] = depth[p] /\ d[c] = depth[c]
    BY <1>1, <1>2, <2>1, <2>4
  <2>6. QED
    BY <1>4, <2>1, <2>3, <2>5
<1>7. Reached(free, MazeArrival) = free
  BY <1>3, <1>5, <1>6, AllIsReached
<1>8. QED
  BY <1>1, <1>7

LEMMA FurnishedFlagIsDeepAndFree == MazeInv => FlagIsDeepAndFree
<1>1. SUFFICES ASSUME MazeInv, maze = "furnished" PROVE FlagIsDeepAndFree
  BY DEF FlagIsDeepAndFree
<1>2. Carved(corridor)
  BY <1>1 DEF MazeInv
<1>3. PICK depth : Tree(corridor, depth) /\ FurnishedWell(corridor, depth, flag, hippies)
  BY <1>1 DEF MazeInv
<1>4. CorridorDistances = depth
  BY <1>2, <1>3, DistancesAreDepths
<1>5. flag \in Reached(corridor \ hippies, MazeArrival)
  <2>1. flag \in corridor \ hippies
    BY <1>3 DEF FurnishedWell
  <2>2. QED
    BY <1>2, <1>3, <2>1, FlagStaysFree
<1>6. /\ \A c \in corridor : depth[c] <= depth[flag]
      /\ Cardinality(hippies) = HippieCount
      /\ \A h \in hippies : 4 * depth[h] >= depth[flag]
  BY <1>3 DEF FurnishedWell
<1>7. QED
  BY <1>4, <1>5, <1>6 DEF FlagIsDeepAndFree

\* Whatever the size of the level and however the walk of
\* firstDungeonCorridorCoordinates goes, it carves a maze in which every cell
\* is joined to the arrival by one way only; and whenever makeFirstDungeonLevel
\* furnishes it, the missing flag lies as far from the arrival as the maze
\* goes, can be fetched without passing a hippie, and the hippies are as many
\* as were asked for, none of them in the first quarter of the way.
THEOREM MazeKeepsFlag == MazeSpec => []FlagAtTheEndOfAMaze
<1>1. MazeInit => MazeInv
  BY DEF MazeInit, MazeInv
<1>2. MazeInv /\ [StartMaze \/ MazeNext]_mazeVars => MazeInv'
  BY MazeInvStep
<1>3. MazeInv => FlagAtTheEndOfAMaze
  BY WalkedMazeIsPerfect, FurnishedFlagIsDeepAndFree DEF FlagAtTheEndOfAMaze
<1>4. QED
  BY <1>1, <1>2, <1>3, PTL DEF MazeSpec

-----------------------------------------------------------------------------
(* The deeper levels. Sets of cells that hold together.                      *)

Joined(S) == \A T \in SUBSET S : T # {} /\ Shut(S, T) => T = S

LEMMA JoinedIsReached ==
  ASSUME NEW S, IsFiniteSet(S), Joined(S), NEW start \in S
  PROVE  Reached(S, start) = S
<1>1. /\ start \in Reached(S, start) /\ Reached(S, start) \subseteq S
      /\ Shut(S, Reached(S, start))
  BY ReachedIsShut
<1>2. QED
  BY <1>1 DEF Joined

LEMMA JoinedTogether ==
  ASSUME NEW A, NEW B, Joined(A), Joined(B), A \intersect B # {}
  PROVE  Joined(A \union B)
<1>1. SUFFICES ASSUME NEW T \in SUBSET (A \union B), T # {}, Shut(A \union B, T)
               PROVE  T = A \union B
  BY DEF Joined
<1>2. Shut(A, T \intersect A) /\ Shut(B, T \intersect B)
  BY <1>1 DEF Shut
<1>3. T \intersect A # {} => T \intersect A = A
  BY <1>2 DEF Joined
<1>4. T \intersect B # {} => T \intersect B = B
  BY <1>2 DEF Joined
<1>5. QED
  BY <1>1, <1>3, <1>4

LEMMA WalkIsJoined ==
  ASSUME NEW k \in Nat, NEW w \in [0..k -> Points],
         \A i \in 1..k : w[i] \in Beside(w[i - 1])
  PROVE  Joined({w[i] : i \in 0..k})
<1>1. PICK S : S = {w[i] : i \in 0..k}
  OBVIOUS
<1>2. SUFFICES ASSUME NEW T \in SUBSET S, T # {}, Shut(S, T) PROVE S \subseteq T
  BY <1>1 DEF Joined
<1>3. \A i \in 0..k : w[i] \in S /\ w[i] \in Points
  BY <1>1
<1>4. \A i \in 1..k : w[i] \in T <=> w[i - 1] \in T
  <2>1. SUFFICES ASSUME NEW i \in 1..k PROVE w[i] \in T <=> w[i - 1] \in T
    OBVIOUS
  <2>2. i - 1 \in 0..k /\ i \in 0..k
    OBVIOUS
  <2>3. w[i] \in Beside(w[i - 1]) /\ w[i - 1] \in Beside(w[i])
    BY <1>3, <2>2, BesideIsMutual
  <2>4. QED
    BY <1>2, <1>3, <2>2, <2>3 DEF Shut
<1>5. \A i \in 0..k : w[i] \in T <=> w[0] \in T
  <2> DEFINE Off == {i \in 0..k : ~(w[i] \in T <=> w[0] \in T)}
  <2>1. SUFFICES ASSUME Off # {} PROVE FALSE
    OBVIOUS
  <2>2. PICK i \in Off : \A j \in Off : i <= j
    <3>1. Off \in SUBSET Nat
      OBVIOUS
    <3>2. QED
      BY <2>1, <3>1, LeastNatural
  <2>3. i \in 1..k /\ i - 1 \in 0..k /\ ~(i <= i - 1)
    OBVIOUS
  <2>4. i - 1 \notin Off
    BY <2>2, <2>3
  <2>5. QED
    BY <1>4, <2>3, <2>4
<1>6. \E i \in 0..k : w[i] \in T
  BY <1>1, <1>2
<1>7. QED
  BY <1>1, <1>5, <1>6

LEMMA IntervalIsFilled ==
  ASSUME NEW low \in Int, NEW high \in Int, NEW T, NEW x \in low..high, x \in T,
         \A p, q \in low..high : p \in T /\ (q = p + 1 \/ q = p - 1) => q \in T
  PROVE  low..high \subseteq T
<1> DEFINE Miss == {n \in Nat : \E p \in low..high : p \notin T /\ (p = x + n \/ p = x - n)}
<1>1. SUFFICES ASSUME NEW u \in low..high, u \notin T PROVE FALSE
  OBVIOUS
<1>2. \E n \in Nat : u = x + n \/ u = x - n
  <2>1. CASE u >= x
    <3>1. u - x \in Nat /\ u = x + (u - x)
      BY <2>1
    <3>2. QED
      BY <3>1
  <2>2. CASE u < x
    <3>1. x - u \in Nat /\ u = x - (x - u)
      BY <2>2
    <3>2. QED
      BY <3>1
  <2>3. QED
    BY <2>1, <2>2
<1>3. PICK n \in Miss : \A m \in Miss : n <= m
  <2>1. PICK M : M = Miss
    OBVIOUS
  <2>2. M \in SUBSET Nat /\ M # {}
    BY <1>1, <1>2, <2>1
  <2>3. QED
    BY <2>1, <2>2, LeastNatural
<1>4. PICK p \in low..high : p \notin T /\ (p = x + n \/ p = x - n)
  BY <1>3
<1>5. n # 0
  BY <1>4
<1>6. PICK q \in low..high : (p = q + 1 \/ p = q - 1) /\ (q = x + (n - 1) \/ q = x - (n - 1))
  <2>1. CASE p = x + n
    <3>1. p - 1 \in low..high /\ p = (p - 1) + 1 /\ p - 1 = x + (n - 1)
      BY <1>3, <1>5, <2>1
    <3>2. QED
      BY <3>1
  <2>2. CASE p = x - n
    <3>1. p + 1 \in low..high /\ p = (p + 1) - 1 /\ p + 1 = x - (n - 1)
      BY <1>3, <1>5, <2>2
    <3>2. QED
      BY <3>1
  <2>3. QED
    BY <1>4, <2>1, <2>2
<1>7. n - 1 \in Nat /\ n - 1 \notin Miss
  BY <1>3, <1>5
<1>8. q \in T
  BY <1>6, <1>7
<1>9. QED
  BY <1>4, <1>6, <1>8

LEMMA RectangleIsJoined ==
  ASSUME NEW l \in Int, NEW r \in Int, NEW t \in Int, NEW b \in Int
  PROVE  Joined((l..r) \X (t..b))
<1>1. PICK S : S = (l..r) \X (t..b)
  OBVIOUS
<1>2. SUFFICES ASSUME NEW T \in SUBSET S, T # {}, Shut(S, T) PROVE S \subseteq T
  BY <1>1 DEF Joined
<1>3. PICK x \in l..r, y \in t..b : <<x, y>> \in T
  BY <1>1, <1>2
<1>4. \A u \in l..r, v \in t..b, p \in l..r, q \in t..b :
        <<u, v>> \in T /\ <<p, q>> \in Beside(<<u, v>>) => <<p, q>> \in T
  BY <1>1, <1>2 DEF Shut
<1>5. \A u \in l..r : <<u, y>> \in T
  <2>1. PICK row : row = {u \in l..r : <<u, y>> \in T}
    OBVIOUS
  <2>2. \A p, q \in l..r : p \in row /\ (q = p + 1 \/ q = p - 1) => q \in row
    BY <1>4, <2>1 DEF Beside
  <2>3. l..r \subseteq row
    BY <1>3, <2>1, <2>2, IntervalIsFilled
  <2>4. QED
    BY <2>1, <2>3
<1>6. \A u \in l..r, v \in t..b : <<u, v>> \in T
  <2>1. SUFFICES ASSUME NEW u \in l..r PROVE \A v \in t..b : <<u, v>> \in T
    OBVIOUS
  <2>2. PICK column : column = {v \in t..b : <<u, v>> \in T}
    OBVIOUS
  <2>3. \A p, q \in t..b : p \in column /\ (q = p + 1 \/ q = p - 1) => q \in column
    BY <1>4, <2>2 DEF Beside
  <2>4. y \in column
    BY <1>5, <2>2
  <2>5. t..b \subseteq column
    BY <2>3, <2>4, IntervalIsFilled
  <2>6. QED
    BY <2>2, <2>5
<1>7. QED
  BY <1>1, <1>6

-----------------------------------------------------------------------------
(* What digging costs.                                                       *)

LEMMA MinOfNaturals ==
  ASSUME NEW S \in SUBSET Nat, S # {}
  PROVE  Min(S) \in S /\ \A k \in S : Min(S) <= k
<1>1. \E m \in S : \A k \in S : m <= k
  BY LeastNatural
<1>2. QED
  BY <1>1 DEF Min

Toll(open, c) == IF c \in open THEN 1 ELSE 1000

LEMMA TollIs == \A open, c : Toll(open, c) \in {1, 1000}
  BY DEF Toll

\* Prices are those of ways from "start": none can be improved but next to the
\* cells that are new, and each but the first is owed to a cell beside it.
Costed(cells, open, start, price, new) ==
  /\ DOMAIN price \subseteq cells /\ price \in [DOMAIN price -> Nat]
  /\ new \subseteq DOMAIN price /\ start \in DOMAIN price
  /\ \A c \in DOMAIN price : price[c] = 0 <=> c = start
  /\ \A c \in cells, d \in DOMAIN price \ new :
       d \in Beside(c) => c \in DOMAIN price /\ price[c] <= Toll(open, c) + price[d]
  /\ \A c \in DOMAIN price \ {start} :
       \E d \in DOMAIN price : d \in Beside(c) /\ price[c] >= Toll(open, c) + price[d]

Offered(open, price, new, c) == Toll(open, c) + Min({price[d] : d \in Beside(c) \cap new})

LEMMA OfferedIs ==
  ASSUME NEW open, NEW dom, NEW price \in [dom -> Nat], NEW new, new \subseteq dom,
         NEW c, Beside(c) \cap new # {}
  PROVE  /\ Offered(open, price, new, c) \in Nat
         /\ \E d \in new : d \in Beside(c) /\ Offered(open, price, new, c) = Toll(open, c) + price[d]
         /\ \A d \in new : d \in Beside(c) => Offered(open, price, new, c) <= Toll(open, c) + price[d]
<1>1. PICK offers : offers = {price[d] : d \in Beside(c) \cap new}
  OBVIOUS
<1>2. offers \in SUBSET Nat /\ offers # {}
  BY <1>1
<1>3. PICK m \in Nat : m = Min(offers) /\ m \in offers /\ \A k \in offers : m <= k
  BY <1>2, MinOfNaturals
<1>4. PICK w \in Nat : w = Toll(open, c)
  BY TollIs
<1>5. Offered(open, price, new, c) = w + m
  BY <1>1, <1>3, <1>4 DEF Offered
<1>6. \A d \in new : d \in Beside(c) => m <= price[d] /\ price[d] \in Nat
  BY <1>1, <1>3
<1>7. \E d \in new : d \in Beside(c) /\ m = price[d]
  BY <1>1, <1>3
<1>8. w + m \in Nat /\ \A d \in new : d \in Beside(c) => w + m <= w + price[d]
  BY <1>6
<1>9. QED
  BY <1>4, <1>5, <1>7, <1>8

\* One round of the search keeps the prices what they are.
LEMMA LoweringKeepsPrices ==
  ASSUME NEW cells, NEW open, NEW start, NEW price, NEW new, Costed(cells, open, start, price, new),
         NEW better, NEW cheaper,
         better = {c \in cells : /\ Beside(c) \cap new # {}
                                 /\ c \in DOMAIN price => Offered(open, price, new, c) < price[c]},
         cheaper = [c \in DOMAIN price \cup better |->
                      IF c \in better THEN Offered(open, price, new, c) ELSE price[c]]
  PROVE  Costed(cells, open, start, cheaper, better)
<1> DEFINE Offer(c) == Offered(open, price, new, c)
<1>1. PICK dom : dom = DOMAIN price
  OBVIOUS
<1>2. /\ dom \subseteq cells /\ price \in [dom -> Nat] /\ new \subseteq dom /\ start \in dom
      /\ \A c \in dom : price[c] \in Nat
  BY <1>1 DEF Costed
<1>3. \A c \in dom : price[c] = 0 <=> c = start
  BY <1>1 DEF Costed
<1>4. \A c \in cells, d \in dom \ new :
        d \in Beside(c) => c \in dom /\ price[c] <= Toll(open, c) + price[d]
  BY <1>1 DEF Costed
<1>5. \A c \in dom \ {start} :
       \E d \in dom : d \in Beside(c) /\ price[c] >= Toll(open, c) + price[d]
  BY <1>1 DEF Costed
<1>6. \A c : Beside(c) \cap new # {} =>
        /\ Offer(c) \in Nat
        /\ \E d \in new : d \in Beside(c) /\ Offer(c) = Toll(open, c) + price[d]
        /\ \A d \in new : d \in Beside(c) => Offer(c) <= Toll(open, c) + price[d]
  BY <1>2, OfferedIs
<1> HIDE DEF Offer
<1>7. /\ \A c : c \in better <=> c \in cells /\ Beside(c) \cap new # {} /\ (c \in dom => Offer(c) < price[c])
      /\ DOMAIN cheaper = dom \union better
      /\ \A c \in better : cheaper[c] = Offer(c)
      /\ \A c \in dom : c \notin better => cheaper[c] = price[c]
  BY <1>1 DEF Offer
<1>8. \A c \in dom \union better : cheaper[c] \in Nat
  BY <1>2, <1>6, <1>7
<1>9. \A c \in dom : cheaper[c] \in Nat /\ price[c] \in Nat /\ cheaper[c] <= price[c]
  <2>1. SUFFICES ASSUME NEW c \in dom
                 PROVE  cheaper[c] \in Nat /\ price[c] \in Nat /\ cheaper[c] <= price[c]
    OBVIOUS
  <2>2. price[c] \in Nat /\ cheaper[c] \in Nat
    BY <1>2, <1>8
  <2>3. CASE c \in better
    <3>1. cheaper[c] < price[c]
      BY <1>7, <2>3
    <3>2. QED
      BY <2>2, <3>1
  <2>4. CASE c \notin better
    <3>1. cheaper[c] = price[c]
      BY <1>7, <2>4
    <3>2. QED
      BY <2>2, <3>1
  <2>5. QED
    BY <2>3, <2>4
<1>10. cheaper \in [dom \union better -> Nat]
  <2>1. cheaper = [c \in DOMAIN cheaper |-> cheaper[c]]
    OBVIOUS
  <2>2. QED
    BY <1>7, <1>8, <2>1
<1>11. \A c \in dom \union better : cheaper[c] = 0 <=> c = start
  <2>1. ASSUME NEW c \in better PROVE cheaper[c] # 0 /\ c # start
    <3>1. PICK d \in new : Offer(c) = Toll(open, c) + price[d]
      BY <1>6, <1>7, <2>1
    <3>2. PICK p \in Nat, w \in {1, 1000} : p = price[d] /\ w = Toll(open, c)
      BY <1>2, <3>1, TollIs
    <3>3. PICK m \in Nat : m = Offer(c) /\ m > 0 /\ cheaper[c] = m
      <4>1. PICK m : m = w + p
        OBVIOUS
      <4>2. m \in Nat /\ m > 0
        BY <4>1
      <4>3. Offer(c) = m /\ cheaper[c] = Offer(c)
        BY <1>7, <2>1, <3>1, <3>2, <4>1
      <4>4. QED
        BY <4>2, <4>3
    <3>4. c # start
      <4>1. SUFFICES ASSUME c = start PROVE FALSE
        OBVIOUS
      <4>2. price[c] = 0 /\ m < price[c]
        BY <1>2, <1>3, <1>7, <2>1, <3>3, <4>1
      <4>3. QED
        BY <3>3, <4>2
    <3>5. QED
      BY <3>3, <3>4
  <2>2. QED
    BY <1>3, <1>7, <2>1
<1>12. ASSUME NEW c \in cells, NEW d \in (dom \union better) \ better, d \in Beside(c)
       PROVE  c \in dom \union better /\ cheaper[c] <= Toll(open, c) + cheaper[d]
  <2>1. d \in dom /\ cheaper[d] = price[d]
    BY <1>7
  <2>2. PICK w \in Nat, q \in Nat : w = Toll(open, c) /\ q = price[d]
    BY <1>2, <2>1, TollIs
  <2>3. CASE d \notin new
    <3>1. c \in dom /\ price[c] <= w + q
      BY <1>4, <1>12, <2>1, <2>2, <2>3
    <3>2. PICK m \in Nat, n \in Nat : m = cheaper[c] /\ n = price[c] /\ m <= n
      BY <1>9, <3>1
    <3>3. m <= w + q
      BY <3>1, <3>2
    <3>4. QED
      BY <2>1, <2>2, <3>1, <3>2, <3>3
  <2>4. CASE d \in new
    <3>1. Beside(c) \cap new # {}
      BY <1>12, <2>4
    <3>2. Offer(c) \in Nat /\ Offer(c) <= w + q
      BY <1>6, <1>12, <2>2, <2>4, <3>1
    <3>3. CASE c \in better
      BY <1>7, <2>1, <2>2, <3>2, <3>3
    <3>4. CASE c \notin better
      <4>1. c \in dom /\ ~(Offer(c) < price[c])
        BY <1>7, <3>1, <3>4
      <4>2. cheaper[c] = price[c] /\ price[c] \in Nat
        BY <1>2, <1>7, <3>4, <4>1
      <4>3. QED
        BY <2>1, <2>2, <3>2, <4>1, <4>2
    <3>5. QED
      BY <3>3, <3>4
  <2>5. QED
    BY <2>3, <2>4
<1>13. ASSUME NEW c \in (dom \union better) \ {start}
       PROVE  \E d \in dom \union better : d \in Beside(c) /\ cheaper[c] >= Toll(open, c) + cheaper[d]
  <2>1. PICK d \in dom : d \in Beside(c) /\ cheaper[c] >= Toll(open, c) + price[d]
    <3>1. CASE c \in better
      <4>1. PICK d \in new : d \in Beside(c) /\ Offer(c) = Toll(open, c) + price[d]
        BY <1>6, <1>7, <3>1
      <4>2. Offer(c) \in Nat /\ d \in dom /\ cheaper[c] = Offer(c)
        BY <1>2, <1>6, <1>7, <3>1, <4>1
      <4>3. QED
        BY <4>1, <4>2
    <3>2. CASE c \notin better
      BY <1>5, <1>7, <1>13, <3>2
    <3>3. QED
      BY <3>1, <3>2
  <2>2. PICK w \in Nat, p \in Nat, q \in Nat, v \in Nat :
          w = Toll(open, c) /\ p = price[d] /\ q = cheaper[d] /\ v = cheaper[c]
    <3>1. price[d] \in Nat /\ cheaper[d] \in Nat
      BY <1>9
    <3>2. cheaper[c] \in Nat
      BY <1>8, <1>13
    <3>3. Toll(open, c) \in Nat
      BY TollIs
    <3>4. QED
      BY <3>1, <3>2, <3>3
  <2>3. q <= p /\ v >= w + p
    BY <1>9, <2>1, <2>2
  <2>4. v >= w + q
    BY <2>3
  <2>5. QED
    BY <2>1, <2>2, <2>4
<1>14. better \subseteq dom \union better /\ dom \union better \subseteq cells /\ start \in dom \union better
  BY <1>2, <1>7
<1>15. QED
  BY <1>7, <1>10, <1>11, <1>12, <1>13, <1>14 DEF Costed

\* A price falls from the edge of the cells inwards, as all the edge is wall.
LEMMA EdgesCostMore ==
  ASSUME NEW cells, NEW open, NEW start, NEW price, Costed(cells, open, start, price, {}),
         NEW B \in SUBSET cells, B \cap open = {}, start \notin B, NEW f \in [B -> cells],
         \A b \in B : /\ f[b] \in Beside(b) /\ b \in Beside(f[b])
                      /\ \A d \in cells : d \in Beside(b) => d = f[b] \/ (d \in B /\ f[d] \in Beside(f[b]))
  PROVE  \A b \in B : b \in DOMAIN price => f[b] \in DOMAIN price /\ price[f[b]] < price[b]
<1>1. PICK dom : dom = DOMAIN price
  OBVIOUS
<1>2. /\ dom \subseteq cells /\ \A c \in dom : price[c] \in Nat
  BY <1>1 DEF Costed
<1>3. \A c \in cells, d \in dom : d \in Beside(c) => c \in dom /\ price[c] <= Toll(open, c) + price[d]
  BY <1>1 DEF Costed
<1>4. \A c \in dom \ {start} : \E d \in dom : d \in Beside(c) /\ price[c] >= Toll(open, c) + price[d]
  BY <1>1 DEF Costed
<1>5. \A b \in B : b \in dom => f[b] \in dom
  BY <1>3
<1> DEFINE Cheap == {b \in B : b \in dom /\ ~(price[f[b]] < price[b])}
           sums == {price[b] : b \in Cheap}
<1>6. SUFFICES ASSUME Cheap # {} PROVE FALSE
  BY <1>1, <1>5
<1>7. PICK b \in Cheap : \A d \in Cheap : price[b] <= price[d]
  <2>1. sums \in SUBSET Nat /\ sums # {}
    BY <1>2, <1>6
  <2>2. PICK m \in sums : \A k \in sums : m <= k
    <3>1. PICK S : S = sums
      OBVIOUS
    <3>2. S \in SUBSET Nat /\ S # {}
      BY <2>1, <3>1
    <3>3. QED
      BY <3>1, <3>2, LeastNatural
  <2>3. QED
    BY <2>2
<1>8. b \in B /\ b \in dom /\ f[b] \in dom /\ ~(price[f[b]] < price[b]) /\ b # start /\ f[b] \in cells
  BY <1>5, <1>7
<1>9. PICK d \in dom : d \in Beside(b) /\ price[b] >= Toll(open, b) + price[d]
  BY <1>4, <1>8
<1>10. Toll(open, b) = 1000
  BY <1>8 DEF Toll
<1>11. PICK pb \in Nat, pd \in Nat, pf \in Nat : pb = price[b] /\ pd = price[d] /\ pf = price[f[b]]
  BY <1>2, <1>8, <1>9
<1>12. pb >= 1000 + pd /\ ~(pf < pb)
  BY <1>8, <1>9, <1>10, <1>11
<1>13. d # f[b]
  BY <1>11, <1>12
<1>14. d \in B /\ f[d] \in Beside(f[b])
  BY <1>2, <1>8, <1>9, <1>13
<1>15. d \notin Cheap
  BY <1>7, <1>11, <1>12
<1>16. f[d] \in dom /\ price[f[d]] < pd
  BY <1>5, <1>11, <1>14, <1>15
<1>17. price[f[b]] <= Toll(open, f[b]) + price[f[d]]
  BY <1>3, <1>8, <1>14, <1>16
<1>18. PICK w \in {1, 1000}, q \in Nat : w = Toll(open, f[b]) /\ q = price[f[d]]
  BY <1>2, <1>16, TollIs
<1>19. pf <= w + q /\ q < pd
  BY <1>11, <1>16, <1>17, <1>18
<1>20. QED
  BY <1>12, <1>18, <1>19

-----------------------------------------------------------------------------
(* Parts of the block.                                                       *)

LEMMA DrawIsBetween ==
  ASSUME NEW low \in Int, NEW high \in Int, NEW x \in Draw(low, high)
  PROVE  x \in Int /\ low <= x /\ x <= high
<1>1. PICK g \in Nat \ {0} : g = Grain /\ Draws \subseteq 0..g
  BY BspAssumption
<1>2. low <= high
  BY DEF Draw
<1>3. PICK k \in 0..g : x = low + (k * (high - low)) \div g
  BY <1>1, <1>2 DEF Draw
<1>4. PICK d \in Nat : d = high - low
  BY <1>2
<1>5. PICK q \in Nat : q = k * d
  OBVIOUS
<1>6. q <= g * d
  <2>1. PICK j \in Nat : g = k + j
    <3>1. g - k \in Nat /\ g = k + (g - k)
      OBVIOUS
    <3>2. QED
      BY <3>1
  <2>2. g * d = k * d + j * d
    BY <2>1
  <2>3. j * d >= 0
    OBVIOUS
  <2>4. QED
    BY <1>5, <2>2, <2>3
<1>7. PICK m \in Int : m = q \div g
  OBVIOUS
<1>8. g * m <= q /\ q < g * m + g
  BY <1>7
<1>9. m <= d
  <2>1. SUFFICES ASSUME m >= d + 1 PROVE FALSE
    OBVIOUS
  <2>2. PICK j \in Nat : m = d + 1 + j
    <3>1. m - (d + 1) \in Nat /\ m = d + 1 + (m - (d + 1))
      BY <2>1
    <3>2. QED
      BY <3>1
  <2>3. g * m = g * d + g + g * j
    BY <2>2
  <2>4. g * j >= 0
    OBVIOUS
  <2>5. QED
    BY <1>6, <1>8, <2>3, <2>4
<1>10. m >= 0
  <2>1. SUFFICES ASSUME m < 0 PROVE FALSE
    OBVIOUS
  <2>2. PICK j \in Nat : m = -1 - j
    <3>1. -1 - m \in Nat /\ m = -1 - (-1 - m)
      BY <2>1
    <3>2. QED
      BY <3>1
  <2>3. g * m = - g - g * j
    BY <2>2
  <2>4. g * j >= 0
    OBVIOUS
  <2>5. QED
    BY <1>8, <2>3, <2>4
<1>11. x = low + m
  BY <1>3, <1>4, <1>5, <1>7
<1>12. QED
  BY <1>4, <1>9, <1>10, <1>11

Fits(p) ==
  /\ p = Part(p.l, p.r, p.t, p.b)
  /\ p.l \in Nat /\ p.r \in Nat /\ p.t \in Nat /\ p.b \in Nat
  /\ p.l + MinPartSpan <= p.r /\ p.r <= BlockWidth
  /\ p.t + MinPartSpan <= p.b /\ p.b <= BlockHeight

Inner(p) == ((p.l + 1)..(p.r - 1)) \X ((p.t + 1)..(p.b - 1))

Whole(f, s) == Part(f.l, s.r, f.t, s.b)

\* Two parts are the halves of one.
Halves(f, s) ==
  /\ Fits(f) /\ Fits(s)
  /\ \/ f.t = s.t /\ f.b = s.b /\ s.l = f.r + 1
     \/ f.l = s.l /\ f.r = s.r /\ s.t = f.b + 1

LEMMA SpanIsFour == /\ MinPartSpan \in Nat /\ MinPartSpan >= 4
                    /\ BlockWidth \in Nat /\ BlockHeight \in Nat
                    /\ BlockWidth >= MinPartSpan /\ BlockHeight >= MinPartSpan
  BY BspAssumption

LEMMA InnerIsIn ==
  ASSUME NEW p, Fits(p)
  PROVE  /\ Inner(p) \subseteq PartCells(p) /\ PartCells(p) \subseteq Points
         /\ PartCells(p) \subseteq Nat \X Nat
         /\ PartCells(p) # {} /\ IsFiniteSet(PartCells(p))
         /\ Inner(p) \subseteq (1..(BlockWidth - 1)) \X (1..(BlockHeight - 1))
<1>1. PICK l, r, t, b : l = p.l /\ r = p.r /\ t = p.t /\ b = p.b
  OBVIOUS
<1>2. /\ l \in Nat /\ r \in Nat /\ t \in Nat /\ b \in Nat
      /\ l + 4 <= r /\ t + 4 <= b /\ r <= BlockWidth /\ b <= BlockHeight
  BY <1>1, SpanIsFour DEF Fits
<1>3. PartCells(p) = (l..r) \X (t..b) /\ Inner(p) = ((l + 1)..(r - 1)) \X ((t + 1)..(b - 1))
  BY <1>1 DEF PartCells, Inner
<1>4. /\ (l + 1)..(r - 1) \subseteq l..r /\ (t + 1)..(b - 1) \subseteq t..b
      /\ l..r \subseteq Nat /\ t..b \subseteq Nat
      /\ (l + 1)..(r - 1) \subseteq 1..(BlockWidth - 1)
      /\ (t + 1)..(b - 1) \subseteq 1..(BlockHeight - 1)
  BY <1>2, SpanIsFour
<1>5. PartCells(p) # {}
  <2>1. l \in l..r /\ t \in t..b
    BY <1>2
  <2>2. <<l, t>> \in (l..r) \X (t..b)
    BY <2>1
  <2>3. QED
    BY <1>3, <2>2
<1>6. IsFiniteSet(PartCells(p))
  <2>1. IsFiniteSet(l..r) /\ IsFiniteSet(t..b)
    BY <1>2, FS_Interval
  <2>2. IsFiniteSet((l..r) \X (t..b))
    BY <2>1, FS_Product
  <2>3. QED
    BY <1>3, <2>2
<1>7. QED
  BY <1>3, <1>4, <1>5, <1>6 DEF Points

LEMMA HalvesMakeWhole ==
  ASSUME NEW f, NEW s, Halves(f, s)
  PROVE  /\ Fits(Whole(f, s))
         /\ PartCells(Whole(f, s)) = PartCells(f) \union PartCells(s)
         /\ PartCells(f) \intersect PartCells(s) = {}
         /\ Inner(f) \subseteq Inner(Whole(f, s)) /\ Inner(s) \subseteq Inner(Whole(f, s))
<1>1. PICK l, r, t, b : l = f.l /\ r = f.r /\ t = f.t /\ b = f.b
  OBVIOUS
<1>2. PICK u, v, w, z : u = s.l /\ v = s.r /\ w = s.t /\ z = s.b
  OBVIOUS
<1>3. /\ l \in Nat /\ r \in Nat /\ t \in Nat /\ b \in Nat /\ l + MinPartSpan <= r /\ t + MinPartSpan <= b
      /\ u \in Nat /\ v \in Nat /\ w \in Nat /\ z \in Nat /\ u + MinPartSpan <= v /\ w + MinPartSpan <= z
      /\ v <= BlockWidth /\ z <= BlockHeight
      /\ (t = w /\ b = z /\ u = r + 1) \/ (l = u /\ r = v /\ w = b + 1)
  BY <1>1, <1>2 DEF Halves, Fits
<1>4. PICK p : p = Whole(f, s)
  OBVIOUS
<1>5. p = Part(l, v, t, z) /\ p.l = l /\ p.r = v /\ p.t = t /\ p.b = z
  BY <1>1, <1>2, <1>4 DEF Whole, Part
<1>6. Fits(p)
  BY <1>3, <1>5, SpanIsFour DEF Fits
<1>7. PartCells(p) = (l..v) \X (t..z) /\ Inner(p) = ((l + 1)..(v - 1)) \X ((t + 1)..(z - 1))
  BY <1>5 DEF PartCells, Inner
<1>8. /\ PartCells(f) = (l..r) \X (t..b) /\ Inner(f) = ((l + 1)..(r - 1)) \X ((t + 1)..(b - 1))
      /\ PartCells(s) = (u..v) \X (w..z) /\ Inner(s) = ((u + 1)..(v - 1)) \X ((w + 1)..(z - 1))
  BY <1>1, <1>2 DEF PartCells, Inner
<1>9. CASE t = w /\ b = z /\ u = r + 1
  <2>1. l..v = (l..r) \union (u..v) /\ (l..r) \intersect (u..v) = {} /\ t..z = t..b /\ w..z = t..b
    BY <1>3, <1>9, SpanIsFour
  <2>2. /\ (l + 1)..(r - 1) \subseteq (l + 1)..(v - 1) /\ (u + 1)..(v - 1) \subseteq (l + 1)..(v - 1)
        /\ (t + 1)..(b - 1) = (t + 1)..(z - 1) /\ (w + 1)..(z - 1) = (t + 1)..(z - 1)
    BY <1>3, <1>9, SpanIsFour
  <2>3. QED
    BY <1>4, <1>6, <1>7, <1>8, <2>1, <2>2
<1>10. CASE l = u /\ r = v /\ w = b + 1
  <2>1. t..z = (t..b) \union (w..z) /\ (t..b) \intersect (w..z) = {} /\ l..v = l..r /\ u..v = l..r
    BY <1>3, <1>10, SpanIsFour
  <2>2. /\ (t + 1)..(b - 1) \subseteq (t + 1)..(z - 1) /\ (w + 1)..(z - 1) \subseteq (t + 1)..(z - 1)
        /\ (l + 1)..(r - 1) = (l + 1)..(v - 1) /\ (u + 1)..(v - 1) = (l + 1)..(v - 1)
    BY <1>3, <1>10, SpanIsFour
  <2>3. QED
    BY <1>4, <1>6, <1>7, <1>8, <2>1, <2>2
<1>11. QED
  BY <1>3, <1>9, <1>10

\* From inside a part the way back never steps to its edge.
LEMMA WayStaysInside ==
  ASSUME NEW p, Fits(p), NEW open, open \cap PartCells(p) \subseteq Inner(p),
         NEW start \in Inner(p), NEW price, Costed(PartCells(p), open, start, price, {}),
         NEW c \in Inner(p), NEW d \in Beside(c) \cap DOMAIN price, ~(price[c] < price[d])
  PROVE  d \in Inner(p)
<1>1. PICK l, r, t, b : l = p.l /\ r = p.r /\ t = p.t /\ b = p.b
  OBVIOUS
<1>2. l \in Nat /\ r \in Nat /\ t \in Nat /\ b \in Nat /\ l + 4 <= r /\ t + 4 <= b
  BY <1>1, SpanIsFour DEF Fits
<1>3. PICK cells : cells = PartCells(p)
  OBVIOUS
<1>4. cells = (l..r) \X (t..b) /\ Inner(p) = ((l + 1)..(r - 1)) \X ((t + 1)..(b - 1))
  BY <1>1, <1>3 DEF PartCells, Inner
<1>5. PICK x \in (l + 1)..(r - 1), y \in (t + 1)..(b - 1) : c = <<x, y>>
  BY <1>4
<1>6. d \in cells /\ Costed(cells, open, start, price, {}) /\ d \in DOMAIN price
  BY <1>3 DEF Costed
<1>7. PICK u \in l..r, v \in t..b : d = <<u, v>>
  BY <1>4, <1>6
<1>8. \/ u = x - 1 /\ v = y
      \/ u = x + 1 /\ v = y
      \/ u = x /\ v = y - 1
      \/ u = x /\ v = y + 1
  BY <1>5, <1>7 DEF Beside
<1>9. SUFFICES ASSUME u = l \/ u = r \/ v = t \/ v = b PROVE FALSE
  <2>1. SUFFICES ASSUME ~(u = l \/ u = r \/ v = t \/ v = b) PROVE d \in Inner(p)
    OBVIOUS
  <2>2. u \in (l + 1)..(r - 1) /\ v \in (t + 1)..(b - 1)
    BY <1>2, <2>1
  <2>3. QED
    BY <1>4, <1>7, <2>2
<1>10. \A e \in cells : e \in open \/ e = start => e \in Inner(p)
  BY <1>3
<1>11. \A e, g \in cells : g \in Beside(e) <=>
          \/ g[1] = e[1] - 1 /\ g[2] = e[2]
          \/ g[1] = e[1] + 1 /\ g[2] = e[2]
          \/ g[1] = e[1] /\ g[2] = e[2] - 1
          \/ g[1] = e[1] /\ g[2] = e[2] + 1
  <2>1. cells \subseteq Points
    BY <1>3, InnerIsIn
  <2>2. QED
    BY <2>1, BesideIs
<1>12. ASSUME NEW w \in {l, r}, NEW z \in {l + 1, r - 1}, (w = l /\ z = l + 1) \/ (w = r /\ z = r - 1),
              u = w
       PROVE  FALSE
  <2>1. PICK B, f : B = {w} \X (t..b) /\ f = [e \in B |-> <<z, e[2]>>]
    OBVIOUS
  <2>2. w \in l..r /\ z \in l..r /\ w \notin (l + 1)..(r - 1) /\ w # z
    BY <1>2, <1>12
  <2>3. B \in SUBSET cells /\ f \in [B -> cells]
    BY <1>4, <2>1, <2>2
  <2>4. B \cap open = {} /\ start \notin B
    BY <1>4, <1>10, <2>1, <2>2, <2>3
  <2>5. \A e \in B : e[1] = w /\ e[2] \in t..b /\ e = <<e[1], e[2]>> /\ f[e] = <<z, e[2]>>
    BY <2>1
  <2>6. ASSUME NEW e \in B
        PROVE  /\ f[e] \in Beside(e) /\ e \in Beside(f[e])
               /\ \A g \in cells : g \in Beside(e) => g = f[e] \/ (g \in B /\ f[g] \in Beside(f[e]))
    <3>1. e \in cells /\ f[e] \in cells
      BY <2>3
    <3>2. PICK y0 \in t..b : e = <<w, y0>> /\ f[e] = <<z, y0>>
      BY <2>5
    <3>3. f[e] \in Beside(e) /\ e \in Beside(f[e])
      BY <1>2, <1>12, <3>2 DEF Beside
    <3>4. ASSUME NEW g \in cells, g \in Beside(e)
          PROVE  g = f[e] \/ (g \in B /\ f[g] \in Beside(f[e]))
      <4>1. PICK u0 \in l..r, v0 \in t..b : g = <<u0, v0>>
        BY <1>4
      <4>2. \/ u0 = z /\ v0 = y0
            \/ u0 = w /\ (v0 = y0 - 1 \/ v0 = y0 + 1)
        BY <1>2, <1>12, <3>2, <3>4, <4>1 DEF Beside
      <4>3. CASE u0 = z /\ v0 = y0
        BY <3>2, <4>1, <4>3
      <4>4. CASE u0 = w /\ (v0 = y0 - 1 \/ v0 = y0 + 1)
        <5>1. g \in B /\ f[g] = <<z, v0>>
          BY <2>1, <4>1, <4>4
        <5>2. <<z, v0>> \in Beside(<<z, y0>>)
          BY <4>4 DEF Beside
        <5>3. QED
          BY <3>2, <5>1, <5>2
      <4>5. QED
        BY <4>2, <4>3, <4>4
    <3>5. QED
      BY <3>3, <3>4
  <2>7. d \in B /\ f[d] = c
    <3>1. z = x /\ v = y
      BY <1>2, <1>8, <1>12
    <3>2. QED
      BY <1>5, <1>7, <1>12, <2>1, <3>1
  <2>8. price[f[d]] < price[d]
    BY <1>6, <2>3, <2>4, <2>6, <2>7, EdgesCostMore
  <2>9. QED
    BY <2>7, <2>8
<1>13. ASSUME NEW w \in {t, b}, NEW z \in {t + 1, b - 1}, (w = t /\ z = t + 1) \/ (w = b /\ z = b - 1),
              v = w
       PROVE  FALSE
  <2>1. PICK B, f : B = (l..r) \X {w} /\ f = [e \in B |-> <<e[1], z>>]
    OBVIOUS
  <2>2. w \in t..b /\ z \in t..b /\ w \notin (t + 1)..(b - 1) /\ w # z
    BY <1>2, <1>13
  <2>3. B \in SUBSET cells /\ f \in [B -> cells]
    BY <1>4, <2>1, <2>2
  <2>4. B \cap open = {} /\ start \notin B
    BY <1>4, <1>10, <2>1, <2>2, <2>3
  <2>5. \A e \in B : e[2] = w /\ e[1] \in l..r /\ e = <<e[1], e[2]>> /\ f[e] = <<e[1], z>>
    BY <2>1
  <2>6. ASSUME NEW e \in B
        PROVE  /\ f[e] \in Beside(e) /\ e \in Beside(f[e])
               /\ \A g \in cells : g \in Beside(e) => g = f[e] \/ (g \in B /\ f[g] \in Beside(f[e]))
    <3>1. e \in cells /\ f[e] \in cells
      BY <2>3
    <3>2. PICK x0 \in l..r : e = <<x0, w>> /\ f[e] = <<x0, z>>
      BY <2>5
    <3>3. f[e] \in Beside(e) /\ e \in Beside(f[e])
      BY <1>2, <1>13, <3>2 DEF Beside
    <3>4. ASSUME NEW g \in cells, g \in Beside(e)
          PROVE  g = f[e] \/ (g \in B /\ f[g] \in Beside(f[e]))
      <4>1. PICK u0 \in l..r, v0 \in t..b : g = <<u0, v0>>
        BY <1>4
      <4>2. \/ v0 = z /\ u0 = x0
            \/ v0 = w /\ (u0 = x0 - 1 \/ u0 = x0 + 1)
        BY <1>2, <1>13, <3>2, <3>4, <4>1 DEF Beside
      <4>3. CASE v0 = z /\ u0 = x0
        BY <3>2, <4>1, <4>3
      <4>4. CASE v0 = w /\ (u0 = x0 - 1 \/ u0 = x0 + 1)
        <5>1. g \in B /\ f[g] = <<u0, z>>
          BY <2>1, <4>1, <4>4
        <5>2. <<u0, z>> \in Beside(<<x0, z>>)
          BY <4>4 DEF Beside
        <5>3. QED
          BY <3>2, <5>1, <5>2
      <4>5. QED
        BY <4>2, <4>3, <4>4
    <3>5. QED
      BY <3>3, <3>4
  <2>7. d \in B /\ f[d] = c
    <3>1. z = y /\ u = x
      BY <1>2, <1>8, <1>13
    <3>2. QED
      BY <1>5, <1>7, <1>13, <2>1, <3>1
  <2>8. price[f[d]] < price[d]
    BY <1>6, <2>3, <2>4, <2>6, <2>7, EdgesCostMore
  <2>9. QED
    BY <2>7, <2>8
<1>14. QED
  BY <1>9, <1>12, <1>13

-----------------------------------------------------------------------------
(* Linking two halves.                                                       *)

\* The rooms of a part can be walked between, and its outer wall is whole.
Sound(rooms, open, p) ==
  /\ rooms \cap PartCells(p) # {}
  /\ open \cap PartCells(p) \subseteq Inner(p)
  /\ Joined(open \cap PartCells(p))

\* With the cells of a passage one can walk from one half to the other.
Bridges(cells, rooms, open, f, s) ==
  \E R \in SUBSET Inner(Whole(f, s)) :
    /\ Joined(R) /\ cells \subseteq R /\ R \subseteq open \union cells
    /\ \E c \in R : c \in rooms \cap PartCells(f) /\ c \notin cells
    /\ \E d \in R : d \in rooms \cap PartCells(s)

LEMMA BridgeIsSound ==
  ASSUME NEW f, NEW s, Halves(f, s), NEW rooms, NEW open, rooms \subseteq open,
         Sound(rooms, open, f), Sound(rooms, open, s),
         NEW cells, Bridges(cells, rooms, open, f, s)
  PROVE  /\ Sound(rooms \ cells, open \union cells, Whole(f, s))
         /\ cells \subseteq Inner(Whole(f, s))
<1>1. PICK W, I, F, S : W = PartCells(Whole(f, s)) /\ I = Inner(Whole(f, s))
                        /\ F = PartCells(f) /\ S = PartCells(s)
  OBVIOUS
<1>2. PICK R \in SUBSET I : /\ Joined(R) /\ cells \subseteq R /\ R \subseteq open \union cells
                            /\ \E c \in R : c \in rooms \cap F /\ c \notin cells
                            /\ \E d \in R : d \in rooms \cap S
  BY <1>1 DEF Bridges
<1>3. I \subseteq W /\ W = F \union S /\ Inner(f) \subseteq I /\ Inner(s) \subseteq I
  BY <1>1, HalvesMakeWhole, InnerIsIn
<1>4. /\ open \cap F \subseteq Inner(f) /\ Joined(open \cap F)
      /\ open \cap S \subseteq Inner(s) /\ Joined(open \cap S)
  BY <1>1 DEF Sound
<1>5. Joined((open \cap F) \union R)
  <2>1. (open \cap F) \intersect R # {}
    BY <1>2
  <2>2. QED
    BY <1>2, <1>4, <2>1, JoinedTogether
<1>6. Joined(((open \cap F) \union R) \union (open \cap S))
  <2>1. ((open \cap F) \union R) \intersect (open \cap S) # {}
    BY <1>2
  <2>2. QED
    BY <1>4, <1>5, <2>1, JoinedTogether
<1>7. (open \union cells) \cap W = ((open \cap F) \union R) \union (open \cap S)
  BY <1>2, <1>3
<1>8. (open \union cells) \cap W \subseteq I
  BY <1>2, <1>3, <1>4, <1>7
<1>9. (rooms \ cells) \cap W # {}
  BY <1>2, <1>3
<1>10. QED
  BY <1>1, <1>2, <1>6, <1>7, <1>8, <1>9 DEF Sound

\* A passage leads from one cell to another along an axis.
IsStraight(passage, a, b, axis) ==
  \E c \in a, d \in b :
    /\ c[3 - axis] = d[3 - axis]
    /\ (\A e \in a : e[axis] < d[axis]) =>
         /\ DOMAIN passage = (c[axis] + 1)..(d[axis] - 1)
         /\ \A i \in DOMAIN passage :
              passage[i] = IF axis = 1 THEN <<i, c[3 - axis]>> ELSE <<c[3 - axis], i>>

LEMMA StraightPassageIs ==
  ASSUME NEW a \in SUBSET (Nat \X Nat), NEW b, NEW axis \in {1, 2},
         NEW passage \in StraightPassages(a, b, axis)
  PROVE  IsStraight(passage, a, b, axis)
<1> DEFINE line(c) == c[3 - axis]
           far == Max({c[axis] : c \in a})
           near == Min({c[axis] : c \in b})
           lines == {line(c) : c \in {c \in a : c[axis] = far}}
                      \cap {line(c) : c \in {c \in b : c[axis] = near}}
           nth(l) == Cardinality({m \in lines : m < l})
           least == Min({c[axis] : c \in a})
           span == IF least < near THEN Between(far, near)
                   ELSE Between(Max({c[axis] : c \in b}), least)
           cell(along, across) == IF axis = 1 THEN <<along, across>> ELSE <<across, along>>
           drawn == {l \in lines : nth(l) \in Draw(0, Cardinality(lines) - 1)}
<1>1. StraightPassages(a, b, axis) = {[i \in span |-> cell(i, l)] : l \in drawn}
  BY DEF StraightPassages
<1>2. PICK l \in drawn : passage = [i \in span |-> cell(i, l)]
  BY <1>1
<1>3. l \in lines
  OBVIOUS
<1> HIDE DEF drawn, nth
<1>4. PICK c \in a : c[axis] = far /\ line(c) = l
  BY <1>3
<1>5. PICK d \in b : d[axis] = near /\ line(d) = l
  BY <1>3
<1> HIDE DEF lines
<1>6. \E e \in a : least = e[axis]
  <2>1. PICK S : S = {e[axis] : e \in a}
    OBVIOUS
  <2>2. S \in SUBSET Nat /\ S # {}
    BY <1>4, <2>1
  <2>3. Min(S) \in S
    BY <2>2, MinOfNaturals
  <2>4. QED
    BY <2>1, <2>3
<1>7. (\A e \in a : e[axis] < d[axis]) => span = (c[axis] + 1)..(d[axis] - 1)
  <2> HIDE DEF least
  <2>1. SUFFICES ASSUME \A e \in a : e[axis] < d[axis] PROVE span = (c[axis] + 1)..(d[axis] - 1)
    OBVIOUS
  <2>2. least < near
    BY <1>5, <1>6, <2>1
  <2>3. span = Between(far, near)
    BY <2>2
  <2> HIDE DEF span, far, near
  <2>4. QED
    BY <1>4, <1>5, <2>3 DEF Between
<1> HIDE DEF span, far, near
<1>8. DOMAIN passage = span
      /\ \A i \in span : passage[i] = IF axis = 1 THEN <<i, c[3 - axis]>> ELSE <<c[3 - axis], i>>
  BY <1>2, <1>4
<1>9. c[3 - axis] = d[3 - axis]
  BY <1>4, <1>5
<1>10. QED
  BY <1>7, <1>8, <1>9 DEF IsStraight

LEMMA RowBridges ==
  ASSUME NEW f, NEW s, Halves(f, s), NEW rooms, NEW open, rooms \subseteq open,
         rooms \cap PartCells(f) \subseteq Inner(f), rooms \cap PartCells(s) \subseteq Inner(s),
         NEW passage \in StraightPassages(rooms \cap PartCells(f), rooms \cap PartCells(s), 1),
         NEW cells, cells = {passage[i] : i \in DOMAIN passage}
  PROVE  Bridges(cells, rooms, open, f, s)
<1>1. PICK a, b : a = rooms \cap PartCells(f) /\ b = rooms \cap PartCells(s)
  OBVIOUS
<1>2. PICK c \in a, d \in b :
           /\ c[2] = d[2]
           /\ (\A e \in a : e[1] < d[1]) =>
                /\ DOMAIN passage = (c[1] + 1)..(d[1] - 1)
                /\ \A i \in DOMAIN passage : passage[i] = <<i, c[2]>>
  <2>1. a \in SUBSET (Nat \X Nat)
    BY <1>1, InnerIsIn DEF Halves
  <2>2. PICK axis : axis = 1
    OBVIOUS
  <2>3. axis \in {1, 2} /\ 3 - axis = 2 /\ passage \in StraightPassages(a, b, axis)
    BY <1>1, <2>2
  <2>4. IsStraight(passage, a, b, axis)
    BY <2>1, <2>3, StraightPassageIs
  <2>5. QED
    BY <2>2, <2>3, <2>4 DEF IsStraight
<1>3. PICK l, r, t, k : l = f.l /\ r = f.r /\ t = f.t /\ k = f.b
  OBVIOUS
<1>4. PICK u, v, w, z : u = s.l /\ v = s.r /\ w = s.t /\ z = s.b
  OBVIOUS
<1>5. /\ l \in Nat /\ r \in Nat /\ t \in Nat /\ k \in Nat
      /\ u \in Nat /\ v \in Nat /\ w \in Nat /\ z \in Nat
      /\ (t = w /\ k = z /\ u = r + 1) \/ (l = u /\ r = v /\ w = k + 1)
  BY <1>3, <1>4 DEF Halves, Fits
<1>6. /\ a \subseteq ((l + 1)..(r - 1)) \X ((t + 1)..(k - 1))
      /\ b \subseteq ((u + 1)..(v - 1)) \X ((w + 1)..(z - 1))
  BY <1>1, <1>3, <1>4 DEF Inner
<1>7. PICK x \in (l + 1)..(r - 1), y \in (t + 1)..(k - 1) : c = <<x, y>>
  BY <1>6
<1>8. PICK q \in (u + 1)..(v - 1), o \in (w + 1)..(z - 1) : d = <<q, o>>
  BY <1>6
<1>9. y = o /\ t = w /\ k = z /\ u = r + 1
  BY <1>2, <1>5, <1>7, <1>8
<1>10. \A e \in a : e[1] < d[1]
  <2>1. \A i \in (l + 1)..(r - 1) : i < q
    BY <1>5, <1>9
  <2>2. QED
    BY <1>6, <1>8, <2>1
<1>11. DOMAIN passage = (x + 1)..(q - 1)
       /\ \A i \in DOMAIN passage : passage[i] = <<i, y>>
  BY <1>2, <1>7, <1>8, <1>10
<1>12. \A e : e \in cells <=> \E i \in (x + 1)..(q - 1) : e = <<i, y>>
  BY <1>11
<1>13. PICK R : R = (x..q) \X (y..y)
  OBVIOUS
<1>14. \A e : e \in R <=> \E i \in x..q : e = <<i, y>>
  <2>1. y..y = {y}
    OBVIOUS
  <2>2. QED
    BY <1>13, <2>1
<1>15. Joined(R)
  <2>1. x \in Int /\ y \in Int /\ q \in Int /\ o \in Int
    BY <1>5
  <2>2. QED
    BY <1>13, <2>1, RectangleIsJoined
<1>16. x < q /\ \A i \in x..q : i = x \/ i = q \/ i \in (x + 1)..(q - 1)
  BY <1>5, <1>9
<1>17. cells \subseteq R /\ R \subseteq open \union cells
  <2>1. c \in open /\ d \in open
    BY <1>1
  <2>2. \A e \in R : e = c \/ e = d \/ e \in cells
    BY <1>7, <1>8, <1>9, <1>12, <1>14, <1>16
  <2>3. QED
    BY <1>12, <1>14, <2>1, <2>2
<1>18. R \subseteq Inner(Whole(f, s))
  <2>1. Inner(Whole(f, s)) = ((l + 1)..(v - 1)) \X ((t + 1)..(z - 1))
    BY <1>3, <1>4 DEF Inner, Whole, Part
  <2>2. \A i \in x..q : i \in (l + 1)..(v - 1)
    BY <1>5
  <2>3. y \in (t + 1)..(z - 1)
    BY <1>9
  <2>4. QED
    BY <1>14, <2>1, <2>2, <2>3
<1>19. c \in R /\ c \notin cells /\ c \in rooms \cap PartCells(f)
  <2>1. x \in x..q /\ \A i \in (x + 1)..(q - 1) : <<i, y>> # <<x, y>>
    BY <1>16
  <2>2. QED
    BY <1>1, <1>7, <1>12, <1>14, <2>1
<1>20. d \in R /\ d \in rooms \cap PartCells(s)
  BY <1>1, <1>8, <1>9, <1>14, <1>16
<1>21. QED
  BY <1>15, <1>17, <1>18, <1>19, <1>20 DEF Bridges

LEMMA ColumnBridges ==
  ASSUME NEW f, NEW s, Halves(f, s), NEW rooms, NEW open, rooms \subseteq open,
         rooms \cap PartCells(f) \subseteq Inner(f), rooms \cap PartCells(s) \subseteq Inner(s),
         NEW passage \in StraightPassages(rooms \cap PartCells(f), rooms \cap PartCells(s), 2),
         NEW cells, cells = {passage[i] : i \in DOMAIN passage}
  PROVE  Bridges(cells, rooms, open, f, s)
<1>1. PICK a, b : a = rooms \cap PartCells(f) /\ b = rooms \cap PartCells(s)
  OBVIOUS
<1>2. PICK c \in a, d \in b :
           /\ c[1] = d[1]
           /\ (\A e \in a : e[2] < d[2]) =>
                /\ DOMAIN passage = (c[2] + 1)..(d[2] - 1)
                /\ \A i \in DOMAIN passage : passage[i] = <<c[1], i>>
  <2>1. a \in SUBSET (Nat \X Nat)
    BY <1>1, InnerIsIn DEF Halves
  <2>2. PICK axis : axis = 2
    OBVIOUS
  <2>3. axis \in {1, 2} /\ 3 - axis = 1 /\ passage \in StraightPassages(a, b, axis)
    BY <1>1, <2>2
  <2>4. IsStraight(passage, a, b, axis)
    BY <2>1, <2>3, StraightPassageIs
  <2>5. QED
    BY <2>2, <2>3, <2>4 DEF IsStraight
<1>3. PICK l, r, t, k : l = f.l /\ r = f.r /\ t = f.t /\ k = f.b
  OBVIOUS
<1>4. PICK u, v, w, z : u = s.l /\ v = s.r /\ w = s.t /\ z = s.b
  OBVIOUS
<1>5. /\ l \in Nat /\ r \in Nat /\ t \in Nat /\ k \in Nat
      /\ u \in Nat /\ v \in Nat /\ w \in Nat /\ z \in Nat
      /\ (t = w /\ k = z /\ u = r + 1) \/ (l = u /\ r = v /\ w = k + 1)
  BY <1>3, <1>4 DEF Halves, Fits
<1>6. /\ a \subseteq ((l + 1)..(r - 1)) \X ((t + 1)..(k - 1))
      /\ b \subseteq ((u + 1)..(v - 1)) \X ((w + 1)..(z - 1))
  BY <1>1, <1>3, <1>4 DEF Inner
<1>7. PICK x \in (l + 1)..(r - 1), y \in (t + 1)..(k - 1) : c = <<x, y>>
  BY <1>6
<1>8. PICK q \in (u + 1)..(v - 1), o \in (w + 1)..(z - 1) : d = <<q, o>>
  BY <1>6
<1>9. x = q /\ l = u /\ r = v /\ w = k + 1
  BY <1>2, <1>5, <1>7, <1>8
<1>10. \A e \in a : e[2] < d[2]
  <2>1. \A i \in (t + 1)..(k - 1) : i < o
    BY <1>5, <1>9
  <2>2. QED
    BY <1>6, <1>8, <2>1
<1>11. DOMAIN passage = (y + 1)..(o - 1)
       /\ \A i \in DOMAIN passage : passage[i] = <<x, i>>
  BY <1>2, <1>7, <1>8, <1>10
<1>12. \A e : e \in cells <=> \E i \in (y + 1)..(o - 1) : e = <<x, i>>
  BY <1>11
<1>13. PICK R : R = (x..x) \X (y..o)
  OBVIOUS
<1>14. \A e : e \in R <=> \E i \in y..o : e = <<x, i>>
  <2>1. x..x = {x}
    OBVIOUS
  <2>2. QED
    BY <1>13, <2>1
<1>15. Joined(R)
  <2>1. x \in Int /\ y \in Int /\ q \in Int /\ o \in Int
    BY <1>5
  <2>2. QED
    BY <1>13, <2>1, RectangleIsJoined
<1>16. y < o /\ \A i \in y..o : i = y \/ i = o \/ i \in (y + 1)..(o - 1)
  BY <1>5, <1>9
<1>17. cells \subseteq R /\ R \subseteq open \union cells
  <2>1. c \in open /\ d \in open
    BY <1>1
  <2>2. \A e \in R : e = c \/ e = d \/ e \in cells
    BY <1>7, <1>8, <1>9, <1>12, <1>14, <1>16
  <2>3. QED
    BY <1>12, <1>14, <2>1, <2>2
<1>18. R \subseteq Inner(Whole(f, s))
  <2>1. Inner(Whole(f, s)) = ((l + 1)..(v - 1)) \X ((t + 1)..(z - 1))
    BY <1>3, <1>4 DEF Inner, Whole, Part
  <2>2. \A i \in y..o : i \in (t + 1)..(z - 1)
    BY <1>5
  <2>3. x \in (l + 1)..(v - 1)
    BY <1>9
  <2>4. QED
    BY <1>14, <2>1, <2>2, <2>3
<1>19. c \in R /\ c \notin cells /\ c \in rooms \cap PartCells(f)
  <2>1. y \in y..o /\ \A i \in (y + 1)..(o - 1) : <<x, i>> # <<x, y>>
    BY <1>16
  <2>2. QED
    BY <1>1, <1>7, <1>12, <1>14, <2>1
<1>20. d \in R /\ d \in rooms \cap PartCells(s)
  BY <1>1, <1>8, <1>9, <1>14, <1>16
<1>21. QED
  BY <1>15, <1>17, <1>18, <1>19, <1>20 DEF Bridges

-----------------------------------------------------------------------------
(* The agenda.                                                               *)

Parts == [l : Nat, r : Nat, t : Nat, b : Nat]
Tasks == [task : {"build"}, part : Parts] \cup [task : {"link"}, first : Parts, second : Parts]

Block == Part(0, BlockWidth, 0, BlockHeight)

IsTask(t) == IF t.task = "build" THEN Fits(t.part) ELSE Halves(t.first, t.second)

\* The part that a task is about, and its cells.
Area(t) == IF t.task = "build" THEN t.part ELSE Whole(t.first, t.second)
Cells(t) == PartCells(Area(t))

\* The parts that have to be ready when a task is begun; after the last task
\* it is the block.
Needs(A, j) ==
  IF j = Len(A) + 1 THEN {Block}
  ELSE IF A[j].task = "link" THEN {A[j].first, A[j].second} ELSE {}

\* A task lies apart from a later one or within one of the parts this needs.
Nested(A) ==
  \A j \in 1..(Len(A) + 1) : \A i \in 1..(j - 1) :
    \/ j <= Len(A) /\ Cells(A[i]) \cap Cells(A[j]) = {}
    \/ \E h \in Needs(A, j) : Cells(A[i]) \subseteq PartCells(h)

\* What a task needs is still to be done before it, or is there to stay.
Provided(A, rooms, open) ==
  \A j \in 1..(Len(A) + 1) : \A h \in Needs(A, j) :
    \/ \E k \in 1..(j - 1) : Area(A[k]) = h
    \/ Sound(rooms, open, h) /\ \A k \in 1..(j - 1) : Cells(A[k]) \cap PartCells(h) = {}

\* Where a part is still to be built everything is rock.
Blank(A, open) == \A j \in 1..Len(A) : A[j].task = "build" => open \cap Cells(A[j]) = {}

Orderly(A, rooms, open) ==
  /\ A \in Seq(Tasks) /\ \A j \in 1..Len(A) : IsTask(A[j])
  /\ Nested(A) /\ Provided(A, rooms, open) /\ Blank(A, open)

LEMMA BlockFits == Fits(Block)
BY SpanIsFour DEF Fits, Block, Part

LEMMA AreaIs ==
  ASSUME NEW t \in Tasks, IsTask(t)
  PROVE  Fits(Area(t)) /\ t.task \in {"build", "link"}
<1>1. t.task \in {"build", "link"}
  BY DEF Tasks
<1>2. CASE t.task = "build"
  BY <1>1, <1>2 DEF IsTask, Area
<1>3. CASE t.task = "link"
  <2>1. Halves(t.first, t.second) /\ Area(t) = Whole(t.first, t.second)
    BY <1>3 DEF IsTask, Area
  <2>2. QED
    BY <1>1, <2>1, HalvesMakeWhole
<1>4. QED
  BY <1>1, <1>2, <1>3

LEMMA NeedsAre ==
  ASSUME NEW A \in Seq(Tasks), \A j \in 1..Len(A) : IsTask(A[j]),
         NEW j \in 1..(Len(A) + 1), NEW h \in Needs(A, j)
  PROVE  /\ Fits(h)
         /\ \A g \in Needs(A, j) : PartCells(g) \cap PartCells(h) # {} => g = h
         /\ j <= Len(A) => /\ A[j].task = "link" /\ PartCells(h) \subseteq Cells(A[j])
                           /\ Cells(A[j]) # PartCells(h)
<1>1. CASE j = Len(A) + 1
  <2>1. Needs(A, j) = {Block}
    BY <1>1 DEF Needs
  <2>2. ~(j <= Len(A))
    BY <1>1
  <2>3. QED
    BY <2>1, <2>2, BlockFits
<1>2. CASE j # Len(A) + 1
  <2>1. j \in 1..Len(A) /\ A[j] \in Tasks /\ IsTask(A[j])
    BY <1>2
  <2>2. A[j].task = "link" /\ Needs(A, j) = {A[j].first, A[j].second}
    BY <1>2 DEF Needs
  <2>3. PICK f, s : f = A[j].first /\ s = A[j].second
    OBVIOUS
  <2>4. Halves(f, s) /\ Area(A[j]) = Whole(f, s)
    BY <2>1, <2>2, <2>3 DEF IsTask, Area
  <2>5. /\ PartCells(Whole(f, s)) = PartCells(f) \union PartCells(s)
        /\ PartCells(f) \intersect PartCells(s) = {}
    BY <2>4, HalvesMakeWhole
  <2>6. Fits(f) /\ Fits(s) /\ PartCells(f) # {} /\ PartCells(s) # {}
    BY <2>4, InnerIsIn DEF Halves
  <2>7. Cells(A[j]) = PartCells(f) \union PartCells(s)
    BY <2>4, <2>5 DEF Cells
  <2>8. h \in {f, s} /\ Needs(A, j) = {f, s}
    BY <2>2, <2>3
  <2>9. Fits(h) /\ PartCells(h) \subseteq Cells(A[j]) /\ Cells(A[j]) # PartCells(h)
    BY <2>5, <2>6, <2>7, <2>8
  <2>10. \A g \in Needs(A, j) : PartCells(g) \cap PartCells(h) # {} => g = h
    BY <2>5, <2>8
  <2>11. QED
    BY <2>2, <2>9, <2>10
<1>3. QED
  BY <1>1, <1>2

LEMMA TailIs ==
  ASSUME NEW S, NEW A \in Seq(S), A # <<>>
  PROVE  /\ Tail(A) \in Seq(S) /\ Len(Tail(A)) = Len(A) - 1 /\ Len(A) \in Nat \ {0}
         /\ \A j \in 1..(Len(A) - 1) : Tail(A)[j] = A[j + 1]
         /\ Head(A) = A[1] /\ 1 \in 1..Len(A)
OBVIOUS

\* When the first task is done, and with it its part, the others are in order.
LEMMA DoneIsOrderly ==
  ASSUME NEW A, NEW rooms, NEW open, Orderly(A, rooms, open), A # <<>>,
         NEW newRooms, NEW newOpen,
         newRooms \ Cells(A[1]) = rooms \ Cells(A[1]), newOpen \ Cells(A[1]) = open \ Cells(A[1]),
         Sound(newRooms, newOpen, Area(A[1]))
  PROVE  Orderly(Tail(A), newRooms, newOpen)
<1>1. PICK B : B = Tail(A)
  OBVIOUS
<1>2. PICK n : n = Len(A)
  OBVIOUS
<1>3. /\ A \in Seq(Tasks) /\ B \in Seq(Tasks) /\ n \in Nat \ {0} /\ Len(B) = n - 1
      /\ \A j \in 1..(n - 1) : B[j] = A[j + 1]
  BY <1>1, <1>2, TailIs DEF Orderly
<1>4. \A j \in 1..n : IsTask(A[j]) /\ A[j] \in Tasks
  BY <1>2, <1>3 DEF Orderly
<1>5. \A j \in 1..(n - 1) : IsTask(B[j])
  BY <1>3, <1>4
<1>6. \A j \in 1..n : Needs(B, j) = Needs(A, j + 1)
  <2>1. SUFFICES ASSUME NEW j \in 1..n PROVE Needs(B, j) = Needs(A, j + 1)
    OBVIOUS
  <2>2. j = Len(B) + 1 <=> j + 1 = Len(A) + 1
    BY <1>2, <1>3
  <2>3. j # Len(B) + 1 => B[j] = A[j + 1]
    BY <1>3
  <2>4. QED
    BY <2>2, <2>3 DEF Needs
<1>7. \A j \in 1..(n + 1) : \A i \in 1..(j - 1) :
        \/ j <= n /\ Cells(A[i]) \cap Cells(A[j]) = {}
        \/ \E h \in Needs(A, j) : Cells(A[i]) \subseteq PartCells(h)
  BY <1>2 DEF Orderly, Nested
<1>8. \A j \in 1..(n + 1) : \A h \in Needs(A, j) :
        /\ Fits(h) /\ PartCells(h) # {}
        /\ \A g \in Needs(A, j) : PartCells(g) \cap PartCells(h) # {} => g = h
        /\ j <= n => /\ A[j].task = "link" /\ PartCells(h) \subseteq Cells(A[j])
                     /\ Cells(A[j]) # PartCells(h)
  BY <1>2, <1>3, <1>4, NeedsAre, InnerIsIn
<1>9. Nested(B)
  <2>1. SUFFICES ASSUME NEW j \in 1..n, NEW i \in 1..(j - 1)
                 PROVE  \/ j <= n - 1 /\ Cells(B[i]) \cap Cells(B[j]) = {}
                        \/ \E h \in Needs(B, j) : Cells(B[i]) \subseteq PartCells(h)
    <3>1. Len(B) + 1 = n
      BY <1>3
    <3>2. QED
      BY <1>3, <3>1 DEF Nested
  <2>2. j + 1 \in 1..(n + 1) /\ i + 1 \in 1..((j + 1) - 1) /\ i \in 1..(n - 1)
    BY <1>3
  <2>3. \/ j + 1 <= n /\ Cells(A[i + 1]) \cap Cells(A[j + 1]) = {}
        \/ \E h \in Needs(A, j + 1) : Cells(A[i + 1]) \subseteq PartCells(h)
    BY <1>7, <2>2
  <2>4. B[i] = A[i + 1] /\ (j + 1 <= n => j <= n - 1 /\ B[j] = A[j + 1])
    BY <1>3, <2>2
  <2>5. QED
    BY <1>6, <2>3, <2>4
<1>10. Blank(B, newOpen)
  <2>1. SUFFICES ASSUME NEW j \in 1..(n - 1), B[j].task = "build"
                 PROVE  newOpen \cap Cells(B[j]) = {}
    BY <1>3 DEF Blank
  <2>2. j + 1 \in 1..n /\ j + 1 \in 1..(n + 1) /\ 1 \in 1..((j + 1) - 1) /\ B[j] = A[j + 1]
    BY <1>3
  <2>3. Needs(A, j + 1) = {}
    BY <1>2, <1>3, <2>1, <2>2 DEF Needs
  <2>4. Cells(A[1]) \cap Cells(A[j + 1]) = {}
    BY <1>7, <2>2, <2>3
  <2>5. open \cap Cells(A[j + 1]) = {}
    BY <1>2, <2>1, <2>2 DEF Orderly, Blank
  <2>6. QED
    BY <2>2, <2>4, <2>5
<1>11. Provided(B, newRooms, newOpen)
  <2>1. SUFFICES ASSUME NEW j \in 1..n, NEW h \in Needs(B, j)
                 PROVE  \/ \E k \in 1..(j - 1) : Area(B[k]) = h
                        \/ /\ Sound(newRooms, newOpen, h)
                           /\ \A k \in 1..(j - 1) : Cells(B[k]) \cap PartCells(h) = {}
    BY <1>3 DEF Provided
  <2>2. j + 1 \in 1..(n + 1) /\ h \in Needs(A, j + 1) /\ (j + 1) - 1 = j
    BY <1>3, <1>6
  <2>3. \A k \in 1..(j - 1) : k \in 1..(n - 1) /\ k + 1 \in 1..j /\ B[k] = A[k + 1]
    BY <1>3
  <2>4. \/ \E k \in 1..j : Area(A[k]) = h
        \/ Sound(rooms, open, h) /\ \A k \in 1..j : Cells(A[k]) \cap PartCells(h) = {}
    BY <1>2, <2>2 DEF Orderly, Provided
  <2>5. CASE Area(A[1]) = h
    <3>1. SUFFICES ASSUME NEW k \in 1..(j - 1), Cells(A[k + 1]) \cap PartCells(h) # {} PROVE FALSE
      BY <2>3, <2>5
    <3>2. /\ k + 1 \in 1..(n + 1) /\ 1 \in 1..((k + 1) - 1) /\ k + 1 \in 1..((j + 1) - 1)
          /\ k + 1 \in 1..n
      BY <1>3
    <3>3. Cells(A[1]) = PartCells(h)
      BY <2>5 DEF Cells
    <3>4. PICK g \in Needs(A, k + 1) : PartCells(h) \subseteq PartCells(g)
      BY <1>7, <3>1, <3>2, <3>3
    <3>5. /\ PartCells(g) \subseteq Cells(A[k + 1]) /\ Cells(A[k + 1]) # PartCells(g)
          /\ PartCells(h) # {}
      BY <1>8, <2>2, <3>2, <3>4
    <3>6. j + 1 <= n => PartCells(h) \subseteq Cells(A[j + 1])
      BY <1>8, <2>2
    <3>7. PICK w \in Needs(A, j + 1) : Cells(A[k + 1]) \subseteq PartCells(w)
      BY <1>7, <2>2, <3>2, <3>4, <3>5, <3>6
    <3>8. PartCells(w) \cap PartCells(h) # {}
      BY <3>4, <3>5, <3>7
    <3>9. w = h
      BY <1>8, <2>2, <3>8
    <3>10. QED
      BY <3>4, <3>5, <3>7, <3>9
  <2>6. CASE \E k \in 1..j : k # 1 /\ Area(A[k]) = h
    <3>1. PICK k \in 1..j : k # 1 /\ Area(A[k]) = h
      BY <2>6
    <3>2. k - 1 \in 1..(j - 1) /\ k - 1 \in 1..(n - 1) /\ (k - 1) + 1 = k
      BY <1>3, <3>1
    <3>3. Area(B[k - 1]) = h
      BY <1>3, <3>1, <3>2
    <3>4. QED
      BY <3>2, <3>3
  <2>7. CASE Sound(rooms, open, h) /\ \A k \in 1..j : Cells(A[k]) \cap PartCells(h) = {}
    <3>1. Cells(A[1]) \cap PartCells(h) = {}
      BY <2>7
    <3>2. newRooms \cap PartCells(h) = rooms \cap PartCells(h) /\ newOpen \cap PartCells(h) = open \cap PartCells(h)
      BY <3>1
    <3>3. Sound(newRooms, newOpen, h)
      BY <2>7, <3>2 DEF Sound
    <3>4. \A k \in 1..(j - 1) : Cells(B[k]) \cap PartCells(h) = {}
      BY <2>3, <2>7
    <3>5. QED
      BY <3>3, <3>4
  <2>8. QED
    BY <2>4, <2>5, <2>6, <2>7
<1>12. QED
  BY <1>1, <1>3, <1>5, <1>9, <1>10, <1>11 DEF Orderly

LEMMA ThreeFirst ==
  ASSUME NEW S, NEW A \in Seq(S), A # <<>>, NEW a \in S, NEW b \in S, NEW c \in S,
         NEW B, B = <<a, b, c>> \o Tail(A)
  PROVE  /\ B \in Seq(S) /\ Len(B) = Len(A) + 2 /\ Len(A) \in Nat \ {0}
         /\ B[1] = a /\ B[2] = b /\ B[3] = c
         /\ \A j \in 4..(Len(A) + 2) : B[j] = A[j - 2]
<1>1. PICK T, H : T = Tail(A) /\ H = <<a, b, c>>
  OBVIOUS
<1>2. T \in Seq(S) /\ Len(T) = Len(A) - 1 /\ \A j \in 1..(Len(A) - 1) : T[j] = A[j + 1]
  BY <1>1, TailIs
<1>3. H \in Seq(S) /\ Len(H) = 3 /\ H[1] = a /\ H[2] = b /\ H[3] = c
  BY <1>1
<1>4. Len(A) \in Nat \ {0}
  BY TailIs
<1>5. /\ B \in Seq(S) /\ Len(B) = Len(H) + Len(T)
      /\ \A j \in 1..(Len(H) + Len(T)) : B[j] = IF j <= Len(H) THEN H[j] ELSE T[j - Len(H)]
  BY <1>1, <1>2, <1>3
<1>6. Len(B) = Len(A) + 2 /\ \A j \in 1..(Len(A) + 2) : B[j] = IF j <= 3 THEN H[j] ELSE T[j - 3]
  BY <1>2, <1>3, <1>4, <1>5
<1>7. ASSUME NEW j \in 4..(Len(A) + 2) PROVE B[j] = A[j - 2]
  <2>1. j - 3 \in 1..(Len(A) - 1) /\ (j - 3) + 1 = j - 2 /\ j \in 1..(Len(A) + 2) /\ ~(j <= 3)
    BY <1>4
  <2>2. QED
    BY <1>2, <1>6, <2>1
<1>8. QED
  BY <1>3, <1>4, <1>5, <1>6, <1>7

\* To split a part leaves its halves and their link to be done.
LEMMA SplitIsOrderly ==
  ASSUME NEW A, NEW rooms, NEW open, Orderly(A, rooms, open), A # <<>>, A[1].task = "build",
         NEW f \in Parts, NEW s \in Parts, Halves(f, s), Whole(f, s) = A[1].part,
         NEW B, B = <<Build(f), Build(s), Link(f, s)>> \o Tail(A)
  PROVE  Orderly(B, rooms, open)
<1>1. PICK n : n = Len(A)
  OBVIOUS
<1>2. Build(f) \in Tasks /\ Build(s) \in Tasks /\ Link(f, s) \in Tasks
  BY DEF Build, Link, Tasks
<1>3. A \in Seq(Tasks)
  BY DEF Orderly
<1>4. /\ B \in Seq(Tasks) /\ Len(B) = n + 2 /\ n \in Nat \ {0}
      /\ B[1] = Build(f) /\ B[2] = Build(s) /\ B[3] = Link(f, s)
      /\ \A j \in 4..(n + 2) : B[j] = A[j - 2]
  BY <1>1, <1>2, <1>3, ThreeFirst
<1>5. /\ B[1].task = "build" /\ B[2].task = "build" /\ B[3].task = "link"
      /\ B[3].first = f /\ B[3].second = s
      /\ Area(B[1]) = f /\ Area(B[2]) = s /\ Area(B[3]) = Area(A[1])
      /\ IsTask(B[1]) /\ IsTask(B[2]) /\ IsTask(B[3])
  BY <1>4 DEF Build, Link, Area, IsTask, Halves
<1>6. \A j \in 1..n : IsTask(A[j])
  BY <1>1 DEF Orderly
<1>7. \A j \in 1..(n + 2) : j = 1 \/ j = 2 \/ j = 3 \/ (j \in 4..(n + 2) /\ j - 2 \in 2..n)
  BY <1>4
<1>8. \A j \in 1..(n + 2) : IsTask(B[j])
  BY <1>4, <1>5, <1>6, <1>7
<1>9. /\ Cells(B[3]) = Cells(A[1]) /\ Cells(A[1]) = PartCells(f) \union PartCells(s)
      /\ Cells(B[1]) = PartCells(f) /\ Cells(B[2]) = PartCells(s)
      /\ PartCells(f) \intersect PartCells(s) = {}
  BY <1>5, HalvesMakeWhole DEF Cells, Area
<1>10. Needs(B, 1) = {} /\ Needs(B, 2) = {} /\ Needs(B, 3) = {f, s}
  <2>1. 1 # Len(B) + 1 /\ 2 # Len(B) + 1 /\ 3 # Len(B) + 1
    BY <1>4
  <2>2. QED
    BY <1>5, <2>1 DEF Needs
<1>11. \A j \in 4..(n + 3) : Needs(B, j) = Needs(A, j - 2)
  <2>1. SUFFICES ASSUME NEW j \in 4..(n + 3) PROVE Needs(B, j) = Needs(A, j - 2)
    OBVIOUS
  <2>2. j = Len(B) + 1 <=> j - 2 = Len(A) + 1
    BY <1>1, <1>4
  <2>3. j # Len(B) + 1 => B[j] = A[j - 2]
    BY <1>4
  <2>4. QED
    BY <2>2, <2>3 DEF Needs
\* Where a task of B comes from in A.
<1>12. ASSUME NEW i \in 1..(n + 2)
       PROVE  \E k \in 1..n : /\ Cells(B[i]) \subseteq Cells(A[k]) /\ k <= i
                              /\ \A j \in 4..(n + 3) : i < j => k < j - 2
  <2>1. CASE i = 1 \/ i = 2 \/ i = 3
    <3>1. 1 \in 1..n /\ 1 <= i /\ \A j \in 4..(n + 3) : 1 < j - 2
      BY <1>4
    <3>2. Cells(B[i]) \subseteq Cells(A[1])
      BY <1>9, <2>1
    <3>3. QED
      BY <3>1, <3>2
  <2>2. CASE i \in 4..(n + 2)
    <3>1. i - 2 \in 1..n /\ i - 2 <= i /\ \A j \in 4..(n + 3) : i < j => i - 2 < j - 2
      BY <1>4, <2>2
    <3>2. B[i] = A[i - 2]
      BY <1>4, <2>2
    <3>3. QED
      BY <3>1, <3>2
  <2>3. QED
    BY <1>7, <2>1, <2>2
<1>13. Nested(B)
  <2>1. SUFFICES ASSUME NEW j \in 1..(n + 3), NEW i \in 1..(j - 1)
                 PROVE  \/ j <= n + 2 /\ Cells(B[i]) \cap Cells(B[j]) = {}
                        \/ \E h \in Needs(B, j) : Cells(B[i]) \subseteq PartCells(h)
    <3>1. SUFFICES ASSUME NEW j \in 1..(Len(B) + 1), NEW i \in 1..(j - 1)
                   PROVE  \/ j <= Len(B) /\ Cells(B[i]) \cap Cells(B[j]) = {}
                          \/ \E h \in Needs(B, j) : Cells(B[i]) \subseteq PartCells(h)
      BY DEF Nested
    <3>2. j \in 1..(n + 3) /\ Len(B) = n + 2
      BY <1>4
    <3>3. QED
      BY <2>1, <3>2
  <2>2. CASE j = 1 \/ j = 2 \/ j = 3
    <3>1. (j = 2 /\ i = 1) \/ (j = 3 /\ i = 1) \/ (j = 3 /\ i = 2)
      BY <2>2
    <3>2. 2 <= n + 2
      BY <1>4
    <3>3. QED
      BY <1>9, <1>10, <3>1, <3>2
  <2>3. CASE j \in 4..(n + 3)
    <3>1. i \in 1..(n + 2) /\ i < j
      BY <1>4
    <3>2. PICK k \in 1..n : Cells(B[i]) \subseteq Cells(A[k]) /\ k < j - 2
      BY <1>12, <2>3, <3>1
    <3>3. j - 2 \in 1..(n + 1) /\ k \in 1..((j - 2) - 1)
      BY <1>4, <2>3, <3>2
    <3>4. \/ j - 2 <= n /\ Cells(A[k]) \cap Cells(A[j - 2]) = {}
          \/ \E h \in Needs(A, j - 2) : Cells(A[k]) \subseteq PartCells(h)
      BY <1>1, <3>3 DEF Orderly, Nested
    <3>5. j - 2 <= n => j <= n + 2 /\ B[j] = A[j - 2]
      BY <1>4, <2>3
    <3>6. Needs(B, j) = Needs(A, j - 2)
      BY <1>11, <2>3
    <3>7. QED
      BY <3>2, <3>4, <3>5, <3>6
  <2>4. j = 1 \/ j = 2 \/ j = 3 \/ j \in 4..(n + 3)
    BY <1>4
  <2>5. QED
    BY <2>2, <2>3, <2>4
<1>14. Provided(B, rooms, open)
  <2>1. SUFFICES ASSUME NEW j \in 1..(n + 3), NEW h \in Needs(B, j)
                 PROVE  \/ \E k \in 1..(j - 1) : Area(B[k]) = h
                        \/ /\ Sound(rooms, open, h)
                           /\ \A k \in 1..(j - 1) : Cells(B[k]) \cap PartCells(h) = {}
    <3>1. Len(B) + 1 = n + 3
      BY <1>4
    <3>2. QED
      BY <1>4, <3>1 DEF Provided
  <2>2. CASE j = 1 \/ j = 2 \/ j = 3
    <3>1. j = 3 /\ (h = f \/ h = s)
      BY <1>10, <2>2
    <3>2. 1 \in 1..(j - 1) /\ 2 \in 1..(j - 1)
      BY <3>1
    <3>3. QED
      BY <1>5, <3>1, <3>2
  <2>3. CASE j \in 4..(n + 3)
    <3>1. h \in Needs(A, j - 2) /\ j - 2 \in 1..(n + 1)
      <4>1. Needs(B, j) = Needs(A, j - 2)
        BY <1>11, <2>3
      <4>2. j - 2 \in 1..(n + 1)
        BY <1>4, <2>3
      <4>3. QED
        BY <4>1, <4>2
    <3>2. \/ \E k \in 1..((j - 2) - 1) : Area(A[k]) = h
          \/ Sound(rooms, open, h) /\ \A k \in 1..((j - 2) - 1) : Cells(A[k]) \cap PartCells(h) = {}
      BY <1>1, <3>1 DEF Orderly, Provided
    <3>3. CASE \E k \in 1..((j - 2) - 1) : Area(A[k]) = h
      <4>1. PICK k \in 1..((j - 2) - 1) : Area(A[k]) = h
        BY <3>3
      <4>2. CASE k = 1
        <5>1. 3 \in 1..(j - 1)
          BY <2>3
        <5>2. QED
          BY <1>5, <4>1, <4>2, <5>1
      <4>3. CASE k # 1
        <5>1. k + 2 \in 1..(j - 1) /\ k + 2 \in 4..(n + 2) /\ (k + 2) - 2 = k
          BY <1>4, <2>3, <4>3
        <5>2. Area(B[k + 2]) = h
          BY <1>4, <4>1, <5>1
        <5>3. QED
          BY <5>1, <5>2
      <4>4. QED
        BY <4>2, <4>3
    <3>4. CASE Sound(rooms, open, h) /\ \A k \in 1..((j - 2) - 1) : Cells(A[k]) \cap PartCells(h) = {}
      <4>1. ASSUME NEW i \in 1..(j - 1) PROVE Cells(B[i]) \cap PartCells(h) = {}
        <5>1. i \in 1..(n + 2) /\ i < j
          BY <1>4
        <5>2. PICK k \in 1..n : Cells(B[i]) \subseteq Cells(A[k]) /\ k < j - 2
          BY <1>12, <2>3, <5>1
        <5>3. k \in 1..((j - 2) - 1)
          BY <2>3, <5>2
        <5>4. QED
          BY <3>4, <5>2, <5>3
      <4>2. QED
        BY <3>4, <4>1
    <3>5. QED
      BY <3>2, <3>3, <3>4
  <2>4. j = 1 \/ j = 2 \/ j = 3 \/ j \in 4..(n + 3)
    BY <1>4
  <2>5. QED
    BY <2>2, <2>3, <2>4
<1>15. Blank(B, open)
  <2>1. SUFFICES ASSUME NEW j \in 1..(n + 2), B[j].task = "build" PROVE open \cap Cells(B[j]) = {}
    BY <1>4 DEF Blank
  <2>2. \A k \in 1..n : A[k].task = "build" => open \cap Cells(A[k]) = {}
    BY <1>1 DEF Orderly, Blank
  <2>3. CASE j = 1 \/ j = 2
    <3>1. open \cap Cells(A[1]) = {}
      BY <1>4, <2>2
    <3>2. QED
      BY <1>9, <2>3, <3>1
  <2>4. CASE j = 3
    BY <1>5, <2>1, <2>4
  <2>5. CASE j \in 4..(n + 2)
    <3>1. j - 2 \in 1..n /\ B[j] = A[j - 2]
      BY <1>4, <2>5
    <3>2. QED
      BY <2>1, <2>2, <3>1
  <2>6. QED
    BY <1>7, <2>3, <2>4, <2>5
<1>16. QED
  BY <1>4, <1>8, <1>13, <1>14, <1>15 DEF Orderly

-----------------------------------------------------------------------------
(* The invariant.                                                            *)

Hangs(d, open) == \/ {<<d[1] - 1, d[2]>>, <<d[1] + 1, d[2]>>} \subseteq open
                  \/ {<<d[1], d[2] - 1>>, <<d[1], d[2] + 1>>} \subseteq open

\* A passage is being dug: the way back is inside the two halves, a step at a
\* time from a room of the second, and costs are counted from one of the first.
Digging ==
  /\ agenda # <<>> /\ Head(agenda).task = "link"
  /\ \E start \in Rooms(Head(agenda).first) :
       Costed(Cells(Head(agenda)), Open, start, cost, fresh)
  /\ way \in Seq(Inner(Area(Head(agenda)))) /\ way # <<>> /\ way[1] \in Rooms(Head(agenda).second)
  /\ \A i \in 2..Len(way) : way[i] \in Beside(way[i - 1])

\* Nothing is open at the edge of the block, doors are hung, and the agenda
\* will join what is not joined yet.
BspInv ==
  /\ Open \subseteq Inner(Block)
  /\ \A d \in door : Hangs(d, Open)
  /\ way = <<>> \/ Digging
  /\ \/ agenda = <<[task |-> "none"]>> /\ Open = {}
     \/ Orderly(agenda, floor, Open)

LEMMA BlockIs ==
  /\ Inner(Block) = (1..(BlockWidth - 1)) \X (1..(BlockHeight - 1))
  /\ \A p : Fits(p) => Inner(p) \subseteq Inner(Block)
<1>1. Inner(Block) = (1..(BlockWidth - 1)) \X (1..(BlockHeight - 1))
  BY DEF Inner, Block, Part
<1>2. QED
  BY <1>1, InnerIsIn

LEMMA NobodyDigs ==
  ASSUME BspInv, agenda = <<>> \/ Head(agenda).task # "link"
  PROVE  way = <<>>
BY DEF BspInv, Digging

LEMMA HeadIs ==
  ASSUME BspInv, agenda # <<>>, Head(agenda).task \in {"build", "link"}
  PROVE  /\ Orderly(agenda, floor, Open) /\ Head(agenda) = agenda[1]
         /\ Head(agenda) \in Tasks /\ IsTask(Head(agenda)) /\ Fits(Area(Head(agenda)))
<1>1. agenda # <<[task |-> "none"]>>
  <2>1. SUFFICES ASSUME agenda = <<[task |-> "none"]>> PROVE FALSE
    OBVIOUS
  <2>2. Head(agenda).task = "none"
    BY <2>1
  <2>3. QED
    BY <2>2
<1>2. Orderly(agenda, floor, Open)
  BY <1>1 DEF BspInv
<1>3. agenda \in Seq(Tasks) /\ \A j \in 1..Len(agenda) : IsTask(agenda[j])
  BY <1>2 DEF Orderly
<1>4. Head(agenda) = agenda[1] /\ 1 \in 1..Len(agenda)
  BY <1>3, TailIs
<1>5. Head(agenda) \in Tasks /\ IsTask(Head(agenda))
  BY <1>3, <1>4
<1>6. QED
  BY <1>2, <1>4, <1>5, AreaIs

LEMMA LinkIs ==
  ASSUME BspInv, agenda # <<>>, Head(agenda).task = "link",
         NEW f, NEW s, f = Head(agenda).first, s = Head(agenda).second
  PROVE  /\ Halves(f, s) /\ Area(Head(agenda)) = Whole(f, s)
         /\ Sound(floor, Open, f) /\ Sound(floor, Open, s)
<1>1. /\ Orderly(agenda, floor, Open) /\ Head(agenda) = agenda[1] /\ IsTask(Head(agenda))
  BY HeadIs
<1>2. Halves(f, s) /\ Area(Head(agenda)) = Whole(f, s)
  BY <1>1 DEF IsTask, Area
<1>3. agenda \in Seq(Tasks)
  BY <1>1 DEF Orderly
<1>4. 1 \in 1..(Len(agenda) + 1) /\ 1 # Len(agenda) + 1 /\ 1..(1 - 1) = {}
  BY <1>3, TailIs
<1>5. Needs(agenda, 1) = {f, s}
  BY <1>1, <1>4 DEF Needs
<1>6. Sound(floor, Open, f) /\ Sound(floor, Open, s)
  BY <1>1, <1>4, <1>5 DEF Orderly, Provided
<1>7. QED
  BY <1>2, <1>6

\* A passage that bridges the halves leaves all in order.
LEMMA PassageIsOrderly ==
  ASSUME BspInv, agenda # <<>>, Head(agenda).task = "link",
         NEW f, NEW s, f = Head(agenda).first, s = Head(agenda).second,
         NEW passage, NEW cells, cells = {passage[i] : i \in DOMAIN passage},
         Bridges(cells, floor, Open, f, s), LinkAlong(passage, f, s), way' = <<>>
  PROVE  BspInv'
<1>1. /\ Halves(f, s) /\ Area(Head(agenda)) = Whole(f, s)
      /\ Sound(floor, Open, f) /\ Sound(floor, Open, s)
  BY LinkIs
<1>2. /\ Orderly(agenda, floor, Open) /\ Head(agenda) = agenda[1] /\ Fits(Area(agenda[1]))
  BY HeadIs
<1> DEFINE terrain == (Open \cap (PartCells(f) \cup PartCells(s))) \cup {passage[i] : i \in DOMAIN passage}
           Suitable(c) == \/ {<<c[1] - 1, c[2]>>, <<c[1] + 1, c[2]>>} \subseteq terrain
                          \/ {<<c[1], c[2] - 1>>, <<c[1], c[2] + 1>>} \subseteq terrain
           valid == {i \in DOMAIN passage : Suitable(passage[i])}
           middle == {i \in valid : Cardinality({j \in valid : j < i}) = Cardinality(valid) \div 2}
           chosen == {passage[i] : i \in middle}
<1>3. /\ floor' = floor \ cells /\ tunnel' = (tunnel \cup cells) \ chosen
      /\ door' = (door \ cells) \cup chosen /\ agenda' = Tail(agenda)
  BY DEF LinkAlong, DoorIn
<1>4. \A c \in chosen : c \in cells /\ Suitable(c)
  <2>1. \A i \in middle : i \in DOMAIN passage /\ Suitable(passage[i])
    OBVIOUS
  <2>2. QED
    BY <2>1
<1>5. terrain \subseteq Open \cup cells
  OBVIOUS
<1> HIDE DEF chosen, middle, valid
<1>6. Open' = Open \cup cells
  BY <1>3, <1>4 DEF Open
<1>7. \A c \in chosen : Hangs(c, Open')
  <2>1. \A c \in chosen : Suitable(c) /\ terrain \subseteq Open'
    BY <1>4, <1>5, <1>6
  <2> HIDE DEF terrain
  <2>2. QED
    BY <2>1 DEF Hangs
<1> HIDE DEF terrain, Suitable
<1>8. \A d \in door : Hangs(d, Open')
  <2>1. \A d \in door : Hangs(d, Open)
    BY DEF BspInv
  <2>2. Open \subseteq Open'
    BY <1>6
  <2>3. QED
    BY <2>1, <2>2 DEF Hangs
<1>9. \A d \in door' : Hangs(d, Open')
  BY <1>3, <1>7, <1>8
<1>10. floor \subseteq Open
  BY DEF Open
<1>11. Sound(floor \ cells, Open \union cells, Whole(f, s)) /\ cells \subseteq Inner(Whole(f, s))
  BY <1>1, <1>10, BridgeIsSound
<1>12. Sound(floor', Open', Area(agenda[1]))
  BY <1>1, <1>2, <1>3, <1>6, <1>11
<1>13. cells \subseteq Inner(Block) /\ cells \subseteq Cells(agenda[1])
  BY <1>1, <1>2, <1>11, BlockIs, InnerIsIn DEF Cells
<1>14. Open' \subseteq Inner(Block)
  BY <1>6, <1>13 DEF BspInv
<1>15. floor' \ Cells(agenda[1]) = floor \ Cells(agenda[1]) /\ Open' \ Cells(agenda[1]) = Open \ Cells(agenda[1])
  BY <1>3, <1>6, <1>13
<1>16. Orderly(Tail(agenda), floor', Open')
  <2>1. PICK A, rooms, open, newRooms, newOpen :
          A = agenda /\ rooms = floor /\ open = Open /\ newRooms = floor' /\ newOpen = Open'
    OBVIOUS
  <2>2. QED
    BY <1>2, <1>12, <1>15, <2>1, DoneIsOrderly
<1>17. QED
  BY <1>3, <1>9, <1>14, <1>16 DEF BspInv

LEMMA StartBspIsOrderly ==
  ASSUME BspInv, StartBsp
  PROVE  BspInv'
<1>1. Head(agenda).task = "none" /\ agenda # <<>>
  BY DEF StartBsp
<1>2. way = <<>> /\ Open = {}
  <2>1. way = <<>>
    BY <1>1, NobodyDigs
  <2>2. ~Orderly(agenda, floor, Open)
    <3>1. SUFFICES ASSUME Orderly(agenda, floor, Open) PROVE FALSE
      OBVIOUS
    <3>2. agenda \in Seq(Tasks)
      BY <3>1 DEF Orderly
    <3>3. Head(agenda) \in Tasks
      BY <1>1, <3>2
    <3>4. QED
      BY <1>1, <3>3 DEF Tasks
  <2>3. QED
    BY <2>1, <2>2 DEF BspInv
<1>3. /\ agenda' = <<Build(Block)>> /\ floor' = floor /\ Open' = {} /\ door' = door /\ way' = <<>>
  BY <1>2 DEF StartBsp, Block, Open, digVars
<1>4. PICK t, A : t = Build(Block) /\ A = <<t>>
  OBVIOUS
<1>5. Block \in Parts /\ t \in Tasks /\ t.task = "build" /\ t.part = Block
  BY <1>4, SpanIsFour DEF Parts, Tasks, Build, Block, Part
<1>6. A \in Seq(Tasks) /\ Len(A) = 1 /\ A[1] = t
  BY <1>4, <1>5
<1>7. Area(A[1]) = Block /\ IsTask(A[1]) /\ Cells(A[1]) = PartCells(Block)
  BY <1>5, <1>6, BlockFits DEF Area, IsTask, Cells
<1>8. \A j \in 1..(Len(A) + 1) : j = 1 \/ j = 2
  BY <1>6
<1>9. Needs(A, 1) = {} /\ Needs(A, 2) = {Block}
  BY <1>5, <1>6 DEF Needs
<1>10. Nested(A)
  <2>1. SUFFICES ASSUME NEW j \in 1..(Len(A) + 1), NEW i \in 1..(j - 1)
                 PROVE  \E h \in Needs(A, j) : Cells(A[i]) \subseteq PartCells(h)
    BY DEF Nested
  <2>2. j = 2 /\ i = 1
    BY <1>8
  <2>3. QED
    BY <1>7, <1>9, <2>2
<1>11. Provided(A, floor, {})
  <2>1. SUFFICES ASSUME NEW j \in 1..(Len(A) + 1), NEW h \in Needs(A, j)
                 PROVE  \E k \in 1..(j - 1) : Area(A[k]) = h
    BY DEF Provided
  <2>2. j = 2 /\ h = Block
    BY <1>8, <1>9
  <2>3. 1 \in 1..(j - 1)
    BY <2>2
  <2>4. QED
    BY <1>7, <2>2, <2>3
<1>12. Blank(A, {}) /\ \A j \in 1..Len(A) : IsTask(A[j])
  BY <1>6, <1>7 DEF Blank
<1>13. Orderly(A, floor, {})
  BY <1>6, <1>10, <1>11, <1>12 DEF Orderly
<1>14. \A d \in door : FALSE
  BY <1>2 DEF Open
<1>15. QED
  BY <1>3, <1>4, <1>13, <1>14 DEF BspInv

LEMMA SplitPartIsOrderly ==
  ASSUME BspInv, SplitPart
  PROVE  BspInv'
<1>1. agenda # <<>> /\ Head(agenda).task = "build"
  BY DEF SplitPart
<1>2. PICK p : p = Head(agenda).part
  OBVIOUS
<1>3. /\ Orderly(agenda, floor, Open) /\ Head(agenda) = agenda[1] /\ Fits(p) /\ way = <<>>
  BY <1>1, <1>2, HeadIs, NobodyDigs DEF Area
<1>4. PICK l \in Nat, r \in Nat, t \in Nat, b \in Nat :
        /\ p = Part(l, r, t, b) /\ p.l = l /\ p.r = r /\ p.t = t /\ p.b = b
        /\ l + MinPartSpan <= r /\ r <= BlockWidth /\ t + MinPartSpan <= b /\ b <= BlockHeight
  BY <1>3 DEF Fits
<1>5. PICK m \in Nat : m = MinPartSpan /\ m >= 4
  BY SpanIsFour
<1>6. \E f \in Parts, s \in Parts :
        /\ Halves(f, s) /\ Whole(f, s) = p
        /\ agenda' = <<Build(f), Build(s), Link(f, s)>> \o Tail(agenda)
  <2>1. \/ \E s \in Draw(p.l + MinPartSpan + 1, p.r - MinPartSpan) :
             agenda' = <<Build([p EXCEPT !.r = s - 1]), Build([p EXCEPT !.l = s]),
                         Link([p EXCEPT !.r = s - 1], [p EXCEPT !.l = s])>> \o Tail(agenda)
        \/ \E s \in Draw(p.t + MinPartSpan + 1, p.b - MinPartSpan) :
             agenda' = <<Build([p EXCEPT !.b = s - 1]), Build([p EXCEPT !.t = s]),
                         Link([p EXCEPT !.b = s - 1], [p EXCEPT !.t = s])>> \o Tail(agenda)
    BY <1>2 DEF SplitPart
  <2>2. CASE \E s \in Draw(p.l + MinPartSpan + 1, p.r - MinPartSpan) :
             agenda' = <<Build([p EXCEPT !.r = s - 1]), Build([p EXCEPT !.l = s]),
                         Link([p EXCEPT !.r = s - 1], [p EXCEPT !.l = s])>> \o Tail(agenda)
    <3>1. PICK s \in Draw(l + m + 1, r - m) :
             agenda' = <<Build([p EXCEPT !.r = s - 1]), Build([p EXCEPT !.l = s]),
                         Link([p EXCEPT !.r = s - 1], [p EXCEPT !.l = s])>> \o Tail(agenda)
      BY <1>4, <1>5, <2>2
    <3>2. l + m + 1 \in Int /\ r - m \in Int
      OBVIOUS
    <3>3. s \in Int /\ l + m + 1 <= s /\ s <= r - m
      BY <3>2, DrawIsBetween
    <3>4. PICK f, g : f = Part(l, s - 1, t, b) /\ g = Part(s, r, t, b)
      OBVIOUS
    <3>5. [p EXCEPT !.r = s - 1] = f /\ [p EXCEPT !.l = s] = g
      BY <1>4, <3>4 DEF Part
    <3>6. /\ f.l = l /\ f.r = s - 1 /\ f.t = t /\ f.b = b /\ f \in Parts
          /\ g.l = s /\ g.r = r /\ g.t = t /\ g.b = b /\ g \in Parts
      BY <3>3, <3>4 DEF Part, Parts
    <3>7. Fits(f) /\ Fits(g)
      <4>1. l + m <= s - 1 /\ s + m <= r /\ s - 1 <= r /\ s \in Nat /\ s - 1 \in Nat
        BY <1>5, <3>3
      <4>2. /\ l + MinPartSpan <= s - 1 /\ s + MinPartSpan <= r
            /\ s - 1 <= BlockWidth
        BY <1>4, <1>5, <4>1, SpanIsFour
      <4>3. QED
        BY <1>4, <3>4, <3>6, <4>1, <4>2 DEF Fits
    <3>8. Halves(f, g) /\ Whole(f, g) = p
      BY <1>4, <3>3, <3>6, <3>7 DEF Halves, Whole
    <3>9. QED
      BY <3>1, <3>5, <3>6, <3>8
  <2>3. CASE \E s \in Draw(p.t + MinPartSpan + 1, p.b - MinPartSpan) :
             agenda' = <<Build([p EXCEPT !.b = s - 1]), Build([p EXCEPT !.t = s]),
                         Link([p EXCEPT !.b = s - 1], [p EXCEPT !.t = s])>> \o Tail(agenda)
    <3>1. PICK s \in Draw(t + m + 1, b - m) :
             agenda' = <<Build([p EXCEPT !.b = s - 1]), Build([p EXCEPT !.t = s]),
                         Link([p EXCEPT !.b = s - 1], [p EXCEPT !.t = s])>> \o Tail(agenda)
      BY <1>4, <1>5, <2>3
    <3>2. t + m + 1 \in Int /\ b - m \in Int
      OBVIOUS
    <3>3. s \in Int /\ t + m + 1 <= s /\ s <= b - m
      BY <3>2, DrawIsBetween
    <3>4. PICK f, g : f = Part(l, r, t, s - 1) /\ g = Part(l, r, s, b)
      OBVIOUS
    <3>5. [p EXCEPT !.b = s - 1] = f /\ [p EXCEPT !.t = s] = g
      BY <1>4, <3>4 DEF Part
    <3>6. /\ f.l = l /\ f.r = r /\ f.t = t /\ f.b = s - 1 /\ f \in Parts
          /\ g.l = l /\ g.r = r /\ g.t = s /\ g.b = b /\ g \in Parts
      BY <3>3, <3>4 DEF Part, Parts
    <3>7. Fits(f) /\ Fits(g)
      <4>1. t + m <= s - 1 /\ s + m <= b /\ s - 1 <= b /\ s \in Nat /\ s - 1 \in Nat
        BY <1>5, <3>3
      <4>2. /\ t + MinPartSpan <= s - 1 /\ s + MinPartSpan <= b
            /\ s - 1 <= BlockHeight
        BY <1>4, <1>5, <4>1, SpanIsFour
      <4>3. QED
        BY <1>4, <3>4, <3>6, <4>1, <4>2 DEF Fits
    <3>8. Halves(f, g) /\ Whole(f, g) = p
      BY <1>4, <3>3, <3>6, <3>7 DEF Halves, Whole
    <3>9. QED
      BY <3>1, <3>5, <3>6, <3>8
  <2>4. QED
    BY <2>1, <2>2, <2>3
<1>7. /\ floor' = floor /\ Open' = Open /\ door' = door /\ way' = way
  BY DEF SplitPart, Open, digVars
<1>8. Orderly(agenda', floor, Open)
  <2>1. PICK A, rooms, open : A = agenda /\ rooms = floor /\ open = Open
    OBVIOUS
  <2>2. PICK f \in Parts, s \in Parts :
        /\ Halves(f, s) /\ Whole(f, s) = p
        /\ agenda' = <<Build(f), Build(s), Link(f, s)>> \o Tail(A)
    BY <1>6, <2>1
  <2> DEFINE B == <<Build(f), Build(s), Link(f, s)>> \o Tail(A)
  <2>3. /\ Orderly(A, rooms, open) /\ A # <<>> /\ A[1].task = "build" /\ A[1].part = p
    BY <1>1, <1>2, <1>3, <2>1
  <2>4. Orderly(B, rooms, open)
    BY <2>2, <2>3, SplitIsOrderly
  <2>5. QED
    BY <2>1, <2>2, <2>4
<1>9. \A d \in door : Hangs(d, Open)
  BY DEF BspInv
<1>10. QED
  BY <1>3, <1>7, <1>8, <1>9 DEF BspInv

LEMMA CarveRoomIsOrderly ==
  ASSUME BspInv, CarveRoom
  PROVE  BspInv'
<1>1. agenda # <<>> /\ Head(agenda).task = "build"
  BY DEF CarveRoom
<1>2. PICK p : p = Head(agenda).part
  OBVIOUS
<1>3. /\ Orderly(agenda, floor, Open) /\ Head(agenda) = agenda[1] /\ Fits(p) /\ way = <<>>
      /\ Area(agenda[1]) = p /\ Cells(agenda[1]) = PartCells(p)
  BY <1>1, <1>2, HeadIs, NobodyDigs DEF Area, Cells
<1>4. PICK l \in Nat, r \in Nat, t \in Nat, b \in Nat :
        p.l = l /\ p.r = r /\ p.t = t /\ p.b = b /\ l + 4 <= r /\ t + 4 <= b
  BY <1>3, SpanIsFour DEF Fits
<1>5. PICK hw \in Nat, hh \in Nat :
        /\ hw = HalfUp(r - l) /\ hh = HalfUp(b - t)
        /\ 2 * hw >= r - l /\ 2 * hh >= b - t
  <2>1. \A n \in Nat : HalfUp(n) \in Nat /\ 2 * HalfUp(n) >= n
    BY DEF HalfUp
  <2>2. r - l \in Nat /\ b - t \in Nat
    BY <1>4
  <2>3. QED
    BY <2>1, <2>2
<1>6. PICK top \in Draw(t + 1, b - hh - 1), bottom \in Draw(t + hh + 1, b - 1),
           left \in Draw(l + 1, r - hw - 1), right \in Draw(l + hw + 1, r - 1) :
              floor' = floor \cup ((left..right) \X (top..bottom))
  <2>1. \E top \in Draw(p.t + 1, p.b - HalfUp(p.b - p.t) - 1),
           bottom \in Draw(p.t + HalfUp(p.b - p.t) + 1, p.b - 1),
           left \in Draw(p.l + 1, p.r - HalfUp(p.r - p.l) - 1),
           right \in Draw(p.l + HalfUp(p.r - p.l) + 1, p.r - 1) :
              floor' = floor \cup ((left..right) \X (top..bottom))
    BY <1>2 DEF CarveRoom
  <2>2. /\ p.t = t /\ p.b = b /\ p.l = l /\ p.r = r
        /\ HalfUp(p.b - p.t) = hh /\ HalfUp(p.r - p.l) = hw
    BY <1>4, <1>5
  <2>3. QED
    BY <2>1, <2>2
<1>7. /\ t + 1 \in Int /\ b - hh - 1 \in Int /\ t + hh + 1 \in Int /\ b - 1 \in Int
      /\ l + 1 \in Int /\ r - hw - 1 \in Int /\ l + hw + 1 \in Int /\ r - 1 \in Int
  OBVIOUS
<1>8. /\ top \in Int /\ t + 1 <= top /\ top <= b - hh - 1
      /\ bottom \in Int /\ t + hh + 1 <= bottom /\ bottom <= b - 1
  BY <1>7, DrawIsBetween
<1>9. /\ left \in Int /\ l + 1 <= left /\ left <= r - hw - 1
      /\ right \in Int /\ l + hw + 1 <= right /\ right <= r - 1
  BY <1>7, DrawIsBetween
<1>10. PICK room : room = (left..right) \X (top..bottom)
  OBVIOUS
<1>11. room # {} /\ room \subseteq Inner(p) /\ Joined(room)
  <2>1. top \in top..bottom /\ top..bottom \subseteq (t + 1)..(b - 1)
    BY <1>5, <1>8
  <2>2. left \in left..right /\ left..right \subseteq (l + 1)..(r - 1)
    BY <1>5, <1>9
  <2>3. <<left, top>> \in room
    BY <1>10, <2>1, <2>2
  <2>4. Inner(p) = ((l + 1)..(r - 1)) \X ((t + 1)..(b - 1))
    BY <1>4 DEF Inner
  <2>5. QED
    BY <1>8, <1>9, <1>10, <2>1, <2>2, <2>3, <2>4, RectangleIsJoined
<1>12. /\ floor' = floor \cup room /\ tunnel' = tunnel /\ door' = door /\ way' = way
       /\ Open' = Open \cup room /\ agenda' = Tail(agenda)
  BY <1>6, <1>10 DEF CarveRoom, Open, digVars
<1>13. Open \cap PartCells(p) = {}
  <2>1. 1 \in 1..Len(agenda)
    BY <1>1, <1>3, TailIs DEF Orderly
  <2>2. QED
    BY <1>1, <1>3, <2>1 DEF Orderly, Blank
<1>14. room \subseteq PartCells(p) /\ room \subseteq Inner(Block)
  BY <1>3, <1>11, InnerIsIn, BlockIs
<1>15. Open' \cap PartCells(p) = room /\ floor' \cap PartCells(p) # {}
  BY <1>11, <1>12, <1>13, <1>14
<1>16. Sound(floor', Open', Area(agenda[1]))
  BY <1>3, <1>11, <1>15 DEF Sound
<1>17. /\ floor' \ Cells(agenda[1]) = floor \ Cells(agenda[1])
       /\ Open' \ Cells(agenda[1]) = Open \ Cells(agenda[1])
  BY <1>3, <1>12, <1>14
<1>18. Orderly(Tail(agenda), floor', Open')
  <2>1. PICK A, rooms, open, newRooms, newOpen :
          A = agenda /\ rooms = floor /\ open = Open /\ newRooms = floor' /\ newOpen = Open'
    OBVIOUS
  <2>2. QED
    BY <1>1, <1>3, <1>16, <1>17, <2>1, DoneIsOrderly
<1>19. \A d \in door : Hangs(d, Open')
  <2>1. \A d \in door : Hangs(d, Open)
    BY DEF BspInv
  <2>2. Open \subseteq Open'
    BY <1>12
  <2>3. QED
    BY <2>1, <2>2 DEF Hangs
<1>20. Open' \subseteq Inner(Block)
  BY <1>12, <1>14 DEF BspInv
<1>21. QED
  BY <1>3, <1>12, <1>18, <1>19, <1>20 DEF BspInv

LEMMA LinkHalvesIsOrderly ==
  ASSUME BspInv, LinkHalves
  PROVE  BspInv'
<1>1. agenda # <<>> /\ Head(agenda).task = "link" /\ way' = <<>>
  BY DEF LinkHalves, digVars
<1>2. PICK f, s : f = Head(agenda).first /\ s = Head(agenda).second
  OBVIOUS
<1>3. Halves(f, s) /\ Sound(floor, Open, f) /\ Sound(floor, Open, s)
  BY <1>1, <1>2, LinkIs
<1>4. PICK passage \in Rows(f, s) \cup Columns(f, s) : LinkAlong(passage, f, s)
  BY <1>2 DEF LinkHalves
<1>5. PICK cells : cells = {passage[i] : i \in DOMAIN passage}
  OBVIOUS
<1>6. Bridges(cells, floor, Open, f, s)
  <2>1. PICK rooms, open : rooms = floor /\ open = Open
    OBVIOUS
  <2>2. rooms \subseteq open
    BY <2>1 DEF Open
  <2>3. rooms \cap PartCells(f) \subseteq Inner(f) /\ rooms \cap PartCells(s) \subseteq Inner(s)
    BY <1>3, <2>1, <2>2 DEF Sound
  <2>4. CASE passage \in Rows(f, s)
    <3>1. passage \in StraightPassages(rooms \cap PartCells(f), rooms \cap PartCells(s), 1)
      BY <2>1, <2>4 DEF Rows, Rooms
    <3>2. Bridges(cells, rooms, open, f, s)
      BY <1>3, <1>5, <2>2, <2>3, <3>1, RowBridges
    <3>3. QED
      BY <2>1, <3>2
  <2>5. CASE passage \in Columns(f, s)
    <3>1. passage \in StraightPassages(rooms \cap PartCells(f), rooms \cap PartCells(s), 2)
      BY <2>1, <2>5 DEF Columns, Rooms
    <3>2. Bridges(cells, rooms, open, f, s)
      BY <1>3, <1>5, <2>2, <2>3, <3>1, ColumnBridges
    <3>3. QED
      BY <2>1, <3>2
  <2>6. QED
    BY <1>4, <2>4, <2>5
<1>7. QED
  BY <1>1, <1>2, <1>4, <1>5, <1>6, PassageIsOrderly

-----------------------------------------------------------------------------
(* Digging.                                                                  *)

LEMMA DiggableIs ==
  ASSUME BspInv, agenda # <<>>, Head(agenda).task = "link"
  PROVE  Diggable = Cells(Head(agenda))
<1>1. PICK f, s : f = Head(agenda).first /\ s = Head(agenda).second
  OBVIOUS
<1>2. Halves(f, s) /\ Area(Head(agenda)) = Whole(f, s)
  BY <1>1, LinkIs
<1>3. QED
  BY <1>1, <1>2, HalvesMakeWhole DEF Diggable, Cells

LEMMA AllIsCosted ==
  ASSUME NEW p, Fits(p), NEW open, NEW start, NEW price, Costed(PartCells(p), open, start, price, {})
  PROVE  DOMAIN price = PartCells(p)
<1>1. PICK cells, dom : cells = PartCells(p) /\ dom = DOMAIN price
  OBVIOUS
<1>2. dom \subseteq cells /\ start \in dom
      /\ \A c \in cells, d \in dom : d \in Beside(c) => c \in dom
  BY <1>1 DEF Costed
<1>3. Shut(cells, dom)
  <2>1. SUFFICES ASSUME NEW c \in dom, NEW d \in cells, d \in Beside(c) PROVE d \in dom
    BY DEF Shut
  <2>2. c \in Points /\ d \in Points
    BY <1>1, <1>2, InnerIsIn
  <2>3. c \in Beside(d)
    BY <2>1, <2>2, BesideIsMutual
  <2>4. QED
    BY <1>2, <2>3
<1>4. Joined(cells)
  <2>1. PICK l \in Int, r \in Int, t \in Int, b \in Int : l = p.l /\ r = p.r /\ t = p.t /\ b = p.b
    BY DEF Fits
  <2>2. cells = (l..r) \X (t..b)
    BY <1>1, <2>1 DEF PartCells
  <2>3. QED
    BY <2>2, RectangleIsJoined
<1>5. QED
  BY <1>1, <1>2, <1>3, <1>4 DEF Joined

LEMMA StartDiggingIsOrderly ==
  ASSUME BspInv, StartDigging
  PROVE  BspInv'
<1>1. agenda # <<>> /\ Head(agenda).task = "link"
  BY DEF StartDigging
<1>2. PICK f, s, t : f = Head(agenda).first /\ s = Head(agenda).second /\ t = Head(agenda)
  OBVIOUS
<1>3. Halves(f, s) /\ Area(t) = Whole(f, s) /\ Sound(floor, Open, f) /\ Sound(floor, Open, s)
  BY <1>1, <1>2, LinkIs
<1>4. PICK start \in Drawn(Rooms(f)), end \in Drawn(Rooms(s)) :
        cost' = [c \in {start} |-> 0] /\ fresh' = {start} /\ way' = <<end>>
  BY <1>2 DEF StartDigging
<1>5. start \in Rooms(f) /\ end \in Rooms(s)
  BY DEF Drawn
<1>6. Rooms(f) \subseteq Open \cap PartCells(f) /\ Rooms(s) \subseteq Open \cap PartCells(s)
  BY DEF Rooms, Open
<1>7. start \in Inner(Whole(f, s)) /\ end \in Inner(Whole(f, s)) /\ Fits(Whole(f, s))
  BY <1>3, <1>5, <1>6, HalvesMakeWhole DEF Sound
<1>8. start \in Cells(t) /\ end \in Inner(Area(t))
  BY <1>3, <1>7, InnerIsIn DEF Cells
<1>9. Costed(Cells(t), Open, start, cost', fresh')
  <2>1. DOMAIN cost' = {start} /\ cost'[start] = 0 /\ cost' \in [{start} -> Nat]
    BY <1>4
  <2>2. QED
    BY <1>4, <1>8, <2>1 DEF Costed
<1>10. /\ way' \in Seq(Inner(Area(t))) /\ way' # <<>> /\ way'[1] = end /\ Len(way') = 1
  BY <1>4, <1>8
<1>11. \A i \in 2..Len(way') : way'[i] \in Beside(way'[i - 1])
  BY <1>10
<1>12. /\ agenda' = agenda /\ floor' = floor /\ door' = door /\ Open' = Open
       /\ \A p : floor' \cap PartCells(p) = floor \cap PartCells(p)
  BY DEF StartDigging, Open
<1>13. Digging'
  <2>1. agenda' # <<>> /\ Head(agenda').task = "link" /\ Head(agenda') = t
        /\ Head(agenda').first = f /\ Head(agenda').second = s
    BY <1>1, <1>2, <1>12
  <2>2. \E u \in Rooms(f)' : Costed(Cells(t), Open', u, cost', fresh')
    BY <1>5, <1>9, <1>12 DEF Rooms
  <2>3. way'[1] \in Rooms(s)'
    BY <1>5, <1>10, <1>12 DEF Rooms
  <2>4. QED
    BY <1>10, <1>11, <2>1, <2>2, <2>3 DEF Digging, Rooms
<1>14. \A d \in door' : Hangs(d, Open')
  BY <1>12 DEF BspInv
<1>15. Orderly(agenda', floor', Open') /\ Open' \subseteq Inner(Block)
  BY <1>1, <1>12, HeadIs DEF BspInv
<1>16. QED
  BY <1>13, <1>14, <1>15 DEF BspInv

LEMMA LowerCostsIsOrderly ==
  ASSUME BspInv, LowerCosts
  PROVE  BspInv'
<1>1. Digging
  BY DEF BspInv, LowerCosts
<1>2. /\ agenda' = agenda /\ floor' = floor /\ door' = door /\ Open' = Open /\ way' = way
  BY DEF LowerCosts, Open
<1>3. PICK t : t = Head(agenda) /\ agenda # <<>> /\ t.task = "link"
  BY <1>1 DEF Digging
<1>4. PICK start \in Rooms(t.first) : Costed(Cells(t), Open, start, cost, fresh)
  BY <1>1, <1>3 DEF Digging
<1>5. Diggable = Cells(t)
  BY <1>3, DiggableIs
<1> DEFINE Offer(c) == Weight(c) + Min({cost[d] : d \in Beside(c) \cap fresh})
           better == {c \in Diggable : /\ Beside(c) \cap fresh # {}
                                       /\ c \in DOMAIN cost => Offer(c) < cost[c]}
<1>6. /\ cost' = [c \in DOMAIN cost \cup better |-> IF c \in better THEN Offer(c) ELSE cost[c]]
      /\ fresh' = better
  BY DEF LowerCosts
<1>7. \A c : Offer(c) = Offered(Open, cost, fresh, c)
  BY DEF Offered, Toll, Weight
<1> HIDE DEF Offer
<1>8. better = {c \in Cells(t) : /\ Beside(c) \cap fresh # {}
                                 /\ c \in DOMAIN cost => Offered(Open, cost, fresh, c) < cost[c]}
  BY <1>5, <1>7
<1> HIDE DEF better
<1>9. cost' = [c \in DOMAIN cost \cup better |->
                  IF c \in better THEN Offered(Open, cost, fresh, c) ELSE cost[c]]
  BY <1>6, <1>7
<1>10. Costed(Cells(t), Open, start, cost', fresh')
  <2>1. PICK cells, open, price, new, lower, cheaper :
          /\ cells = Cells(t) /\ open = Open /\ price = cost /\ new = fresh
          /\ lower = better /\ cheaper = cost'
    OBVIOUS
  <2>2. Costed(cells, open, start, price, new)
    BY <1>4, <2>1
  <2>3. lower = {c \in cells : /\ Beside(c) \cap new # {}
                               /\ c \in DOMAIN price => Offered(open, price, new, c) < price[c]}
    BY <1>8, <2>1
  <2>4. cheaper = [c \in DOMAIN price \cup lower |->
                     IF c \in lower THEN Offered(open, price, new, c) ELSE price[c]]
    BY <1>9, <2>1
  <2>5. Costed(cells, open, start, cheaper, lower)
    BY <2>2, <2>3, <2>4, LoweringKeepsPrices
  <2>6. QED
    BY <1>6, <2>1, <2>5
<1>11. Digging'
  <2>1. start \in Rooms(t.first)' /\ Head(agenda') = t
    BY <1>2, <1>3 DEF Rooms
  <2>2. \E u \in Rooms(Head(agenda).first)' : Costed(Cells(Head(agenda)), Open, u, cost, fresh)'
    BY <1>2, <1>3, <1>10, <2>1 DEF Cells, Area, Rooms
  <2>3. /\ way \in Seq(Inner(Area(Head(agenda)))) /\ way # <<>> /\ way[1] \in Rooms(Head(agenda).second)
        /\ \A i \in 2..Len(way) : way[i] \in Beside(way[i - 1])
    BY <1>1 DEF Digging
  <2>4. QED
    BY <1>2, <1>3, <2>2, <2>3 DEF Digging, Rooms
<1>12. \A d \in door' : Hangs(d, Open')
  BY <1>2 DEF BspInv
<1>13. Orderly(agenda', floor', Open') /\ Open' \subseteq Inner(Block)
  BY <1>2, <1>3, HeadIs DEF BspInv
<1>14. QED
  BY <1>11, <1>12, <1>13 DEF BspInv

LEMMA CheapestExists ==
  ASSUME NEW near \in SUBSET (Nat \X Nat), near # {}, \A c \in near : cost[c] \in Nat
  PROVE  \E c \in near : \A d \in near : Cheaper(c, d)
<1>1. PICK price : \A c \in near : price[c] = cost[c] /\ price[c] \in Nat
  BY DEF Cheaper
<1>2. PICK a \in near : \A d \in near : price[a] <= price[d]
  <2>1. PICK S : S = {price[c] : c \in near}
    OBVIOUS
  <2>2. S \in SUBSET Nat /\ S # {}
    BY <1>1, <2>1
  <2>3. PICK m \in S : \A k \in S : m <= k
    BY <2>2, LeastNatural
  <2>4. QED
    BY <2>1, <2>3
<1>3. PICK cheap : cheap = {c \in near : price[c] = price[a]}
  OBVIOUS
<1>4. PICK b \in cheap : \A d \in cheap : b[2] <= d[2]
  <2>1. PICK S : S = {c[2] : c \in cheap}
    OBVIOUS
  <2>2. S \in SUBSET Nat /\ S # {}
    BY <1>2, <1>3, <2>1
  <2>3. PICK m \in S : \A k \in S : m <= k
    BY <2>2, LeastNatural
  <2>4. QED
    BY <2>1, <2>3
<1>5. PICK row : row = {c \in cheap : c[2] = b[2]}
  OBVIOUS
<1>6. PICK e \in row : \A d \in row : e[1] <= d[1]
  <2>1. PICK S : S = {c[1] : c \in row}
    OBVIOUS
  <2>2. S \in SUBSET Nat /\ S # {}
    BY <1>3, <1>4, <1>5, <2>1
  <2>3. PICK m \in S : \A k \in S : m <= k
    BY <2>2, LeastNatural
  <2>4. QED
    BY <2>1, <2>3
<1>7. ASSUME NEW d \in near PROVE Cheaper(e, d)
  <2>1. /\ e \in near /\ price[e] = price[a] /\ e[2] = b[2]
        /\ e[1] \in Nat /\ e[2] \in Nat /\ d[1] \in Nat /\ d[2] \in Nat
        /\ cost[e] = price[e] /\ cost[d] = price[d] /\ price[e] \in Nat /\ price[d] \in Nat
    BY <1>1, <1>3, <1>5, <1>6
  <2>2. price[e] <= price[d]
    BY <1>2, <2>1
  <2>3. CASE price[e] # price[d]
    BY <2>1, <2>2, <2>3 DEF Cheaper
  <2>4. CASE price[e] = price[d]
    <3>1. d \in cheap /\ e[2] <= d[2]
      BY <1>3, <1>4, <2>1, <2>4
    <3>2. CASE e[2] = d[2]
      <4>1. d \in row /\ e[1] <= d[1]
        BY <1>5, <1>6, <2>1, <3>1, <3>2
      <4>2. QED
        BY <2>1, <2>4, <3>2, <4>1 DEF Cheaper
    <3>3. CASE e[2] # d[2]
      BY <2>1, <2>4, <3>1, <3>3 DEF Cheaper
    <3>4. QED
      BY <3>2, <3>3
  <2>5. QED
    BY <2>3, <2>4
<1>8. QED
  BY <1>3, <1>5, <1>6, <1>7

\* Where the digging stands, in the terms of its part.
LEMMA DiggingIs ==
  ASSUME BspInv, Digging, fresh = {}
  PROVE  \E f, s, p, start, n :
           /\ f = Head(agenda).first /\ s = Head(agenda).second /\ p = Area(Head(agenda))
           /\ Halves(f, s) /\ p = Whole(f, s) /\ Fits(p)
           /\ Sound(floor, Open, f) /\ Sound(floor, Open, s)
           /\ start \in Rooms(f) /\ start \in Inner(p)
           /\ Costed(PartCells(p), Open, start, cost, {}) /\ DOMAIN cost = PartCells(p)
           /\ Open \cap PartCells(p) \subseteq Inner(p)
           /\ way \in Seq(Inner(p)) /\ n = Len(way) /\ n \in Nat \ {0} /\ way[1] \in Rooms(s)
           /\ \A i \in 2..n : way[i] \in Beside(way[i - 1])
<1>1. PICK f, s, p, n : /\ f = Head(agenda).first /\ s = Head(agenda).second
                        /\ p = Area(Head(agenda)) /\ n = Len(way)
  OBVIOUS
<1>2. /\ Halves(f, s) /\ p = Whole(f, s) /\ Fits(p)
      /\ Sound(floor, Open, f) /\ Sound(floor, Open, s)
  <2>1. agenda # <<>> /\ Head(agenda).task = "link"
    BY DEF Digging
  <2>2. QED
    BY <1>1, <2>1, LinkIs, HalvesMakeWhole
<1>3. PICK start \in Rooms(f) : Costed(PartCells(p), Open, start, cost, {})
  BY <1>1 DEF Digging, Cells
<1>4. DOMAIN cost = PartCells(p)
  <2>1. PICK open, price : open = Open /\ price = cost
    OBVIOUS
  <2>2. QED
    BY <1>2, <1>3, <2>1, AllIsCosted
<1>5. Open \cap PartCells(p) \subseteq Inner(p)
  BY <1>2, HalvesMakeWhole DEF Sound
<1>6. start \in Inner(p)
  BY <1>2, <1>3, <1>5, HalvesMakeWhole DEF Rooms, Open
<1>7. way \in Seq(Inner(p)) /\ n \in Nat \ {0} /\ way[1] \in Rooms(s)
      /\ \A i \in 2..n : way[i] \in Beside(way[i - 1])
  BY <1>1 DEF Digging
<1>8. QED
  BY <1>1, <1>2, <1>3, <1>4, <1>5, <1>6, <1>7

LEMMA StepBackIsOrderly ==
  ASSUME BspInv, StepBack
  PROVE  BspInv'
<1>1. Digging /\ fresh = {} /\ agenda # <<>> /\ Head(agenda).task = "link"
  BY DEF BspInv, StepBack, Digging
<1>2. PICK f, s, p, start, n :
           /\ f = Head(agenda).first /\ s = Head(agenda).second /\ p = Area(Head(agenda))
           /\ Halves(f, s) /\ p = Whole(f, s) /\ Fits(p)
           /\ Sound(floor, Open, f) /\ Sound(floor, Open, s)
           /\ start \in Rooms(f) /\ start \in Inner(p)
           /\ Costed(PartCells(p), Open, start, cost, {}) /\ DOMAIN cost = PartCells(p)
           /\ Open \cap PartCells(p) \subseteq Inner(p)
           /\ way \in Seq(Inner(p)) /\ n = Len(way) /\ n \in Nat \ {0} /\ way[1] \in Rooms(s)
           /\ \A i \in 2..n : way[i] \in Beside(way[i - 1])
  BY <1>1, DiggingIs
<1>3. PICK c : c = way[n]
  OBVIOUS
<1>4. PICK near : near = Beside(c) \cap DOMAIN cost
  OBVIOUS
<1>5. PICK d : d = CHOOSE g \in near : \A e \in near : Cheaper(g, e)
  OBVIOUS
<1>6. way' = Append(way, d) /\ cost[c] # 0
  <2>1. cost[way[Len(way)]] # 0
        /\ way' = Append(way, CHOOSE g \in Beside(way[Len(way)]) \cap DOMAIN cost :
                                \A e \in Beside(way[Len(way)]) \cap DOMAIN cost : Cheaper(g, e))
    BY DEF StepBack
  <2>2. QED
    BY <1>2, <1>3, <1>4, <1>5, <2>1
<1>7. /\ agenda' = agenda /\ floor' = floor /\ door' = door /\ Open' = Open
      /\ cost' = cost /\ fresh' = fresh
  BY DEF StepBack, Open
<1>8. c \in Inner(p) /\ c \in PartCells(p)
  BY <1>2, <1>3, InnerIsIn
<1>9. \A e \in PartCells(p) : cost[e] \in Nat /\ (cost[e] = 0 <=> e = start)
  BY <1>2 DEF Costed
<1>10. PICK e \in near : cost[c] >= Toll(Open, c) + cost[e]
  BY <1>2, <1>4, <1>6, <1>8, <1>9 DEF Costed
<1>11. near \in SUBSET (Nat \X Nat) /\ near # {} /\ near \subseteq PartCells(p)
  BY <1>2, <1>4, <1>10, InnerIsIn
<1>12. d \in near /\ \A g \in near : Cheaper(d, g)
  <2>1. \E g \in near : \A h \in near : Cheaper(g, h)
    BY <1>9, <1>11, CheapestExists
  <2>2. QED
    BY <1>5, <2>1
<1>13. ~(cost[c] < cost[d])
  <2>1. Cheaper(d, e)
    BY <1>12
  <2>2. PICK x \in Nat, y \in Nat, z \in Nat, w \in {1, 1000} :
          x = cost[c] /\ y = cost[d] /\ z = cost[e] /\ w = Toll(Open, c)
    <3>1. cost[c] \in Nat /\ cost[d] \in Nat /\ cost[e] \in Nat
      BY <1>8, <1>9, <1>11, <1>12
    <3>2. Toll(Open, c) \in {1, 1000}
      BY TollIs
    <3>3. QED
      BY <3>1, <3>2
  <2>3. y <= z
    BY <2>1, <2>2 DEF Cheaper
  <2>4. x >= w + z
    BY <1>10, <2>2
  <2>5. QED
    BY <2>2, <2>3, <2>4
<1>14. d \in Inner(p)
  <2>1. PICK open, price : open = Open /\ price = cost
    OBVIOUS
  <2>2. /\ open \cap PartCells(p) \subseteq Inner(p)
        /\ Costed(PartCells(p), open, start, price, {}) /\ d \in Beside(c) \cap DOMAIN price
        /\ ~(price[c] < price[d])
    BY <1>2, <1>4, <1>12, <1>13, <2>1
  <2>3. QED
    BY <1>2, <1>8, <2>2, WayStaysInside
<1>15. /\ way' \in Seq(Inner(p)) /\ Len(way') = n + 1 /\ way' # <<>> /\ way'[n + 1] = d
       /\ \A i \in 1..n : way'[i] = way[i]
  BY <1>2, <1>6, <1>14
<1>16. \A i \in 2..(n + 1) : way'[i] \in Beside(way'[i - 1])
  <2>1. SUFFICES ASSUME NEW i \in 2..(n + 1) PROVE way'[i] \in Beside(way'[i - 1])
    OBVIOUS
  <2>2. CASE i = n + 1
    <3>1. i - 1 \in 1..n /\ i - 1 = n
      BY <1>2, <2>2
    <3>2. way'[i - 1] = c /\ way'[i] = d
      BY <1>3, <1>15, <2>2, <3>1
    <3>3. QED
      BY <1>4, <1>12, <3>2
  <2>3. CASE i # n + 1
    <3>1. i \in 1..n /\ i - 1 \in 1..n /\ i \in 2..n
      BY <1>2, <2>3
    <3>2. QED
      BY <1>2, <1>15, <3>1
  <2>4. QED
    BY <2>2, <2>3
<1>17. way'[1] = way[1]
  BY <1>2, <1>15
<1>18. Digging'
  <2>1. \E u \in Rooms(Head(agenda).first) : Costed(Cells(Head(agenda)), Open, u, cost, fresh)
    BY <1>1 DEF Digging
  <2>2. \E u \in Rooms(Head(agenda).first)' : Costed(Cells(Head(agenda)), Open, u, cost, fresh)'
    BY <1>7, <2>1 DEF Cells, Area, Rooms
  <2>3. /\ way' \in Seq(Inner(Area(Head(agenda')))) /\ way' # <<>>
        /\ way'[1] \in Rooms(Head(agenda).second)'
        /\ \A i \in 2..Len(way') : way'[i] \in Beside(way'[i - 1])
    BY <1>2, <1>7, <1>15, <1>16, <1>17 DEF Rooms
  <2>4. QED
    BY <1>1, <1>7, <2>2, <2>3 DEF Digging, Rooms
<1>19. \A g \in door' : Hangs(g, Open')
  BY <1>7 DEF BspInv
<1>20. Orderly(agenda', floor', Open') /\ Open' \subseteq Inner(Block)
  BY <1>1, <1>7, HeadIs DEF BspInv
<1>21. QED
  BY <1>18, <1>19, <1>20 DEF BspInv

LEMMA DigWayIsOrderly ==
  ASSUME BspInv, DigWay
  PROVE  BspInv'
<1>1. /\ Digging /\ fresh = {} /\ agenda # <<>> /\ Head(agenda).task = "link" /\ way' = <<>>
      /\ cost[way[Len(way)]] = 0
  BY DEF BspInv, DigWay, Digging
<1>2. PICK f, s, p, start, n :
           /\ f = Head(agenda).first /\ s = Head(agenda).second /\ p = Area(Head(agenda))
           /\ Halves(f, s) /\ p = Whole(f, s) /\ Fits(p)
           /\ Sound(floor, Open, f) /\ Sound(floor, Open, s)
           /\ start \in Rooms(f) /\ start \in Inner(p)
           /\ Costed(PartCells(p), Open, start, cost, {}) /\ DOMAIN cost = PartCells(p)
           /\ Open \cap PartCells(p) \subseteq Inner(p)
           /\ way \in Seq(Inner(p)) /\ n = Len(way) /\ n \in Nat \ {0} /\ way[1] \in Rooms(s)
           /\ \A i \in 2..n : way[i] \in Beside(way[i - 1])
  BY <1>1, DiggingIs
<1>3. PICK passage : /\ passage = [i \in {i \in DOMAIN way : way[i] \notin Open} |-> way[i]]
                     /\ LinkAlong(passage, f, s)
  BY <1>2 DEF DigWay
<1>4. PICK cells : cells = {passage[i] : i \in DOMAIN passage}
  OBVIOUS
<1>5. DOMAIN way = 1..n /\ \A i \in 1..n : way[i] \in Inner(p)
  BY <1>2
<1>6. \A c : c \in cells <=> \E i \in 1..n : way[i] \notin Open /\ c = way[i]
  <2>1. \A i : i \in DOMAIN passage <=> i \in 1..n /\ way[i] \notin Open
    BY <1>3, <1>5
  <2>2. \A i \in DOMAIN passage : passage[i] = way[i]
    BY <1>3
  <2>3. QED
    BY <1>4, <2>1, <2>2
<1>7. PICK k \in Nat : n = k + 1
  <2>1. n - 1 \in Nat /\ n = (n - 1) + 1
    BY <1>2
  <2>2. QED
    BY <2>1
<1>8. PICK w : w = [i \in 0..k |-> way[i + 1]]
  OBVIOUS
<1>9. \A i \in 0..k : i + 1 \in 1..n /\ w[i] = way[i + 1]
  BY <1>7, <1>8
<1>10. w \in [0..k -> Points]
  <2>1. \A i \in 0..k : way[i + 1] \in Points
    BY <1>2, <1>5, <1>9, InnerIsIn
  <2>2. QED
    BY <1>8, <2>1
<1>11. \A i \in 1..k : w[i] \in Beside(w[i - 1])
  <2>1. SUFFICES ASSUME NEW i \in 1..k PROVE w[i] \in Beside(w[i - 1])
    OBVIOUS
  <2>2. i \in 0..k /\ i - 1 \in 0..k /\ i + 1 \in 2..n /\ (i + 1) - 1 = i /\ (i - 1) + 1 = i
    BY <1>7
  <2>3. way[i + 1] \in Beside(way[i])
    BY <1>2, <2>2
  <2>4. w[i] = way[i + 1] /\ w[i - 1] = way[i]
    BY <1>9, <2>2
  <2>5. QED
    BY <2>3, <2>4
<1>12. PICK R : R = {w[i] : i \in 0..k}
  OBVIOUS
<1>13. Joined(R)
  BY <1>10, <1>11, <1>12, WalkIsJoined
<1>14. \A c : c \in R <=> \E i \in 1..n : c = way[i]
  <2>1. \A i \in 1..n : i - 1 \in 0..k /\ (i - 1) + 1 = i
    BY <1>7
  <2>2. \A i \in 1..n : w[i - 1] = way[i]
    BY <1>9, <2>1
  <2>3. QED
    BY <1>9, <1>12, <2>1, <2>2
<1>15. R \in SUBSET Inner(Whole(f, s)) /\ cells \subseteq R /\ R \subseteq Open \union cells
  BY <1>2, <1>5, <1>6, <1>14
<1>16. start \in R /\ start \in floor \cap PartCells(f) /\ start \notin cells
  <2>1. n \in 1..n /\ way[n] \in PartCells(p) /\ cost[way[n]] = 0
    BY <1>1, <1>2, <1>5, InnerIsIn
  <2>2. way[n] = start
    BY <1>2, <2>1 DEF Costed
  <2>3. start \in floor \cap PartCells(f) /\ start \in Open
    BY <1>2 DEF Rooms, Open
  <2>4. QED
    BY <1>6, <1>14, <2>1, <2>2, <2>3
<1>17. way[1] \in R /\ way[1] \in floor \cap PartCells(s)
  BY <1>2, <1>14 DEF Rooms
<1>18. Bridges(cells, floor, Open, f, s)
  BY <1>13, <1>15, <1>16, <1>17 DEF Bridges
<1>19. QED
  BY <1>1, <1>2, <1>3, <1>4, <1>18, PassageIsOrderly

LEMMA BspInvHolds == BspSpec => []BspInv
<1>1. BspInit => BspInv
  BY DEF BspInit, BspInv, Open
<1>2. BspInv /\ [StartBsp \/ BspNext]_bspVars => BspInv'
  <2>1. SUFFICES ASSUME BspInv, [StartBsp \/ BspNext]_bspVars PROVE BspInv'
    OBVIOUS
  <2>2. CASE StartBsp
    BY <2>1, <2>2, StartBspIsOrderly
  <2>3. CASE SplitPart
    BY <2>1, <2>3, SplitPartIsOrderly
  <2>4. CASE CarveRoom
    BY <2>1, <2>4, CarveRoomIsOrderly
  <2>5. CASE LinkHalves
    BY <2>1, <2>5, LinkHalvesIsOrderly
  <2>6. CASE StartDigging
    BY <2>1, <2>6, StartDiggingIsOrderly
  <2>7. CASE LowerCosts
    BY <2>1, <2>7, LowerCostsIsOrderly
  <2>8. CASE StepBack
    BY <2>1, <2>8, StepBackIsOrderly
  <2>9. CASE DigWay
    BY <2>1, <2>9, DigWayIsOrderly
  <2>10. CASE UNCHANGED bspVars
    <3>1. /\ agenda' = agenda /\ floor' = floor /\ tunnel' = tunnel /\ door' = door
          /\ cost' = cost /\ fresh' = fresh /\ way' = way
      BY <2>10 DEF bspVars, digVars
    <3>2. Open' = Open /\ \A q : Rooms(q)' = Rooms(q)
      BY <3>1 DEF Open, Rooms
    <3>3. Digging' = Digging
      BY <3>1, <3>2 DEF Digging, Rooms, Cells, Area
    <3>4. QED
      BY <2>1, <3>1, <3>2, <3>3 DEF BspInv
  <2>11. QED
    BY <2>1, <2>2, <2>3, <2>4, <2>5, <2>6, <2>7, <2>8, <2>9, <2>10 DEF BspNext
<1>3. QED
  BY <1>1, <1>2, PTL DEF BspSpec

LEMMA BspInvIsEnough == BspInv => LevelHoldsTogether
<1>1. SUFFICES ASSUME BspInv PROVE LevelHoldsTogether
  OBVIOUS
<1>2. Open \subseteq (1..(BlockWidth - 1)) \X (1..(BlockHeight - 1))
  BY <1>1, BlockIs DEF BspInv
<1>3. \A d \in door : Hangs(d, Open)
  BY <1>1 DEF BspInv
<1>4. ASSUME agenda = <<>> PROVE Reached(Open, CHOOSE c \in Open : TRUE) = Open
  <2>1. Orderly(agenda, floor, Open)
    BY <1>1, <1>4 DEF BspInv
  <2>2. Len(agenda) + 1 = 1 /\ 1 \in 1..(Len(agenda) + 1) /\ 1..(1 - 1) = {}
    BY <1>4
  <2>3. Block \in Needs(agenda, 1)
    BY <2>2 DEF Needs
  <2>4. Sound(floor, Open, Block)
    BY <2>1, <2>2, <2>3 DEF Orderly, Provided
  <2>5. /\ Inner(Block) \subseteq PartCells(Block) /\ IsFiniteSet(PartCells(Block))
    BY BlockFits, InnerIsIn
  <2>6. PICK open : open = Open
    OBVIOUS
  <2>7. open \subseteq PartCells(Block) /\ open \cap PartCells(Block) = open
    BY <1>1, <2>5, <2>6 DEF BspInv
  <2>8. IsFiniteSet(open)
    BY <2>5, <2>7, FS_Subset
  <2>9. open # {} /\ Joined(open)
    BY <2>4, <2>6, <2>7 DEF Sound, Open
  <2>10. PICK start \in open : start = CHOOSE c \in open : TRUE
    BY <2>9
  <2>11. Reached(open, start) = open
    BY <2>8, <2>9, JoinedIsReached
  <2>12. QED
    BY <2>6, <2>10, <2>11
<1>5. QED
  BY <1>2, <1>3, <1>4 DEF LevelHoldsTogether, Hangs

\* However _BSPGenLevel splits the block, _carveRoom places the rooms and
\* _linkLeaves chooses its passages, straight ones or those dijkstraPath finds:
\* when the level is complete every room and passage can be walked to from
\* every other, at no time is a cell of the outer wall opened, and each door
\* that makePassagesWithDoor hangs stands between two cells one can walk on.
THEOREM LevelIsJoined == BspSpec => []LevelHoldsTogether
<1>1. BspSpec => []BspInv
  BY BspInvHolds
<1>2. BspInv => LevelHoldsTogether
  BY BspInvIsEnough
<1>3. QED
  BY <1>1, <1>2, PTL
=============================================================================
