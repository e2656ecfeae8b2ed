----------------------- MODULE CampgroundRouteProofs -----------------------
(***************************************************************************)
(* The search finds a route exactly when there is one, and the route it     *)
(* finds takes legal steps only, visits no cell twice and is one of the     *)
(* cheapest: for grids and roads of any size.                              *)
(*                                                                         *)
(* Two things hold after every expansion. Each cell reached has been        *)
(* reached by a legal step from a cell that costs less (SearchOK): so the   *)
(* way back ends at the start. And a cell none of whose entries is current  *)
(* has been expanded at a cost that no entry still waiting can beat, with   *)
(* all its neighbours reached through it or more cheaply (Frontwards): it   *)
(* rests on the estimate, which never drops by more than a step costs. The  *)
(* frontier empties because each expansion uses up an entry or the ways out *)
(* of a cell, eight at most into every free cell (Work).                   *)
(*                                                                         *)
(* The search is a recursive function, and so are the walk back, the least  *)
(* costs it is measured against and the sum of a path's costs. Induction    *)
(* over them is done by the least counterexample: a set of naturals that is *)
(* not empty has a least element.                                          *)
(***************************************************************************)
EXTENDS CampgroundRoute, FiniteSetTheorems, SequenceTheorems, WellFoundedInduction, TLAPS

LEMMA LeastNatural ==
  ASSUME NEW S \in SUBSET Nat, S # {}
  PROVE  \E m \in S : \A k \in S : m <= k
<1>1. IsWellFoundedOn(OpToRel(<, Nat), Nat)
  BY NatLessThanWellFounded
<1>2. PICK m \in S : \A k \in S : ~(<<k, m>> \in OpToRel(<, Nat))
  BY <1>1, WFMin
<1>3. ASSUME NEW k \in S PROVE m <= k
  <2>1. ~(<<k, m>> \in OpToRel(<, Nat))
    BY <1>2
  <2>2. ~(k < m)
    BY <2>1 DEF OpToRel
  <2>3. QED
    BY <2>2
<1>4. QED
  BY <1>3

LEMMA OneStep ==
  ASSUME NEW S, NEW a \in S
  PROVE  <<a>> \in Seq(S) /\ Len(<<a>>) = 1 /\ <<a>>[1] = a
OBVIOUS

-----------------------------------------------------------------------------
(* Distances and costs.                                                    *)

GridCells == Nat \X Nat \X Int

LEMMA CellParts ==
  ASSUME NEW p \in GridCells
  PROVE  /\ p[1] \in Nat /\ p[2] \in Nat /\ p[3] \in Int
         /\ p = <<p[1], p[2], p[3]>>
  BY DEF GridCells

LEMMA StepCostAtLeast ==
  ASSUME NEW road, NEW p, NEW q
  PROVE  /\ StepCost(road, p, q) \in Nat
         /\ Straight(p, q) => StepCost(road, p, q) >= 10
         /\ ~Straight(p, q) => StepCost(road, p, q) >= 14
  BY DEF StepCost

LEMMA RemainingCostNatural ==
  ASSUME NEW p \in GridCells, NEW q \in GridCells
  PROVE  RemainingCost(p, q) \in Nat
<1>1. Across(p, q) \in Nat /\ Down(p, q) \in Nat
  BY CellParts DEF Across, Down, Distance
<1>2. PICK m \in Nat, n \in Nat : m = Across(p, q) /\ n = Down(p, q)
  BY <1>1
<1>3. QED
  BY <1>2 DEF RemainingCost, Least, Greatest

LEMMA DeltaParts ==
  ASSUME NEW d \in Deltas
  PROVE  d[1] \in -1..1 /\ d[2] \in -1..1 /\ (d[1] # 0 \/ d[2] # 0)
  BY DEF Deltas

\* A cell that the search expands into is a legal step away.
LEMMA NeighboursAreLegal ==
  ASSUME NEW free \in SUBSET GridCells, NEW p \in GridCells, NEW d \in Deltas,
         Shift(p, d) \in free, SidesFree(free, p, Shift(p, d))
  PROVE  IsLegalStep(free, p, Shift(p, d))
<1>1. d[1] \in -1..1 /\ d[2] \in -1..1 /\ (d[1] # 0 \/ d[2] # 0)
  BY DeltaParts
<1>2. PICK q : q = Shift(p, d)
  OBVIOUS
<1>3. q[1] = p[1] + d[1] /\ q[2] = p[2] + d[2] /\ q[3] = p[3]
  BY <1>2 DEF Shift
<1>4. Greatest(Across(p, q), Down(p, q)) = 1
  BY <1>1, <1>3, CellParts DEF Greatest, Across, Down, Distance
<1>5. QED
  BY <1>2, <1>3, <1>4 DEF IsLegalStep

-----------------------------------------------------------------------------
(* The frontier has a foremost entry.                                      *)

IsEntry(e) == e.at \in GridCells /\ e.cost \in Nat /\ e.total \in Nat

\* The least value of a natural attribute over a set.
LEMMA LeastValue ==
  ASSUME NEW S, S # {}, NEW value \in [S -> Nat]
  PROVE  \E e \in S : \A f \in S : value[e] <= value[f]
<1> DEFINE Values == {value[e] : e \in S}
<1>1. Values \in SUBSET Nat /\ Values # {}
  OBVIOUS
<1>2. PICK v \in Values : \A w \in Values : v <= w
  BY <1>1, LeastNatural
<1>3. QED
  BY <1>2

LEMMA ForemostIsThere ==
  ASSUME NEW frontier, frontier # {}, \A e \in frontier : IsEntry(e)
  PROVE  /\ Foremost(frontier) \in frontier
         /\ \A e \in frontier : Foremost(frontier).total <= e.total
<1> DEFINE total == [e \in frontier |-> e.total]
           T == {e \in frontier : \A f \in frontier : total[e] <= total[f]}
           cost == [e \in T |-> e.cost]
           C == {e \in T : \A f \in T : cost[e] <= cost[f]}
           x == [e \in C |-> e.at[1]]
           X == {e \in C : \A f \in C : x[e] <= x[f]}
           y == [e \in X |-> e.at[2]]
<1>1. \A e \in frontier : e.total \in Nat /\ e.cost \in Nat /\ e.at[1] \in Nat /\ e.at[2] \in Nat
  BY CellParts DEF IsEntry
<1>2. total \in [frontier -> Nat]
  BY <1>1
<1>3. T # {}
  <2> HIDE DEF total
  <2>1. QED
    BY <1>2, LeastValue
<1>4. cost \in [T -> Nat]
  BY <1>1
<1>5. C # {}
  <2> HIDE DEF cost, T
  <2>1. QED
    BY <1>3, <1>4, LeastValue
<1>6. x \in [C -> Nat]
  BY <1>1
<1>7. X # {}
  <2> HIDE DEF x, C
  <2>1. QED
    BY <1>5, <1>6, LeastValue
<1>8. y \in [X -> Nat]
  BY <1>1
<1>9. PICK m \in X : \A n \in X : y[m] <= y[n]
  <2> HIDE DEF y, X
  <2>1. QED
    BY <1>7, <1>8, LeastValue
<1>10. ASSUME NEW n \in frontier PROVE Before(m, n)
  <2>1. m \in C /\ m \in T /\ m \in frontier
    BY <1>9
  <2>2. m.total <= n.total
    BY <2>1
  <2>3. n.total = m.total => n \in T
    BY <2>1
  <2>4. n.total = m.total => m.cost <= n.cost
    BY <2>1, <2>3
  <2>5. n.total = m.total /\ n.cost = m.cost => n \in C
    BY <2>1, <2>3
  <2>6. n.total = m.total /\ n.cost = m.cost => m.at[1] <= n.at[1]
    BY <1>9, <2>5
  <2>7. n.total = m.total /\ n.cost = m.cost /\ n.at[1] = m.at[1] => n \in X
    BY <1>9, <2>5
  <2>8. n.total = m.total /\ n.cost = m.cost /\ n.at[1] = m.at[1] => m.at[2] <= n.at[2]
    BY <1>9, <2>7
  <2>9. /\ m.total \in Nat /\ n.total \in Nat /\ m.cost \in Nat /\ n.cost \in Nat
        /\ m.at[1] \in Nat /\ n.at[1] \in Nat
    BY <1>1, <2>1
  <2> HIDE DEF total, T, cost, C, x, X, y
  <2>10. QED
    BY <2>2, <2>4, <2>6, <2>8, <2>9, SMTT(60) DEF Before
<1>11. m \in frontier
  BY <1>9
<1>12. PICK foremost : foremost = Foremost(frontier)
  OBVIOUS
<1>13. foremost \in frontier /\ \A e \in frontier : Before(foremost, e)
  BY <1>10, <1>11, <1>12 DEF Foremost
<1>14. ASSUME NEW e \in frontier PROVE foremost.total <= e.total
  <2>1. Before(foremost, e) /\ foremost.total \in Nat /\ e.total \in Nat
    BY <1>1, <1>13
  <2>2. QED
    BY <2>1 DEF Before
<1>15. QED
  BY <1>12, <1>13, <1>14

-----------------------------------------------------------------------------
(* What holds of the search after every expansion: each cell but the start  *)
(* has been reached by a legal step from a cell that costs less.           *)

SearchOK(free, start, goal, s) ==
  /\ DOMAIN s = {"frontier", "cost", "from", "found"}
  /\ s = [frontier |-> s.frontier, cost |-> s.cost, from |-> s.from, found |-> s.found]
  /\ DOMAIN s.cost \subseteq free \union {start}
  /\ s.cost \in [DOMAIN s.cost -> Nat]
  /\ s.from \in [DOMAIN s.cost -> DOMAIN s.cost]
  /\ start \in DOMAIN s.cost
  /\ s.cost[start] = 0
  /\ \A q \in DOMAIN s.cost \ {start} :
       IsLegalStep(free, s.from[q], q) /\ s.cost[s.from[q]] < s.cost[q]
  /\ \A e \in s.frontier : IsEntry(e) /\ e.at \in DOMAIN s.cost
  /\ s.found => goal \in DOMAIN s.cost

LEMMA FirstSearchOK ==
  ASSUME NEW free \in SUBSET GridCells, NEW start \in GridCells, NEW goal \in GridCells
  PROVE  SearchOK(free, start, goal,
           [frontier |-> {[at |-> start, cost |-> 0, total |-> RemainingCost(start, goal)]},
            cost |-> [q \in {start} |-> 0], from |-> [q \in {start} |-> start],
            found |-> FALSE])
<1>1. PICK r : r = RemainingCost(start, goal)
  OBVIOUS
<1>2. r \in Nat
  BY <1>1, RemainingCostNatural
<1>3. PICK s : s = [frontier |-> {[at |-> start, cost |-> 0, total |-> r]},
                    cost |-> [x \in {start} |-> 0], from |-> [x \in {start} |-> start],
                    found |-> FALSE]
  OBVIOUS
<1>4. SearchOK(free, start, goal, s)
  BY <1>2, <1>3 DEF SearchOK, IsEntry
<1>5. QED
  BY <1>1, <1>3, <1>4

LEMMA ExpandedOK ==
  ASSUME NEW free \in SUBSET GridCells, NEW start \in GridCells, NEW goal \in GridCells,
         NEW road, NEW s, SearchOK(free, start, goal, s), s.frontier # {}, ~s.found
  PROVE  SearchOK(free, start, goal, Expanded(free, road, goal, s))
<1>1. PICK active : active = Foremost(s.frontier)
  OBVIOUS
<1>2. active \in s.frontier
  BY <1>1, ForemostIsThere DEF SearchOK
<1>3. PICK p : p = active.at
  OBVIOUS
<1>4. IsEntry(active) /\ p \in DOMAIN s.cost /\ p \in GridCells /\ active.cost \in Nat
  BY <1>2, <1>3 DEF SearchOK, IsEntry
<1>5. PICK reach : reach = {q \in {Shift(p, d) : d \in Deltas} : q \in free /\ SidesFree(free, p, q)}
  OBVIOUS
<1>6. ASSUME NEW q \in reach PROVE q \in free /\ q \in GridCells /\ IsLegalStep(free, p, q)
  BY <1>4, <1>5, NeighboursAreLegal
<1>7. PICK costs : costs = [q \in reach |-> active.cost + StepCost(road, p, q)]
  OBVIOUS
<1>8. ASSUME NEW q \in reach PROVE costs[q] \in Nat /\ costs[q] > active.cost
  <2>1. PICK c \in Nat : c = StepCost(road, p, q) /\ c > 0
    BY StepCostAtLeast
  <2>2. QED
    BY <1>4, <1>7, <2>1
<1>9. PICK better : better = {q \in DOMAIN costs : q \notin DOMAIN s.cost \/ costs[q] < s.cost[q]}
  OBVIOUS
<1>10. better \subseteq reach
  BY <1>7, <1>9
<1>11. PICK rest : rest = [s EXCEPT !.frontier = @ \ {active}]
  OBVIOUS
<1>12. SearchOK(free, start, goal, rest) /\ rest.cost = s.cost /\ rest.from = s.from
       /\ rest.frontier = s.frontier \ {active} /\ ~rest.found
  BY <1>11 DEF SearchOK
<1>13. PICK cost : cost = [q \in better \union DOMAIN s.cost |->
                          IF q \in better THEN costs[q] ELSE s.cost[q]]
  OBVIOUS
<1>14. PICK from : from = [q \in better \union DOMAIN s.from |->
                          IF q \in better THEN p ELSE s.from[q]]
  OBVIOUS
<1>15. PICK new : new = {[at |-> q, cost |-> costs[q],
                          total |-> costs[q] + RemainingCost(q, goal)] : q \in better}
  OBVIOUS
<1>16. Expanded(free, road, goal, s) =
         IF active.cost # s.cost[p] THEN rest
         ELSE IF p = goal THEN [rest EXCEPT !.found = TRUE]
         ELSE [rest EXCEPT !.cost = cost, !.from = from, !.frontier = rest.frontier \union new]
  BY SMTT(60), <1>1, <1>3, <1>5, <1>7, <1>9, <1>11, <1>12, <1>13, <1>14, <1>15 DEF Expanded
<1>17. CASE active.cost # s.cost[p]
  BY <1>12, <1>16, <1>17
<1>18. CASE active.cost = s.cost[p] /\ p = goal
  <2>1. PICK h : h = [rest EXCEPT !.found = TRUE]
    OBVIOUS
  <2>2. /\ h.cost = s.cost /\ h.from = s.from /\ h.frontier = rest.frontier
        /\ h.found = TRUE /\ DOMAIN h = {"frontier", "cost", "from", "found"}
        /\ h = [frontier |-> h.frontier, cost |-> h.cost, from |-> h.from, found |-> h.found]
    BY <1>12, <2>1 DEF SearchOK
  <2>3. goal \in DOMAIN s.cost
    BY <1>4, <1>18
  <2>4. SearchOK(free, start, goal, h)
    BY <1>12, <2>2, <2>3 DEF SearchOK
  <2>5. QED
    BY <1>16, <1>18, <2>1, <2>4
<1>19. CASE active.cost = s.cost[p] /\ p # goal
  <2> DEFINE D == DOMAIN s.cost
             E == better \union D
  <2>1. cost = [q \in E |-> IF q \in better THEN costs[q] ELSE s.cost[q]]
    BY <1>13
  <2>2. from = [q \in E |-> IF q \in better THEN p ELSE s.from[q]]
    BY <1>14 DEF SearchOK
  <2>3. \A q \in better : costs[q] \in Nat /\ costs[q] > s.cost[p]
    BY <1>8, <1>10, <1>19
  <2>4. s.cost \in [D -> Nat] /\ s.from \in [D -> D] /\ start \in D /\ s.cost[start] = 0
        /\ D \subseteq free \union {start}
    BY DEF SearchOK
  <2>5. \A q \in better \intersect D : costs[q] < s.cost[q]
    BY <1>9
  <2>6. p \notin better /\ start \notin better /\ p \in E /\ start \in E
    BY <1>4, <2>3, <2>4, <2>5
  <2>7. DOMAIN cost = E /\ cost \in [E -> Nat] /\ from \in [E -> E] /\ cost[start] = 0
    BY <2>1, <2>2, <2>3, <2>4, <2>6
  <2>8. E \subseteq free \union {start}
    BY <1>6, <1>10, <2>4
  <2>9. ASSUME NEW q \in E \ {start}
        PROVE  IsLegalStep(free, from[q], q) /\ cost[from[q]] < cost[q]
    <3>1. CASE q \in better
      <4>1. from[q] = p /\ cost[q] = costs[q] /\ cost[p] = s.cost[p]
        BY <2>1, <2>2, <2>6, <3>1
      <4>2. QED
        BY <1>6, <1>10, <2>3, <3>1, <4>1
    <3>2. CASE q \notin better
      <4>1. q \in D \ {start} /\ s.from[q] \in D
        BY <2>4, <3>2
      <4>2. from[q] = s.from[q] /\ cost[q] = s.cost[q]
        BY <2>1, <2>2, <3>2
      <4>3. IsLegalStep(free, s.from[q], q) /\ s.cost[s.from[q]] < s.cost[q]
        BY <4>1 DEF SearchOK
      <4>4. cost[s.from[q]] = IF s.from[q] \in better THEN costs[s.from[q]] ELSE s.cost[s.from[q]]
        BY <2>1, <4>1
      <4>5. cost[s.from[q]] <= s.cost[s.from[q]] /\ cost[s.from[q]] \in Nat
        BY <2>3, <2>4, <2>5, <4>1, <4>4
      <4>6. s.cost[s.from[q]] \in Nat /\ s.cost[q] \in Nat
        BY <2>4, <4>1
      <4>7. QED
        BY <4>2, <4>3, <4>5, <4>6
    <3>3. QED
      BY <3>1, <3>2
  <2>10. ASSUME NEW e \in new PROVE IsEntry(e) /\ e.at \in E
    <3>1. PICK q \in better : e = [at |-> q, cost |-> costs[q],
                                   total |-> costs[q] + RemainingCost(q, goal)]
      BY <1>15
    <3>2. q \in GridCells /\ costs[q] \in Nat
      BY <1>6, <1>10, <2>3
    <3>3. PICK r \in Nat : r = RemainingCost(q, goal)
      BY <3>2, RemainingCostNatural
    <3>4. QED
      BY <3>1, <3>2, <3>3 DEF IsEntry
  <2>11. \A e \in rest.frontier \union new : IsEntry(e) /\ e.at \in E
    BY <1>12, <2>10 DEF SearchOK
  <2>12. PICK h : h = [rest EXCEPT !.cost = cost, !.from = from,
                                   !.frontier = rest.frontier \union new]
    OBVIOUS
  <2>13. /\ h.cost = cost /\ h.from = from /\ h.frontier = rest.frontier \union new
         /\ h.found = rest.found /\ DOMAIN h = {"frontier", "cost", "from", "found"}
         /\ h = [frontier |-> h.frontier, cost |-> h.cost, from |-> h.from, found |-> h.found]
    BY <1>12, <2>12 DEF SearchOK
  <2>14. ~h.found
    BY <1>12, <2>13
  <2> HIDE DEF D, E
  <2>15. SearchOK(free, start, goal, h)
    BY <2>7, <2>8, <2>9, <2>11, <2>6, <2>13, <2>14 DEF SearchOK
  <2>16. QED
    BY <1>16, <1>19, <2>12, <2>15
<1>20. QED
  BY <1>17, <1>18, <1>19

-----------------------------------------------------------------------------
-----------------------------------------------------------------------------
(* The estimate of what remains never promises too little by more than a    *)
(* step costs, and is nothing at the goal.                                 *)

Octile(m, n) == Least(m, n) * 14 + (Greatest(m, n) - Least(m, n)) * 10

LEMMA OctileSteps ==
  ASSUME NEW a \in Nat, NEW b \in Nat, NEW c \in Nat, NEW d \in Nat,
         c - a \in -1..1, d - b \in -1..1
  PROVE  /\ Octile(a, b) <= 14 + Octile(c, d)
         /\ (a = c \/ b = d) => Octile(a, b) <= 10 + Octile(c, d)
<1>1. \A m, n \in Nat : Octile(m, n) = IF m < n THEN m * 4 + n * 10 ELSE n * 4 + m * 10
  BY DEF Octile, Least, Greatest
<1>2. /\ Octile(a, b) = IF a < b THEN a * 4 + b * 10 ELSE b * 4 + a * 10
      /\ Octile(c, d) = IF c < d THEN c * 4 + d * 10 ELSE d * 4 + c * 10
  BY <1>1
<1>3. a <= c + 1 /\ b <= d + 1
  OBVIOUS
<1>4. QED
  BY <1>2, <1>3

LEMMA RemainingIsOctile ==
  ASSUME NEW p, NEW q
  PROVE  RemainingCost(p, q) = Octile(Across(p, q), Down(p, q))
  BY DEF RemainingCost, Octile

LEMMA StepParts ==
  ASSUME NEW free \in SUBSET GridCells, NEW p \in GridCells, NEW q \in GridCells,
         IsLegalStep(free, p, q)
  PROVE  /\ q[1] - p[1] \in -1..1 /\ q[2] - p[2] \in -1..1 /\ q[3] = p[3]
         /\ q[1] # p[1] \/ q[2] # p[2]
<1>1. Greatest(Across(p, q), Down(p, q)) = 1 /\ q[3] = p[3]
  BY DEF IsLegalStep
<1>2. p[1] \in Nat /\ p[2] \in Nat /\ q[1] \in Nat /\ q[2] \in Nat
  BY CellParts
<1>3. QED
  BY <1>1, <1>2 DEF Greatest, Across, Down, Distance

LEMMA EstimateIsConsistent ==
  ASSUME NEW free \in SUBSET GridCells, NEW road, NEW p \in GridCells, NEW q \in GridCells,
         NEW g \in GridCells, IsLegalStep(free, p, q)
  PROVE  RemainingCost(p, g) <= StepCost(road, p, q) + RemainingCost(q, g)
<1>1. /\ q[1] - p[1] \in -1..1 /\ q[2] - p[2] \in -1..1
      /\ p[1] \in Nat /\ p[2] \in Nat /\ q[1] \in Nat /\ q[2] \in Nat /\ g[1] \in Nat /\ g[2] \in Nat
  BY StepParts, CellParts
<1>2. PICK a, b, c, d : a = Across(p, g) /\ b = Down(p, g) /\ c = Across(q, g) /\ d = Down(q, g)
  OBVIOUS
<1>3. a \in Nat /\ c \in Nat /\ c - a \in -1..1 /\ (p[1] = q[1] => a = c)
  BY <1>1, <1>2 DEF Across, Distance
<1>4. b \in Nat /\ d \in Nat /\ d - b \in -1..1 /\ (p[2] = q[2] => b = d)
  BY <1>1, <1>2 DEF Down, Distance
<1>5. /\ Octile(a, b) <= 14 + Octile(c, d)
      /\ Straight(p, q) => Octile(a, b) <= 10 + Octile(c, d)
  BY <1>3, <1>4, OctileSteps DEF Straight
<1>6. RemainingCost(p, g) = Octile(a, b) /\ RemainingCost(q, g) = Octile(c, d)
  BY <1>2, RemainingIsOctile
<1>7. Octile(a, b) \in Nat /\ Octile(c, d) \in Nat
  BY <1>6, RemainingCostNatural
<1>8. PICK k \in Nat : k = StepCost(road, p, q)
  BY StepCostAtLeast
<1>9. Octile(a, b) <= k + Octile(c, d)
  <2>1. (Straight(p, q) /\ k >= 10) \/ k >= 14
    BY <1>8, StepCostAtLeast
  <2>2. QED
    BY <1>5, <1>7, <2>1
<1>10. QED
  BY <1>6, <1>8, <1>9

LEMMA NothingRemains ==
  ASSUME NEW g \in GridCells
  PROVE  RemainingCost(g, g) = 0
<1>1. Across(g, g) = 0 /\ Down(g, g) = 0
  BY CellParts DEF Across, Down, Distance
<1>2. QED
  BY <1>1 DEF RemainingCost, Least, Greatest

-----------------------------------------------------------------------------
(* Legal steps lead exactly to the free cells among the shifted ones.      *)

LEMMA LegalStepsAreNear ==
  ASSUME NEW free \in SUBSET GridCells, NEW p \in GridCells, NEW q \in GridCells,
         IsLegalStep(free, p, q)
  PROVE  /\ \E d \in Deltas : q = Shift(p, d)
         /\ \E d \in Deltas : p = Shift(q, d)
<1>1. /\ q[1] - p[1] \in -1..1 /\ q[2] - p[2] \in -1..1 /\ q[3] = p[3]
      /\ q[1] # p[1] \/ q[2] # p[2]
  BY StepParts
<1>2. p = <<p[1], p[2], p[3]>> /\ q = <<q[1], q[2], q[3]>>
  BY CellParts
<1>3. p[1] \in Nat /\ p[2] \in Nat /\ q[1] \in Nat /\ q[2] \in Nat
  BY CellParts
<1>4. PICK m, n : m = q[1] - p[1] /\ n = q[2] - p[2]
  OBVIOUS
<1>5. m \in -1..1 /\ n \in -1..1 /\ (m # 0 \/ n # 0)
  BY <1>1, <1>3, <1>4
<1>6. <<m, n>> \in Deltas
  BY <1>5 DEF Deltas
<1>7. Shift(p, <<m, n>>) = q
  <2>1. Shift(p, <<m, n>>) = <<p[1] + m, p[2] + n, p[3]>>
    BY DEF Shift
  <2>2. p[1] + m = q[1] /\ p[2] + n = q[2]
    BY <1>3, <1>4
  <2>3. QED
    BY <1>1, <1>2, <2>1, <2>2
<1>8. PICK i, j : i = -m /\ j = -n
  OBVIOUS
<1>9. i \in -1..1 /\ j \in -1..1 /\ (i # 0 \/ j # 0)
  BY <1>5, <1>8
<1>10. <<i, j>> \in Deltas
  BY <1>9 DEF Deltas
<1>11. Shift(q, <<i, j>>) = p
  <2>1. Shift(q, <<i, j>>) = <<q[1] + i, q[2] + j, q[3]>>
    BY DEF Shift
  <2>2. q[1] + i = p[1] /\ q[2] + j = p[2]
    BY <1>3, <1>4, <1>8
  <2>3. QED
    BY <1>1, <1>2, <2>1, <2>2
<1>12. QED
  BY <1>6, <1>7, <1>10, <1>11

LEMMA NeighboursAre ==
  ASSUME NEW free \in SUBSET GridCells, NEW p \in GridCells
  PROVE  {q \in {Shift(p, d) : d \in Deltas} : q \in free /\ SidesFree(free, p, q)}
           = {q \in free : IsLegalStep(free, p, q)}
<1>1. ASSUME NEW d \in Deltas, Shift(p, d) \in free, SidesFree(free, p, Shift(p, d))
      PROVE  IsLegalStep(free, p, Shift(p, d))
  BY <1>1, NeighboursAreLegal
<1>2. ASSUME NEW q \in free, IsLegalStep(free, p, q)
      PROVE  (\E d \in Deltas : q = Shift(p, d)) /\ SidesFree(free, p, q)
  <2>1. q \in GridCells
    OBVIOUS
  <2>2. \E d \in Deltas : q = Shift(p, d)
    BY <1>2, <2>1, LegalStepsAreNear
  <2>3. QED
    BY <1>2, <2>2 DEF IsLegalStep
<1>3. QED
  BY <1>1, <1>2

LEMMA NoStepToItself ==
  ASSUME NEW free, NEW p \in GridCells
  PROVE  ~ IsLegalStep(free, p, p)
<1>1. Across(p, p) = 0 /\ Down(p, p) = 0
  BY CellParts DEF Across, Down, Distance
<1>2. QED
  BY <1>1 DEF IsLegalStep, Greatest

-----------------------------------------------------------------------------
(* What an expansion does with the foremost entry: it skips one whose cost   *)
(* was since beaten, arrives, or improves the cells a step away.            *)

Entry(q, cost, goal) == [at |-> q, cost |-> cost, total |-> cost + RemainingCost(q, goal)]

Better(free, road, s, p) ==
  {q \in free : /\ IsLegalStep(free, p, q)
                /\ q \notin DOMAIN s.cost \/ s.cost[p] + StepCost(road, p, q) < s.cost[q]}

Skips(s, a, t) ==
  /\ a.cost # s.cost[a.at]
  /\ t.frontier = s.frontier \ {a} /\ t.cost = s.cost /\ t.from = s.from /\ ~t.found

Arrives(goal, s, a, t) ==
  /\ a.cost = s.cost[a.at] /\ a.at = goal
  /\ t.frontier = s.frontier \ {a} /\ t.cost = s.cost /\ t.from = s.from /\ t.found

Spreads(free, road, goal, s, a, t) ==
  /\ a.cost = s.cost[a.at] /\ a.at # goal
  /\ DOMAIN t.cost = Better(free, road, s, a.at) \union DOMAIN s.cost
  /\ \A q \in Better(free, road, s, a.at) :
       t.cost[q] = s.cost[a.at] + StepCost(road, a.at, q) /\ t.from[q] = a.at
  /\ \A q \in DOMAIN s.cost \ Better(free, road, s, a.at) :
       t.cost[q] = s.cost[q] /\ t.from[q] = s.from[q]
  /\ t.frontier = (s.frontier \ {a})
                    \union {Entry(q, t.cost[q], goal) : q \in Better(free, road, s, a.at)}
  /\ ~t.found

LEMMA ExpansionIs ==
  ASSUME NEW free \in SUBSET GridCells, NEW start \in GridCells, NEW goal \in GridCells,
         NEW road, NEW s, SearchOK(free, start, goal, s), s.frontier # {}, ~s.found
  PROVE  \A t : t = Expanded(free, road, goal, s) =>
           \E a \in s.frontier :
             /\ \A e \in s.frontier : a.total <= e.total
             /\ Skips(s, a, t) \/ Arrives(goal, s, a, t) \/ Spreads(free, road, goal, s, a, t)
<1>1. PICK a : a = Foremost(s.frontier)
  OBVIOUS
<1>2. a \in s.frontier /\ \A e \in s.frontier : a.total <= e.total
  BY <1>1, ForemostIsThere DEF SearchOK
<1>3. PICK p : p = a.at
  OBVIOUS
<1>4. p \in DOMAIN s.cost /\ p \in GridCells /\ a.cost \in Nat
  BY <1>2, <1>3 DEF SearchOK, IsEntry
<1>5. PICK reach : reach = {q \in {Shift(p, d) : d \in Deltas} : q \in free /\ SidesFree(free, p, q)}
  OBVIOUS
<1>6. reach = {q \in free : IsLegalStep(free, p, q)}
  BY <1>4, <1>5, NeighboursAre
<1>7. PICK costs : costs = [q \in reach |-> a.cost + StepCost(road, p, q)]
  OBVIOUS
<1>8. PICK better : better = {q \in DOMAIN costs : q \notin DOMAIN s.cost \/ costs[q] < s.cost[q]}
  OBVIOUS
<1>9. PICK rest : rest = [s EXCEPT !.frontier = @ \ {a}]
  OBVIOUS
<1>10. /\ rest.cost = s.cost /\ rest.from = s.from /\ rest.frontier = s.frontier \ {a}
       /\ ~rest.found /\ DOMAIN rest = {"frontier", "cost", "from", "found"}
  BY <1>9 DEF SearchOK
<1>11. PICK cost : cost = [q \in better \union DOMAIN s.cost |->
                          IF q \in better THEN costs[q] ELSE s.cost[q]]
  OBVIOUS
<1>12. PICK from : from = [q \in better \union DOMAIN s.from |->
                          IF q \in better THEN p ELSE s.from[q]]
  OBVIOUS
<1>13. PICK new : new = {[at |-> q, cost |-> costs[q],
                          total |-> costs[q] + RemainingCost(q, goal)] : q \in better}
  OBVIOUS
<1>a. Expanded(free, road, goal, s) =
        IF a.cost # s.cost[p] THEN rest
        ELSE IF p = goal THEN [rest EXCEPT !.found = TRUE]
        ELSE [rest EXCEPT !.cost = cost, !.from = from, !.frontier = rest.frontier \union new]
  BY SMTT(60), <1>1, <1>3, <1>5, <1>7, <1>8, <1>9, <1>10, <1>11, <1>12, <1>13 DEF Expanded
<1> SUFFICES ASSUME NEW t, t = Expanded(free, road, goal, s)
             PROVE  \E b \in s.frontier :
                      /\ \A e \in s.frontier : b.total <= e.total
                      /\ Skips(s, b, t) \/ Arrives(goal, s, b, t) \/ Spreads(free, road, goal, s, b, t)
  OBVIOUS
<1>14. t = IF a.cost # s.cost[p] THEN rest
           ELSE IF p = goal THEN [rest EXCEPT !.found = TRUE]
           ELSE [rest EXCEPT !.cost = cost, !.from = from, !.frontier = rest.frontier \union new]
  BY <1>a
<1>15. CASE a.cost # s.cost[p]
  <2>1. Skips(s, a, t)
    BY <1>3, <1>10, <1>14, <1>15 DEF Skips
  <2>2. QED
    BY <1>2, <2>1
<1>16. CASE a.cost = s.cost[p] /\ p = goal
  <2>1. t = [rest EXCEPT !.found = TRUE]
    BY <1>14, <1>16
  <2>2. /\ t.cost = s.cost /\ t.from = s.from /\ t.frontier = s.frontier \ {a}
        /\ t.found
    BY <1>10, <2>1
  <2>3. Arrives(goal, s, a, t)
    BY <1>3, <1>16, <2>2 DEF Arrives
  <2>4. QED
    BY <1>2, <2>3
<1>17. CASE a.cost = s.cost[p] /\ p # goal
  <2>1. t = [rest EXCEPT !.cost = cost, !.from = from, !.frontier = rest.frontier \union new]
    BY <1>14, <1>17
  <2>2. t.cost = cost /\ t.from = from /\ t.frontier = rest.frontier \union new /\ ~t.found
    BY <1>10, <2>1
  <2>3. better = Better(free, road, s, p)
    BY <1>6, <1>7, <1>8, <1>17 DEF Better
  <2>4. DOMAIN s.from = DOMAIN s.cost
    BY DEF SearchOK
  <2>5. \A q \in better : costs[q] = s.cost[p] + StepCost(road, p, q)
    BY <1>7, <1>8, <1>17
  <2>6. DOMAIN t.cost = better \union DOMAIN s.cost
    BY <1>11, <2>2
  <2>7. \A q \in better : t.cost[q] = costs[q] /\ t.from[q] = p
    BY <1>11, <1>12, <2>2
  <2>8. \A q \in DOMAIN s.cost \ better : t.cost[q] = s.cost[q] /\ t.from[q] = s.from[q]
    BY <1>11, <1>12, <2>2, <2>4
  <2>9. new = {Entry(q, t.cost[q], goal) : q \in better}
    BY <1>13, <2>7 DEF Entry
  <2>10. t.frontier = (s.frontier \ {a}) \union {Entry(q, t.cost[q], goal) : q \in better}
    BY <1>10, <2>2, <2>9
  <2>11. Spreads(free, road, goal, s, a, t)
    BY <1>3, <1>17, <2>2, <2>3, <2>5, <2>6, <2>7, <2>8, <2>10 DEF Spreads
  <2>12. QED
    BY <1>2, <2>11
<1>18. QED
  BY <1>15, <1>16, <1>17

-----------------------------------------------------------------------------
(* The search moves a front: a cell is waiting while an entry of its cost   *)
(* lies in the frontier, and closed from then on. The cost of a closed cell  *)
(* is never beaten, and its neighbours have been improved from it.          *)

Waiting(s) == {q \in DOMAIN s.cost : \E e \in s.frontier : e.at = q /\ e.cost = s.cost[q]}
Closed(s) == DOMAIN s.cost \ Waiting(s)

Frontwards(free, road, start, goal, s) ==
  /\ IsFiniteSet(s.frontier)
  /\ \A e \in s.frontier : e = Entry(e.at, e.cost, goal) /\ s.cost[e.at] <= e.cost
  /\ \A q \in Closed(s) \ {goal}, r \in free :
       IsLegalStep(free, q, r) =>
         r \in DOMAIN s.cost /\ s.cost[r] <= s.cost[q] + StepCost(road, q, r)
  /\ \A q \in Closed(s), e \in s.frontier : s.cost[q] + RemainingCost(q, goal) <= e.total
  /\ s.found <=> goal \in Closed(s)
  /\ \A q \in DOMAIN s.cost \ {start} :
       s.cost[s.from[q]] + StepCost(road, s.from[q], q) <= s.cost[q]

LEMMA EntryParts ==
  ASSUME NEW q, NEW c, NEW goal, NEW e, e = Entry(q, c, goal)
  PROVE  e.at = q /\ e.cost = c /\ e.total = c + RemainingCost(q, goal)
  BY DEF Entry

LEMMA FirstFrontwards ==
  ASSUME NEW free, NEW road, NEW start \in GridCells, NEW goal \in GridCells, NEW s,
         s = [frontier |-> {[at |-> start, cost |-> 0, total |-> RemainingCost(start, goal)]},
              cost |-> [q \in {start} |-> 0], from |-> [q \in {start} |-> start],
              found |-> FALSE]
  PROVE  Frontwards(free, road, start, goal, s)
<1>1. RemainingCost(start, goal) \in Nat
  BY RemainingCostNatural
<1>2. PICK e : e = Entry(start, 0, goal)
  OBVIOUS
<1>3. e = [at |-> start, cost |-> 0, total |-> RemainingCost(start, goal)]
  BY <1>1, <1>2 DEF Entry
<1>4. e.at = start /\ e.cost = 0
  BY <1>3
<1>5. s.frontier = {e} /\ DOMAIN s.cost = {start} /\ s.cost[start] = 0 /\ s.found = FALSE
  BY <1>3
<1>6. Waiting(s) = {start}
  BY <1>4, <1>5 DEF Waiting
<1>7. Closed(s) = {}
  BY <1>5, <1>6 DEF Closed
<1>8. IsFiniteSet(s.frontier)
  BY <1>5, FS_Singleton
<1>9. \A x \in s.frontier : x = Entry(x.at, x.cost, goal) /\ s.cost[x.at] <= x.cost
  BY <1>2, <1>4, <1>5
<1>10. DOMAIN s.cost \ {start} = {} /\ ~(s.found <=> goal \notin Closed(s))
  BY <1>5, <1>7
<1>11. QED
  BY <1>7, <1>8, <1>9, <1>10 DEF Frontwards

\* Skipping closes nothing.
LEMMA SkippingCloses ==
  ASSUME NEW s, NEW a \in s.frontier, NEW t, Skips(s, a, t)
  PROVE  Closed(t) = Closed(s)
<1>1. t.frontier = s.frontier \ {a} /\ t.cost = s.cost /\ a.cost # s.cost[a.at]
  BY DEF Skips
<1>2. Waiting(t) = Waiting(s)
  BY <1>1 DEF Waiting
<1>3. QED
  BY <1>1, <1>2 DEF Closed

\* Arriving closes the goal.
LEMMA ArrivingCloses ==
  ASSUME NEW free, NEW road, NEW start, NEW goal, NEW s,
         SearchOK(free, start, goal, s), Frontwards(free, road, start, goal, s),
         NEW a \in s.frontier, NEW t, Arrives(goal, s, a, t)
  PROVE  goal \in DOMAIN s.cost /\ goal \notin Closed(s) /\ Closed(t) = Closed(s) \union {goal}
<1>1. /\ t.frontier = s.frontier \ {a} /\ t.cost = s.cost
      /\ a.cost = s.cost[goal] /\ a.at = goal
  BY DEF Arrives
<1>2. goal \in DOMAIN s.cost
  BY <1>1 DEF SearchOK
<1>3. goal \in Waiting(s)
  BY <1>1, <1>2 DEF Waiting
<1>4. goal \notin Waiting(t)
  <2>1. SUFFICES ASSUME NEW e \in s.frontier \ {a}, e.at = goal, e.cost = s.cost[goal]
                 PROVE  FALSE
    BY <1>1 DEF Waiting
  <2>2. e = Entry(e.at, e.cost, goal) /\ a = Entry(a.at, a.cost, goal)
    BY DEF Frontwards
  <2>3. QED
    BY <1>1, <2>1, <2>2
<1>5. \A q \in DOMAIN s.cost \ {goal} : q \in Waiting(t) <=> q \in Waiting(s)
  BY <1>1 DEF Waiting
<1>6. QED
  BY <1>1, <1>2, <1>3, <1>4, <1>5 DEF Closed

LEMMA ReachedCells ==
  ASSUME NEW free \in SUBSET GridCells, NEW start \in GridCells, NEW goal, NEW s,
         SearchOK(free, start, goal, s)
  PROVE  /\ \A q \in DOMAIN s.cost : q \in GridCells /\ s.cost[q] \in Nat
         /\ \A e \in s.frontier :
              e.at \in DOMAIN s.cost /\ e.at \in GridCells /\ e.cost \in Nat /\ e.total \in Nat
  BY DEF SearchOK, IsEntry

\* Spreading closes the cell that it spreads from and reopens none.
LEMMA SpreadingCloses ==
  ASSUME NEW free \in SUBSET GridCells, NEW road, NEW start \in GridCells,
         NEW goal \in GridCells, NEW s,
         SearchOK(free, start, goal, s), Frontwards(free, road, start, goal, s),
         NEW a \in s.frontier, NEW t, Spreads(free, road, goal, s, a, t)
  PROVE  /\ a.at \notin Closed(s) /\ a.at \notin Better(free, road, s, a.at)
         /\ Better(free, road, s, a.at) \intersect Closed(s) = {}
         /\ Closed(t) = Closed(s) \union {a.at}
<1>1. PICK p : p = a.at
  OBVIOUS
<1>2. PICK better : better = Better(free, road, s, p)
  OBVIOUS
<1>3. p \in DOMAIN s.cost /\ p \in GridCells /\ a.cost = s.cost[p] /\ a.total \in Nat
  BY <1>1, ReachedCells DEF Spreads
<1>4. a = Entry(p, s.cost[p], goal)
  BY <1>1, <1>3 DEF Frontwards
<1>5. a.total = s.cost[p] + RemainingCost(p, goal)
  BY <1>4 DEF Entry
<1>6. p \in Waiting(s)
  BY <1>1, <1>3 DEF Waiting
<1>7. p \notin better
  BY <1>2, <1>3, NoStepToItself DEF Better
<1>8. ASSUME NEW r \in better, r \in Closed(s) PROVE FALSE
  <2>1. r \in free /\ IsLegalStep(free, p, r) /\ r \in DOMAIN s.cost /\ r \in GridCells
    BY <1>2, <1>8 DEF Better, Closed
  <2>2. s.cost[p] + StepCost(road, p, r) < s.cost[r]
    BY <1>2, <1>8, <2>1 DEF Better
  <2>3. s.cost[r] + RemainingCost(r, goal) <= a.total
    BY <1>8 DEF Frontwards
  <2>4. RemainingCost(p, goal) <= StepCost(road, p, r) + RemainingCost(r, goal)
    BY <1>3, <2>1, EstimateIsConsistent
  <2>5. PICK i \in Nat, j \in Nat, k \in Nat, m \in Nat, n \in Nat :
          /\ i = s.cost[p] /\ j = s.cost[r] /\ k = StepCost(road, p, r)
          /\ m = RemainingCost(p, goal) /\ n = RemainingCost(r, goal)
    BY <1>3, <2>1, ReachedCells, StepCostAtLeast, RemainingCostNatural
  <2>6. i + k < j /\ j + n <= i + m /\ m <= k + n
    BY <1>5, <2>2, <2>3, <2>4, <2>5
  <2>7. QED
    BY <2>5, <2>6
<1>9. /\ DOMAIN t.cost = better \union DOMAIN s.cost
      /\ \A q \in DOMAIN s.cost \ better : t.cost[q] = s.cost[q]
      /\ t.frontier = (s.frontier \ {a}) \union {Entry(q, t.cost[q], goal) : q \in better}
  BY <1>1, <1>2 DEF Spreads
<1>10. \A q \in better : q \in Waiting(t)
  <2> SUFFICES ASSUME NEW q \in better PROVE q \in Waiting(t)
    OBVIOUS
  <2>1. PICK e : e = Entry(q, t.cost[q], goal)
    OBVIOUS
  <2>2. e \in t.frontier /\ e.at = q /\ e.cost = t.cost[q]
    BY <1>9, <2>1, EntryParts
  <2>3. QED
    BY <1>9, <2>2 DEF Waiting
<1>11. ASSUME NEW q \in DOMAIN s.cost \ better, q # p
       PROVE  q \in Waiting(t) <=> q \in Waiting(s)
  <2>1. ASSUME q \in Waiting(s) PROVE q \in Waiting(t)
    <3>1. PICK e \in s.frontier : e.at = q /\ e.cost = s.cost[q]
      BY <2>1 DEF Waiting
    <3>2. e \in t.frontier /\ e.cost = t.cost[q]
      BY <1>1, <1>9, <1>11, <3>1
    <3>3. QED
      BY <1>9, <3>1, <3>2 DEF Waiting
  <2>2. ASSUME q \in Waiting(t) PROVE q \in Waiting(s)
    <3>1. PICK e \in t.frontier : e.at = q /\ e.cost = t.cost[q]
      BY <2>2 DEF Waiting
    <3>2. ASSUME NEW r \in better, e = Entry(r, t.cost[r], goal) PROVE FALSE
      <4>1. e.at = r
        BY <3>2, EntryParts
      <4>2. QED
        BY <1>11, <3>1, <4>1
    <3>3. e \in s.frontier /\ e.cost = s.cost[q]
      BY <1>9, <1>11, <3>1, <3>2
    <3>4. QED
      BY <3>1, <3>3 DEF Waiting
  <2>3. QED
    BY <2>1, <2>2
<1>12. p \notin Waiting(t)
  <2>1. SUFFICES ASSUME NEW e \in t.frontier, e.at = p, e.cost = t.cost[p] PROVE FALSE
    BY DEF Waiting
  <2>2. CASE e \in s.frontier \ {a}
    <3>1. e = Entry(e.at, e.cost, goal)
      BY <2>2 DEF Frontwards
    <3>2. t.cost[p] = s.cost[p]
      BY <1>3, <1>7, <1>9
    <3>3. QED
      BY <1>4, <2>1, <2>2, <3>1, <3>2
  <2>3. CASE \E r \in better : e = Entry(r, t.cost[r], goal)
    <3>1. PICK r \in better : e = Entry(r, t.cost[r], goal)
      BY <2>3
    <3>2. e.at = r
      BY <3>1, EntryParts
    <3>3. QED
      BY <1>7, <2>1, <3>2
  <2>4. QED
    BY <1>9, <2>1, <2>2, <2>3
<1>13. ASSUME NEW q PROVE q \in Closed(t) <=> q \in Closed(s) \/ q = p
  <2>1. CASE q \in better
    BY <1>7, <1>8, <1>10, <2>1 DEF Closed
  <2>2. CASE q = p
    BY <1>3, <1>9, <1>12, <2>2 DEF Closed
  <2>3. CASE q \notin better /\ q # p /\ q \in DOMAIN s.cost
    BY <1>9, <1>11, <2>3 DEF Closed
  <2>4. CASE q \notin better /\ q # p /\ q \notin DOMAIN s.cost
    BY <1>9, <2>4 DEF Closed
  <2>5. QED
    BY <2>1, <2>2, <2>3, <2>4
<1>14. p \notin Closed(s)
  BY <1>6 DEF Closed
<1>15. QED
  BY <1>1, <1>2, <1>7, <1>8, <1>13, <1>14

\* Each entry that is added belongs to a cell that is improved.
LEMMA EntriesOfCells ==
  ASSUME NEW better, NEW t, NEW goal, NEW new,
         \A e : e \in new <=> \E q \in better : e = Entry(q, t.cost[q], goal)
  PROVE  \E f : f \in Surjection(better, new)
<1>1. PICK f : f = [q \in better |-> Entry(q, t.cost[q], goal)]
  OBVIOUS
<1>2. f \in Surjection(better, new)
  BY <1>1 DEF Surjection
<1>3. QED
  BY <1>2

LEMMA SkippingKeeps ==
  ASSUME NEW free, NEW road, NEW start, NEW goal, NEW s,
         Frontwards(free, road, start, goal, s), ~s.found,
         NEW a \in s.frontier, NEW t, Skips(s, a, t)
  PROVE  Frontwards(free, road, start, goal, t)
<1>1. /\ t.frontier = s.frontier \ {a} /\ t.cost = s.cost /\ t.from = s.from /\ ~t.found
      /\ Closed(t) = Closed(s)
  BY SkippingCloses DEF Skips
<1>2. IsFiniteSet(t.frontier)
  BY <1>1, FS_RemoveElement DEF Frontwards
<1>3. QED
  BY <1>1, <1>2 DEF Frontwards

LEMMA ArrivingKeeps ==
  ASSUME NEW free, NEW road, NEW start, NEW goal \in GridCells, NEW s,
         SearchOK(free, start, goal, s), Frontwards(free, road, start, goal, s),
         NEW a \in s.frontier, \A e \in s.frontier : a.total <= e.total,
         NEW t, Arrives(goal, s, a, t)
  PROVE  Frontwards(free, road, start, goal, t)
<1>1. /\ t.frontier = s.frontier \ {a} /\ t.cost = s.cost /\ t.from = s.from /\ t.found
      /\ Closed(t) = Closed(s) \union {goal}
  BY ArrivingCloses DEF Arrives
<1>2. IsFiniteSet(t.frontier)
  BY <1>1, FS_RemoveElement DEF Frontwards
<1>3. \A q \in Closed(t) \ {goal} : q \in Closed(s) \ {goal}
  BY <1>1
<1>4. a.total = s.cost[goal] + RemainingCost(goal, goal)
  <2>1. a = Entry(a.at, a.cost, goal) /\ a.at = goal /\ a.cost = s.cost[goal]
    BY DEF Frontwards, Arrives
  <2>2. QED
    BY <2>1, EntryParts
<1>5. \A q \in Closed(t), e \in t.frontier : t.cost[q] + RemainingCost(q, goal) <= e.total
  BY <1>1, <1>4 DEF Frontwards
<1>6. \A q \in Closed(t) \ {goal}, r \in free :
        IsLegalStep(free, q, r) =>
          r \in DOMAIN t.cost /\ t.cost[r] <= t.cost[q] + StepCost(road, q, r)
  BY <1>1, <1>3 DEF Frontwards
<1>7. \A e \in t.frontier : e = Entry(e.at, e.cost, goal) /\ t.cost[e.at] <= e.cost
  BY <1>1 DEF Frontwards
<1>8. \A q \in DOMAIN t.cost \ {start} :
        t.cost[t.from[q]] + StepCost(road, t.from[q], q) <= t.cost[q]
  BY <1>1 DEF Frontwards
<1>9. t.found <=> goal \in Closed(t)
  BY <1>1
<1>10. QED
  BY <1>2, <1>5, <1>6, <1>7, <1>8, <1>9 DEF Frontwards

LEMMA SpreadingKeeps ==
  ASSUME NEW free \in SUBSET GridCells, IsFiniteSet(free), NEW road, NEW start \in GridCells,
         NEW goal \in GridCells, NEW s,
         SearchOK(free, start, goal, s), Frontwards(free, road, start, goal, s), ~s.found,
         NEW a \in s.frontier, \A e \in s.frontier : a.total <= e.total,
         NEW t, Spreads(free, road, goal, s, a, t)
  PROVE  Frontwards(free, road, start, goal, t)
<1>1. PICK p : p = a.at
  OBVIOUS
<1>2. PICK better : better = Better(free, road, s, p)
  OBVIOUS
<1> DEFINE D == DOMAIN s.cost
<1>3. p \in D /\ p \in GridCells /\ a.cost = s.cost[p] /\ a.total \in Nat /\ p # goal
  BY <1>1, ReachedCells DEF Spreads
<1>4. /\ p \notin Closed(s) /\ p \notin better /\ better \intersect Closed(s) = {}
      /\ Closed(t) = Closed(s) \union {p}
  <2>1. a.at \notin Closed(s)
    BY SpreadingCloses
  <2>2. a.at \notin Better(free, road, s, a.at)
    BY SpreadingCloses
  <2>3. Better(free, road, s, a.at) \intersect Closed(s) = {}
    BY SpreadingCloses
  <2>4. Closed(t) = Closed(s) \union {a.at}
    BY SpreadingCloses
  <2>5. QED
    BY <1>1, <1>2, <2>1, <2>2, <2>3, <2>4
<1>5. /\ DOMAIN t.cost = better \union D
      /\ \A q \in better : t.cost[q] = s.cost[p] + StepCost(road, p, q) /\ t.from[q] = p
      /\ \A q \in D \ better : t.cost[q] = s.cost[q] /\ t.from[q] = s.from[q]
      /\ t.frontier = (s.frontier \ {a}) \union {Entry(q, t.cost[q], goal) : q \in better}
      /\ ~t.found
  BY <1>1, <1>2 DEF Spreads
<1>6. /\ \A q \in D : q \in GridCells /\ s.cost[q] \in Nat /\ s.from[q] \in D
      /\ \A e \in s.frontier : e.at \in D /\ e.cost \in Nat /\ e.total \in Nat
  BY ReachedCells DEF SearchOK
<1>7. /\ better \subseteq free
      /\ \A q \in better : IsLegalStep(free, p, q) /\ q \in GridCells
      /\ \A q \in better \intersect D : s.cost[p] + StepCost(road, p, q) < s.cost[q]
      /\ \A q \in free \ better :
           IsLegalStep(free, p, q) => q \in D /\ ~(s.cost[p] + StepCost(road, p, q) < s.cost[q])
  BY <1>2 DEF Better
<1>8. a.total = s.cost[p] + RemainingCost(p, goal)
  <2>1. a = Entry(p, s.cost[p], goal)
    BY <1>1, <1>3 DEF Frontwards
  <2>2. QED
    BY <2>1, EntryParts
<1> HIDE DEF D
<1>9. \A q \in D : t.cost[q] \in Nat /\ t.cost[q] <= s.cost[q]
  <2> SUFFICES ASSUME NEW q \in D PROVE t.cost[q] \in Nat /\ t.cost[q] <= s.cost[q]
    OBVIOUS
  <2>1. CASE q \in better
    <3>1. PICK k \in Nat : k = StepCost(road, p, q)
      BY StepCostAtLeast
    <3>2. t.cost[q] = s.cost[p] + k /\ s.cost[p] + k < s.cost[q]
      BY <1>5, <1>7, <2>1, <3>1
    <3>3. QED
      BY <1>3, <1>6, <3>1, <3>2
  <2>2. CASE q \notin better
    BY <1>5, <1>6, <2>2
  <2>3. QED
    BY <2>1, <2>2
<1>10. IsFiniteSet(t.frontier)
  <2>1. IsFiniteSet(s.frontier \ {a})
    BY FS_RemoveElement DEF Frontwards
  <2>3. PICK new : new = {Entry(q, t.cost[q], goal) : q \in better}
    OBVIOUS
  <2>4. IsFiniteSet(better)
    BY <1>7, FS_Subset
  <2>5. IsFiniteSet(new)
    <3>a. \A e : e \in new <=> \E q \in better : e = Entry(q, t.cost[q], goal)
      BY <2>3
    <3>1. PICK f : f \in Surjection(better, new)
      BY <3>a, EntriesOfCells
    <3>2. QED
      BY <2>4, <3>1, FS_Surjection
  <2>6. t.frontier = (s.frontier \ {a}) \union new
    BY <1>5, <2>3
  <2>7. QED
    BY <2>1, <2>5, <2>6, FS_Union
<1>11. ASSUME NEW e \in t.frontier
       PROVE  /\ e = Entry(e.at, e.cost, goal) /\ t.cost[e.at] <= e.cost
              /\ a.total <= e.total
  <2>1. CASE e \in s.frontier
    <3>1. e = Entry(e.at, e.cost, goal) /\ s.cost[e.at] <= e.cost /\ e.at \in D
      BY <1>6, <2>1 DEF Frontwards
    <3>2. t.cost[e.at] \in Nat /\ t.cost[e.at] <= s.cost[e.at] /\ s.cost[e.at] \in Nat /\ e.cost \in Nat
      BY <1>6, <1>9, <2>1, <3>1
    <3>3. QED
      BY <2>1, <3>1, <3>2
  <2>2. CASE \E q \in better : e = Entry(q, t.cost[q], goal)
    <3>1. PICK q \in better : e = Entry(q, t.cost[q], goal)
      BY <2>2
    <3>2. e.at = q /\ e.cost = t.cost[q] /\ e.total = t.cost[q] + RemainingCost(q, goal)
      BY <3>1, EntryParts
    <3>3. PICK i \in Nat, k \in Nat, m \in Nat, n \in Nat :
            /\ i = s.cost[p] /\ k = StepCost(road, p, q)
            /\ m = RemainingCost(p, goal) /\ n = RemainingCost(q, goal)
      BY <1>3, <1>6, <1>7, StepCostAtLeast, RemainingCostNatural
    <3>4. m <= k + n
      BY <1>3, <1>7, <3>3, EstimateIsConsistent
    <3>5. t.cost[q] = i + k /\ a.total = i + m
      BY <1>5, <1>8, <3>3
    <3>6. a.total <= e.total /\ t.cost[e.at] <= e.cost
      BY <3>2, <3>3, <3>4, <3>5
    <3>7. QED
      BY <3>1, <3>2, <3>6
  <2>3. QED
    BY <1>5, <2>1, <2>2
<1>12. ASSUME NEW q \in Closed(t) \ {goal}, NEW r \in free, IsLegalStep(free, q, r)
       PROVE  r \in DOMAIN t.cost /\ t.cost[r] <= t.cost[q] + StepCost(road, q, r)
  <2>1. PICK k \in Nat : k = StepCost(road, q, r)
    BY StepCostAtLeast
  <2>2. CASE q = p
    <3>1. t.cost[p] = s.cost[p] /\ s.cost[p] \in Nat
      BY <1>3, <1>4, <1>5, <1>6
    <3>2. CASE r \in better
      BY <1>5, <2>1, <2>2, <3>1, <3>2
    <3>3. CASE r \notin better
      <4>1. r \in D /\ ~(s.cost[p] + k < s.cost[r])
        BY <1>7, <1>12, <2>1, <2>2, <3>3
      <4>2. t.cost[r] = s.cost[r] /\ s.cost[r] \in Nat
        BY <1>5, <1>6, <3>3, <4>1
      <4>3. QED
        BY <1>5, <2>1, <2>2, <3>1, <4>1, <4>2
    <3>4. QED
      BY <3>2, <3>3
  <2>3. CASE q # p
    <3>1. q \in Closed(s) \ {goal} /\ q \notin better /\ q \in D
      BY <1>4, <2>3 DEF Closed, D
    <3>2. r \in D /\ s.cost[r] <= s.cost[q] + k
      BY <1>12, <2>1, <3>1 DEF Frontwards, D
    <3>3. t.cost[q] = s.cost[q] /\ s.cost[q] \in Nat
      BY <1>5, <1>6, <3>1
    <3>4. t.cost[r] \in Nat /\ t.cost[r] <= s.cost[r] /\ s.cost[r] \in Nat
      BY <1>6, <1>9, <3>2
    <3>5. QED
      BY <1>5, <2>1, <3>2, <3>3, <3>4
  <2>4. QED
    BY <2>2, <2>3
<1>13. ASSUME NEW q \in Closed(t), NEW e \in t.frontier
       PROVE  t.cost[q] + RemainingCost(q, goal) <= e.total
  <2>1. a.total <= e.total /\ e.total \in Nat
    <3>1. e.total \in Nat
      <4>1. CASE e \in s.frontier
        BY <1>6, <4>1
      <4>2. CASE \E r \in better : e = Entry(r, t.cost[r], goal)
        <5>1. PICK r \in better : e = Entry(r, t.cost[r], goal)
          BY <4>2
        <5>2. e.total = t.cost[r] + RemainingCost(r, goal)
          BY <5>1, EntryParts
        <5>3. t.cost[r] \in Nat
          BY <1>3, <1>5, <1>6, StepCostAtLeast
        <5>4. RemainingCost(r, goal) \in Nat
          BY <1>7, RemainingCostNatural
        <5>5. QED
          BY <5>2, <5>3, <5>4
      <4>3. QED
        BY <1>5, <4>1, <4>2
    <3>2. QED
      BY <1>11, <3>1
  <2>2. t.cost[q] + RemainingCost(q, goal) <= a.total
    <3>1. CASE q = p
      BY <1>3, <1>4, <1>5, <1>8, <3>1
    <3>2. CASE q # p
      <4>1. q \in Closed(s) /\ q \in D /\ q \notin better
        BY <1>4, <3>2 DEF Closed, D
      <4>2. s.cost[q] + RemainingCost(q, goal) <= a.total
        BY <4>1 DEF Frontwards
      <4>3. t.cost[q] = s.cost[q]
        BY <1>5, <4>1
      <4>4. QED
        BY <4>2, <4>3
    <3>3. QED
      BY <3>1, <3>2
  <2>3. PICK j : j = t.cost[q] + RemainingCost(q, goal)
    OBVIOUS
  <2>4. j \in Nat
    <3>1. q \in D
      BY <1>3, <1>4 DEF Closed, D
    <3>2. t.cost[q] \in Nat /\ RemainingCost(q, goal) \in Nat
      BY <1>6, <1>9, <3>1, RemainingCostNatural
    <3>3. QED
      BY <2>3, <3>2
  <2>5. QED
    BY <1>3, <2>1, <2>2, <2>3, <2>4
<1>14. ASSUME NEW q \in DOMAIN t.cost \ {start}
       PROVE  t.cost[t.from[q]] + StepCost(road, t.from[q], q) <= t.cost[q]
  <2>1. CASE q \in better
    <3>1. t.from[q] = p /\ t.cost[p] = s.cost[p] /\ t.cost[q] = s.cost[p] + StepCost(road, p, q)
      BY <1>3, <1>4, <1>5, <2>1
    <3>2. PICK k \in Nat : k = StepCost(road, p, q)
      BY StepCostAtLeast
    <3>3. QED
      BY <1>3, <1>6, <3>1, <3>2
  <2>2. CASE q \notin better
    <3>1. q \in D \ {start} /\ t.from[q] = s.from[q] /\ t.cost[q] = s.cost[q] /\ s.from[q] \in D
      BY <1>5, <1>6, <2>2
    <3>2. PICK f : f = s.from[q]
      OBVIOUS
    <3>3. PICK k \in Nat : k = StepCost(road, f, q)
      BY StepCostAtLeast
    <3>4. s.cost[f] + k <= s.cost[q]
      BY <3>1, <3>2, <3>3 DEF Frontwards, D
    <3>5. t.cost[f] \in Nat /\ t.cost[f] <= s.cost[f] /\ s.cost[f] \in Nat /\ s.cost[q] \in Nat
      BY <1>6, <1>9, <3>1, <3>2
    <3>6. t.cost[f] + k <= t.cost[q]
      BY <3>1, <3>3, <3>4, <3>5
    <3>7. QED
      BY <3>1, <3>2, <3>3, <3>6
  <2>3. QED
    BY <1>5, <2>1, <2>2
<1>15. t.found <=> goal \in Closed(t)
  BY <1>3, <1>4, <1>5 DEF Frontwards
<1>16. QED
  BY <1>10, <1>11, <1>12, <1>13, <1>14, <1>15 DEF Frontwards

-----------------------------------------------------------------------------
(* The search comes to an end: every entry taken from the frontier is paid   *)
(* for by the entry itself or by a way out of a cell that is closed only now, *)
(* and each free cell has at most eight ways leading to it.                  *)

Ways(free) == {w \in GridCells \X free : IsLegalStep(free, w[1], w[2])}
WaysLeft(free, s) == {w \in Ways(free) : w[1] \notin Closed(s)}
Work(free, s) == Cardinality(s.frontier) + Cardinality(WaysLeft(free, s))

LEMMA EightDeltas == IsFiniteSet(Deltas) /\ Cardinality(Deltas) = 8
<1>1. PICK m \in Int : m = -1
  OBVIOUS
<1>2. PICK line, square, origin : line = m..1 /\ square = line \X line /\ origin = <<0, 0>>
  OBVIOUS
<1>3. IsFiniteSet(line) /\ Cardinality(line) = 3
  <2>1. IsFiniteSet(m..1) /\ Cardinality(m..1) = IF m > 1 THEN 0 ELSE 1 - m + 1
    BY FS_Interval
  <2>2. QED
    BY <1>1, <1>2, <2>1
<1>4. IsFiniteSet(square) /\ Cardinality(square) = 9
  BY <1>2, <1>3, FS_Product
<1>5. origin \in square
  BY <1>1, <1>2
<1>6. Deltas = square \ {origin}
  BY <1>1, <1>2 DEF Deltas
<1>7. IsFiniteSet(square \ {origin}) /\ Cardinality(square \ {origin}) = 8
  BY <1>4, <1>5, FS_RemoveElement
<1>8. QED
  BY <1>6, <1>7

LEMMA FewWays ==
  ASSUME NEW free \in SUBSET GridCells, IsFiniteSet(free)
  PROVE  IsFiniteSet(Ways(free)) /\ Cardinality(Ways(free)) <= 8 * Cardinality(free)
<1>1. PICK n \in Nat : n = Cardinality(free)
  BY FS_CardinalityType
<1>2. PICK pairs : pairs = free \X Deltas
  OBVIOUS
<1>3. IsFiniteSet(pairs) /\ Cardinality(pairs) = n * 8
  BY <1>1, <1>2, EightDeltas, FS_Product
<1>4. PICK used : used = {x \in pairs : <<Shift(x[1], x[2]), x[1]>> \in Ways(free)}
  OBVIOUS
<1>5. IsFiniteSet(used) /\ Cardinality(used) <= n * 8
  BY <1>3, <1>4, FS_Subset
<1>6. PICK f : f = [x \in used |-> <<Shift(x[1], x[2]), x[1]>>]
  OBVIOUS
<1>7. f \in [used -> Ways(free)]
  BY <1>4, <1>6
<1>8. ASSUME NEW w \in Ways(free) PROVE \E x \in used : f[x] = w
  <2>1. PICK p \in GridCells, q \in free : w = <<p, q>> /\ IsLegalStep(free, p, q)
    BY DEF Ways
  <2>2. PICK d \in Deltas : p = Shift(q, d)
    BY <2>1, LegalStepsAreNear
  <2>3. PICK x : x = <<q, d>>
    OBVIOUS
  <2>4. x \in pairs /\ x[1] = q /\ x[2] = d
    BY <1>2, <2>3
  <2>5. <<Shift(x[1], x[2]), x[1]>> = w
    BY <2>1, <2>2, <2>4
  <2>6. QED
    BY <1>4, <1>6, <2>4, <2>5
<1>9. f \in Surjection(used, Ways(free))
  BY <1>7, <1>8 DEF Surjection
<1>10. IsFiniteSet(Ways(free)) /\ Cardinality(Ways(free)) <= Cardinality(used)
  BY <1>5, <1>9, FS_Surjection
<1>11. PICK i, j : i = Cardinality(used) /\ j = Cardinality(Ways(free))
  OBVIOUS
<1>12. i \in Nat /\ j \in Nat
  BY <1>5, <1>10, <1>11, FS_CardinalityType
<1>13. j <= 8 * n
  BY <1>1, <1>5, <1>10, <1>11, <1>12
<1>14. QED
  BY <1>1, <1>10, <1>11, <1>13

LEMMA WorkIsNatural ==
  ASSUME NEW free \in SUBSET GridCells, IsFiniteSet(free), NEW s, IsFiniteSet(s.frontier)
  PROVE  /\ IsFiniteSet(WaysLeft(free, s)) /\ Cardinality(WaysLeft(free, s)) \in Nat
         /\ Cardinality(s.frontier) \in Nat
         /\ Cardinality(WaysLeft(free, s)) <= 8 * Cardinality(free)
<1>1. IsFiniteSet(Ways(free)) /\ Cardinality(Ways(free)) <= 8 * Cardinality(free)
  BY FewWays
<1>2. WaysLeft(free, s) \in SUBSET Ways(free)
  BY DEF WaysLeft
<1>3. IsFiniteSet(WaysLeft(free, s)) /\ Cardinality(WaysLeft(free, s)) <= Cardinality(Ways(free))
  BY <1>1, <1>2, FS_Subset
<1>4. PICK i \in Nat, j \in Nat, n \in Nat :
        i = Cardinality(WaysLeft(free, s)) /\ j = Cardinality(Ways(free)) /\ n = Cardinality(free)
  BY <1>1, <1>3, FS_CardinalityType
<1>5. i <= j /\ j <= 8 * n
  BY <1>1, <1>3, <1>4
<1>6. i <= 8 * n
  BY <1>5
<1>7. QED
  BY <1>3, <1>4, <1>6, FS_CardinalityType

LEMMA LessFrontier ==
  ASSUME NEW frontier, IsFiniteSet(frontier), NEW a \in frontier
  PROVE  /\ IsFiniteSet(frontier \ {a})
         /\ Cardinality(frontier \ {a}) = Cardinality(frontier) - 1
  BY FS_RemoveElement

\* Skipping and arriving.
LEMMA TakingShrinks ==
  ASSUME NEW free \in SUBSET GridCells, IsFiniteSet(free), NEW s, NEW t,
         IsFiniteSet(s.frontier), NEW a \in s.frontier,
         t.frontier = s.frontier \ {a}, Closed(s) \subseteq Closed(t)
  PROVE  Work(free, t) + 1 <= Work(free, s)
<1>1. IsFiniteSet(t.frontier) /\ Cardinality(t.frontier) = Cardinality(s.frontier) - 1
  BY LessFrontier
<1>2. WaysLeft(free, t) \in SUBSET WaysLeft(free, s)
  BY DEF WaysLeft
<1>3. IsFiniteSet(WaysLeft(free, s))
  BY WorkIsNatural
<1>4. Cardinality(WaysLeft(free, t)) <= Cardinality(WaysLeft(free, s))
  BY <1>2, <1>3, FS_Subset
<1>5. /\ Cardinality(WaysLeft(free, s)) \in Nat /\ Cardinality(s.frontier) \in Nat
      /\ Cardinality(WaysLeft(free, t)) \in Nat /\ Cardinality(t.frontier) \in Nat
  BY <1>1, WorkIsNatural
<1>6. QED
  BY <1>1, <1>4, <1>5 DEF Work

LEMMA SpreadingShrinks ==
  ASSUME NEW free \in SUBSET GridCells, IsFiniteSet(free), NEW road, NEW start \in GridCells,
         NEW goal \in GridCells, NEW s,
         SearchOK(free, start, goal, s), Frontwards(free, road, start, goal, s),
         NEW a \in s.frontier, NEW t, Spreads(free, road, goal, s, a, t)
  PROVE  Work(free, t) + 1 <= Work(free, s)
<1>1. PICK p : p = a.at
  OBVIOUS
<1>2. PICK better : better = Better(free, road, s, p)
  OBVIOUS
<1>3. p \in GridCells
  BY <1>1, ReachedCells
<1>4. p \notin Closed(s) /\ Closed(t) = Closed(s) \union {p}
  <2>1. a.at \notin Closed(s)
    BY SpreadingCloses
  <2>2. Closed(t) = Closed(s) \union {a.at}
    BY SpreadingCloses
  <2>3. QED
    BY <1>1, <2>1, <2>2
<1>5. better \subseteq free /\ \A q \in better : IsLegalStep(free, p, q)
  BY <1>2 DEF Better
<1>6. IsFiniteSet(better)
  BY <1>5, FS_Subset
<1>7. PICK new : new = {Entry(q, t.cost[q], goal) : q \in better}
  OBVIOUS
<1>8. t.frontier = (s.frontier \ {a}) \union new
  BY <1>1, <1>2, <1>7 DEF Spreads
<1>9. IsFiniteSet(new) /\ Cardinality(new) <= Cardinality(better)
  <2>a. \A e : e \in new <=> \E q \in better : e = Entry(q, t.cost[q], goal)
    BY <1>7
  <2>1. PICK f : f \in Surjection(better, new)
    BY <2>a, EntriesOfCells
  <2>2. QED
    BY <1>6, <2>1, FS_Surjection
<1>10. PICK out : out = {w \in Ways(free) : w[1] = p}
  OBVIOUS
<1>11. PICK left, after : left = WaysLeft(free, s) /\ after = WaysLeft(free, t)
  OBVIOUS
<1>12. out \subseteq left /\ after = left \ out
  BY <1>4, <1>10, <1>11 DEF WaysLeft
<1>13. IsFiniteSet(s.frontier)
  BY DEF Frontwards
<1>14. IsFiniteSet(left) /\ Cardinality(left) \in Nat
  BY <1>11, <1>13, WorkIsNatural
<1>15. IsFiniteSet(out)
  BY <1>12, <1>14, FS_Subset
<1>16. left \intersect out = out
  BY <1>12
<1>17. IsFiniteSet(after) /\ Cardinality(after) = Cardinality(left) - Cardinality(out)
  <2>1. IsFiniteSet(left \ out)
    BY <1>14, FS_Difference
  <2>2. Cardinality(left \ out) = Cardinality(left) - Cardinality(left \intersect out)
    BY <1>14, FS_Difference
  <2>3. QED
    BY <1>12, <1>16, <2>1, <2>2
<1>18. Cardinality(better) <= Cardinality(out)
  <2>1. PICK f : f = [q \in better |-> <<p, q>>]
    OBVIOUS
  <2>2. \A q \in better : <<p, q>> \in out
    BY <1>3, <1>5, <1>10 DEF Ways
  <2>3. f \in Injection(better, out)
    BY <2>1, <2>2 DEF Injection, IsInjective
  <2>4. QED
    BY <1>15, <2>3, FS_Injection
<1>19. /\ IsFiniteSet(s.frontier \ {a})
       /\ Cardinality(s.frontier \ {a}) = Cardinality(s.frontier) - 1
  BY <1>13, LessFrontier
<1>20. PICK rest : rest = s.frontier \ {a}
  OBVIOUS
<1>21. /\ IsFiniteSet(t.frontier)
       /\ Cardinality(t.frontier) = Cardinality(rest) + Cardinality(new) - Cardinality(rest \intersect new)
  BY <1>8, <1>9, <1>19, <1>20, FS_Union
<1>22. IsFiniteSet(rest \intersect new)
  <2>1. rest \intersect new \in SUBSET new
    OBVIOUS
  <2>2. QED
    BY <1>9, <2>1, FS_Subset
<1>23. PICK e \in Nat, g \in Nat, h \in Nat, i \in Nat, j \in Nat, k \in Nat, l \in Nat :
         /\ e = Cardinality(s.frontier) /\ g = Cardinality(new) /\ h = Cardinality(rest \intersect new)
         /\ i = Cardinality(better) /\ j = Cardinality(out) /\ k = Cardinality(left)
         /\ l = Cardinality(after)
  BY <1>6, <1>9, <1>13, <1>14, <1>15, <1>17, <1>22, FS_CardinalityType
<1>24. Cardinality(t.frontier) = (e - 1) + g - h /\ g <= i /\ i <= j /\ l = k - j
  BY <1>9, <1>17, <1>18, <1>19, <1>20, <1>21, <1>23
<1>25. ((e - 1) + g - h) + l + 1 <= e + k
  BY <1>24
<1>26. QED
  BY <1>11, <1>23, <1>24, <1>25 DEF Work

(* The search as a whole: what it does for one, for two, for n expansions. *)

Onwards(free, road, goal, s) ==
  IF s.found \/ s.frontier = {} THEN s ELSE Expanded(free, road, goal, s)

Runs(free, road, goal, first, r, n) ==
  r = [k \in 0..n |-> IF k = 0 THEN first ELSE Onwards(free, road, goal, r[k - 1])]

LEMMA RunExists ==
  ASSUME NEW free, NEW road, NEW goal, NEW first, NEW n \in Nat
  PROVE  \E r : Runs(free, road, goal, first, r, n)
<1> DEFINE Failing == {k \in Nat : ~ \E r : Runs(free, road, goal, first, r, k)}
<1> SUFFICES Failing = {}
  OBVIOUS
<1>1. SUFFICES ASSUME Failing # {} PROVE FALSE
  OBVIOUS
<1>2. PICK m \in Failing : \A k \in Failing : m <= k
  BY <1>1, LeastNatural
<1>3. CASE m = 0
  <2>1. Runs(free, road, goal, first, [k \in 0..0 |-> first], 0)
    BY DEF Runs
  <2>2. QED
    BY <1>3, <2>1
<1>4. CASE m # 0
  <2>1. m - 1 \in Nat /\ m - 1 \notin Failing
    BY <1>2, <1>4
  <2>2. PICK r : Runs(free, road, goal, first, r, m - 1)
    BY <2>1
  <2> DEFINE g == [k \in 0..m |-> IF k < m THEN r[k] ELSE Onwards(free, road, goal, r[m - 1])]
  <2>3. ASSUME NEW k \in 0..m
        PROVE  g[k] = IF k = 0 THEN first ELSE Onwards(free, road, goal, g[k - 1])
    <3>1. CASE k = 0
      BY <1>2, <1>4, <2>2, <3>1 DEF Runs
    <3>2. CASE k # 0 /\ k < m
      <4>1. k \in 0..(m - 1) /\ k - 1 \in 0..m /\ k - 1 < m
        BY <1>2, <3>2
      <4>2. g[k] = r[k] /\ g[k - 1] = r[k - 1]
        BY <3>2, <4>1
      <4>3. r[k] = Onwards(free, road, goal, r[k - 1])
        BY <2>2, <3>2, <4>1 DEF Runs
      <4>4. QED
        BY <3>2, <4>2, <4>3
    <3>3. CASE k = m
      <4>1. g[m - 1] = r[m - 1]
        BY <1>2, <1>4
      <4>2. QED
        BY <1>2, <1>4, <3>3, <4>1
    <3>4. QED
      BY <1>2, <3>1, <3>2, <3>3
  <2>4. Runs(free, road, goal, first, g, m)
    BY <2>3 DEF Runs
  <2>5. QED
    BY <2>4
<1>5. QED
  BY <1>3, <1>4

\* One expansion, if there is one to make.
LEMMA OnwardsKeeps ==
  ASSUME NEW free \in SUBSET GridCells, IsFiniteSet(free), NEW road, NEW start \in GridCells,
         NEW goal \in GridCells, NEW s,
         SearchOK(free, start, goal, s), Frontwards(free, road, start, goal, s)
  PROVE  \A t : t = Onwards(free, road, goal, s) =>
           /\ SearchOK(free, start, goal, t)
           /\ Frontwards(free, road, start, goal, t)
           /\ (t = s /\ (s.found \/ s.frontier = {})) \/ Work(free, t) + 1 <= Work(free, s)
<1> SUFFICES ASSUME NEW t, t = Onwards(free, road, goal, s)
             PROVE  /\ SearchOK(free, start, goal, t)
                    /\ Frontwards(free, road, start, goal, t)
                    /\ (t = s /\ (s.found \/ s.frontier = {})) \/ Work(free, t) + 1 <= Work(free, s)
  OBVIOUS
<1>1. CASE s.found \/ s.frontier = {}
  BY <1>1 DEF Onwards
<1>2. CASE ~ s.found /\ s.frontier # {}
  <2>1. t = Expanded(free, road, goal, s)
    BY <1>2 DEF Onwards
  <2>2. SearchOK(free, start, goal, t)
    BY <1>2, <2>1, ExpandedOK
  <2>3. PICK a \in s.frontier :
          /\ \A e \in s.frontier : a.total <= e.total
          /\ Skips(s, a, t) \/ Arrives(goal, s, a, t) \/ Spreads(free, road, goal, s, a, t)
    BY <1>2, <2>1, ExpansionIs
  <2>4. IsFiniteSet(s.frontier)
    BY DEF Frontwards
  <2>5. CASE Skips(s, a, t)
    <3>1. Frontwards(free, road, start, goal, t)
      BY <1>2, <2>5, SkippingKeeps
    <3>2. t.frontier = s.frontier \ {a} /\ Closed(s) \subseteq Closed(t)
      BY <2>5, SkippingCloses DEF Skips
    <3>3. Work(free, t) + 1 <= Work(free, s)
      BY <2>4, <3>2, TakingShrinks
    <3>4. QED
      BY <2>2, <3>1, <3>3
  <2>6. CASE Arrives(goal, s, a, t)
    <3>1. Frontwards(free, road, start, goal, t)
      BY <2>3, <2>6, ArrivingKeeps
    <3>2. t.frontier = s.frontier \ {a} /\ Closed(s) \subseteq Closed(t)
      BY <2>6, ArrivingCloses DEF Arrives
    <3>3. Work(free, t) + 1 <= Work(free, s)
      BY <2>4, <3>2, TakingShrinks
    <3>4. QED
      BY <2>2, <3>1, <3>3
  <2>7. CASE Spreads(free, road, goal, s, a, t)
    <3>1. Frontwards(free, road, start, goal, t)
      BY <1>2, <2>3, <2>7, SpreadingKeeps
    <3>2. Work(free, t) + 1 <= Work(free, s)
      BY <2>7, SpreadingShrinks
    <3>3. QED
      BY <2>2, <3>1, <3>2
  <2>8. QED
    BY <2>3, <2>5, <2>6, <2>7
<1>3. QED
  BY <1>1, <1>2

\* The search ends within the steps it is given: at the goal or with nowhere left
\* to go.
LEMMA SearchEnds ==
  ASSUME NEW free \in SUBSET GridCells, IsFiniteSet(free), NEW road,
         NEW start \in GridCells, NEW goal \in GridCells
  PROVE  \A s : s = Search(free, road, start, goal) =>
           /\ SearchOK(free, start, goal, s)
           /\ Frontwards(free, road, start, goal, s)
           /\ s.found \/ s.frontier = {}
<1>1. PICK first :
        first = [frontier |-> {[at |-> start, cost |-> 0, total |-> RemainingCost(start, goal)]},
                 cost |-> [q \in {start} |-> 0], from |-> [q \in {start} |-> start],
                 found |-> FALSE]
  OBVIOUS
<1>2. SearchOK(free, start, goal, first)
  BY <1>1, FirstSearchOK
<1>3. Frontwards(free, road, start, goal, first)
  BY <1>1, FirstFrontwards
<1>4. PICK steps : steps = 8 * Cardinality(free) + 1
  OBVIOUS
<1>5. steps \in Nat
  BY <1>4, FS_CardinalityType
<1>6. Work(free, first) <= steps
  <2>1. PICK e : e = [at |-> start, cost |-> 0, total |-> RemainingCost(start, goal)]
    OBVIOUS
  <2>2. first.frontier = {e}
    BY <1>1, <2>1
  <2>3. IsFiniteSet(first.frontier) /\ Cardinality(first.frontier) = 1
    BY <2>2, FS_Singleton
  <2>4. PICK k, n : k = Cardinality(WaysLeft(free, first)) /\ n = Cardinality(free)
    OBVIOUS
  <2>5. k \in Nat /\ k <= 8 * n /\ n \in Nat
    BY <2>3, <2>4, WorkIsNatural, FS_CardinalityType
  <2>6. QED
    BY <1>4, <2>3, <2>4, <2>5 DEF Work
<1> DEFINE r == CHOOSE f : Runs(free, road, goal, first, f, steps)
<1>7. Runs(free, road, goal, first, r, steps)
  BY <1>5, RunExists
<1>8. Search(free, road, start, goal) = r[steps]
  BY <1>1, <1>4 DEF Search, Runs, Onwards
<1> HIDE DEF r
<1> DEFINE Fine(s, k) == /\ SearchOK(free, start, goal, s)
                         /\ Frontwards(free, road, start, goal, s)
                         /\ s.found \/ s.frontier = {} \/ Work(free, s) + k <= steps
           Failing == {k \in 0..steps : ~ Fine(r[k], k)}
<1>9. Failing = {}
  <2>1. SUFFICES ASSUME Failing # {} PROVE FALSE
    OBVIOUS
  <2>2. PICK m \in Failing : \A k \in Failing : m <= k
    <3>1. Failing \in SUBSET Nat
      BY <1>5
    <3>2. QED
      BY <2>1, <3>1, LeastNatural
  <2>3. CASE m = 0
    <3>1. r[0] = first
      BY <1>5, <1>7 DEF Runs
    <3>2. Work(free, first) + 0 <= steps
      <4>1. Work(free, first) \in Nat
        BY <1>3, WorkIsNatural DEF Work, Frontwards
      <4>2. QED
        BY <1>6, <4>1
    <3>3. Fine(r[0], 0)
      BY <1>2, <1>3, <3>1, <3>2
    <3>4. QED
      BY <2>2, <2>3, <3>3
  <2>4. CASE m # 0
    <3>1. m \in 0..steps /\ m - 1 \in 0..steps /\ m - 1 \notin Failing
      BY <1>5, <2>2, <2>4
    <3>2. PICK s : s = r[m - 1]
      OBVIOUS
    <3>3. Fine(s, m - 1)
      BY <3>1, <3>2
    <3>4. PICK t : t = Onwards(free, road, goal, s)
      OBVIOUS
    <3>5. r[m] = t
      BY <1>7, <2>4, <3>1, <3>2, <3>4 DEF Runs
    <3>6. /\ SearchOK(free, start, goal, t)
          /\ Frontwards(free, road, start, goal, t)
          /\ (t = s /\ (s.found \/ s.frontier = {})) \/ Work(free, t) + 1 <= Work(free, s)
      BY <3>3, <3>4, OnwardsKeeps
    <3>7. CASE t = s /\ (s.found \/ s.frontier = {})
      <4>1. Fine(t, m)
        BY <3>6, <3>7
      <4>2. QED
        BY <2>2, <3>5, <4>1
    <3>8. CASE Work(free, t) + 1 <= Work(free, s)
      <4>1. Work(free, t) \in Nat /\ Work(free, s) \in Nat
        BY <3>3, <3>6, WorkIsNatural DEF Work, Frontwards
      <4>2. CASE Work(free, s) + (m - 1) <= steps
        <5>1. Work(free, t) + m <= steps
          BY <1>5, <3>1, <3>8, <4>1, <4>2
        <5>2. Fine(t, m)
          BY <3>6, <5>1
        <5>3. QED
          BY <2>2, <3>5, <5>2
      <4>3. CASE s.found \/ s.frontier = {}
        <5>1. t = s
          BY <3>4, <4>3 DEF Onwards
        <5>2. Fine(t, m)
          BY <3>6, <4>3, <5>1
        <5>3. QED
          BY <2>2, <3>5, <5>2
      <4>4. QED
        BY <3>3, <4>2, <4>3
    <3>9. QED
      BY <3>6, <3>7, <3>8
  <2>5. QED
    BY <2>3, <2>4
<1>10. PICK s : s = r[steps]
  OBVIOUS
<1>11. Fine(s, steps)
  BY <1>5, <1>9, <1>10
<1>12. s.found \/ s.frontier = {}
  <2>1. SUFFICES ASSUME Work(free, s) + steps <= steps PROVE s.frontier = {}
    BY <1>11
  <2>2. IsFiniteSet(s.frontier)
    BY <1>11 DEF Frontwards
  <2>3. PICK i, j : i = Cardinality(s.frontier) /\ j = Cardinality(WaysLeft(free, s))
    OBVIOUS
  <2>4. i \in Nat /\ j \in Nat
    BY <2>2, <2>3, WorkIsNatural
  <2>5. i + j + steps <= steps
    BY <2>1, <2>3 DEF Work
  <2>6. i = 0
    BY <1>5, <2>4, <2>5
  <2>7. QED
    BY <2>2, <2>3, <2>6, FS_EmptySet
<1>13. QED
  BY <1>8, <1>10, <1>11, <1>12

-----------------------------------------------------------------------------
(* The way back along "from".                                              *)

Backwards(s, start, walk) ==
  IF Head(walk) = start THEN walk ELSE <<s.from[Head(walk)]>> \o walk

Back(s, start, goal, b, n) ==
  b = [k \in 0..n |-> IF k = 0 THEN <<goal>> ELSE Backwards(s, start, b[k - 1])]

LEMMA BackExists ==
  ASSUME NEW s, NEW start, NEW goal, NEW n \in Nat
  PROVE  \E b : Back(s, start, goal, b, n)
<1> DEFINE Failing == {k \in Nat : ~ \E b : Back(s, start, goal, b, k)}
<1> SUFFICES Failing = {}
  OBVIOUS
<1>1. SUFFICES ASSUME Failing # {} PROVE FALSE
  OBVIOUS
<1>2. PICK m \in Failing : \A k \in Failing : m <= k
  BY <1>1, LeastNatural
<1>3. CASE m = 0
  <2>1. Back(s, start, goal, [k \in 0..0 |-> <<goal>>], 0)
    BY DEF Back
  <2>2. QED
    BY <1>3, <2>1
<1>4. CASE m # 0
  <2>1. m - 1 \in Nat /\ m - 1 \notin Failing
    BY <1>2, <1>4
  <2>2. PICK b : Back(s, start, goal, b, m - 1)
    BY <2>1
  <2> DEFINE g == [k \in 0..m |-> IF k < m THEN b[k] ELSE Backwards(s, start, b[m - 1])]
  <2>3. ASSUME NEW k \in 0..m
        PROVE  g[k] = IF k = 0 THEN <<goal>> ELSE Backwards(s, start, g[k - 1])
    <3>1. CASE k = 0
      BY <1>2, <1>4, <2>2, <3>1 DEF Back
    <3>2. CASE k # 0 /\ k < m
      <4>1. k \in 0..(m - 1) /\ k - 1 \in 0..m /\ k - 1 < m
        BY <1>2, <3>2
      <4>2. g[k] = b[k] /\ g[k - 1] = b[k - 1]
        BY <3>2, <4>1
      <4>3. b[k] = Backwards(s, start, b[k - 1])
        BY <2>2, <3>2, <4>1 DEF Back
      <4>4. QED
        BY <3>2, <4>2, <4>3
    <3>3. CASE k = m
      <4>1. g[m - 1] = b[m - 1]
        BY <1>2, <1>4
      <4>2. QED
        BY <1>2, <1>4, <3>3, <4>1
    <3>4. QED
      BY <1>2, <3>1, <3>2, <3>3
  <2>4. Back(s, start, goal, g, m)
    BY <2>3 DEF Back
  <2>5. QED
    BY <2>4
<1>5. QED
  BY <1>3, <1>4

\* A legal walk to the goal along which the costs grow.
WalkOK(free, goal, s, walk) ==
  /\ walk \in Seq(DOMAIN s.cost) /\ Len(walk) > 0 /\ walk[Len(walk)] = goal
  /\ \A i \in 1..(Len(walk) - 1) :
       IsLegalStep(free, walk[i], walk[i + 1]) /\ walk[i] = s.from[walk[i + 1]]
  /\ \A i, j \in 1..Len(walk) : i < j => s.cost[walk[i]] < s.cost[walk[j]]

LEMMA LongerWalkOK ==
  ASSUME NEW free, NEW start, NEW goal, NEW s, SearchOK(free, start, goal, s),
         NEW walk, WalkOK(free, goal, s, walk), Head(walk) # start
  PROVE  /\ WalkOK(free, goal, s, <<s.from[Head(walk)]>> \o walk)
         /\ Len(<<s.from[Head(walk)]>> \o walk) = Len(walk) + 1
<1> DEFINE D == DOMAIN s.cost
<1>1. PICK h : h = walk[1] /\ h = Head(walk)
  BY DEF WalkOK
<1>2. PICK f : f = s.from[h]
  OBVIOUS
<1>3. walk \in Seq(D) /\ Len(walk) \in Nat /\ Len(walk) > 0
  BY DEF WalkOK
<1>4. h \in D /\ h # start
  BY <1>1, <1>3
<1>5. f \in D /\ IsLegalStep(free, f, h) /\ s.cost[f] < s.cost[h]
  BY <1>2, <1>4 DEF SearchOK
<1>6. \A q \in D : s.cost[q] \in Nat
  BY DEF SearchOK
<1>7. PICK longer : longer = <<f>> \o walk
  OBVIOUS
<1> HIDE DEF D
<1>8. <<f>> \in Seq(D)
  BY <1>5
<1>9. /\ longer \in Seq(D) /\ Len(longer) = Len(walk) + 1
      /\ \A i \in 1..Len(longer) : longer[i] = IF i = 1 THEN f ELSE walk[i - 1]
  BY <1>3, <1>7, <1>8, ConcatProperties
<1>10. longer[Len(longer)] = goal
  BY <1>3, <1>9 DEF WalkOK
<1>11. ASSUME NEW i \in 1..(Len(longer) - 1)
       PROVE  IsLegalStep(free, longer[i], longer[i + 1]) /\ longer[i] = s.from[longer[i + 1]]
  <2>1. CASE i = 1
    BY <1>1, <1>2, <1>3, <1>5, <1>9, <2>1
  <2>2. CASE i # 1
    <3>1. i - 1 \in 1..(Len(walk) - 1) /\ longer[i] = walk[i - 1] /\ longer[i + 1] = walk[i]
      BY <1>3, <1>9, <2>2
    <3>2. /\ IsLegalStep(free, walk[i - 1], walk[(i - 1) + 1])
          /\ walk[i - 1] = s.from[walk[(i - 1) + 1]]
      BY <3>1 DEF WalkOK
    <3>3. (i - 1) + 1 = i
      BY <1>3
    <3>4. QED
      BY <3>1, <3>2, <3>3
  <2>3. QED
    BY <2>1, <2>2
<1>12. ASSUME NEW i \in 1..Len(longer), NEW j \in 1..Len(longer), i < j
       PROVE  s.cost[longer[i]] < s.cost[longer[j]]
  <2>1. j - 1 \in 1..Len(walk) /\ longer[j] = walk[j - 1] /\ walk[j - 1] \in D
    BY <1>3, <1>9, <1>12
  <2>2. CASE i = 1
    <3>1. longer[1] = f /\ f \in D /\ h \in D
      BY <1>4, <1>5, <1>9, <2>2
    <3>2. CASE j - 1 = 1
      BY <1>1, <1>5, <2>1, <2>2, <3>1, <3>2
    <3>3. CASE j - 1 # 1
      <4>1. s.cost[walk[1]] < s.cost[walk[j - 1]]
        BY <1>3, <2>1, <3>3 DEF WalkOK
      <4>2. QED
        BY <1>1, <1>5, <1>6, <2>1, <2>2, <3>1, <4>1
    <3>4. QED
      BY <3>2, <3>3
  <2>3. CASE i # 1
    <3>1. i - 1 \in 1..Len(walk) /\ longer[i] = walk[i - 1] /\ i - 1 < j - 1
      BY <1>3, <1>9, <1>12, <2>3
    <3>2. s.cost[walk[i - 1]] < s.cost[walk[j - 1]]
      BY <2>1, <3>1 DEF WalkOK
    <3>3. QED
      BY <2>1, <3>1, <3>2
  <2>4. QED
    BY <2>2, <2>3
<1>13. WalkOK(free, goal, s, longer) /\ Len(longer) = Len(walk) + 1
  BY <1>3, <1>9, <1>10, <1>11, <1>12 DEF WalkOK, D
<1>14. QED
  BY <1>1, <1>2, <1>7, <1>13

\* What every route is.
LegalRoute(free, start, goal, path) ==
  /\ path \in Seq(free \union {start}) /\ Len(path) > 0
  /\ path[1] = start /\ path[Len(path)] = goal
  /\ \A i \in 1..(Len(path) - 1) : IsLegalStep(free, path[i], path[i + 1])
  /\ \A i, j \in 1..Len(path) : path[i] = path[j] => i = j

\* A walk of as many steps as there are free cells must have met the start.
LEMMA BackMeetsStart ==
  ASSUME NEW free \in SUBSET GridCells, IsFiniteSet(free),
         NEW start \in GridCells, NEW goal \in GridCells,
         NEW s, SearchOK(free, start, goal, s), s.found
  PROVE  \A b : Back(s, start, goal, b, Cardinality(free)) =>
           LET walk == b[Cardinality(free)]
           IN  WalkOK(free, goal, s, walk) /\ Head(walk) = start
<1>1. PICK n \in Nat : n = Cardinality(free)
  BY FS_CardinalityType
<1>2. SUFFICES ASSUME NEW b, Back(s, start, goal, b, n)
               PROVE  WalkOK(free, goal, s, b[n]) /\ Head(b[n]) = start
  BY <1>1
<1> DEFINE Fine(k) == /\ WalkOK(free, goal, s, b[k])
                      /\ Head(b[k]) = start \/ Len(b[k]) = k + 1
           Failing == {k \in 0..n : ~Fine(k)}
<1>3. Failing = {}
  <2>1. SUFFICES ASSUME Failing # {} PROVE FALSE
    OBVIOUS
  <2>2. PICK m \in Failing : \A k \in Failing : m <= k
    <3>1. Failing \in SUBSET Nat
      OBVIOUS
    <3>2. QED
      BY <2>1, <3>1, LeastNatural
  <2>3. CASE m = 0
    <3>1. b[0] = <<goal>>
      BY <1>2, <2>2, <2>3 DEF Back
    <3>2. goal \in DOMAIN s.cost
      BY DEF SearchOK
    <3>3. PICK walk : walk = <<goal>>
      OBVIOUS
    <3>4. walk \in Seq(DOMAIN s.cost) /\ Len(walk) = 1 /\ walk[1] = goal
      BY <3>2, <3>3, OneStep
    <3>5. WalkOK(free, goal, s, walk)
      BY <3>4 DEF WalkOK
    <3>6. Fine(0)
      BY <3>1, <3>3, <3>4, <3>5
    <3>7. QED
      BY <2>2, <2>3, <3>6
  <2>4. CASE m # 0
    <3>1. m \in 0..n /\ m - 1 \in 0..n /\ m - 1 \notin Failing
      BY <2>2, <2>4
    <3>2. Fine(m - 1)
      BY <3>1
    <3>3. b[m] = Backwards(s, start, b[m - 1])
      BY <1>2, <2>4, <3>1 DEF Back
    <3>4. CASE Head(b[m - 1]) = start
      BY <2>2, <3>2, <3>3, <3>4 DEF Backwards
    <3>5. CASE Head(b[m - 1]) # start
      <4>1. Len(b[m - 1]) = m
        BY <3>1, <3>2, <3>5
      <4>2. b[m] = <<s.from[Head(b[m - 1])]>> \o b[m - 1]
        BY <3>3, <3>5 DEF Backwards
      <4>3. WalkOK(free, goal, s, b[m]) /\ Len(b[m]) = m + 1
        BY <3>2, <3>5, <4>1, <4>2, LongerWalkOK
      <4>4. QED
        BY <2>2, <4>3
    <3>6. QED
      BY <3>4, <3>5
  <2>5. QED
    BY <2>3, <2>4
<1>4. Fine(n)
  BY <1>3
<1>5. ASSUME Head(b[n]) # start PROVE FALSE
  <2>1. PICK walk : walk = b[n]
    OBVIOUS
  <2>2. WalkOK(free, goal, s, walk) /\ Len(walk) = n + 1
    BY <1>4, <1>5, <2>1
  <2>3. walk \in Seq(DOMAIN s.cost) /\ walk[1] # start
    BY <1>5, <2>1, <2>2 DEF WalkOK
  <2>4. ASSUME NEW i \in 1..(n + 1) PROVE walk[i] \in free
    <3>1. walk[i] \in DOMAIN s.cost /\ walk[1] \in DOMAIN s.cost
      BY <2>2, <2>3
    <3>2. s.cost[walk[1]] \in Nat /\ s.cost[walk[i]] \in Nat
      BY <3>1 DEF SearchOK
    <3>3. i # 1 => s.cost[walk[1]] < s.cost[walk[i]]
      BY <2>2 DEF WalkOK
    <3>4. i # 1 => s.cost[walk[i]] # 0
      BY <3>2, <3>3
    <3>5. walk[i] # start
      BY <2>3, <3>4 DEF SearchOK
    <3>6. QED
      BY <3>1, <3>5 DEF SearchOK
  <2>5. ASSUME NEW i \in 1..(n + 1), NEW j \in 1..(n + 1), i # j PROVE walk[i] # walk[j]
    <3>1. s.cost[walk[i]] < s.cost[walk[j]] \/ s.cost[walk[j]] < s.cost[walk[i]]
      BY <2>2, <2>5 DEF WalkOK
    <3>2. s.cost[walk[i]] \in Nat /\ s.cost[walk[j]] \in Nat
      BY <2>2, <2>3 DEF SearchOK
    <3>3. QED
      BY <3>1, <3>2
  <2>6. PICK f : f = [i \in 1..(n + 1) |-> walk[i]]
    OBVIOUS
  <2>7. f \in Injection(1..(n + 1), free)
    BY <2>4, <2>5, <2>6 DEF Injection, IsInjective
  <2>8. IsFiniteSet(1..(n + 1)) /\ Cardinality(1..(n + 1)) = n + 1
    BY FS_Interval
  <2>9. n + 1 <= n
    BY <1>1, <2>7, <2>8, FS_Injection
  <2>10. QED
    BY <2>9
<1>6. QED
  BY <1>4, <1>5

\* Every route that landmark travel is given starts where the player stands, ends
\* at the landmark, takes legal steps only, cutting no corner, and never comes
\* back to a cell (campgroundNavigation.ts: findCampgroundRoute).

-----------------------------------------------------------------------------
(* What the search is measured against: repeated improvement.              *)

Improved(free, road, start, b) ==
  LET ways(c) == {p \in {Shift(c, d) : d \in Deltas} \cap DOMAIN b : IsLegalStep(free, p, c)}
      near == {c \in free \ {start} : ways(c) # {}}
  IN  [c \in near \cup DOMAIN b |->
         IF c \in near THEN Min({b[p] + StepCost(road, p, c) : p \in ways(c)}) ELSE b[c]]

Improves(free, road, start, best, n) ==
  best = [k \in 0..n |-> IF k = 0 THEN [c \in {start} |-> 0]
                         ELSE Improved(free, road, start, best[k - 1])]

LEMMA ImprovesExists ==
  ASSUME NEW free, NEW road, NEW start, NEW n \in Nat
  PROVE  \E best : Improves(free, road, start, best, n)
<1> DEFINE Failing == {k \in Nat : ~ \E best : Improves(free, road, start, best, k)}
<1> SUFFICES Failing = {}
  OBVIOUS
<1>1. SUFFICES ASSUME Failing # {} PROVE FALSE
  OBVIOUS
<1>2. PICK m \in Failing : \A k \in Failing : m <= k
  BY <1>1, LeastNatural
<1>3. PICK first : first = [c \in {start} |-> 0]
  OBVIOUS
<1>4. CASE m = 0
  <2>1. Improves(free, road, start, [k \in 0..0 |-> first], 0)
    BY <1>3 DEF Improves
  <2>2. QED
    BY <1>4, <2>1
<1>5. CASE m # 0
  <2>1. m - 1 \in Nat /\ m - 1 \notin Failing
    BY <1>2, <1>5
  <2>2. PICK r : Improves(free, road, start, r, m - 1)
    BY <2>1
  <2> DEFINE g == [k \in 0..m |-> IF k < m THEN r[k] ELSE Improved(free, road, start, r[m - 1])]
  <2>3. ASSUME NEW k \in 0..m
        PROVE  g[k] = IF k = 0 THEN first ELSE Improved(free, road, start, g[k - 1])
    <3>1. CASE k = 0
      BY <1>2, <1>3, <1>5, <2>2, <3>1 DEF Improves
    <3>2. CASE k # 0 /\ k < m
      <4>1. k \in 0..(m - 1) /\ k - 1 \in 0..m /\ k - 1 < m
        BY <1>2, <3>2
      <4>2. g[k] = r[k] /\ g[k - 1] = r[k - 1]
        BY <3>2, <4>1
      <4>3. r[k] = Improved(free, road, start, r[k - 1])
        BY <2>2, <3>2, <4>1 DEF Improves
      <4>4. QED
        BY <3>2, <4>2, <4>3
    <3>3. CASE k = m
      <4>1. g[m - 1] = r[m - 1]
        BY <1>2, <1>5
      <4>2. QED
        BY <1>2, <1>5, <3>3, <4>1
    <3>4. QED
      BY <1>2, <3>1, <3>2, <3>3
  <2>4. Improves(free, road, start, g, m)
    BY <1>3, <2>3 DEF Improves
  <2>5. QED
    BY <2>4
<1>6. QED
  BY <1>4, <1>5

LEMMA LeastOfAll ==
  ASSUME NEW S, S \subseteq Nat, S # {}
  PROVE  Min(S) \in S /\ \A k \in S : Min(S) <= k
<1>1. \E m \in S : \A k \in S : m <= k
  BY LeastNatural
<1>2. QED
  BY <1>1 DEF Min

\* What one improvement does.
ImprovedTo(free, road, start, b, t) ==
  /\ \A c \in DOMAIN b : c \in DOMAIN t
  /\ \A c \in free \ {start}, p \in DOMAIN b :
       IsLegalStep(free, p, c) => c \in DOMAIN t /\ t[c] <= b[p] + StepCost(road, p, c)
  /\ \A c \in DOMAIN t :
       \/ c \in DOMAIN b /\ t[c] = b[c]
       \/ /\ c \in free \ {start}
          /\ \E p \in DOMAIN b : IsLegalStep(free, p, c) /\ t[c] = b[p] + StepCost(road, p, c)

LEMMA ImprovedIs ==
  ASSUME NEW free \in SUBSET GridCells, NEW road, NEW start, NEW b,
         \A c \in DOMAIN b : c \in GridCells /\ b[c] \in Nat
  PROVE  ImprovedTo(free, road, start, b, Improved(free, road, start, b))
<1> DEFINE ways(c) == {p \in {Shift(c, d) : d \in Deltas} \cap DOMAIN b : IsLegalStep(free, p, c)}
           near == {c \in free \ {start} : ways(c) # {}}
           costs(c) == {b[p] + StepCost(road, p, c) : p \in ways(c)}
<1> SUFFICES ASSUME NEW t, t = Improved(free, road, start, b)
             PROVE  ImprovedTo(free, road, start, b, t)
  OBVIOUS
<1>1. t = [c \in near \cup DOMAIN b |-> IF c \in near THEN Min(costs(c)) ELSE b[c]]
  BY DEF Improved
<1>2. ASSUME NEW c \in free, NEW p \in DOMAIN b, IsLegalStep(free, p, c) PROVE p \in ways(c)
  <2>1. c \in GridCells /\ p \in GridCells
    OBVIOUS
  <2>2. \E d \in Deltas : p = Shift(c, d)
    BY <1>2, <2>1, LegalStepsAreNear
  <2>3. QED
    BY <1>2, <2>2
<1>3. ASSUME NEW c, NEW p \in ways(c)
      PROVE  p \in DOMAIN b /\ IsLegalStep(free, p, c) /\ b[p] + StepCost(road, p, c) \in Nat
  BY StepCostAtLeast
<1>4. ASSUME NEW c \in near
      PROVE  Min(costs(c)) \in costs(c) /\ \A k \in costs(c) : Min(costs(c)) <= k
  <2>1. costs(c) \subseteq Nat /\ costs(c) # {}
    <3>1. \A k \in costs(c) : k \in Nat
      BY <1>3
    <3>2. QED
      BY <3>1
  <2> HIDE DEF costs
  <2>2. QED
    BY <2>1, LeastOfAll
<1>5. \A c, k : k \in costs(c) <=> \E p \in ways(c) : k = b[p] + StepCost(road, p, c)
  OBVIOUS
<1>6. \A c : c \in near <=> c \in free \ {start} /\ \E p : p \in ways(c)
  OBVIOUS
<1> HIDE DEF costs, near, ways
<1>7. \A c \in near : t[c] \in costs(c) /\ \A k \in costs(c) : t[c] <= k
  BY <1>1, <1>4
<1>8. DOMAIN t = near \cup DOMAIN b
  BY <1>1
<1>9. ASSUME NEW c \in free \ {start}, NEW p \in DOMAIN b, IsLegalStep(free, p, c)
      PROVE  c \in DOMAIN t /\ t[c] <= b[p] + StepCost(road, p, c)
  <2>1. p \in ways(c)
    BY <1>2, <1>9
  <2>2. c \in near /\ b[p] + StepCost(road, p, c) \in costs(c)
    BY <1>5, <1>6, <2>1
  <2>3. QED
    BY <1>7, <1>8, <2>2
<1>10. ASSUME NEW c \in DOMAIN t
       PROVE  \/ c \in DOMAIN b /\ t[c] = b[c]
              \/ /\ c \in free \ {start}
                 /\ \E p \in DOMAIN b :
                      IsLegalStep(free, p, c) /\ t[c] = b[p] + StepCost(road, p, c)
  <2>1. CASE c \in near
    <3>1. PICK p \in ways(c) : t[c] = b[p] + StepCost(road, p, c)
      BY <1>5, <1>7, <2>1
    <3>2. QED
      BY <1>3, <1>6, <2>1, <3>1
  <2>2. CASE c \notin near
    BY <1>1, <1>8, <2>2
  <2>3. QED
    BY <2>1, <2>2
<1>11. QED
  BY <1>8, <1>9, <1>10 DEF ImprovedTo

\* Whatever holds of the start at no cost and goes on holding along legal steps
\* at what they cost holds of every cell and cost that is computed.
KeptBySteps(free, road, R) ==
  \A p \in GridCells, v \in Nat, q \in free :
    <<p, v>> \in R /\ IsLegalStep(free, p, q) => <<q, v + StepCost(road, p, q)>> \in R

CostsIn(R, start, b) ==
  /\ \A c \in DOMAIN b : c \in GridCells /\ b[c] \in Nat /\ <<c, b[c]>> \in R
  /\ start \in DOMAIN b /\ b[start] = 0

LEMMA CostsWithin ==
  ASSUME NEW free \in SUBSET GridCells, NEW road, NEW start \in GridCells,
         NEW n \in Nat, NEW best, Improves(free, road, start, best, n),
         NEW R, <<start, 0>> \in R, KeptBySteps(free, road, R)
  PROVE  \A k \in 0..n : CostsIn(R, start, best[k])
<1> DEFINE Fine(b) == CostsIn(R, start, b)
           Failing == {k \in 0..n : ~ Fine(best[k])}
<1>1. SUFFICES ASSUME Failing # {} PROVE FALSE
  OBVIOUS
<1>2. PICK m \in Failing : \A k \in Failing : m <= k
  <2>1. Failing \in SUBSET Nat
    OBVIOUS
  <2>2. QED
    BY <1>1, <2>1, LeastNatural
<1>3. CASE m = 0
  <2>1. best[0] = [c \in {start} |-> 0]
    BY DEF Improves
  <2>2. Fine(best[0])
    BY <2>1 DEF CostsIn
  <2>3. QED
    BY <1>2, <1>3, <2>2
<1>4. CASE m # 0
  <2>1. m \in 0..n /\ m - 1 \in 0..n /\ m - 1 \notin Failing
    BY <1>2, <1>4
  <2>2. PICK b : b = best[m - 1]
    OBVIOUS
  <2>3. Fine(b)
    BY <2>1, <2>2
  <2>4. PICK t : t = Improved(free, road, start, b)
    OBVIOUS
  <2>5. best[m] = t
    BY <1>4, <2>1, <2>2, <2>4 DEF Improves
  <2>6. ImprovedTo(free, road, start, b, t)
    <3>1. \A c \in DOMAIN b : c \in GridCells /\ b[c] \in Nat
      BY <2>3 DEF CostsIn
    <3>2. QED
      BY <2>4, <3>1, ImprovedIs
  <2>7. /\ \A c \in DOMAIN b : c \in DOMAIN t
        /\ \A c \in DOMAIN t :
             \/ c \in DOMAIN b /\ t[c] = b[c]
             \/ /\ c \in free \ {start}
                /\ \E p \in DOMAIN b :
                     IsLegalStep(free, p, c) /\ t[c] = b[p] + StepCost(road, p, c)
    BY <2>6 DEF ImprovedTo
  <2>8. ASSUME NEW c \in DOMAIN t
        PROVE  c \in GridCells /\ t[c] \in Nat /\ <<c, t[c]>> \in R
    <3>1. CASE c \in DOMAIN b /\ t[c] = b[c]
      BY <2>3, <3>1 DEF CostsIn
    <3>2. CASE c \in free /\ \E p \in DOMAIN b :
                 IsLegalStep(free, p, c) /\ t[c] = b[p] + StepCost(road, p, c)
      <4>1. PICK p \in DOMAIN b : IsLegalStep(free, p, c) /\ t[c] = b[p] + StepCost(road, p, c)
        BY <3>2
      <4>2. PICK v \in Nat : v = b[p] /\ p \in GridCells /\ <<p, v>> \in R
        BY <2>3 DEF CostsIn
      <4>3. PICK w \in Nat : w = StepCost(road, p, c)
        BY StepCostAtLeast
      <4>4. <<c, v + StepCost(road, p, c)>> \in R
        BY <3>2, <4>1, <4>2 DEF KeptBySteps
      <4>5. t[c] = v + w /\ v + w \in Nat
        BY <4>1, <4>2, <4>3
      <4>6. QED
        BY <3>2, <4>3, <4>4, <4>5
    <3>3. QED
      BY <2>7, <3>1, <3>2
  <2>9. start \in DOMAIN t /\ t[start] = 0
    BY <2>3, <2>7 DEF CostsIn
  <2>10. QED
    BY <1>2, <2>5, <2>8, <2>9 DEF CostsIn
<1>5. QED
  BY <1>3, <1>4

LEMMA CostsAreComputed ==
  ASSUME NEW free, IsFiniteSet(free), NEW road, NEW start
  PROVE  \E n, best :
           /\ n \in Nat /\ n = Cardinality(free) /\ Improves(free, road, start, best, n)
           /\ CheapestCosts(free, road, start) = best[n]
<1>1. PICK n \in Nat : n = Cardinality(free)
  BY FS_CardinalityType
<1> DEFINE best == CHOOSE f : Improves(free, road, start, f, n)
<1>2. Improves(free, road, start, best, n)
  BY ImprovesExists
<1>3. CheapestCosts(free, road, start) = best[n]
  BY <1>1 DEF CheapestCosts, Improves, Improved
<1> HIDE DEF best
<1>4. QED
  BY <1>1, <1>2, <1>3

LEMMA CheapestWithin ==
  ASSUME NEW free \in SUBSET GridCells, IsFiniteSet(free), NEW road, NEW start \in GridCells,
         NEW R, <<start, 0>> \in R, KeptBySteps(free, road, R)
  PROVE  CostsIn(R, start, CheapestCosts(free, road, start))
<1>1. PICK n, best :
        /\ n \in Nat /\ n = Cardinality(free) /\ Improves(free, road, start, best, n)
        /\ CheapestCosts(free, road, start) = best[n]
  BY CostsAreComputed
<1>2. n \in 0..n
  BY <1>1
<1>3. \A k \in 0..n : CostsIn(R, start, best[k])
  BY <1>1, CostsWithin
<1>4. QED
  BY <1>1, <1>2, <1>3

-----------------------------------------------------------------------------
(* What a path costs.                                                      *)

Sums(road, path, u, n) ==
  u = [k \in 1..n |-> IF k = 1 THEN 0 ELSE u[k - 1] + StepCost(road, path[k - 1], path[k])]

LEMMA SumsExist ==
  ASSUME NEW road, NEW path, NEW n \in Nat
  PROVE  \E u : Sums(road, path, u, n)
<1> DEFINE Failing == {k \in Nat : ~ \E u : Sums(road, path, u, k)}
           Next_(x, k) == IF k = 1 THEN 0 ELSE x + StepCost(road, path[k - 1], path[k])
<1> SUFFICES Failing = {}
  OBVIOUS
<1>1. SUFFICES ASSUME Failing # {} PROVE FALSE
  OBVIOUS
<1>2. PICK m \in Failing : \A k \in Failing : m <= k
  BY <1>1, LeastNatural
<1>3. CASE m = 0
  <2>1. Sums(road, path, [k \in 1..0 |-> 0], 0)
    BY DEF Sums
  <2>2. QED
    BY <1>3, <2>1
<1>4. CASE m # 0
  <2>1. m - 1 \in Nat /\ m - 1 \notin Failing
    BY <1>2, <1>4
  <2>2. PICK u : Sums(road, path, u, m - 1)
    BY <2>1
  <2>3. u = [k \in 1..(m - 1) |-> Next_(u[k - 1], k)]
    BY <2>2 DEF Sums
  <2> HIDE DEF Next_
  <2> DEFINE g == [k \in 1..m |-> IF k < m THEN u[k] ELSE Next_(u[m - 1], m)]
  <2>4. ASSUME NEW k \in 1..m
        PROVE  g[k] = Next_(IF k = 1 THEN u[0] ELSE g[k - 1], k)
    <3>1. CASE k < m
      <4>1. k \in 1..(m - 1) /\ (k # 1 => k - 1 \in 1..m /\ k - 1 < m)
        BY <1>2, <3>1
      <4>2. g[k] = u[k] /\ (k # 1 => g[k - 1] = u[k - 1])
        BY <3>1, <4>1
      <4>3. u[k] = Next_(u[k - 1], k)
        BY <2>3, <4>1
      <4>4. k = 1 => k - 1 = 0
        OBVIOUS
      <4>5. QED
        BY <4>2, <4>3, <4>4
    <3>2. CASE k = m
      <4>1. g[k] = Next_(u[m - 1], m)
        BY <3>2
      <4>2. k # 1 => m - 1 \in 1..m /\ m - 1 < m
        BY <1>2, <3>2
      <4>3. k # 1 => g[k - 1] = u[m - 1]
        BY <3>2, <4>2
      <4>4. k = 1 => m - 1 = 0
        BY <3>2
      <4>5. QED
        BY <3>2, <4>1, <4>3, <4>4
    <3>3. QED
      BY <1>2, <3>1, <3>2
  <2>5. ASSUME NEW k \in 1..m PROVE g[k] = Next_(g[k - 1], k)
    <3> HIDE DEF g
    <3>1. CASE k = 1
      <4>1. \A x, y : Next_(x, 1) = Next_(y, 1)
        BY DEF Next_
      <4>2. QED
        BY <2>4, <3>1, <4>1
    <3>2. CASE k # 1
      BY <2>4, <3>2
    <3>3. QED
      BY <3>1, <3>2
  <2>6. g = [k \in 1..m |-> Next_(g[k - 1], k)]
    <3>1. g = [k \in 1..m |-> g[k]]
      OBVIOUS
    <3> HIDE DEF g
    <3>2. QED
      BY <2>5, <3>1
  <2>7. Sums(road, path, g, m)
    <3> HIDE DEF g
    <3>1. QED
      BY <2>6 DEF Sums, Next_
  <2>8. QED
    BY <2>7
<1>5. QED
  BY <1>3, <1>4

LEMMA PathCostIsSum ==
  ASSUME NEW road, NEW path, NEW n \in Nat, n = Len(path)
  PROVE  \E u : Sums(road, path, u, n) /\ PathCost(road, path) = u[n]
<1> DEFINE u == CHOOSE f : Sums(road, path, f, n)
<1>1. Sums(road, path, u, n)
  BY SumsExist
<1>2. PathCost(road, path) = u[n]
  BY DEF PathCost, Sums
<1> HIDE DEF u
<1>3. QED
  BY <1>1, <1>2

LEMMA SumsAreNatural ==
  ASSUME NEW road, NEW path, NEW n \in Nat, NEW u, Sums(road, path, u, n)
  PROVE  \A k \in 1..n : u[k] \in Nat
<1> DEFINE Failing == {k \in 1..n : u[k] \notin Nat}
<1>1. SUFFICES ASSUME Failing # {} PROVE FALSE
  OBVIOUS
<1>2. PICK m \in Failing : \A k \in Failing : m <= k
  <2>1. Failing \in SUBSET Nat
    OBVIOUS
  <2>2. QED
    BY <1>1, <2>1, LeastNatural
<1>3. u[m] = IF m = 1 THEN 0 ELSE u[m - 1] + StepCost(road, path[m - 1], path[m])
  BY <1>2 DEF Sums
<1>4. CASE m = 1
  BY <1>2, <1>3, <1>4
<1>5. CASE m # 1
  <2>1. m - 1 \in 1..n /\ m - 1 \notin Failing
    BY <1>2, <1>5
  <2>2. QED
    BY <1>2, <1>3, <1>5, <2>1, StepCostAtLeast
<1>6. QED
  BY <1>4, <1>5

\* A legal walk from the start costs no less than what is computed for its end.
LEMMA WalksCostMore ==
  ASSUME NEW free \in SUBSET GridCells, NEW road, NEW start \in GridCells,
         NEW n \in Nat, NEW best, Improves(free, road, start, best, n),
         NEW w, w \in Seq(GridCells), NEW l \in Nat, l = Len(w), l > 0, l <= n + 1,
         w[1] = start, \A i \in 1..(l - 1) : IsLegalStep(free, w[i], w[i + 1]),
         NEW u, Sums(road, w, u, l)
  PROVE  w[l] \in DOMAIN best[n] /\ best[n][w[l]] <= u[l]
<1> DEFINE Fine(m) == \A k \in 1..l : k <= m + 1 =>
                        w[k] \in DOMAIN best[m] /\ best[m][w[k]] <= u[k]
           Failing == {m \in 0..n : ~ Fine(m)}
<1>1. ASSUME NEW m \in 0..n
      PROVE  /\ \A c \in DOMAIN best[m] : c \in GridCells /\ best[m][c] \in Nat
             /\ start \in DOMAIN best[m] /\ best[m][start] = 0
  <2>1. PICK R : R = GridCells \X Nat
    OBVIOUS
  <2>2. <<start, 0>> \in R
    BY <2>1
  <2>3. KeptBySteps(free, road, R)
    <3>1. ASSUME NEW v \in Nat, NEW p, NEW q PROVE v + StepCost(road, p, q) \in Nat
      BY StepCostAtLeast
    <3>2. QED
      BY <2>1, <3>1 DEF KeptBySteps
  <2>4. \A k \in 0..n : CostsIn(R, start, best[k])
    BY <2>2, <2>3, CostsWithin
  <2>5. QED
    BY <2>4 DEF CostsIn
<1>2. \A k \in 1..l : u[k] \in Nat /\ w[k] \in GridCells
  BY SumsAreNatural
<1>3. \A k \in 1..l : u[k] = IF k = 1 THEN 0 ELSE u[k - 1] + StepCost(road, w[k - 1], w[k])
  BY DEF Sums
<1>4. Failing = {}
  <2>1. SUFFICES ASSUME Failing # {} PROVE FALSE
    OBVIOUS
  <2>2. PICK m \in Failing : \A k \in Failing : m <= k
    <3>1. Failing \in SUBSET Nat
      OBVIOUS
    <3>2. QED
      BY <2>1, <3>1, LeastNatural
  <2>3. ASSUME NEW k \in 1..l, w[k] = start
        PROVE  w[k] \in DOMAIN best[m] /\ best[m][w[k]] <= u[k]
    BY <1>1, <1>2, <2>2, <2>3
  <2>4. CASE m = 0
    <3>1. \A k \in 1..l : k <= m + 1 => w[k] = start
      BY <2>4
    <3>2. QED
      BY <2>2, <2>3, <3>1
  <2>5. CASE m # 0
    <3>1. m \in 0..n /\ m - 1 \in 0..n /\ m - 1 \notin Failing
      BY <2>2, <2>5
    <3>2. PICK b : b = best[m - 1]
      OBVIOUS
    <3>3. PICK t : t = Improved(free, road, start, b)
      OBVIOUS
    <3>4. best[m] = t
      BY <2>5, <3>1, <3>2, <3>3 DEF Improves
    <3>5. \A c \in DOMAIN b : c \in GridCells /\ b[c] \in Nat
      BY <1>1, <3>1, <3>2
    <3>6. ImprovedTo(free, road, start, b, t)
      BY <3>3, <3>5, ImprovedIs
    <3>7. ASSUME NEW k \in 1..l, k <= m + 1, w[k] # start
          PROVE  w[k] \in DOMAIN t /\ t[w[k]] <= u[k]
      <4>1. k - 1 \in 1..(l - 1) /\ k - 1 \in 1..l /\ k - 1 <= (m - 1) + 1 /\ k # 1
        BY <3>7, <3>1
      <4>2. PICK p, q : p = w[k - 1] /\ q = w[k]
        OBVIOUS
      <4>3. p \in DOMAIN b /\ b[p] <= u[k - 1]
        BY <3>1, <3>2, <4>1, <4>2
      <4>4. IsLegalStep(free, p, q)
        <5>1. (k - 1) + 1 = k
          OBVIOUS
        <5>2. IsLegalStep(free, w[k - 1], w[(k - 1) + 1])
          BY <4>1
        <5>3. QED
          BY <4>2, <5>1, <5>2
      <4>5. q \in free \ {start}
        BY <3>7, <4>2, <4>4 DEF IsLegalStep
      <4>6. q \in DOMAIN t /\ t[q] <= b[p] + StepCost(road, p, q)
        BY <3>6, <4>3, <4>4, <4>5 DEF ImprovedTo
      <4>7. PICK i \in Nat, j \in Nat, h \in Nat : i = b[p] /\ j = StepCost(road, p, q) /\ h = u[k - 1]
        BY <1>2, <3>5, <4>1, <4>3, StepCostAtLeast
      <4>8. u[k] = h + j
        BY <1>3, <4>1, <4>2, <4>7
      <4>9. t[q] \in Nat
        BY <1>1, <3>1, <3>4, <4>6
      <4>10. t[q] <= u[k]
        <5>1. i <= h /\ t[q] <= i + j
          BY <4>3, <4>6, <4>7
        <5>2. QED
          BY <4>8, <4>9, <5>1
      <4>11. QED
        BY <4>2, <4>6, <4>10
    <3>8. Fine(m)
      BY <2>3, <3>4, <3>7
    <3>9. QED
      BY <2>2, <3>8
  <2>6. QED
    BY <2>4, <2>5
<1>5. n \in 0..n /\ l \in 1..l
  OBVIOUS
<1>6. QED
  BY <1>4, <1>5

-----------------------------------------------------------------------------
(* Where the search has ended, every walk from the start is accounted for:  *)
(* what it costs up to a cell is no less than the cost of that cell, closed *)
(* and improved upon, or else the goal was found as cheaply as that walk    *)
(* could still lead to it.                                                 *)

AccountedFor(s, goal, c, v) ==
  \/ c \in Closed(s) \ {goal} /\ s.cost[c] <= v
  \/ s.found /\ s.cost[goal] <= v + RemainingCost(c, goal)

LEMMA ReachedIsAccountedFor ==
  ASSUME NEW free \in SUBSET GridCells, NEW road, NEW start \in GridCells,
         NEW goal \in GridCells, NEW s, SearchOK(free, start, goal, s),
         Frontwards(free, road, start, goal, s), s.found \/ s.frontier = {},
         NEW c \in DOMAIN s.cost, NEW v \in Nat, s.cost[c] <= v
  PROVE  AccountedFor(s, goal, c, v)
<1>1. c \in GridCells /\ s.cost[c] \in Nat
  BY ReachedCells
<1>2. PICK h \in Nat : h = RemainingCost(c, goal)
  BY <1>1, RemainingCostNatural
<1>3. CASE c \in Closed(s) \ {goal}
  BY <1>3 DEF AccountedFor
<1>4. CASE c = goal /\ c \in Closed(s)
  <2>1. s.found
    BY <1>4 DEF Frontwards
  <2>2. s.cost[goal] <= v + h
    BY <1>1, <1>2, <1>4
  <2>3. QED
    BY <1>2, <2>1, <2>2 DEF AccountedFor
<1>5. CASE c \notin Closed(s)
  <2>1. PICK e \in s.frontier : e.at = c /\ e.cost = s.cost[c]
    BY <1>5 DEF Closed, Waiting
  <2>2. s.found /\ goal \in Closed(s)
    BY <2>1 DEF Frontwards
  <2>3. e = Entry(c, s.cost[c], goal)
    BY <2>1 DEF Frontwards
  <2>4. e.total = s.cost[c] + h
    BY <1>2, <2>3, EntryParts
  <2>5. s.cost[goal] + RemainingCost(goal, goal) <= e.total
    BY <2>1, <2>2 DEF Frontwards
  <2>6. s.cost[goal] \in Nat
    BY <2>2, ReachedCells DEF Closed
  <2>7. s.cost[goal] <= s.cost[c] + h
    BY <2>4, <2>5, <2>6, NothingRemains
  <2>8. s.cost[goal] <= v + h
    BY <1>1, <2>6, <2>7
  <2>9. QED
    BY <1>2, <2>2, <2>8 DEF AccountedFor
<1>6. QED
  BY <1>3, <1>4, <1>5

LEMMA StepsAreAccountedFor ==
  ASSUME NEW free \in SUBSET GridCells, NEW road, NEW start \in GridCells,
         NEW goal \in GridCells, NEW s, SearchOK(free, start, goal, s),
         Frontwards(free, road, start, goal, s), s.found \/ s.frontier = {},
         NEW p \in GridCells, NEW v \in Nat, AccountedFor(s, goal, p, v),
         NEW q \in free, IsLegalStep(free, p, q)
  PROVE  AccountedFor(s, goal, q, v + StepCost(road, p, q))
<1>1. PICK k \in Nat : k = StepCost(road, p, q)
  BY StepCostAtLeast
<1>2. CASE p \in Closed(s) \ {goal} /\ s.cost[p] <= v
  <2>1. q \in DOMAIN s.cost /\ s.cost[q] <= s.cost[p] + k
    BY <1>1, <1>2 DEF Frontwards
  <2>2. s.cost[p] \in Nat /\ s.cost[q] \in Nat
    BY <1>2, <2>1, ReachedCells DEF Closed
  <2>3. s.cost[q] <= v + k /\ v + k \in Nat
    BY <1>2, <2>1, <2>2
  <2>4. AccountedFor(s, goal, q, v + k)
    BY <2>1, <2>3, ReachedIsAccountedFor
  <2>5. QED
    BY <1>1, <2>4
<1>3. CASE s.found /\ s.cost[goal] <= v + RemainingCost(p, goal)
  <2>1. PICK g \in Nat, i \in Nat, j \in Nat :
          g = s.cost[goal] /\ i = RemainingCost(p, goal) /\ j = RemainingCost(q, goal)
    <3>1. goal \in DOMAIN s.cost
      BY <1>3 DEF SearchOK
    <3>2. s.cost[goal] \in Nat
      BY <3>1, ReachedCells
    <3>3. RemainingCost(p, goal) \in Nat /\ RemainingCost(q, goal) \in Nat
      BY RemainingCostNatural
    <3>4. QED
      BY <3>2, <3>3
  <2>2. i <= k + j
    BY <1>1, <2>1, EstimateIsConsistent
  <2>3. g <= (v + k) + j
    BY <1>3, <2>1, <2>2
  <2>4. QED
    BY <1>1, <1>3, <2>1, <2>3 DEF AccountedFor
<1>4. QED
  BY <1>2, <1>3 DEF AccountedFor

\* The search finds every goal that legal steps lead to, at no more than they cost.
LEMMA SearchFinds ==
  ASSUME NEW free \in SUBSET GridCells, IsFiniteSet(free), NEW road,
         NEW start \in GridCells, NEW goal \in GridCells,
         goal \in DOMAIN CheapestCosts(free, road, start)
  PROVE  /\ Search(free, road, start, goal).found
         /\ Search(free, road, start, goal).cost[goal] <= CheapestCosts(free, road, start)[goal]
<1>1. PICK s : s = Search(free, road, start, goal)
  OBVIOUS
<1>2. /\ SearchOK(free, start, goal, s) /\ Frontwards(free, road, start, goal, s)
      /\ s.found \/ s.frontier = {}
  BY <1>1, SearchEnds
<1>3. PICK R : R = {x \in GridCells \X Nat : AccountedFor(s, goal, x[1], x[2])}
  OBVIOUS
<1>4. \A c \in GridCells, v \in Nat : <<c, v>> \in R <=> AccountedFor(s, goal, c, v)
  BY <1>3
<1>5. <<start, 0>> \in R
  <2>1. start \in DOMAIN s.cost /\ s.cost[start] <= 0
    BY <1>2 DEF SearchOK
  <2>2. AccountedFor(s, goal, start, 0)
    BY <1>2, <2>1, ReachedIsAccountedFor
  <2>3. QED
    BY <1>4, <2>2
<1>6. KeptBySteps(free, road, R)
  <2> SUFFICES ASSUME NEW p \in GridCells, NEW v \in Nat, NEW q \in free,
                      <<p, v>> \in R, IsLegalStep(free, p, q)
               PROVE  <<q, v + StepCost(road, p, q)>> \in R
    BY DEF KeptBySteps
  <2>1. PICK k \in Nat : k = StepCost(road, p, q)
    BY StepCostAtLeast
  <2>2. AccountedFor(s, goal, p, v)
    BY <1>4
  <2>3. AccountedFor(s, goal, q, v + StepCost(road, p, q))
    BY <1>2, <2>2, StepsAreAccountedFor
  <2>4. v + k \in Nat /\ q \in GridCells
    OBVIOUS
  <2>5. QED
    BY <1>4, <2>1, <2>3, <2>4
<1>7. PICK costs : costs = CheapestCosts(free, road, start)
  OBVIOUS
<1>8. CostsIn(R, start, costs)
  BY <1>5, <1>6, <1>7, CheapestWithin
<1>9. costs[goal] \in Nat /\ <<goal, costs[goal]>> \in R
  BY <1>7, <1>8 DEF CostsIn
<1>10. AccountedFor(s, goal, goal, costs[goal])
  BY <1>4, <1>9
<1>11. s.found /\ s.cost[goal] <= costs[goal] + RemainingCost(goal, goal)
  BY <1>10 DEF AccountedFor
<1>12. s.cost[goal] <= costs[goal]
  BY <1>9, <1>11, NothingRemains
<1>13. QED
  BY <1>1, <1>7, <1>11, <1>12

\* The way back costs no more than the search says.
LEMMA WalkCostsNoMore ==
  ASSUME NEW free \in SUBSET GridCells, NEW road, NEW start \in GridCells,
         NEW goal \in GridCells, NEW s, SearchOK(free, start, goal, s),
         Frontwards(free, road, start, goal, s),
         NEW walk, WalkOK(free, goal, s, walk), walk[1] = start,
         NEW l \in Nat, l = Len(walk), NEW u, Sums(road, walk, u, l)
  PROVE  u[l] <= s.cost[goal]
<1>1. l > 0 /\ walk[l] = goal /\ \A k \in 1..l : walk[k] \in DOMAIN s.cost
  BY DEF WalkOK
<1>2. \A k \in 1..l : u[k] \in Nat /\ s.cost[walk[k]] \in Nat
  BY <1>1, SumsAreNatural, ReachedCells
<1> DEFINE Failing == {k \in 1..l : ~ (u[k] <= s.cost[walk[k]])}
<1>3. Failing = {}
  <2>1. SUFFICES ASSUME Failing # {} PROVE FALSE
    OBVIOUS
  <2>2. PICK m \in Failing : \A k \in Failing : m <= k
    <3>1. Failing \in SUBSET Nat
      OBVIOUS
    <3>2. QED
      BY <2>1, <3>1, LeastNatural
  <2>3. u[m] = IF m = 1 THEN 0 ELSE u[m - 1] + StepCost(road, walk[m - 1], walk[m])
    BY <2>2 DEF Sums
  <2>4. CASE m = 1
    BY <1>2, <2>2, <2>3, <2>4
  <2>5. CASE m # 1
    <3>1. m \in 1..l /\ m - 1 \in 1..l /\ m - 1 \in 1..(l - 1) /\ m - 1 \notin Failing
      BY <2>2, <2>5
    <3>2. PICK p, q : p = walk[m - 1] /\ q = walk[m]
      OBVIOUS
    <3>3. p = s.from[q]
      <4>1. walk[m - 1] = s.from[walk[(m - 1) + 1]]
        BY <3>1 DEF WalkOK
      <4>2. (m - 1) + 1 = m
        BY <3>1
      <4>3. QED
        BY <3>2, <4>1, <4>2
    <3>4. q # start
      <4>1. s.cost[walk[1]] < s.cost[walk[m]]
        BY <2>5, <3>1 DEF WalkOK
      <4>2. QED
        BY <1>2, <3>1, <3>2, <4>1
    <3>5. s.cost[p] + StepCost(road, p, q) <= s.cost[q]
      BY <1>1, <3>1, <3>2, <3>3, <3>4 DEF Frontwards
    <3>6. u[m - 1] <= s.cost[p]
      BY <3>1, <3>2
    <3>7. PICK h \in Nat, i \in Nat, j \in Nat, k \in Nat :
            h = u[m - 1] /\ i = s.cost[p] /\ j = s.cost[q] /\ k = StepCost(road, p, q)
      BY <1>2, <3>1, <3>2, StepCostAtLeast
    <3>8. h + k <= j
      BY <3>5, <3>6, <3>7
    <3>9. u[m] <= s.cost[walk[m]]
      BY <2>3, <2>5, <3>2, <3>7, <3>8
    <3>10. QED
      BY <2>2, <3>9
  <2>6. QED
    BY <2>4, <2>5
<1>4. l \in 1..l
  BY <1>1
<1>5. QED
  BY <1>1, <1>3, <1>4

-----------------------------------------------------------------------------
(* The route.                                                              *)

LEMMA RouteIsWalk ==
  ASSUME NEW free \in SUBSET GridCells, IsFiniteSet(free), NEW road,
         NEW start \in GridCells, NEW goal \in GridCells,
         start # goal, start[3] = goal[3], goal \in free
  PROVE  \A s : s = Search(free, road, start, goal) =>
           /\ s.found => /\ WalkOK(free, goal, s, Route(free, road, start, goal))
                         /\ Route(free, road, start, goal)[1] = start
           /\ ~ s.found => Route(free, road, start, goal) = None
<1>1. PICK s : s = Search(free, road, start, goal)
  OBVIOUS
<1>2. ~ s.found => Route(free, road, start, goal) = None
  BY <1>1 DEF Route
<1>3. ASSUME s.found
      PROVE  /\ WalkOK(free, goal, s, Route(free, road, start, goal))
             /\ Route(free, road, start, goal)[1] = start
  <2>1. PICK n \in Nat : n = Cardinality(free)
    BY FS_CardinalityType
  <2> DEFINE b == CHOOSE f : Back(s, start, goal, f, n)
  <2>2. Back(s, start, goal, b, n)
    BY BackExists, SMTT(60)
  <2>3. Route(free, road, start, goal) = b[n]
    BY <1>1, <1>3, <2>1 DEF Route, Back, Backwards
  <2> HIDE DEF b
  <2>4. SearchOK(free, start, goal, s)
    BY <1>1, SearchEnds
  <2>5. PICK walk : walk = b[n]
    OBVIOUS
  <2>6. WalkOK(free, goal, s, walk) /\ Head(walk) = start
    BY <1>3, <2>1, <2>2, <2>4, <2>5, BackMeetsStart
  <2>7. walk[1] = start
    BY <2>6 DEF WalkOK
  <2>8. QED
    BY <2>3, <2>5, <2>6, <2>7
<1>4. QED
  BY <1>1, <1>2, <1>3

\* Every route that landmark travel is given starts where the player stands, ends
\* at the landmark, takes legal steps only, cutting no corner, and never comes
\* back to a cell (campgroundNavigation.ts: findCampgroundRoute).
THEOREM RouteIsLegal ==
  ASSUME NEW free \in SUBSET GridCells, IsFiniteSet(free), NEW road,
         NEW start \in GridCells, NEW goal \in GridCells,
         Route(free, road, start, goal) # None
  PROVE  LegalRoute(free, start, goal, Route(free, road, start, goal))
<1>1. CASE start = goal
  <2>1. Route(free, road, start, goal) = <<start>>
    BY <1>1 DEF Route
  <2>2. QED
    BY <1>1, <2>1 DEF LegalRoute
<1>2. CASE start # goal
  <2>1. PICK walk, s :
          walk = Route(free, road, start, goal) /\ s = Search(free, road, start, goal)
    OBVIOUS
  <2>2. start[3] = goal[3] /\ goal \in free
    BY <1>2 DEF Route
  <2>3. WalkOK(free, goal, s, walk) /\ walk[1] = start
    BY <1>2, <2>1, <2>2, RouteIsWalk
  <2>4. SearchOK(free, start, goal, s)
    BY <2>1, SearchEnds
  <2>5. walk \in Seq(DOMAIN s.cost) /\ DOMAIN s.cost \subseteq free \union {start}
    BY <2>3, <2>4 DEF SearchOK, WalkOK
  <2>6. Len(walk) \in Nat /\ \A i \in 1..Len(walk) : walk[i] \in DOMAIN s.cost
    BY <2>5
  <2>7. ASSUME NEW i \in 1..Len(walk), NEW j \in 1..Len(walk), i # j PROVE walk[i] # walk[j]
    <3>1. s.cost[walk[i]] < s.cost[walk[j]] \/ s.cost[walk[j]] < s.cost[walk[i]]
      BY <2>3, <2>6, <2>7 DEF WalkOK
    <3>2. s.cost[walk[i]] \in Nat /\ s.cost[walk[j]] \in Nat
      BY <2>4, <2>6 DEF SearchOK
    <3>3. QED
      BY <3>1, <3>2
  <2>8. walk \in Seq(free \union {start})
    BY <2>5
  <2>9. LegalRoute(free, start, goal, walk)
    BY <2>3, <2>7, <2>8 DEF LegalRoute, WalkOK
  <2>10. QED
    BY <2>1, <2>9
<1>3. QED
  BY <1>1, <1>2

\* A route is found exactly when legal steps lead to the goal, and what it costs is
\* the least that any way of legal steps there costs, however the entries of the
\* heap are skipped and however dear the ground beside the roads is
\* (campgroundNavigation.ts: findCampgroundRoute).
THEOREM RouteIsCheapest ==
  ASSUME NEW free \in SUBSET GridCells, IsFiniteSet(free), NEW road,
         NEW start \in GridCells, NEW goal \in GridCells
  PROVE  /\ Route(free, road, start, goal) = None
              <=> goal \notin DOMAIN CheapestCosts(free, road, start)
         /\ Route(free, road, start, goal) # None
              => PathCost(road, Route(free, road, start, goal))
                   = CheapestCosts(free, road, start)[goal]
<1>1. PICK costs, route :
        costs = CheapestCosts(free, road, start) /\ route = Route(free, road, start, goal)
  OBVIOUS
<1> DEFINE Claim == /\ route = None <=> goal \notin DOMAIN costs
                    /\ route # None => PathCost(road, route) = costs[goal]
<1>2. SUFFICES Claim
  BY <1>1
<1>3. CASE start[3] # goal[3]
  <2>1. route = None
    BY <1>1, <1>3 DEF Route
  <2>2. PICK R : R = {x \in GridCells \X Nat : x[1][3] = start[3]}
    OBVIOUS
  <2>3. <<start, 0>> \in R
    BY <2>2
  <2>4. KeptBySteps(free, road, R)
    <3> SUFFICES ASSUME NEW p \in GridCells, NEW v \in Nat, NEW q \in free,
                        <<p, v>> \in R, IsLegalStep(free, p, q)
                 PROVE  <<q, v + StepCost(road, p, q)>> \in R
      BY DEF KeptBySteps
    <3>1. PICK k \in Nat : k = v + StepCost(road, p, q)
      BY StepCostAtLeast
    <3>2. q \in GridCells /\ q[3] = start[3]
      BY <2>2 DEF IsLegalStep
    <3>3. QED
      BY <2>2, <3>1, <3>2
  <2>5. CostsIn(R, start, costs)
    BY <1>1, <2>3, <2>4, CheapestWithin
  <2>6. goal \notin DOMAIN costs
    <3>1. ASSUME goal \in DOMAIN costs PROVE FALSE
      <4>1. <<goal, costs[goal]>> \in R
        BY <2>5, <3>1 DEF CostsIn
      <4>2. QED
        BY <1>3, <2>2, <4>1
    <3>2. QED
      BY <3>1
  <2>7. QED
    BY <2>1, <2>6
<1> DEFINE All == GridCells \X Nat
<1>4. CostsIn(All, start, costs)
  <2>1. KeptBySteps(free, road, All)
    <3>1. ASSUME NEW v \in Nat, NEW p, NEW q PROVE v + StepCost(road, p, q) \in Nat
      BY StepCostAtLeast
    <3>2. QED
      BY <3>1 DEF KeptBySteps
  <2>2. <<start, 0>> \in All
    OBVIOUS
  <2> HIDE DEF All
  <2>3. QED
    BY <1>1, <2>1, <2>2, CheapestWithin
<1>5. CASE start[3] = goal[3] /\ start = goal
  <2>1. route = <<start>>
    BY <1>1, <1>5 DEF Route
  <2>2. goal \in DOMAIN costs /\ costs[goal] = 0
    BY <1>4, <1>5 DEF CostsIn
  <2>3. Len(route) = 1 /\ route # None
    BY <2>1 DEF None
  <2>4. PICK one \in Nat : one = 1 /\ one = Len(route)
    BY <2>3
  <2>5. PICK u : Sums(road, route, u, one) /\ PathCost(road, route) = u[one]
    BY <2>4, PathCostIsSum
  <2>6. u[1] = 0
    BY <2>4, <2>5 DEF Sums
  <2>7. QED
    BY <2>2, <2>3, <2>4, <2>5, <2>6
<1>6. CASE start[3] = goal[3] /\ start # goal /\ goal \notin free
  <2>1. route = None
    BY <1>1, <1>6 DEF Route
  <2>2. PICK R : R = {x \in GridCells \X Nat : x[1] \in free \union {start}}
    OBVIOUS
  <2>3. <<start, 0>> \in R
    BY <2>2
  <2>4. KeptBySteps(free, road, R)
    <3> SUFFICES ASSUME NEW p \in GridCells, NEW v \in Nat, NEW q \in free
                 PROVE  <<q, v + StepCost(road, p, q)>> \in R
      BY DEF KeptBySteps
    <3>1. PICK k \in Nat : k = v + StepCost(road, p, q)
      BY StepCostAtLeast
    <3>2. QED
      BY <2>2, <3>1
  <2>5. CostsIn(R, start, costs)
    BY <1>1, <2>3, <2>4, CheapestWithin
  <2>6. goal \notin DOMAIN costs
    <3>1. ASSUME goal \in DOMAIN costs PROVE FALSE
      <4>1. <<goal, costs[goal]>> \in R
        BY <2>5, <3>1 DEF CostsIn
      <4>2. QED
        BY <1>6, <2>2, <4>1
    <3>2. QED
      BY <3>1
  <2>7. QED
    BY <2>1, <2>6
<1>7. CASE start[3] = goal[3] /\ start # goal /\ goal \in free
  <2>1. PICK s : s = Search(free, road, start, goal)
    OBVIOUS
  <2>2. SearchOK(free, start, goal, s) /\ Frontwards(free, road, start, goal, s)
    BY <2>1, SearchEnds
  <2>3. goal \in DOMAIN costs => s.found /\ s.cost[goal] <= costs[goal]
    BY <1>1, <2>1, SearchFinds
  <2>4. CASE ~ s.found
    <3>1. route = None
      BY <1>1, <1>7, <2>1, <2>4, RouteIsWalk
    <3>2. QED
      BY <2>3, <2>4, <3>1
  <2>5. CASE s.found
    <3>1. WalkOK(free, goal, s, route) /\ route[1] = start
      BY <1>1, <1>7, <2>1, <2>5, RouteIsWalk
    <3>2. PICK l \in Nat : l = Len(route)
      BY <3>1 DEF WalkOK
    <3>3. l > 0 /\ route[l] = goal /\ \A i \in 1..(l - 1) : IsLegalStep(free, route[i], route[i + 1])
      BY <3>1, <3>2 DEF WalkOK
    <3>4. route # None
      BY <3>2, <3>3 DEF None
    <3>5. route \in Seq(GridCells)
      <4>1. route \in Seq(DOMAIN s.cost)
        BY <3>1 DEF WalkOK
      <4>2. DOMAIN s.cost \subseteq GridCells
        BY <2>2, ReachedCells
      <4>3. QED
        BY <4>1, <4>2
    <3>6. PICK u : Sums(road, route, u, l) /\ PathCost(road, route) = u[l]
      BY <3>2, PathCostIsSum
    <3>7. u[l] <= s.cost[goal]
      BY <2>2, <3>1, <3>2, <3>6, WalkCostsNoMore
    <3>8. PICK n, best :
            /\ n \in Nat /\ n = Cardinality(free) /\ Improves(free, road, start, best, n) /\ costs = best[n]
      BY <1>1, CostsAreComputed
    <3>9. l <= n + 1
      <4>1. PICK f : f = [i \in 1..(l - 1) |-> route[i + 1]]
        OBVIOUS
      <4>2. \A i \in 1..(l - 1) : route[i + 1] \in free
        BY <3>3 DEF IsLegalStep
      <4>3. ASSUME NEW i \in 1..(l - 1), NEW j \in 1..(l - 1), i < j
            PROVE  route[i + 1] # route[j + 1]
        <5>1. i + 1 \in 1..l /\ j + 1 \in 1..l /\ i + 1 < j + 1
          BY <4>3
        <5>2. s.cost[route[i + 1]] < s.cost[route[j + 1]]
          BY <3>1, <3>2, <5>1 DEF WalkOK
        <5>3. route[i + 1] \in DOMAIN s.cost
          BY <3>1, <3>2, <5>1 DEF WalkOK
        <5>4. s.cost[route[i + 1]] \in Nat
          BY <2>2, <5>3, ReachedCells
        <5>5. QED
          BY <5>2, <5>4
      <4>4. \A i, j \in 1..(l - 1) : i # j => route[i + 1] # route[j + 1]
        BY <4>3
      <4>5. f \in Injection(1..(l - 1), free)
        BY <4>1, <4>2, <4>4 DEF Injection, IsInjective
      <4>6. Cardinality(1..(l - 1)) <= n
        BY <3>8, <4>5, FS_Injection
      <4>7. Cardinality(1..(l - 1)) = l - 1
        <5>1. PICK m \in Int : m = l - 1
          OBVIOUS
        <5>2. Cardinality(1..m) = IF 1 > m THEN 0 ELSE m - 1 + 1
          BY FS_Interval
        <5>3. QED
          BY <3>3, <5>1, <5>2
      <4>8. QED
        BY <3>3, <3>8, <4>6, <4>7
    <3>10. goal \in DOMAIN costs /\ costs[goal] <= u[l]
      BY <3>1, <3>2, <3>3, <3>5, <3>6, <3>8, <3>9, WalksCostMore
    <3>11. costs[goal] \in Nat
      BY <1>4, <3>10 DEF CostsIn
    <3>12. u[l] \in Nat /\ s.cost[goal] \in Nat
      <4>1. goal \in DOMAIN s.cost
        BY <2>2, <2>5 DEF SearchOK
      <4>2. u[l] \in Nat
        <5>1. \A k \in 1..l : u[k] \in Nat
          BY <3>6, SumsAreNatural
        <5>2. l \in 1..l
          BY <3>3
        <5>3. QED
          BY <5>1, <5>2
      <4>3. QED
        BY <2>2, <4>1, <4>2, ReachedCells
    <3>13. PathCost(road, route) = costs[goal]
      BY <2>3, <3>6, <3>7, <3>10, <3>11, <3>12
    <3>14. QED
      BY <3>4, <3>10, <3>13
  <2>6. QED
    BY <2>4, <2>5
<1>8. QED
  BY <1>3, <1>5, <1>6, <1>7
=============================================================================
