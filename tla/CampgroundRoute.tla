--------------------------- MODULE CampgroundRoute ---------------------------
(***************************************************************************)
(* The route search of the campground (campgroundNavigation.ts): which     *)
(* single steps are legal, and the A* search weighted by roads that        *)
(* landmark travel follows. A grid is the set "free" of its cells that a   *)
(* walker may stand on and the set "road" of its cells that are road.      *)
(***************************************************************************)
EXTENDS Integers, Sequences, FiniteSets, FiniteSetsExt, TLC

None == <<>>

Distance(m, n) == IF m < n THEN n - m ELSE m - n
Least(m, n) == IF m < n THEN m ELSE n
Greatest(m, n) == IF m < n THEN n ELSE m
Across(p, q) == Distance(p[1], q[1])
Down(p, q) == Distance(p[2], q[2])
Chebyshev(p, q) == Greatest(Greatest(Across(p, q), Down(p, q)), Distance(p[3], q[3]))
Manhattan(p, q) == Across(p, q) + Down(p, q) + Distance(p[3], q[3])
Shift(p, d) == <<p[1] + d[1], p[2] + d[2], p[3]>>

Deltas == ((-1..1) \X (-1..1)) \ {<<0, 0>>}
Straight(p, q) == p[1] = q[1] \/ p[2] = q[2]

\* A diagonal step needs both of the cells beside it: no cutting of corners.
SidesFree(free, p, q) ==
  Straight(p, q) \/ {<<p[1], q[2], p[3]>>, <<q[1], p[2], p[3]>>} \subseteq free

IsLegalStep(free, p, q) ==
  /\ p[3] = q[3]
  /\ Greatest(Across(p, q), Down(p, q)) = 1
  /\ q \in free
  /\ SidesFree(free, p, q)

\* What a step onto q costs, and the least that the steps to the goal cost.
StepCost(road, p, q) ==
  ((IF q \in road THEN 10 ELSE 40) * (IF Straight(p, q) THEN 10 ELSE 14)) \div 10

RemainingCost(p, q) ==
  LET diagonal == Least(Across(p, q), Down(p, q))
  IN  diagonal * 14 + (Greatest(Across(p, q), Down(p, q)) - diagonal) * 10

-----------------------------------------------------------------------------
(* The search. "cost" is the cheapest way known to each cell reached, "from" *)
(* the cell it is reached from. A frontier entry whose cost was since beaten *)
(* stays in the heap and is skipped when it comes out. The binary heap is    *)
(* modelled by what it does: pop returns the entry that goes before all.     *)

Before(m, n) ==
  \/ m.total < n.total
  \/ m.total = n.total /\ m.cost < n.cost
  \/ m.total = n.total /\ m.cost = n.cost
     /\ (m.at[1] < n.at[1] \/ (m.at[1] = n.at[1] /\ m.at[2] <= n.at[2]))

\* Mutant: the open node with the highest total is expanded first.
ForemostBackwards(frontier) == CHOOSE m \in frontier : \A n \in frontier : Before(n, m)

Foremost(frontier) == CHOOSE m \in frontier : \A n \in frontier : Before(m, n)

Expanded(free, road, goal, search) ==
  LET active == Foremost(search.frontier)
      p == active.at
      rest == [search EXCEPT !.frontier = @ \ {active}]
      costs == [q \in {q \in {Shift(p, d) : d \in Deltas} : q \in free /\ SidesFree(free, p, q)} |->
                  active.cost + StepCost(road, p, q)]
      better == {q \in DOMAIN costs : q \notin DOMAIN search.cost \/ costs[q] < search.cost[q]}
  IN  IF active.cost # search.cost[p] THEN rest
      ELSE IF p = goal THEN [rest EXCEPT !.found = TRUE]
      ELSE [rest EXCEPT
              !.cost = [q \in better \cup DOMAIN @ |-> IF q \in better THEN costs[q] ELSE @[q]],
              !.from = [q \in better \cup DOMAIN @ |-> IF q \in better THEN p ELSE @[q]],
              !.frontier = @ \cup {[at |-> q, cost |-> costs[q],
                                    total |-> costs[q] + RemainingCost(q, goal)] : q \in better}]

\* A cell enters the frontier at most once from each of its neighbours.
Search(free, road, start, goal) ==
  LET first == [frontier |-> {[at |-> start, cost |-> 0, total |-> RemainingCost(start, goal)]},
                cost |-> [q \in {start} |-> 0], from |-> [q \in {start} |-> start],
                found |-> FALSE]
      steps == 8 * Cardinality(free) + 1
      run[n \in 0..steps] ==
        IF n = 0 THEN first
        ELSE LET s == run[n - 1]
             IN  IF s.found \/ s.frontier = {} THEN s ELSE Expanded(free, road, goal, s)
  IN  run[steps]

\* The path from start to goal, both included, or None when there is none.
Route(free, road, start, goal) ==
  IF start[3] # goal[3] THEN None
  ELSE IF start = goal THEN <<start>>
  ELSE IF goal \notin free THEN None
  ELSE LET s == Search(free, road, start, goal)
           back[n \in 0..Cardinality(free)] ==
             IF n = 0 THEN <<goal>>
             ELSE LET b == back[n - 1]
                  IN  IF Head(b) = start THEN b ELSE <<s.from[Head(b)]>> \o b
       IN  IF s.found THEN back[Cardinality(free)] ELSE None

-----------------------------------------------------------------------------
(* What the search is measured against: the least cost of each cell that    *)
(* legal steps lead to, by repeated improvement.                            *)

CheapestCosts(free, road, start) ==
  LET best[n \in 0..Cardinality(free)] ==
        IF n = 0 THEN [c \in {start} |-> 0]
        ELSE LET b == best[n - 1]
                 ways(c) == {p \in {Shift(c, d) : d \in Deltas} \cap DOMAIN b : IsLegalStep(free, p, c)}
                 near == {c \in free \ {start} : ways(c) # {}}
             IN  [c \in near \cup DOMAIN b |->
                    IF c \in near THEN Min({b[p] + StepCost(road, p, c) : p \in ways(c)}) ELSE b[c]]
  IN  best[Cardinality(free)]

PathCost(road, path) ==
  LET upTo[n \in 1..Len(path)] ==
        IF n = 1 THEN 0 ELSE upTo[n - 1] + StepCost(road, path[n - 1], path[n])
  IN  upTo[Len(path)]
=============================================================================
