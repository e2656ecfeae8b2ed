------------------------------- MODULE BspLevel -------------------------------
(***************************************************************************)
(* The deeper dungeon levels (_BSPGenLevel, _carveRoom, _linkLeaves and    *)
(* makePassagesWithDoor in world.ts, dijkstraPath in worldUtil.ts): a      *)
(* solid block is split until its parts are small, a room is carved in     *)
(* each part, and the two halves of every split are linked by a passage    *)
(* with a door, straight where their edges face each other and dug along a *)
(* cheapest way where they do not. A part is a rectangle [l, r, t, b]; the *)
(* recursion of the code is an agenda of parts to build and links to make, *)
(* and the rounds of dijkstra and the steps of its way back are actions.   *)
(* A random number is one of a few that spread over its range.             *)
(***************************************************************************)
EXTENDS Grid, FiniteSetsExt, Sequences

CONSTANTS
  BlockWidth, BlockHeight,       \* the largest coordinates of the level
  MaxPartWidth, MaxPartHeight, MinPartSpan,
  Grain, Draws                   \* of every Grain-th part of a range, the draws tried

ASSUME BspAssumption ==
  /\ {BlockWidth, BlockHeight, MaxPartWidth, MaxPartHeight, MinPartSpan, Grain} \subseteq Nat \ {0}
  /\ Draws \subseteq 0..Grain /\ Draws # {}
  /\ MinPartSpan >= 4
  /\ MaxPartWidth >= 2 * MinPartSpan /\ MaxPartHeight >= 2 * MinPartSpan
  /\ BlockWidth >= MinPartSpan /\ BlockHeight >= MinPartSpan

VARIABLES
  agenda,   \* parts to build and links to make, the next one first
  floor,    \* cells of rooms
  tunnel,   \* cells of passages
  door,     \* doors in passages
  cost,     \* of the passage that is being dug: what it costs to come to a cell,
  fresh,    \* the cells whose cost has just been lowered,
  way       \* the way back from its end, <<>> when nothing is being dug

digVars == <<cost, fresh, way>>
bspVars == <<agenda, floor, tunnel, door, digVars>>

\* randomIntInclusive: nothing can be drawn from an empty range.
Draw(low, high) ==
  IF low > high THEN {} ELSE {low + (k * (high - low)) \div Grain : k \in Draws}

Part(l, r, t, b) == [l |-> l, r |-> r, t |-> t, b |-> b]
PartCells(p) == (p.l..p.r) \X (p.t..p.b)
Build(p) == [task |-> "build", part |-> p]
Link(p, q) == [task |-> "link", first |-> p, second |-> q]
HalfUp(n) == (n + 1) \div 2

BspInit ==
  /\ agenda = <<[task |-> "none"]>> /\ floor = {} /\ tunnel = {} /\ door = {}
  /\ cost = <<>> /\ fresh = {} /\ way = <<>>

StartBsp ==
  /\ agenda = <<[task |-> "none"]>>
  /\ agenda' = <<Build(Part(0, BlockWidth, 0, BlockHeight))>>
  /\ UNCHANGED <<floor, tunnel, door, digVars>>

-----------------------------------------------------------------------------
(* Splitting and carving.                                                   *)

\* The ways a part may be split; none when it is small enough for a room.
Orientations(p) ==
  LET w == p.r - p.l
      h == p.b - p.t
  IN  IF w <= MaxPartWidth /\ h <= MaxPartHeight THEN {}
      ELSE IF h <= MaxPartHeight THEN {"vertical"}
      ELSE IF w <= MaxPartWidth THEN {"horizontal"}
      ELSE IF 2 * w >= 3 * h THEN {"vertical"}
      ELSE IF 2 * h >= 3 * w THEN {"horizontal"}
      ELSE {"vertical", "horizontal"}

SplitPart ==
  /\ agenda # <<>> /\ Head(agenda).task = "build"
  /\ LET p == Head(agenda).part
         Halve(first, second) ==
           agenda' = <<Build(first), Build(second), Link(first, second)>> \o Tail(agenda)
     IN  \/ /\ "vertical" \in Orientations(p)
            /\ \E s \in Draw(p.l + MinPartSpan + 1, p.r - MinPartSpan) :
                 Halve([p EXCEPT !.r = s - 1], [p EXCEPT !.l = s])
         \/ /\ "horizontal" \in Orientations(p)
            /\ \E s \in Draw(p.t + MinPartSpan + 1, p.b - MinPartSpan) :
                 Halve([p EXCEPT !.b = s - 1], [p EXCEPT !.t = s])
  /\ UNCHANGED <<floor, tunnel, door, digVars>>

CarveRoom ==
  /\ agenda # <<>> /\ Head(agenda).task = "build"
  /\ LET p == Head(agenda).part
         w == p.r - p.l
         h == p.b - p.t
     IN  /\ Orientations(p) = {}
         /\ \E top \in Draw(p.t + 1, p.b - HalfUp(h) - 1), bottom \in Draw(p.t + HalfUp(h) + 1, p.b - 1),
               left \in Draw(p.l + 1, p.r - HalfUp(w) - 1), right \in Draw(p.l + HalfUp(w) + 1, p.r - 1) :
              floor' = floor \cup ((left..right) \X (top..bottom))
  /\ agenda' = Tail(agenda)
  /\ UNCHANGED <<tunnel, door, digVars>>

-----------------------------------------------------------------------------
(* Linking. A passage is a function from numbers to its cells, in order.    *)

\* The cells of a part's rooms, which is what is linked.
Rooms(p) == floor \cap PartCells(p)
Open == floor \cup tunnel \cup door

\* Mutant: the passage stops a cell before the second room.
BetweenShort(low, high) == (low + 1)..(high - 2)

Between(low, high) == (low + 1)..(high - 1)

\* The straight passages between the facing edges of two sets of rooms, along
\* the axis given: each line that both edges lie on may be drawn.
StraightPassages(a, b, axis) ==
  LET line(c) == c[3 - axis]
      far == Max({c[axis] : c \in a})
      near == Min({c[axis] : c \in b})
      lines == {line(c) : c \in {c \in a : c[axis] = far}}
                 \cap {line(c) : c \in {c \in b : c[axis] = near}}
      nth(l) == Cardinality({m \in lines : m < l})
      span == IF Min({c[axis] : c \in a}) < near THEN Between(far, near)
              ELSE Between(Max({c[axis] : c \in b}), Min({c[axis] : c \in a}))
      cell(along, across) == IF axis = 1 THEN <<along, across>> ELSE <<across, along>>
  IN  {[i \in span |-> cell(i, l)] : l \in {l \in lines : nth(l) \in Draw(0, Cardinality(lines) - 1)}}

\* The middle one of the cells with passage terrain on two opposite sides.
DoorIn(passage, cells) ==
  LET terrain == (Open \cap cells) \cup {passage[i] : i \in DOMAIN passage}
      Suitable(c) == \/ {<<c[1] - 1, c[2]>>, <<c[1] + 1, c[2]>>} \subseteq terrain
                     \/ {<<c[1], c[2] - 1>>, <<c[1], c[2] + 1>>} \subseteq terrain
      valid == {i \in DOMAIN passage : Suitable(passage[i])}
  IN  {passage[i] : i \in {i \in valid : Cardinality({j \in valid : j < i}) = Cardinality(valid) \div 2}}

\* replaceTilesWithPassages
LinkAlong(passage, a, b) ==
  LET cells == {passage[i] : i \in DOMAIN passage}
      chosen == DoorIn(passage, PartCells(a) \cup PartCells(b))
  IN  /\ floor' = floor \ cells
      /\ tunnel' = (tunnel \cup cells) \ chosen
      /\ door' = (door \ cells) \cup chosen
      /\ agenda' = Tail(agenda)

Rows(a, b) == StraightPassages(Rooms(a), Rooms(b), 1)
Columns(a, b) == StraightPassages(Rooms(a), Rooms(b), 2)

LinkHalves ==
  /\ agenda # <<>> /\ Head(agenda).task = "link" /\ way = <<>>
  /\ LET a == Head(agenda).first
         b == Head(agenda).second
     IN  \E passage \in IF Rows(a, b) # {} THEN Rows(a, b) ELSE Columns(a, b) :
           LinkAlong(passage, a, b)
  /\ UNCHANGED digVars

-----------------------------------------------------------------------------
(* Digging, where edges do not face each other.                             *)

\* The floors that are drawn to be joined, which the code numbers row by row.
Drawn(rooms) ==
  LET Before(c, d) == d[2] < c[2] \/ (d[2] = c[2] /\ d[1] < c[1])
      nth == [c \in rooms |-> Cardinality({d \in rooms : Before(c, d)})]
  IN  {c \in rooms : nth[c] \in Draw(0, Cardinality(rooms) - 1)}

StartDigging ==
  /\ agenda # <<>> /\ Head(agenda).task = "link" /\ way = <<>>
  /\ LET a == Head(agenda).first
         b == Head(agenda).second
     IN  /\ Rows(a, b) = {} /\ Columns(a, b) = {}
         /\ \E start \in Drawn(Rooms(a)), end \in Drawn(Rooms(b)) :
              cost' = [c \in {start} |-> 0] /\ fresh' = {start} /\ way' = <<end>>
  /\ UNCHANGED <<agenda, floor, tunnel, door>>

Diggable == PartCells(Head(agenda).first) \cup PartCells(Head(agenda).second)

\* A wall costs a thousand, anything else one.
Weight(c) == IF c \in Open THEN 1 ELSE 1000

\* dijkstra, all cells at once: costs are lowered next to those just lowered.
LowerCosts ==
  /\ way # <<>> /\ fresh # {}
  /\ LET Offer(c) == Weight(c) + Min({cost[d] : d \in Beside(c) \cap fresh})
         better == {c \in Diggable : /\ Beside(c) \cap fresh # {}
                                     /\ c \in DOMAIN cost => Offer(c) < cost[c]}
     IN  /\ cost' = [c \in DOMAIN cost \cup better |-> IF c \in better THEN Offer(c) ELSE cost[c]]
         /\ fresh' = better
  /\ UNCHANGED <<agenda, floor, tunnel, door, way>>

Cheaper(d, e) == \/ cost[d] < cost[e]
                 \/ cost[d] = cost[e] /\ (d[2] < e[2] \/ (d[2] = e[2] /\ d[1] <= e[1]))

\* dijkstraPath: from the end backwards, each time to the cheapest neighbour.
\* Keys break ties in the code, rows and columns here.
StepBack ==
  /\ way # <<>> /\ fresh = {} /\ cost[way[Len(way)]] # 0
  /\ LET near == Beside(way[Len(way)]) \cap DOMAIN cost
     IN  way' = Append(way, CHOOSE c \in near : \A d \in near : Cheaper(c, d))
  /\ UNCHANGED <<agenda, floor, tunnel, door, cost, fresh>>

\* The walls on the way become the passage.
DigWay ==
  /\ way # <<>> /\ fresh = {} /\ cost[way[Len(way)]] = 0
  /\ LinkAlong([i \in {i \in DOMAIN way : way[i] \notin Open} |-> way[i]],
               Head(agenda).first, Head(agenda).second)
  /\ cost' = <<>> /\ fresh' = {} /\ way' = <<>>

BspNext == SplitPart \/ CarveRoom \/ LinkHalves \/ StartDigging \/ LowerCosts \/ StepBack \/ DigWay

BspSpec == BspInit /\ [][StartBsp \/ BspNext]_bspVars

-----------------------------------------------------------------------------
\* Whenever a link has been made everything in its two halves is joined, so at
\* the end a walker comes from any room to any other; the outer wall of the
\* level stays whole; and every door stands between two cells one can walk on
\* (doorVariantForPassage).
LevelHoldsTogether ==
  /\ agenda = <<>> => Reached(Open, CHOOSE c \in Open : TRUE) = Open
  /\ Open \subseteq (1..(BlockWidth - 1)) \X (1..(BlockHeight - 1))
  /\ \A d \in door : \/ {<<d[1] - 1, d[2]>>, <<d[1] + 1, d[2]>>} \subseteq Open
                     \/ {<<d[1], d[2] - 1>>, <<d[1], d[2] + 1>>} \subseteq Open
=============================================================================
