--------------------------- MODULE FirstDungeonLevel ---------------------------
(***************************************************************************)
(* The first dungeon level (makeFirstDungeonLevel in world.ts): a maze     *)
(* carved by a random depth-first walk from the arrival, the missing flag  *)
(* at the dead end farthest from it, and hippies at dead ends that are not *)
(* too near, one in each band of distance. A cell is <<x, y>>.             *)
(***************************************************************************)
EXTENDS Grid, FiniteSetsExt, Sequences

CONSTANTS
  MazeWidth, MazeHeight,  \* SCREEN_WIDTH, SCREEN_HEIGHT
  HippieCount             \* FIRST_DUNGEON_HIPPIE_COUNT

ASSUME MazeAssumption ==
  /\ MazeWidth \in Nat /\ MazeWidth > 3 /\ MazeHeight \in Nat /\ MazeHeight > 3
  /\ HippieCount \in Nat \ {0}

VARIABLES
  maze,      \* "none" before, "carving", then "furnished" or "failed"
  trail,     \* the stack of the walk, its top first
  corridor,  \* the cells carved
  flag,      \* where the missing flag lies
  hippies    \* where the hippies stand

mazeVars == <<maze, trail, corridor, flag, hippies>>

MazeArrival == <<1, 1>>
MazeCells == {c \in (1..(MazeWidth - 1)) \X (1..(MazeHeight - 2)) : c[1] % 2 = 1 /\ c[2] % 2 = 1}
Beyond(c) == {<<c[1] - 2, c[2]>>, <<c[1] + 2, c[2]>>, <<c[1], c[2] - 2>>, <<c[1], c[2] + 2>>}

MazeInit ==
  /\ maze = "none" /\ trail = <<>> /\ corridor = {} /\ flag = <<>> /\ hippies = {}

StartMaze ==
  /\ maze = "none"
  /\ maze' = "carving" /\ trail' = <<MazeArrival>> /\ corridor' = {MazeArrival}
  /\ UNCHANGED <<flag, hippies>>

Unvisited(c) == (MazeCells \cap Beyond(c)) \ corridor

Dig ==
  /\ maze = "carving" /\ trail # <<>>
  /\ \E next \in Unvisited(Head(trail)) :
       LET here == Head(trail)
           connector == <<(here[1] + next[1]) \div 2, (here[2] + next[2]) \div 2>>
       IN  /\ corridor' = corridor \cup {connector, next}
           /\ trail' = <<next>> \o trail
  /\ UNCHANGED <<maze, flag, hippies>>

Backtrack ==
  /\ maze = "carving" /\ trail # <<>>
  /\ Unvisited(Head(trail)) = {}
  /\ trail' = Tail(trail)
  /\ UNCHANGED <<maze, corridor, flag, hippies>>

-----------------------------------------------------------------------------
(* Furnishing.                                                              *)

DeadEnds ==
  {c \in corridor : c # MazeArrival /\ Cardinality(Beside(c) \cap corridor) = 1}

\* The steps from the arrival to every cell that corridors lead to.
CorridorDistances ==
  LET reach[n \in 0..Cardinality(corridor)] ==
        IF n = 0 THEN [c \in {MazeArrival} |-> 0]
        ELSE LET r == reach[n - 1]
                 ahead == {c \in corridor \ DOMAIN r : Beside(c) \cap DOMAIN r # {}}
             IN  [c \in DOMAIN r \cup ahead |-> IF c \in ahead THEN n ELSE r[c]]
  IN  reach[Cardinality(corridor)]

Nearer(dist, p, q) ==
  \/ dist[p] < dist[q]
  \/ dist[p] = dist[q] /\ (p[2] < q[2] \/ (p[2] = q[2] /\ p[1] <= q[1]))

\* Mutant: the flag at the nearest dead end.
FlagPlaceNearest(dist) == CHOOSE c \in DeadEnds : \A d \in DeadEnds : Nearer(dist, c, d)

FlagPlace(dist) == CHOOSE c \in DeadEnds : \A d \in DeadEnds : Nearer(dist, d, c)

HippieCandidates(dist, place) ==
  {c \in DeadEnds \ {place} : 4 * dist[c] >= Max({dist[d] : d \in corridor})}

\* The index-th of HippieCount bands of the candidates, by their distance.
Band(dist, candidates, index) ==
  LET rank(c) == Cardinality({d \in candidates : d # c /\ Nearer(dist, d, c)})
      n == Cardinality(candidates)
  IN  {c \in candidates : /\ (index * n) \div HippieCount <= rank(c)
                          /\ rank(c) < ((index + 1) * n) \div HippieCount}

Furnish ==
  /\ maze = "carving" /\ trail = <<>>
  /\ LET dist == CorridorDistances
         place == FlagPlace(dist)
         candidates == HippieCandidates(dist, place)
         bands == {Band(dist, candidates, i) : i \in 0..(HippieCount - 1)}
     IN  /\ DeadEnds # {}
         /\ Cardinality(candidates) >= HippieCount
         /\ maze' = "furnished" /\ flag' = place
         /\ \E chosen \in [bands -> candidates] :
              /\ \A b \in bands : chosen[b] \in b
              /\ hippies' = {chosen[b] : b \in bands}
  /\ UNCHANGED <<trail, corridor>>

\* Too few dead ends: the level is not made, and with it the step downstairs.
RefuseMaze ==
  /\ maze = "carving" /\ trail = <<>>
  /\ \/ DeadEnds = {}
     \/ LET dist == CorridorDistances
        IN  Cardinality(HippieCandidates(dist, FlagPlace(dist))) < HippieCount
  /\ maze' = "failed"
  /\ UNCHANGED <<trail, corridor, flag, hippies>>

MazeNext == Dig \/ Backtrack \/ Furnish \/ RefuseMaze

MazeSpec == MazeInit /\ [][StartMaze \/ MazeNext]_mazeVars

-----------------------------------------------------------------------------
\* A finished maze has every maze cell in it, joined to the arrival by one way
\* only: firstDungeonCorridorCoordinates carves a spanning tree.
PerfectMaze ==
  maze \in {"furnished", "failed"} =>
    /\ MazeCells \subseteq corridor
    /\ Reached(corridor, MazeArrival) = corridor
    /\ Cardinality(corridor) = 2 * Cardinality(MazeCells) - 1

\* The flag lies as far from the arrival as the maze goes and can be fetched
\* without passing a hippie; as many hippies as asked for stand in the maze,
\* none of them in the first quarter of the way.
FlagIsDeepAndFree ==
  maze = "furnished" =>
    LET dist == CorridorDistances
    IN  /\ \A c \in corridor : dist[c] <= dist[flag]
        /\ flag \in Reached(corridor \ hippies, MazeArrival)
        /\ Cardinality(hippies) = HippieCount
        /\ \A h \in hippies : 4 * dist[h] >= dist[flag]

\* The two together: the way to the flag is a maze, long, and free.
FlagAtTheEndOfAMaze == PerfectMaze /\ FlagIsDeepAndFree
=============================================================================
