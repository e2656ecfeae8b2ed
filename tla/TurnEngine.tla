------------------------------ MODULE TurnEngine ------------------------------
(***************************************************************************)
(* One turn of the game (gameloop.ts, ai/ai.ts, activeRegion.ts,           *)
(* offscreen.ts, actions.ts, campgroundActions.ts): every campground       *)
(* person near the player plans against the world as it was when the turn  *)
(* began, the plans are carried out one after the other against a movement *)
(* world to which only the person who has just acted is written back, the  *)
(* player's own action comes last, and a few of the people far away then   *)
(* take a step. A turn is one transition of the stored game; its steps are *)
(* separate actions here because what goes wrong goes wrong between them.  *)
(*                                                                         *)
(* Hashes of turn and key decide in the code which of several permitted    *)
(* steps a person takes: here any of them. A cell is <<x, y, z>>; the      *)
(* surface is a Width x Height grid with z = 0.                            *)
(***************************************************************************)
EXTENDS CampgroundRoute, SequencesExt

CONSTANTS
  Width, Height,          \* the size of the campground
  Road, Walls, Doors,     \* cells of the surface; what is left is floor
  Dungeon,                \* the cells of the first dungeon level
  StairsDown, StairsUp, Arrival,
  Player,
  Npcs,                   \* a sequence: the people in the order of their keys
  Role,                   \* "resident" | "traveler" | "inert"
  Home,                   \* where each person starts and where residents live
  Stops,                  \* the destinations of each traveler
  Places,                 \* the entrances of the discovered camps and landmarks
  ViewWidth, ViewHeight, ActiveMargin,
  Budget,                 \* off-screen people served in a turn
  HomeRadius

Surface == (0..(Width - 1)) \X (0..(Height - 1)) \X {0}
Cells == Surface \cup Dungeon
People == ToSet(Npcs)
Creatures == People \cup {Player}

ASSUME GridAssumption ==
  /\ Width \in Nat \ {0} /\ Height \in Nat \ {0}
  /\ ViewWidth \in Nat \ {0} /\ ViewHeight \in Nat \ {0} /\ ActiveMargin \in Nat
  /\ Road \cup Walls \cup Doors \cup {StairsDown} \subseteq Surface
  /\ Walls \cap (Road \cup Doors \cup {StairsDown}) = {}
  /\ Dungeon \subseteq Int \X Int \X {1} /\ {StairsUp, Arrival} \subseteq Dungeon
  /\ StairsDown \notin Doors
ASSUME PeopleAssumption ==
  /\ Npcs \in Seq(People) /\ Player \notin People
  /\ Role \in [People -> {"resident", "traveler", "inert"}]
  /\ Home \in [People -> Cells] /\ IsInjective(Home)
  /\ \A n \in People : Home[n] \notin Walls \cup Doors \cup {StairsDown, Arrival}
  /\ Stops \in [People -> SUBSET Surface] /\ Places \subseteq Surface
  /\ Budget \in Nat \ {0} /\ HomeRadius \in Nat

VARIABLES
  at,       \* where each creature stands
  open,     \* the open doors
  travel,   \* activeTravel: the destination, cached path and next index, or None
  cursor,   \* lazyOffscreenCursor
  phase,    \* "idle" between turns, "people" and "lazy" within one
  waiting,  \* people whose plan has not been carried out
  roster,   \* off-screen people not yet served in this turn
  sight,    \* the cells of the planning world
  frozen,   \* the creatures of the planning world, where they stood
  seen,     \* the creatures of the movement world, where it has them
  told      \* what the last landmark travel step of this turn reported

vars == <<at, open, travel, cursor, phase, waiting, roster, sight, frozen, seen, told>>

NoOne == [a \in {} |-> StairsDown]
Passable == Cells \ (Walls \cup (Doors \ open))
Occupied(world) == {world[a] : a \in DOMAIN world}
Within(positions, region) == Restrict(positions, {a \in DOMAIN positions : positions[a] \in region})

-----------------------------------------------------------------------------
(* The active region around the player. In the dungeon there is none: the   *)
(* level has no entity in the campground's far corner, and planning and     *)
(* movement then use the whole world.                                       *)

Clamp(v, low, high) == Least(Greatest(v, low), high)

Bounds(p, margin) ==
  LET left == Clamp(p[1] - ViewWidth \div 2, 0, Greatest(0, Width - ViewWidth))
      top == Clamp(p[2] - ViewHeight \div 2, 0, Greatest(0, Height - ViewHeight))
  IN  {c \in Cells : /\ c[3] = p[3]
                     /\ left - margin <= c[1] /\ c[1] < left + ViewWidth + margin
                     /\ top - margin <= c[2] /\ c[2] < top + ViewHeight + margin}

HasRegion(p) == p[3] = 0
ActorCells == [p \in Cells |-> IF HasRegion(p) THEN Bounds(p, ActiveMargin) ELSE Cells]
CollisionCells == [p \in Cells |-> IF HasRegion(p) THEN Bounds(p, ActiveMargin + 1) ELSE Cells]

InOrderOfKeys(people) ==
  LET upTo[i \in 0..Len(Npcs)] ==
        IF i = 0 THEN <<>>
        ELSE IF Npcs[i] \in people THEN Append(upTo[i - 1], Npcs[i]) ELSE upTo[i - 1]
  IN  upTo[Len(Npcs)]

\* The people beyond the region, in the order of their keys.
Offscreen(positions) ==
  LET p == positions[Player]
      beyond == {n \in People : positions[n][3] = p[3] /\ positions[n] \notin CollisionCells[p]}
  IN  IF HasRegion(p) THEN InOrderOfKeys(beyond) ELSE <<>>

-----------------------------------------------------------------------------
(* What a person may decide, who sees the given cells and the creatures of  *)
(* "world" in them.                                                         *)

Adjacent == [p \in Cells |-> {Shift(p, d) : d \in Deltas} \cap Cells]
OpenTo(cells, world, p) == p \in cells \cap Passable /\ p \notin Occupied(world)

RoadOrShoulder(cells, p) ==
  /\ p \in cells \cap Passable
  /\ p \in Road \/ \E c \in Adjacent[p] \cap cells \cap Road : Straight(p, c)

ResidentSteps(n, cells, world) ==
  LET here == at[n]
      steps == {p \in Adjacent[here] : OpenTo(cells, world, p)}
      homeward == {p \in steps : Manhattan(p, Home[n]) < Manhattan(here, Home[n])}
  IN  IF Home[n][3] # here[3] THEN {here}
      ELSE IF Chebyshev(here, Home[n]) <= HomeRadius
           THEN {here} \cup {p \in steps : Chebyshev(p, Home[n]) <= HomeRadius}
      ELSE IF homeward # {} THEN homeward ELSE {here}

TravelerSteps(n, cells, world) ==
  LET here == at[n]
      steps == {p \in Adjacent[here] : RoadOrShoulder(cells, p) /\ OpenTo(cells, world, p)}
      nearest(d) == {p \in steps : /\ Manhattan(p, d) < Manhattan(here, d)
                                   /\ \A q \in steps : Manhattan(p, d) <= Manhattan(q, d)}
  IN  IF RoadOrShoulder(cells, here)
      THEN {here} \cup UNION {nearest(d) : d \in Stops[n]} ELSE {here}

Steps(n, cells, world) ==
  IF at[n][3] # 0 \/ Role[n] = "inert" THEN {at[n]}
  ELSE IF Role[n] = "resident" THEN ResidentSteps(n, cells, world)
  ELSE TravelerSteps(n, cells, world)

-----------------------------------------------------------------------------
(* Moving. A step into a closed door opens it. Only terrain and creatures   *)
(* of the movement world are looked at.                                     *)

Enterable(p, cells) == p \in cells \cap Passable /\ p \notin Occupied(seen)

Walk(a, to, cells) ==
  IF to \in Doors \ open
  THEN open' = open \cup {to} /\ UNCHANGED at
  ELSE /\ at' = IF Enterable(to, cells) THEN [at EXCEPT ![a] = to] ELSE at
       /\ UNCHANGED open

\* Mutant: everybody goes on seeing the world of the turn's beginning.
SyncedNever(a, cells) == seen

\* syncEntityIntoBoundedWorld for the creature that has just acted.
Synced(a, cells) ==
  IF at'[a] \in cells
  THEN [b \in {a} \cup DOMAIN seen |-> IF b = a THEN at'[a] ELSE seen[b]]
  ELSE Restrict(seen, DOMAIN seen \ {a})

\* Plans that come to nothing are filtered out before any is carried out.
StartTurn ==
  LET cells == ActorCells[at[Player]]
      known == Within(at, cells)
  IN  /\ phase = "idle"
      /\ phase' = "people"
      /\ waiting' = {n \in People : at[n] \in cells /\ Steps(n, cells, known) # {at[n]}}
      /\ sight' = cells
      /\ frozen' = known
      /\ seen' = Within(at, CollisionCells[at[Player]])
      /\ told' = "nothing"
      /\ UNCHANGED <<at, open, travel, cursor, roster>>

PersonActs(n) ==
  LET cells == CollisionCells[at[Player]]
  IN  /\ phase = "people" /\ n \in waiting
      /\ \E to \in Steps(n, sight, frozen) :
            IF to = at[n] THEN UNCHANGED <<at, open>> ELSE Walk(n, to, cells)
      /\ waiting' = waiting \ {n}
      /\ seen' = Synced(n, cells)
      /\ UNCHANGED <<travel, cursor, phase, roster, sight, frozen, told>>

-----------------------------------------------------------------------------
(* The end of a turn: the lazy step picks the people to serve from where    *)
(* the player now stands. They plan against the cells next to all of them.  *)

Around(names, positions) == UNION {{positions[n]} \cup Adjacent[positions[n]] : n \in names}

\* The next Budget people from the cursor on, round and round.
Served(far) ==
  [i \in 1..Least(Budget, Len(far)) |-> far[1 + (((cursor % Len(far)) + i - 1) % Len(far))]]

\* Mutant: every turn begins with the first of the list.
NextCursorReset(far) == 0

NextCursor(far) ==
  IF far = <<>> THEN 0 ELSE ((cursor % Len(far)) + Least(Budget, Len(far))) % Len(far)

Rested == phase' = "idle" /\ sight' = {} /\ frozen' = NoOne /\ seen' = NoOne

AfterPlayer ==
  LET far == Offscreen(at')
  IN  /\ UNCHANGED waiting
      /\ roster' = Served(far)
      /\ cursor' = IF HasRegion(at'[Player]) THEN NextCursor(far) ELSE cursor
      /\ IF far = <<>> THEN Rested
         ELSE /\ phase' = "lazy"
              /\ sight' = Around(ToSet(roster'), at')
              /\ frozen' = Within(at', sight')
              /\ seen' = frozen'

\* Mutant: only the inner region is kept closed to people from afar.
KeptOutOfActorCells(to) == to \in ActorCells[at[Player]]

\* Nobody steps from outside into the region that the next turn will move.
KeptOut(to) == to \in CollisionCells[at[Player]]

Serve(n) ==
  /\ phase = "lazy" /\ roster # <<>> /\ n = Head(roster)
  /\ \E to \in Steps(n, sight, frozen) :
        IF to = at[n] \/ KeptOut(to) THEN UNCHANGED <<at, open>>
        ELSE Walk(n, to, sight)
  /\ roster' = Tail(roster)
  /\ IF Len(roster) = 1 THEN Rested
     ELSE seen' = Synced(n, Cells) /\ UNCHANGED <<phase, sight, frozen>>
  /\ UNCHANGED <<travel, cursor, waiting, told>>

-----------------------------------------------------------------------------
(* The player's action, the last of the turn's plans.                       *)

PlayersTurn == phase = "people" /\ waiting = {}
Quiet == UNCHANGED <<travel, told>>

Rests == PlayersTurn /\ UNCHANGED <<at, open>> /\ Quiet /\ AfterPlayer

Walks(d) ==
  /\ PlayersTurn
  /\ Shift(at[Player], d) \in Cells
  /\ Walk(Player, Shift(at[Player], d), CollisionCells[at[Player]])
  /\ Quiet /\ AfterPlayer

\* Whether somebody stands in the door is looked up in the whole world.
SetsDoor(d, wanted) ==
  LET door == Shift(at[Player], d)
  IN  /\ PlayersTurn
      /\ door \in Doors
      /\ open' = IF wanted = "open" THEN open \cup {door}
                 ELSE IF door \in Occupied(at) THEN open ELSE open \ {door}
      /\ UNCHANGED at /\ Quiet /\ AfterPlayer

\* The stairs ask nobody who stands at their other end.
TakesStairs ==
  /\ PlayersTurn
  /\ at[Player] \in {StairsDown, StairsUp}
  /\ at' = [at EXCEPT ![Player] = IF @ = StairsDown THEN Arrival ELSE StairsDown]
  /\ UNCHANGED open /\ Quiet /\ AfterPlayer

-----------------------------------------------------------------------------
(* Landmark travel: one step along the cached path when the player stands   *)
(* where the path expects it and its next step is legal, else along a path  *)
(* searched anew in the whole world as it is now.                           *)

FreeAmong(positions) == (Passable \ {positions[a] : a \in DOMAIN positions \ {Player}})
LegalNow(p, q) == IsLegalStep(FreeAmong(seen) \cap CollisionCells[p], p, q)
\* Mutant: people are not in the way of a route.
RouteGridThroughPeople == (Passable \cap Surface) \cup {at[Player]}

RouteGrid == (FreeAmong(at) \cap Surface) \cup {at[Player]}
RouteNow(goal) == Route(RouteGrid, Road, at[Player], goal)

Cached(goal) ==
  IF travel # None /\ travel.to = goal /\ travel.path[travel.next - 1] = at[Player]
     /\ LegalNow(at[Player], travel.path[travel.next])
  THEN travel
  ELSE [to |-> goal, path |-> RouteNow(goal), next |-> 2]

Onward(way) == IF way.next = Len(way.path) THEN None ELSE [way EXCEPT !.next = @ + 1]

TravelsTo(goal) ==
  /\ PlayersTurn
  /\ UNCHANGED open
  /\ IF at[Player][3] # 0
     THEN travel' = None /\ told' = "unknown" /\ UNCHANGED at
     ELSE IF at[Player] = goal
     THEN travel' = None /\ told' = "arrived" /\ UNCHANGED at
     ELSE LET way == Cached(goal)
          IN  IF Len(way.path) >= way.next /\ LegalNow(at[Player], way.path[way.next])
              THEN /\ at' = [at EXCEPT ![Player] = way.path[way.next]]
                   /\ travel' = Onward(way)
                   /\ told' = "moved"
              ELSE travel' = None /\ told' = "blocked" /\ UNCHANGED at
  /\ AfterPlayer

-----------------------------------------------------------------------------
Init ==
  /\ at = [a \in Creatures |-> IF a = Player THEN StairsDown ELSE Home[a]]
  /\ open = {} /\ travel = None /\ cursor = 0
  /\ phase = "idle" /\ waiting = {} /\ roster = <<>>
  /\ sight = {} /\ frozen = NoOne /\ seen = NoOne /\ told = "nothing"

PlayerActs ==
  \/ Rests
  \/ \E d \in Deltas : Walks(d)
  \/ \E d \in Deltas, wanted \in {"open", "closed"} : SetsDoor(d, wanted)
  \/ TakesStairs
  \/ \E goal \in Places : TravelsTo(goal)

Next ==
  \/ StartTurn
  \/ \E n \in People : PersonActs(n)
  \/ PlayerActs
  \/ \E n \in People : Serve(n)

Spec == Init /\ [][Next]_vars

\* A turn runs to its end within one transition of the stored game, and the
\* properties below speak of a player who goes on playing.
FairSpec == Spec /\ WF_vars(Next)

-----------------------------------------------------------------------------
(* Properties.                                                              *)

TypeOK ==
  /\ at \in [Creatures -> Cells] /\ open \subseteq Doors
  /\ phase \in {"idle", "people", "lazy"} /\ waiting \subseteq People
  /\ ToSet(roster) \subseteq People /\ cursor \in Nat
  /\ DOMAIN frozen \subseteq Creatures /\ DOMAIN seen \subseteq Creatures
  /\ told \in {"nothing", "unknown", "arrived", "blocked", "moved"}
  /\ travel # None => /\ travel.to \in Places
                      /\ travel.next \in 2..Len(travel.path)
                      /\ Last(travel.path) = travel.to

\* No plan made against the world of the turn's beginning puts two creatures
\* on a cell or anybody inside a wall or a closed door. Only the stairs do: who
\* comes up them stands with whoever is at the top (actions.ts:344).
Apart ==
  /\ TypeOK
  /\ \A a \in Creatures : at[a] \in Passable
  /\ \A a, b \in Creatures :
        a # b /\ at[a] = at[b] => Player \in {a, b} /\ at[a] = StairsDown

\* While the player stays, nobody enters or leaves the part of the campground
\* that is served lazily: people near the player stay near, and people far
\* away are never moved into the region (offscreen.ts:74).
RegionSealed ==
  [][at'[Player] = at[Player] => Offscreen(at') = Offscreen(at)]_at

\* "Travel is blocked." is said only when no legal route to the destination
\* exists at that moment, and a path searched anew is one of the cheapest.
TravelHonest ==
  [][\A goal \in Places :
       /\ phase = "people" /\ phase' # "people" /\ told' \in {"moved", "blocked"}
       /\ TravelsTo(goal)
       => LET costs == CheapestCosts(RouteGrid, Road, at[Player])
          IN  IF told' = "blocked" THEN goal \notin DOMAIN costs
              ELSE travel' # None /\ travel'.next = 3
                   => PathCost(Road, travel'.path) = costs[goal]]_vars

\* Whoever stays far away is served again and again unless the group far away
\* keeps changing: the cursor, which counts in that group, starves nobody in it.
EverybodyServed ==
  \A n \in People :
    <>[](n \in ToSet(Offscreen(at))) /\ <>[][Offscreen(at') = Offscreen(at)]_at
      => []<>(roster # <<>> /\ Head(roster) = n)

\* If from some turn on the player only travels to one place and nobody else
\* moves, the player gets there unless no legal route leads there: a cached path
\* that has gone stale (campgroundActions.ts:260) leads neither into a dead end
\* nor round in circles.
TravelArrives ==
  \A goal \in Places :
    <>[][/\ \A n \in People : at'[n] = at[n]
         /\ phase = "people" /\ phase' # "people" => TravelsTo(goal)]_vars
      => []<>(\/ at[Player] = goal \/ told = "unknown"
              \/ told = "blocked" /\ goal \notin DOMAIN CheapestCosts(RouteGrid, Road, at[Player]))
=============================================================================
