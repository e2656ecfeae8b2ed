-------------------------- MODULE TurnEngineProofs --------------------------
(***************************************************************************)
(* Nobody runs into anybody, and the region around the player stays closed *)
(* while the player stays: for a campground, a dungeon level and a set of  *)
(* people of any size.                                                     *)
(*                                                                         *)
(* The argument rests on what the movement world of a turn still shows     *)
(* when a plan made earlier is carried out: everybody whose cell may be    *)
(* stepped on, exactly where they stand.                                   *)
(***************************************************************************)
EXTENDS TurnEngine, CampgroundRouteProofs

-----------------------------------------------------------------------------
(* The inductive invariant.                                                *)

Standing ==
  /\ \A a \in Creatures : at[a] \in Passable
  /\ \A a, b \in Creatures :
       a # b /\ at[a] = at[b] => Player \in {a, b} /\ at[a] = StairsDown

\* Nobody but the player changes levels: who lives below never moves.
LevelKept == \A n \in People : at[n][3] = 0 \/ at[n] = Home[n]

\* The movement world has everybody in these cells, where they stand.
Faithful(cells) ==
  /\ DOMAIN seen = {a \in Creatures : at[a] \in cells}
  /\ \A a \in DOMAIN seen : seen[a] = at[a]

Beyond(positions) ==
  {n \in People : /\ positions[n][3] = positions[Player][3]
                  /\ positions[n] \notin CollisionCells[positions[Player]]}

\* Plans are carried out by people inside the region, in a faithful world.
PlansInside ==
  phase = "people" =>
    /\ Faithful(CollisionCells[at[Player]])
    /\ \A n \in waiting : at[n] \in CollisionCells[at[Player]]

\* People are served outside the region, in a faithful world of their own.
ServedOutside ==
  phase = "lazy" =>
    /\ Faithful(sight)
    /\ HasRegion(at[Player])
    /\ \A n \in ToSet(roster) : at[n] \in sight /\ n \in Beyond(at)

\* The cached path is a path to its destination with steps left, and at least
\* its first step has been made.
TravelOK ==
  travel # None =>
    /\ travel \in [to : Places, path : Seq(Cells), next : Nat]
    /\ travel.next \in 3..Len(travel.path) /\ travel.path[Len(travel.path)] = travel.to

IInv ==
  /\ at \in [Creatures -> Cells] /\ open \subseteq Doors
  /\ TypeOK
  /\ roster \in Seq(People)
  /\ TravelOK
  /\ Standing /\ LevelKept /\ PlansInside /\ ServedOutside

-----------------------------------------------------------------------------
(* The order of keys: what InOrderOfKeys computes is a sequence of the      *)
(* people it is given.                                                     *)

Collects(people, f, n) ==
  f = [i \in 0..n |->
         IF i = 0 THEN <<>>
         ELSE IF Npcs[i] \in people THEN Append(f[i - 1], Npcs[i]) ELSE f[i - 1]]

LEMMA CollectsExists ==
  ASSUME NEW people, NEW n \in Nat
  PROVE  \E f : Collects(people, f, n)
<1> DEFINE Failing == {k \in Nat : ~ \E f : Collects(people, f, k)}
<1> SUFFICES Failing = {}
  OBVIOUS
<1>1. SUFFICES ASSUME Failing # {} PROVE FALSE
  OBVIOUS
<1>2. PICK m \in Failing : \A k \in Failing : m <= k
  BY <1>1, LeastNatural
<1>3. CASE m = 0
  <2>1. Collects(people, [i \in 0..0 |-> <<>>], 0)
    BY DEF Collects
  <2>2. QED
    BY <1>3, <2>1
<1>4. CASE m # 0
  <2>1. m - 1 \in Nat /\ m - 1 \notin Failing
    BY <1>2, <1>4
  <2>2. PICK f : Collects(people, f, m - 1)
    BY <2>1
  <2> DEFINE g == [i \in 0..m |->
                     IF i < m THEN f[i]
                     ELSE IF Npcs[m] \in people THEN Append(f[m - 1], Npcs[m]) ELSE f[m - 1]]
  <2>3. ASSUME NEW i \in 0..m
        PROVE  g[i] = IF i = 0 THEN <<>>
                      ELSE IF Npcs[i] \in people THEN Append(g[i - 1], Npcs[i]) ELSE g[i - 1]
    <3>1. CASE i = 0
      BY <1>2, <1>4, <2>2, <3>1 DEF Collects
    <3>2. CASE i # 0 /\ i < m
      <4>1. i \in 0..(m - 1) /\ i - 1 \in 0..m /\ i - 1 < m
        BY <1>2, <3>2
      <4>2. g[i] = f[i] /\ g[i - 1] = f[i - 1]
        BY <3>2, <4>1
      <4>3. f[i] = IF i = 0 THEN <<>>
                   ELSE IF Npcs[i] \in people THEN Append(f[i - 1], Npcs[i]) ELSE f[i - 1]
        BY <2>2, <4>1 DEF Collects
      <4>4. QED
        BY <4>2, <4>3
    <3>3. CASE i = m
      <4>1. g[m - 1] = f[m - 1]
        BY <1>2, <1>4
      <4>2. QED
        BY <1>2, <1>4, <3>3, <4>1
    <3>4. QED
      BY <1>2, <3>1, <3>2, <3>3
  <2>4. Collects(people, g, m)
    BY <2>3 DEF Collects
  <2>5. QED
    BY <2>4
<1>5. QED
  BY <1>3, <1>4

LEMMA KeysInOrder ==
  ASSUME NEW people \in SUBSET People
  PROVE  InOrderOfKeys(people) \in Seq(people)
<1> DEFINE f == CHOOSE g : Collects(people, g, Len(Npcs))
<1>1. Len(Npcs) \in Nat /\ \A i \in 1..Len(Npcs) : Npcs[i] \in People
  BY PeopleAssumption
<1>2. Collects(people, f, Len(Npcs))
  BY <1>1, CollectsExists
<1>3. InOrderOfKeys(people) = f[Len(Npcs)]
  BY DEF InOrderOfKeys, Collects
<1> DEFINE Failing == {i \in 0..Len(Npcs) : f[i] \notin Seq(people)}
<1> HIDE DEF f
<1>4. Failing = {}
  <2>1. SUFFICES ASSUME Failing # {} PROVE FALSE
    OBVIOUS
  <2>2. Failing \in SUBSET Nat
    BY <1>1
  <2>3. PICK m \in Failing : \A k \in Failing : m <= k
    BY <2>1, <2>2, LeastNatural
  <2>4. CASE m = 0
    BY <1>1, <1>2, <2>3, <2>4, EmptySeq DEF Collects
  <2>5. CASE m # 0
    <3>1. m \in 1..Len(Npcs) /\ m - 1 \in 0..Len(Npcs) /\ m - 1 \notin Failing
      BY <1>1, <2>3, <2>5
    <3>2. f[m - 1] \in Seq(people)
      BY <3>1
    <3>3. f[m] = IF Npcs[m] \in people THEN Append(f[m - 1], Npcs[m]) ELSE f[m - 1]
      BY <1>2, <2>3, <2>5, <3>1 DEF Collects
    <3>4. Npcs[m] \in people => Append(f[m - 1], Npcs[m]) \in Seq(people)
      BY <3>2, AppendProperties
    <3>5. QED
      BY <2>3, <3>2, <3>3, <3>4
  <2>6. QED
    BY <2>4, <2>5
<1>5. QED
  BY <1>1, <1>3, <1>4

-----------------------------------------------------------------------------
(* Cells and what can be stood on.                                         *)

LEMMA SurfaceOrBelow ==
  ASSUME NEW p \in Cells
  PROVE  /\ p[1] \in Int /\ p[2] \in Int /\ p[3] \in {0, 1}
         /\ p[3] = 0 <=> p \in Surface
         /\ p[3] = 1 <=> p \in Dungeon
         /\ p = <<p[1], p[2], p[3]>>
<1>1. CASE p \in Surface
  <2>1. p \in Int \X Int \X {0}
    BY <1>1, GridAssumption DEF Surface
  <2>2. p \notin Dungeon
    BY <2>1, GridAssumption
  <2>3. QED
    BY <1>1, <2>1, <2>2
<1>2. CASE p \in Dungeon
  <2>1. p \in Int \X Int \X {1}
    BY <1>2, GridAssumption
  <2>2. p \notin Surface
    BY <2>1 DEF Surface
  <2>3. QED
    BY <1>2, <2>1, <2>2
<1>3. QED
  BY <1>1, <1>2 DEF Cells

\* Both ends of the stairs can always be stood on.
LEMMA StairsAreFree ==
  ASSUME open \subseteq Doors
  PROVE  /\ StairsDown \in Passable /\ StairsDown[3] = 0
         /\ Arrival \in Passable /\ Arrival[3] = 1
<1>1. StairsDown \in Surface /\ StairsDown \notin Walls /\ StairsDown \notin Doors
  BY GridAssumption
<1>2. StairsDown \in Cells /\ StairsDown[3] = 0
  BY <1>1, SurfaceOrBelow DEF Cells
<1>3. Arrival \in Dungeon
  BY GridAssumption
<1>4. Arrival \in Cells /\ Arrival[3] = 1 /\ Arrival \notin Surface
  <2>1. Arrival \in Cells
    BY <1>3 DEF Cells
  <2>2. QED
    BY <1>3, <2>1, SurfaceOrBelow
<1>5. Arrival \notin Walls /\ Arrival \notin Doors
  BY <1>4, GridAssumption
<1>6. QED
  BY <1>1, <1>2, <1>4, <1>5 DEF Passable

LEMMA AdjacentStays ==
  ASSUME NEW p \in Cells, NEW q \in Adjacent[p]
  PROVE  q \in Cells /\ q[3] = p[3]
<1>1. q \in {Shift(p, d) : d \in Deltas} \intersect Cells
  BY DEF Adjacent
<1>2. PICK d \in Deltas : q = Shift(p, d)
  BY <1>1
<1>3. q[3] = p[3]
  BY <1>2 DEF Shift
<1>4. QED
  BY <1>1, <1>3

\* A person's step leads to a cell of the same level, and below to none.
LEMMA StepsStay ==
  ASSUME NEW n \in People, at \in [Creatures -> Cells], NEW cells, NEW world,
         NEW to \in Steps(n, cells, world)
  PROVE  to = at[n] \/ (to \in Cells /\ at[n][3] = 0 /\ to[3] = 0)
<1>1. at[n] \in Cells
  BY DEF Creatures
<1>2. CASE at[n][3] # 0 \/ Role[n] = "inert"
  BY <1>2 DEF Steps
<1>3. CASE ~(at[n][3] # 0 \/ Role[n] = "inert")
  <2>1. to = at[n] \/ to \in Adjacent[at[n]]
    <3>1. CASE Role[n] = "resident"
      <4>1. to \in ResidentSteps(n, cells, world)
        BY <1>3, <3>1 DEF Steps
      <4>2. QED
        BY <4>1 DEF ResidentSteps
    <3>2. CASE Role[n] # "resident"
      <4>1. to \in TravelerSteps(n, cells, world)
        BY <1>3, <3>2 DEF Steps
      <4>2. QED
        BY <4>1 DEF TravelerSteps
    <3>3. QED
      BY <3>1, <3>2
  <2>2. QED
    BY <1>1, <1>3, <2>1, AdjacentStays
<1>4. QED
  BY <1>2, <1>3

-----------------------------------------------------------------------------
(* Moving.                                                                 *)

\* Nobody stands on an enterable cell of a world that is faithful there.
LEMMA EnterableIsFree ==
  ASSUME NEW region, NEW cells, cells \subseteq region, Faithful(region),
         NEW to, Enterable(to, cells), NEW b \in Creatures
  PROVE  to \in cells /\ to \in Passable /\ at[b] # to
<1>1. to \in cells /\ to \in Passable /\ to \notin Occupied(seen)
  BY DEF Enterable
<1>2. ASSUME at[b] = to PROVE FALSE
  <2>1. b \in DOMAIN seen /\ seen[b] = to
    BY <1>1, <1>2 DEF Faithful
  <2>2. QED
    BY <1>1, <2>1 DEF Occupied
<1>3. QED
  BY <1>1, <1>2

\* Stepping onto a free cell keeps everybody apart.
LEMMA SteppingIsSafe ==
  ASSUME at \in [Creatures -> Cells], Standing,
         NEW a \in Creatures, NEW to \in Passable,
         \A b \in Creatures \ {a} : at[b] # to,
         at' = [at EXCEPT ![a] = to], open' = open
  PROVE  at' \in [Creatures -> Cells] /\ Standing'
<1>1. to \in Cells
  BY DEF Passable
<1>2. at' \in [Creatures -> Cells] /\ at'[a] = to /\ \A b \in Creatures \ {a} : at'[b] = at[b]
  BY <1>1
<1>3. Passable' = Passable
  BY DEF Passable
<1>4. \A b \in Creatures : at'[b] \in Passable'
  BY <1>2, <1>3 DEF Standing
<1>5. ASSUME NEW b \in Creatures, NEW c \in Creatures, b # c, at'[b] = at'[c]
      PROVE  Player \in {b, c} /\ at'[b] = StairsDown
  <2>1. b # a /\ c # a
    BY <1>2, <1>5
  <2>2. at[b] = at[c] /\ at'[b] = at[b]
    BY <1>2, <1>5, <2>1
  <2>3. QED
    BY <1>5, <2>2 DEF Standing
<1>6. QED
  BY <1>2, <1>4, <1>5 DEF Standing

\* So does opening a door.
LEMMA OpeningIsSafe ==
  ASSUME Standing, NEW door \in Doors, at' = at, open' = open \union {door}
  PROVE  Standing'
<1>1. Passable \subseteq Passable'
  BY DEF Passable
<1>2. QED
  BY <1>1 DEF Standing

LEMMA WalkingIsSafe ==
  ASSUME at \in [Creatures -> Cells], open \subseteq Doors, Standing,
         NEW region, NEW cells, cells \subseteq region, Faithful(region),
         NEW a \in Creatures, NEW to, Walk(a, to, cells)
  PROVE  /\ at' \in [Creatures -> Cells] /\ open' \subseteq Doors /\ Standing'
         /\ at' = at \/ (at' = [at EXCEPT ![a] = to] /\ to \in cells /\ to # at[a])
<1>1. CASE to \in Doors \ open
  BY <1>1, OpeningIsSafe DEF Walk
<1>2. CASE to \notin Doors \ open /\ ~Enterable(to, cells)
  <2>1. at' = at /\ open' = open
    BY <1>2 DEF Walk
  <2>2. QED
    BY <2>1 DEF Standing, Passable
<1>3. CASE to \notin Doors \ open /\ Enterable(to, cells)
  <2>1. at' = [at EXCEPT ![a] = to] /\ open' = open
    BY <1>3 DEF Walk
  <2>2. to \in cells /\ to \in Passable /\ \A b \in Creatures : at[b] # to
    BY <1>3, EnterableIsFree
  <2>3. QED
    BY <2>1, <2>2, SteppingIsSafe
<1>4. QED
  BY <1>1, <1>2, <1>3

-----------------------------------------------------------------------------
(* The worlds that actions see.                                            *)

LEMMA WithinIsRestriction ==
  ASSUME NEW positions, NEW region
  PROVE  /\ DOMAIN Within(positions, region) = {a \in DOMAIN positions : positions[a] \in region}
         /\ \A a \in DOMAIN Within(positions, region) : Within(positions, region)[a] = positions[a]
  BY DEF Within, Restrict

\* Only the one who has acted is written back, and that is enough.
LEMMA SyncedIsFaithful ==
  ASSUME at' \in [Creatures -> Cells], at \in [Creatures -> Cells],
         NEW region, Faithful(region), NEW a \in Creatures, NEW cells,
         \A b \in Creatures \ {a} : at'[b] = at[b],
         at'[a] \in region <=> at'[a] \in cells,
         seen' = Synced(a, cells)
  PROVE  /\ DOMAIN seen' = {b \in Creatures : at'[b] \in region}
         /\ \A b \in DOMAIN seen' : seen'[b] = at'[b]
<1>1. CASE at'[a] \in cells
  <2>1. seen' = [b \in {a} \union DOMAIN seen |-> IF b = a THEN at'[a] ELSE seen[b]]
    BY <1>1 DEF Synced
  <2>2. DOMAIN seen' = {a} \union DOMAIN seen
    BY <2>1
  <2>3. ASSUME NEW b \in Creatures PROVE b \in DOMAIN seen' <=> at'[b] \in region
    BY <1>1, <2>2 DEF Faithful
  <2>4. ASSUME NEW b \in DOMAIN seen' PROVE b \in Creatures /\ seen'[b] = at'[b]
    BY <2>1, <2>2 DEF Faithful
  <2>5. QED
    BY <2>3, <2>4
<1>2. CASE at'[a] \notin cells
  <2>1. seen' = [b \in DOMAIN seen \ {a} |-> seen[b]]
    BY <1>2 DEF Synced, Restrict
  <2>2. DOMAIN seen' = DOMAIN seen \ {a}
    BY <2>1
  <2>3. ASSUME NEW b \in Creatures PROVE b \in DOMAIN seen' <=> at'[b] \in region
    BY <1>2, <2>2 DEF Faithful
  <2>4. ASSUME NEW b \in DOMAIN seen' PROVE b \in Creatures /\ seen'[b] = at'[b]
    BY <2>1, <2>2 DEF Faithful
  <2>5. QED
    BY <2>3, <2>4
<1>3. QED
  BY <1>1, <1>2

-----------------------------------------------------------------------------
(* Who is served.                                                          *)

LEMMA OffscreenIsBeyond ==
  ASSUME NEW positions
  PROVE  /\ Offscreen(positions) \in Seq(Beyond(positions))
         /\ Offscreen(positions) # <<>> => HasRegion(positions[Player])
<1>1. Offscreen(positions) =
        IF HasRegion(positions[Player]) THEN InOrderOfKeys(Beyond(positions)) ELSE <<>>
  BY DEF Offscreen, Beyond
<1>2. Beyond(positions) \in SUBSET People
  BY DEF Beyond
<1>3. InOrderOfKeys(Beyond(positions)) \in Seq(Beyond(positions))
  BY <1>2, KeysInOrder
<1>4. <<>> \in Seq(Beyond(positions))
  OBVIOUS
<1>5. QED
  BY <1>1, <1>3, <1>4

LEMMA CursorWithin ==
  ASSUME NEW k \in Nat, NEW n \in Nat, n > 0
  PROVE  k % n \in 0..(n - 1)
  OBVIOUS

LEMMA ServedAreFar ==
  ASSUME NEW S, NEW far \in Seq(S), cursor \in Nat
  PROVE  /\ Served(far) \in Seq(S)
         /\ far # <<>> => Len(Served(far)) > 0
         /\ NextCursor(far) \in Nat
<1>1. Budget \in Nat /\ Budget > 0
  BY PeopleAssumption
<1>2. Len(far) \in Nat
  OBVIOUS
<1>3. PICK n \in Nat : n = Least(Budget, Len(far))
  BY <1>1, <1>2 DEF Least
<1>4. n <= Len(far) /\ (Len(far) > 0 => n > 0)
  BY <1>1, <1>2, <1>3 DEF Least
<1>5. ASSUME Len(far) > 0, NEW i \in 1..n
      PROVE  far[1 + (((cursor % Len(far)) + i - 1) % Len(far))] \in S
  <2>1. PICK c \in Nat : c = cursor % Len(far)
    BY <1>2, <1>5, CursorWithin
  <2>2. c + i - 1 \in Nat
    BY <1>3, <1>5, <2>1
  <2>3. (c + i - 1) % Len(far) \in 0..(Len(far) - 1)
    BY <1>2, <1>5, <2>2, CursorWithin
  <2>4. PICK k \in Nat : k = (c + i - 1) % Len(far) /\ k < Len(far)
    BY <1>2, <2>3
  <2>5. far[1 + k] \in S
    BY <1>2, <2>4
  <2>6. QED
    BY <2>1, <2>4, <2>5
<1>6. Served(far) = [i \in 1..n |-> far[1 + (((cursor % Len(far)) + i - 1) % Len(far))]]
  BY <1>3 DEF Served
<1>7. ASSUME NEW i \in 1..n
      PROVE  far[1 + (((cursor % Len(far)) + i - 1) % Len(far))] \in S
  <2>1. Len(far) > 0
    BY <1>2, <1>3, <1>4
  <2>2. QED
    BY <1>5, <2>1
<1>8. Served(far) \in [1..n -> S]
  BY <1>6, <1>7
<1>9. Served(far) \in Seq(S) /\ Len(Served(far)) = n
  BY <1>3, <1>8
<1>10. NextCursor(far) \in Nat
  <2>1. CASE far = <<>>
    BY <2>1 DEF NextCursor
  <2>2. CASE far # <<>>
    <3>1. Len(far) > 0
      BY <2>2
    <3>2. PICK c \in Nat : c = cursor % Len(far)
      BY <1>2, <3>1, CursorWithin
    <3>3. (c + n) % Len(far) \in Nat
      BY <1>2, <3>1, <3>2, CursorWithin
    <3>4. QED
      BY <1>3, <2>2, <3>2, <3>3 DEF NextCursor
  <2>3. QED
    BY <2>1, <2>2
<1>11. QED
  BY <1>4, <1>9, <1>10

\* The end of the player's action sets up a faithful world for those served.
LEMMA AfterPlayerServes ==
  ASSUME at' \in [Creatures -> Cells], cursor \in Nat, waiting \subseteq People, AfterPlayer
  PROVE  /\ phase' \in {"idle", "lazy"} /\ waiting' \subseteq People
         /\ roster' \in Seq(People) /\ ToSet(roster') \subseteq People /\ cursor' \in Nat
         /\ DOMAIN frozen' \subseteq Creatures /\ DOMAIN seen' \subseteq Creatures
         /\ PlansInside' /\ ServedOutside'
<1>1. PICK far : far = Offscreen(at')
  OBVIOUS
<1>2. PICK B : B = Beyond(at')
  OBVIOUS
<1>3. B \subseteq People /\ far \in Seq(B) /\ (far # <<>> => HasRegion(at'[Player]))
  BY <1>1, <1>2, OffscreenIsBeyond DEF Beyond
<1>4. roster' = Served(far) /\ waiting' = waiting
      /\ cursor' = IF HasRegion(at'[Player]) THEN NextCursor(far) ELSE cursor
  BY <1>1 DEF AfterPlayer
<1>5. roster' \in Seq(B) /\ cursor' \in Nat
  BY <1>3, <1>4, ServedAreFar
<1>6. ToSet(roster') \subseteq B
  BY <1>5 DEF ToSet
<1>7. roster' \in Seq(People) /\ ToSet(roster') \subseteq People
  BY <1>3, <1>5, <1>6
<1>8. CASE far = <<>>
  <2>1. phase' = "idle" /\ frozen' = NoOne /\ seen' = NoOne
    BY <1>1, <1>8 DEF AfterPlayer, Rested
  <2>2. DOMAIN NoOne = {}
    BY DEF NoOne
  <2>3. QED
    BY <1>4, <1>5, <1>7, <2>1, <2>2 DEF PlansInside, ServedOutside
<1>9. CASE far # <<>>
  <2>1. phase' = "lazy" /\ sight' = Around(ToSet(roster'), at')
        /\ frozen' = Within(at', sight') /\ seen' = frozen'
    BY <1>1, <1>9 DEF AfterPlayer
  <2>2. /\ DOMAIN seen' = {a \in Creatures : at'[a] \in sight'}
        /\ \A a \in DOMAIN seen' : seen'[a] = at'[a]
    <3>1. PICK positions, region : positions = at' /\ region = sight'
      OBVIOUS
    <3>2. seen' = Within(positions, region) /\ DOMAIN positions = Creatures
      BY <2>1, <3>1
    <3>3. /\ DOMAIN seen' = {a \in DOMAIN positions : positions[a] \in region}
          /\ \A a \in DOMAIN seen' : seen'[a] = positions[a]
      BY <3>2, WithinIsRestriction
    <3>4. QED
      BY <3>1, <3>2, <3>3
  <2>3. Faithful(sight)'
    BY <2>2 DEF Faithful
  <2>4. \A n \in ToSet(roster') : at'[n] \in sight' /\ n \in Beyond(at')
    BY <1>2, <1>6, <2>1 DEF Around
  <2>5. HasRegion(at'[Player])
    BY <1>3, <1>9
  <2>6. ServedOutside'
    BY <2>3, <2>4, <2>5 DEF ServedOutside
  <2>7. PlansInside'
    BY <2>1 DEF PlansInside
  <2>8. QED
    BY <1>4, <1>5, <1>7, <2>1, <2>2, <2>6, <2>7
<1>10. QED
  BY <1>8, <1>9

-----------------------------------------------------------------------------
(* Whoever plans is also within the region in which moves are looked at.   *)

LEMMA ActorsInRegion ==
  ASSUME NEW p \in Cells
  PROVE  ActorCells[p] \subseteq CollisionCells[p]
<1>1. CASE HasRegion(p)
  <2>1. ActorCells[p] = Bounds(p, ActiveMargin) /\ CollisionCells[p] = Bounds(p, ActiveMargin + 1)
    BY <1>1 DEF ActorCells, CollisionCells
  <2>2. PICK left : left = Clamp(p[1] - ViewWidth \div 2, 0, Greatest(0, Width - ViewWidth))
    OBVIOUS
  <2>3. PICK top : top = Clamp(p[2] - ViewHeight \div 2, 0, Greatest(0, Height - ViewHeight))
    OBVIOUS
  <2>4. left \in Int /\ top \in Int
    <3>1. p[1] \in Int /\ p[2] \in Int
      BY SurfaceOrBelow
    <3>2. ViewWidth \in Int /\ ViewHeight \in Int /\ Width \in Int /\ Height \in Int
      BY GridAssumption
    <3>3. ViewWidth \div 2 \in Int /\ ViewHeight \div 2 \in Int
      BY <3>2
    <3>4. PICK w, h : w = ViewWidth \div 2 /\ h = ViewHeight \div 2
      OBVIOUS
    <3>5. QED
      BY <2>2, <2>3, <3>1, <3>2, <3>3, <3>4 DEF Clamp, Least, Greatest
  <2>5. ASSUME NEW c \in Bounds(p, ActiveMargin) PROVE c \in Bounds(p, ActiveMargin + 1)
    <3>1. c \in Cells /\ c[3] = p[3]
          /\ left - ActiveMargin <= c[1] /\ c[1] < left + ViewWidth + ActiveMargin
          /\ top - ActiveMargin <= c[2] /\ c[2] < top + ViewHeight + ActiveMargin
      BY <2>2, <2>3 DEF Bounds
    <3>2. c[1] \in Int /\ c[2] \in Int
      BY <3>1, SurfaceOrBelow
    <3>3. ViewWidth \in Int /\ ViewHeight \in Int /\ ActiveMargin \in Int
      BY GridAssumption
    <3>4. left - (ActiveMargin + 1) <= c[1] /\ c[1] < left + ViewWidth + (ActiveMargin + 1)
          /\ top - (ActiveMargin + 1) <= c[2] /\ c[2] < top + ViewHeight + (ActiveMargin + 1)
      BY <2>4, <3>1, <3>2, <3>3
    <3>5. QED
      BY <2>2, <2>3, <3>1, <3>4 DEF Bounds
  <2>6. QED
    BY <2>1, <2>5
<1>2. CASE ~HasRegion(p)
  BY <1>2 DEF ActorCells, CollisionCells
<1>3. QED
  BY <1>1, <1>2

-----------------------------------------------------------------------------
(* Every action keeps the invariant.                                       *)

LEMMA InitKeeps == Init => IInv
<1> SUFFICES ASSUME Init PROVE IInv
  OBVIOUS
<1>1. open = {} /\ travel = None /\ cursor = 0 /\ phase = "idle" /\ waiting = {}
      /\ roster = <<>> /\ frozen = NoOne /\ seen = NoOne /\ told = "nothing"
  BY DEF Init
<1>2. at = [a \in Creatures |-> IF a = Player THEN StairsDown ELSE Home[a]]
  BY DEF Init
<1>3. StairsDown \in Passable /\ Passable \subseteq Cells
  BY <1>1, StairsAreFree DEF Passable
<1>4. Player \in Creatures /\ Player \notin People /\ People = Creatures \ {Player}
  BY PeopleAssumption DEF Creatures
<1>5. \A n \in People : Home[n] \in Cells /\ at[n] = Home[n] /\ Home[n] \in Passable
                        /\ Home[n] # StairsDown
  BY <1>2, <1>4, PeopleAssumption DEF Passable
<1>6. at[Player] = StairsDown
  BY <1>2, <1>4
<1>7. at \in [Creatures -> Cells]
  BY <1>2, <1>3, <1>4, <1>5
<1>8. ASSUME NEW a \in Creatures, NEW b \in Creatures, a # b, at[a] = at[b]
      PROVE  Player \in {a, b} /\ at[a] = StairsDown
  <2>1. CASE a \in People /\ b \in People
    <3>1. Home[a] = Home[b]
      BY <1>5, <1>8, <2>1
    <3>2. QED
      BY <1>8, <2>1, <3>1, PeopleAssumption DEF IsInjective
  <2>2. CASE a \notin People \/ b \notin People
    BY <1>4, <1>6, <1>8, <2>2
  <2>3. QED
    BY <2>1, <2>2
<1>9. Standing
  BY <1>3, <1>4, <1>5, <1>6, <1>8 DEF Standing
<1>10. DOMAIN NoOne = {}
  BY DEF NoOne
<1>11. roster \in Seq(People) /\ ToSet(roster) = {}
  BY <1>1 DEF ToSet
<1>12. TypeOK
  BY <1>1, <1>7, <1>10, <1>11 DEF TypeOK
<1>13. QED
  BY <1>1, <1>5, <1>7, <1>9, <1>11, <1>12
     DEF IInv, TravelOK, LevelKept, PlansInside, ServedOutside

LEMMA IInvParts ==
  ASSUME IInv
  PROVE  /\ at \in [Creatures -> Cells] /\ open \subseteq Doors
         /\ Standing /\ LevelKept /\ TravelOK
         /\ cursor \in Nat /\ waiting \subseteq People /\ roster \in Seq(People)
         /\ Player \in Creatures /\ Player \notin People /\ People \subseteq Creatures
         /\ Creatures = People \union {Player}
  BY PeopleAssumption DEF IInv, TypeOK, Creatures

LEMMA StartTurnKeeps == IInv /\ StartTurn => IInv'
<1> SUFFICES ASSUME IInv, StartTurn PROVE IInv'
  OBVIOUS
<1>1. at' = at /\ open' = open /\ travel' = travel /\ cursor' = cursor /\ roster' = roster
      /\ phase' = "people" /\ told' = "nothing"
  BY DEF StartTurn
<1>2. PICK region : region = CollisionCells[at[Player]]
  OBVIOUS
<1>3. seen' = Within(at, region) /\ frozen' = Within(at, ActorCells[at[Player]])
  BY <1>2 DEF StartTurn
<1>4. DOMAIN at = Creatures
  BY IInvParts
<1>5. /\ DOMAIN seen' = {a \in Creatures : at[a] \in region}
      /\ \A a \in DOMAIN seen' : seen'[a] = at[a]
      /\ DOMAIN frozen' \subseteq Creatures
  <2>1. PICK actors : actors = ActorCells[at[Player]]
    OBVIOUS
  <2>2. DOMAIN Within(at, actors) \subseteq Creatures
    BY <1>4, WithinIsRestriction, ZenonT(60)
  <2>3. /\ DOMAIN Within(at, region) = {a \in DOMAIN at : at[a] \in region}
        /\ \A a \in DOMAIN Within(at, region) : Within(at, region)[a] = at[a]
    BY WithinIsRestriction
  <2>4. DOMAIN seen' = {a \in Creatures : at[a] \in region}
    BY <1>3, <1>4, <2>3
  <2>5. \A a \in DOMAIN seen' : seen'[a] = at[a]
    BY <1>3, <2>3
  <2>6. QED
    BY <1>3, <2>1, <2>2, <2>4, <2>5
<1>6. waiting' \subseteq {n \in People : at[n] \in ActorCells[at[Player]]}
  BY DEF StartTurn
<1>7. ActorCells[at[Player]] \subseteq region
  BY <1>2, IInvParts, ActorsInRegion
<1>8. PlansInside'
  <2>1. Faithful(region)'
    BY <1>1, <1>5 DEF Faithful
  <2>2. \A n \in waiting' : at'[n] \in region
    BY <1>1, <1>6, <1>7
  <2>3. QED
    BY <1>1, <1>2, <2>1, <2>2 DEF PlansInside, Faithful
<1>9. ServedOutside'
  BY <1>1 DEF ServedOutside
<1>10. Standing' /\ LevelKept' /\ TravelOK'
  BY <1>1, IInvParts DEF Standing, Passable, LevelKept, TravelOK
<1>11. TypeOK'
  BY <1>1, <1>5, <1>6 DEF IInv, TypeOK
<1>12. QED
  BY <1>1, <1>8, <1>9, <1>10, <1>11 DEF IInv

\* Somebody's step, of the people: what both kinds of steps have in common.
LEMMA PersonStepsSafely ==
  ASSUME IInv, NEW n \in People, NEW region, Faithful(region), NEW cells, NEW world,
         NEW to \in Steps(n, cells, world),
         \/ UNCHANGED <<at, open>>
         \/ to # at[n] /\ Walk(n, to, region)
  PROVE  /\ at' \in [Creatures -> Cells] /\ open' \subseteq Doors /\ Standing' /\ LevelKept'
         /\ \A b \in Creatures \ {n} : at'[b] = at[b]
         /\ at'[n] = at[n] \/ (at'[n] = to /\ to \in region /\ to[3] = at[n][3])
<1>1. CASE UNCHANGED <<at, open>>
  BY <1>1, IInvParts DEF Standing, Passable, LevelKept
<1>2. CASE to # at[n] /\ Walk(n, to, region)
  <2>1. n \in Creatures
    BY IInvParts
  <2>2. /\ at' \in [Creatures -> Cells] /\ open' \subseteq Doors /\ Standing'
        /\ at' = at \/ (at' = [at EXCEPT ![n] = to] /\ to \in region /\ to # at[n])
    BY <1>2, <2>1, IInvParts, WalkingIsSafe
  <2>3. to \in Cells /\ at[n][3] = 0 /\ to[3] = 0
    BY <1>2, IInvParts, StepsStay
  <2>4. CASE at' = at
    BY <2>2, <2>4, IInvParts DEF LevelKept
  <2>5. CASE at' = [at EXCEPT ![n] = to] /\ to \in region
    <3>1. at'[n] = to /\ \A b \in Creatures \ {n} : at'[b] = at[b]
      BY <2>1, <2>5, IInvParts
    <3>2. LevelKept'
      BY <2>3, <3>1, IInvParts DEF LevelKept
    <3>3. QED
      BY <2>2, <2>3, <2>5, <3>1, <3>2
  <2>6. QED
    BY <2>2, <2>4, <2>5
<1>3. QED
  BY <1>1, <1>2

LEMMA PersonActsKeeps == ASSUME NEW n \in People PROVE IInv /\ PersonActs(n) => IInv'
<1> SUFFICES ASSUME IInv, PersonActs(n) PROVE IInv'
  OBVIOUS
<1>1. PICK region : region = CollisionCells[at[Player]]
  OBVIOUS
<1>2. /\ phase = "people" /\ n \in waiting /\ waiting' = waiting \ {n}
      /\ seen' = Synced(n, region)
      /\ UNCHANGED <<travel, cursor, phase, roster, sight, frozen, told>>
  BY <1>1 DEF PersonActs
<1>3. PICK to \in Steps(n, sight, frozen) :
        IF to = at[n] THEN UNCHANGED <<at, open>> ELSE Walk(n, to, region)
  BY <1>1 DEF PersonActs
<1>4. Faithful(region) /\ \A m \in waiting : at[m] \in region
  BY <1>1, <1>2 DEF IInv, PlansInside
<1>5. /\ at' \in [Creatures -> Cells] /\ open' \subseteq Doors /\ Standing' /\ LevelKept'
      /\ \A b \in Creatures \ {n} : at'[b] = at[b]
      /\ at'[n] = at[n] \/ (at'[n] = to /\ to \in region /\ to[3] = at[n][3])
  BY <1>3, <1>4, PersonStepsSafely
<1>6. at'[Player] = at[Player]
  BY <1>5, IInvParts
<1>7. /\ DOMAIN seen' = {b \in Creatures : at'[b] \in region}
      /\ \A b \in DOMAIN seen' : seen'[b] = at'[b]
  <2>1. n \in Creatures
    BY IInvParts
  <2>2. QED
    BY <1>2, <1>4, <1>5, <2>1, IInvParts, SyncedIsFaithful
<1>8. PlansInside'
  <2>1. Faithful(region)'
    BY <1>7 DEF Faithful
  <2>2. \A m \in waiting' : at'[m] \in region
    BY <1>2, <1>4, <1>5, IInvParts
  <2>3. region = CollisionCells[at'[Player]]
    BY <1>1, <1>6
  <2>4. QED
    BY <2>1, <2>2, <2>3 DEF PlansInside, Faithful
<1>9. ServedOutside'
  BY <1>2 DEF ServedOutside
<1>10. TravelOK'
  BY <1>2, IInvParts DEF TravelOK
<1>11. TypeOK'
  BY <1>2, <1>5, <1>7 DEF IInv, TypeOK
<1>12. QED
  BY <1>2, <1>5, <1>8, <1>9, <1>10, <1>11 DEF IInv

LEMMA ServeKeeps == ASSUME NEW n \in People PROVE IInv /\ Serve(n) => IInv'
<1> SUFFICES ASSUME IInv, Serve(n) PROVE IInv'
  OBVIOUS
<1>1. /\ phase = "lazy" /\ roster # <<>> /\ n = Head(roster) /\ roster' = Tail(roster)
      /\ UNCHANGED <<travel, cursor, waiting, told>>
  BY DEF Serve
<1>2. PICK to \in Steps(n, sight, frozen) :
        IF to = at[n] \/ KeptOut(to) THEN UNCHANGED <<at, open>> ELSE Walk(n, to, sight)
  BY DEF Serve
<1>3. /\ Faithful(sight) /\ HasRegion(at[Player])
      /\ \A m \in ToSet(roster) : at[m] \in sight /\ m \in Beyond(at)
  BY <1>1 DEF IInv, ServedOutside
<1>4. /\ at' \in [Creatures -> Cells] /\ open' \subseteq Doors /\ Standing' /\ LevelKept'
      /\ \A b \in Creatures \ {n} : at'[b] = at[b]
      /\ at'[n] = at[n] \/ (at'[n] = to /\ to \in sight /\ to[3] = at[n][3])
  BY <1>2, <1>3, PersonStepsSafely
<1>5. at'[n] = at[n] \/ at'[n] \notin CollisionCells[at[Player]]
  <2>1. CASE to = at[n] \/ KeptOut(to)
    BY <1>2, <2>1
  <2>2. CASE ~(to = at[n] \/ KeptOut(to))
    BY <1>4, <2>2 DEF KeptOut
  <2>3. QED
    BY <2>1, <2>2
<1>6. at'[Player] = at[Player]
  BY <1>4, IInvParts
<1>7. roster \in Seq(People) /\ Len(roster) > 0
  BY <1>1, IInvParts
<1>8. roster' \in Seq(People) /\ ToSet(roster') \subseteq ToSet(roster) /\ n \in ToSet(roster)
  <2>1. n = roster[1] /\ 1 \in 1..Len(roster)
    BY <1>1, <1>7
  <2>2. roster' \in Seq(People) /\ Len(roster') = Len(roster) - 1
        /\ \A i \in 1..Len(roster') : roster'[i] = roster[i + 1]
    BY <1>1, <1>7
  <2>3. \A i \in 1..Len(roster') : i + 1 \in 1..Len(roster)
    BY <1>7, <2>2
  <2>4. \A i \in 1..Len(roster') : roster'[i] \in ToSet(roster)
    BY <2>2, <2>3 DEF ToSet
  <2>5. QED
    BY <2>1, <2>2, <2>4 DEF ToSet
<1>9. TravelOK'
  BY <1>1, IInvParts DEF TravelOK
<1>10. ToSet(roster') \subseteq People
  BY <1>8 DEF ToSet
<1>11. CASE Len(roster) = 1
  <2>1. phase' = "idle" /\ frozen' = NoOne /\ seen' = NoOne
    BY <1>11 DEF Serve, Rested
  <2>2. DOMAIN NoOne = {}
    BY DEF NoOne
  <2>3. TypeOK'
    BY <1>1, <1>4, <1>10, <2>1, <2>2 DEF IInv, TypeOK
  <2>4. PlansInside' /\ ServedOutside'
    BY <2>1 DEF PlansInside, ServedOutside
  <2>5. QED
    BY <1>4, <1>8, <1>9, <2>3, <2>4 DEF IInv
<1>12. CASE Len(roster) # 1
  <2>1. seen' = Synced(n, Cells) /\ phase' = phase /\ sight' = sight /\ frozen' = frozen
    BY <1>12 DEF Serve
  <2>2. n \in Creatures /\ at'[n] \in Cells /\ at'[n] \in sight
    BY <1>3, <1>4, <1>8, IInvParts
  <2>3. /\ DOMAIN seen' = {b \in Creatures : at'[b] \in sight}
        /\ \A b \in DOMAIN seen' : seen'[b] = at'[b]
    BY <1>3, <1>4, <2>1, <2>2, IInvParts, SyncedIsFaithful
  <2>4. Faithful(sight)'
    BY <2>1, <2>3 DEF Faithful
  <2>5. ASSUME NEW m \in ToSet(roster') PROVE at'[m] \in sight /\ m \in Beyond(at')
    <3>1. at[m] \in sight /\ m \in Beyond(at)
      BY <1>3, <1>8
    <3>2. CASE m = n
      <4>1. at'[n][3] = at[n][3]
        BY <1>4
      <4>2. at'[n] \notin CollisionCells[at'[Player]] /\ at[n][3] = at[Player][3]
        BY <1>5, <1>6, <3>1, <3>2 DEF Beyond
      <4>3. QED
        BY <1>6, <2>2, <3>2, <4>1, <4>2 DEF Beyond
    <3>3. CASE m # n
      <4>1. at'[m] = at[m]
        BY <1>4, <3>1, <3>3, IInvParts DEF Beyond
      <4>2. QED
        BY <1>6, <3>1, <4>1 DEF Beyond
    <3>4. QED
      BY <3>2, <3>3
  <2>6. ServedOutside'
    BY <1>3, <1>6, <2>1, <2>4, <2>5 DEF ServedOutside
  <2>7. PlansInside'
    BY <1>1, <2>1 DEF PlansInside
  <2>8. TypeOK'
    BY <1>1, <1>4, <1>10, <2>1, <2>3 DEF IInv, TypeOK
  <2>9. QED
    BY <1>4, <1>8, <1>9, <2>6, <2>7, <2>8 DEF IInv
<1>13. QED
  BY <1>11, <1>12

-----------------------------------------------------------------------------
(* The player's actions.                                                   *)

\* What is left to show of each of them.
PlayerMoved ==
  /\ at' \in [Creatures -> Cells] /\ open' \subseteq Doors /\ Standing'
  /\ \A n \in People : at'[n] = at[n]
  /\ TravelOK' /\ told' \in {"nothing", "unknown", "arrived", "blocked", "moved"}

LEMMA PlayerMovedKeeps == IInv /\ PlayerMoved /\ AfterPlayer => IInv'
<1> SUFFICES ASSUME IInv, PlayerMoved, AfterPlayer PROVE IInv'
  OBVIOUS
<1>1. /\ at' \in [Creatures -> Cells] /\ open' \subseteq Doors /\ Standing'
      /\ \A n \in People : at'[n] = at[n]
      /\ TravelOK' /\ told' \in {"nothing", "unknown", "arrived", "blocked", "moved"}
  BY DEF PlayerMoved
<1>2. LevelKept'
  BY <1>1, IInvParts DEF LevelKept
<1>3. /\ phase' \in {"idle", "lazy"} /\ waiting' \subseteq People
      /\ roster' \in Seq(People) /\ ToSet(roster') \subseteq People /\ cursor' \in Nat
      /\ DOMAIN frozen' \subseteq Creatures /\ DOMAIN seen' \subseteq Creatures
      /\ PlansInside' /\ ServedOutside'
  BY <1>1, IInvParts, AfterPlayerServes
<1>4. travel' # None => /\ travel'.to \in Places /\ travel'.next \in 2..Len(travel'.path)
                        /\ Last(travel'.path) = travel'.to
  <2>1. ASSUME travel' # None PROVE travel'.next \in 3..Len(travel'.path)
    BY <1>1, <2>1 DEF TravelOK
  <2>2. QED
    BY <1>1, <2>1 DEF TravelOK, Last
<1>5. TypeOK'
  BY <1>1, <1>3, <1>4 DEF TypeOK
<1>6. QED
  BY <1>1, <1>2, <1>3, <1>5 DEF IInv

LEMMA QuietKeeps ==
  ASSUME IInv, Quiet
  PROVE  TravelOK' /\ told' \in {"nothing", "unknown", "arrived", "blocked", "moved"}
  BY DEF IInv, Quiet, TravelOK, TypeOK

LEMMA RestsKeeps == IInv /\ Rests => PlayerMoved
  BY QuietKeeps, IInvParts DEF Rests, PlayerMoved, Standing, Passable

LEMMA WalksKeeps == ASSUME NEW d \in Deltas PROVE IInv /\ Walks(d) => PlayerMoved
<1> SUFFICES ASSUME IInv, Walks(d) PROVE PlayerMoved
  OBVIOUS
<1>1. PICK to, region : to = Shift(at[Player], d) /\ region = CollisionCells[at[Player]]
  OBVIOUS
<1>2. phase = "people" /\ Walk(Player, to, region) /\ Quiet
  BY <1>1 DEF Walks, PlayersTurn
<1>3. Faithful(region)
  BY <1>1, <1>2 DEF IInv, PlansInside
<1>4. /\ at' \in [Creatures -> Cells] /\ open' \subseteq Doors /\ Standing'
      /\ at' = at \/ (at' = [at EXCEPT ![Player] = to] /\ to \in region /\ to # at[Player])
  BY <1>2, <1>3, IInvParts, WalkingIsSafe
<1>5. \A n \in People : at'[n] = at[n]
  BY <1>4, IInvParts
<1>6. QED
  BY <1>2, <1>4, <1>5, QuietKeeps DEF PlayerMoved

LEMMA SetsDoorKeeps ==
  ASSUME NEW d \in Deltas, NEW wanted \in {"open", "closed"}
  PROVE  IInv /\ SetsDoor(d, wanted) => PlayerMoved
<1> SUFFICES ASSUME IInv, SetsDoor(d, wanted) PROVE PlayerMoved
  OBVIOUS
<1>1. PICK door : door = Shift(at[Player], d)
  OBVIOUS
<1>2. /\ door \in Doors /\ at' = at /\ Quiet
      /\ open' = IF wanted = "open" THEN open \union {door}
                 ELSE IF door \in Occupied(at) THEN open ELSE open \ {door}
  BY <1>1 DEF SetsDoor
<1>3. open' \subseteq Doors
  BY <1>2, IInvParts
<1>4. \A a \in Creatures : at[a] \in Passable'
  <2>1. CASE open \subseteq open'
    BY <2>1, IInvParts DEF Standing, Passable
  <2>2. CASE open' = open \ {door} /\ door \notin Occupied(at)
    <3>1. \A a \in Creatures : at[a] # door
      BY <2>2, IInvParts DEF Occupied
    <3>2. QED
      BY <2>2, <3>1, IInvParts DEF Standing, Passable
  <2>3. QED
    BY <1>2, <2>1, <2>2
<1>5. Standing'
  BY <1>2, <1>4, IInvParts DEF Standing
<1>6. QED
  BY <1>2, <1>3, <1>5, IInvParts, QuietKeeps DEF PlayerMoved

LEMMA TakesStairsKeeps == IInv /\ TakesStairs => PlayerMoved
<1> SUFFICES ASSUME IInv, TakesStairs PROVE PlayerMoved
  OBVIOUS
<1>1. PICK to : to = IF at[Player] = StairsDown THEN Arrival ELSE StairsDown
  OBVIOUS
<1>2. at' = [at EXCEPT ![Player] = to] /\ open' = open /\ Quiet
  BY <1>1 DEF TakesStairs
<1>3. to \in Passable
  BY <1>1, IInvParts, StairsAreFree
<1>4. CASE at[Player] = StairsDown
  <2>1. to = Arrival /\ to[3] = 1
    BY <1>1, <1>4, IInvParts, StairsAreFree
  <2>2. \A n \in People : at[n] # to
    <3>1. \A n \in People : at[n][3] = 0 \/ at[n] = Home[n]
      BY IInvParts DEF LevelKept
    <3>2. \A n \in People : Home[n] # Arrival
      BY PeopleAssumption
    <3>3. QED
      BY <2>1, <3>1, <3>2
  <2>3. at' \in [Creatures -> Cells] /\ Standing'
    BY <1>2, <1>3, <2>2, IInvParts, SteppingIsSafe
  <2>4. QED
    BY <1>2, <2>3, IInvParts, QuietKeeps DEF PlayerMoved
<1>5. CASE at[Player] # StairsDown
  <2>1. to = StairsDown
    BY <1>1, <1>5
  <2>2. at' \in [Creatures -> Cells] /\ at'[Player] = to /\ \A n \in People : at'[n] = at[n]
    BY <1>2, <1>3, IInvParts DEF Passable
  <2>3. Passable' = Passable
    BY <1>2 DEF Passable
  <2>4. \A a \in Creatures : at'[a] \in Passable'
    BY <1>3, <2>2, <2>3, IInvParts DEF Standing
  <2>5. ASSUME NEW a \in Creatures, NEW b \in Creatures, a # b, at'[a] = at'[b]
        PROVE  Player \in {a, b} /\ at'[a] = StairsDown
    <3>1. CASE a = Player \/ b = Player
      BY <2>1, <2>2, <2>5, <3>1
    <3>2. CASE a # Player /\ b # Player
      <4>1. a \in People /\ b \in People /\ at[a] = at[b]
        BY <2>2, <2>5, <3>2, IInvParts
      <4>2. QED
        BY <2>5, <3>2, <4>1, IInvParts DEF Standing
    <3>3. QED
      BY <3>1, <3>2
  <2>6. Standing'
    BY <2>4, <2>5 DEF Standing
  <2>7. QED
    BY <1>2, <2>2, <2>6, IInvParts, QuietKeeps DEF PlayerMoved
<1>6. QED
  BY <1>4, <1>5

LEMMA SurfaceIsFinite == Surface \in SUBSET GridCells /\ IsFiniteSet(Surface)
<1>1. Width \in Nat /\ Height \in Nat
  BY GridAssumption
<1>2. PICK xs, ys : xs = 0..(Width - 1) /\ ys = 0..(Height - 1)
  OBVIOUS
<1>3. IsFiniteSet(xs) /\ IsFiniteSet(ys)
  BY <1>1, <1>2, FS_Interval
<1>4. IsFiniteSet(xs \X ys)
  BY <1>3, FS_Product
<1>5. PICK f : f = [q \in xs \X ys |-> <<q[1], q[2], 0>>]
  OBVIOUS
<1>6. Surface = xs \X ys \X {0}
  BY <1>2 DEF Surface
<1>7. f \in [xs \X ys -> Surface]
  BY <1>5, <1>6
<1>8. ASSUME NEW c \in Surface PROVE \E q \in xs \X ys : f[q] = c
  <2>1. c[1] \in xs /\ c[2] \in ys /\ c = <<c[1], c[2], 0>>
    BY <1>6
  <2>2. PICK q : q = <<c[1], c[2]>>
    OBVIOUS
  <2>3. q \in xs \X ys /\ q[1] = c[1] /\ q[2] = c[2]
    BY <2>1, <2>2
  <2>4. f[q] = c
    BY <1>5, <2>1, <2>3
  <2>5. QED
    BY <2>3, <2>4
<1>9. f \in Surjection(xs \X ys, Surface)
  BY <1>7, <1>8 DEF Surjection
<1>10. IsFiniteSet(Surface)
  BY <1>4, <1>9, FS_Surjection
<1>11. Surface \in SUBSET GridCells
  BY <1>1, <1>2, <1>6 DEF GridCells
<1>12. QED
  BY <1>10, <1>11

\* The search is run on a finite part of the grid.
LEMMA GridIsFinite ==
  ASSUME IInv, at[Player][3] = 0
  PROVE  /\ at[Player] \in Surface /\ at[Player] \in GridCells
         /\ RouteGrid \subseteq Surface
         /\ RouteGrid \in SUBSET GridCells /\ IsFiniteSet(RouteGrid)
         /\ Places \subseteq GridCells
<1>1. at[Player] \in Surface
  BY IInvParts, SurfaceOrBelow
<1>2. RouteGrid \subseteq Surface
  BY <1>1 DEF RouteGrid
<1>3. IsFiniteSet(RouteGrid)
  BY <1>2, SurfaceIsFinite, FS_Subset
<1>4. QED
  BY <1>1, <1>2, <1>3, SurfaceIsFinite, PeopleAssumption

LEMMA RoutesAreLegal ==
  ASSUME IInv, at[Player][3] = 0, NEW goal \in Places, RouteNow(goal) # None
  PROVE  /\ LegalRoute(RouteGrid, at[Player], goal, RouteNow(goal))
         /\ RouteNow(goal) \in Seq(Cells)
<1>1. at[Player] \in Surface /\ RouteGrid \subseteq Surface
  BY GridIsFinite
<1>2. PICK grid, start : grid = RouteGrid /\ start = at[Player]
  OBVIOUS
<1>3. grid \in SUBSET GridCells /\ IsFiniteSet(grid) /\ start \in GridCells /\ goal \in GridCells
  BY <1>2, GridIsFinite
<1>4. Route(grid, Road, start, goal) = RouteNow(goal)
  BY <1>2 DEF RouteNow
<1>5. LegalRoute(grid, start, goal, RouteNow(goal))
  BY <1>3, <1>4, RouteIsLegal
<1>6. RouteNow(goal) \in Seq(grid \union {start})
  BY <1>5 DEF LegalRoute
<1>7. grid \union {start} \subseteq Cells
  BY <1>1, <1>2 DEF Cells
<1>8. QED
  BY <1>2, <1>5, <1>6, <1>7

LEMMA RoutesAreCheapest ==
  ASSUME IInv, at[Player][3] = 0, NEW goal \in Places
  PROVE  LET costs == CheapestCosts(RouteGrid, Road, at[Player])
         IN  /\ RouteNow(goal) = None <=> goal \notin DOMAIN costs
             /\ RouteNow(goal) # None => PathCost(Road, RouteNow(goal)) = costs[goal]
<1>1. PICK grid, start : grid = RouteGrid /\ start = at[Player]
  OBVIOUS
<1>2. grid \in SUBSET GridCells /\ IsFiniteSet(grid) /\ start \in GridCells /\ goal \in GridCells
  BY <1>1, GridIsFinite
<1>3. /\ Route(grid, Road, start, goal) = None
           <=> goal \notin DOMAIN CheapestCosts(grid, Road, start)
      /\ Route(grid, Road, start, goal) # None
           => PathCost(Road, Route(grid, Road, start, goal))
                = CheapestCosts(grid, Road, start)[goal]
  BY <1>2, RouteIsCheapest
<1>4. QED
  BY <1>1, <1>3 DEF RouteNow

\* The way taken, be it cached or searched anew, has its end at the goal.
LEMMA WaysEndAtTheGoal ==
  ASSUME IInv, at[Player][3] = 0, NEW goal \in Places,
         NEW way, way = Cached(goal), Len(way.path) >= way.next
  PROVE  /\ way \in [to : Places, path : Seq(Cells), next : Nat]
         /\ way.next \in 2..Len(way.path) /\ way.path[Len(way.path)] = way.to
<1>1. CASE way = travel /\ travel # None
  <2>1. /\ way \in [to : Places, path : Seq(Cells), next : Nat]
        /\ way.next \in 3..Len(way.path) /\ way.path[Len(way.path)] = way.to
    BY <1>1, IInvParts DEF TravelOK
  <2>2. QED
    BY <2>1
<1>2. CASE way = [to |-> goal, path |-> RouteNow(goal), next |-> 2]
  <2>1. way.to = goal /\ way.path = RouteNow(goal) /\ way.next = 2
    BY <1>2
  <2>2. RouteNow(goal) # None
    <3>1. Len(None) = 0
      BY DEF None
    <3>2. QED
      BY <2>1, <3>1
  <2>3. /\ LegalRoute(RouteGrid, at[Player], goal, RouteNow(goal))
        /\ RouteNow(goal) \in Seq(Cells)
    BY <2>2, RoutesAreLegal
  <2>4. way.path \in Seq(Cells) /\ way.path[Len(way.path)] = goal
    BY <2>1, <2>3 DEF LegalRoute
  <2>5. Len(way.path) \in Nat
    BY <2>4
  <2>6. way.next \in 2..Len(way.path)
    BY <2>1, <2>5
  <2>7. way \in [to : Places, path : Seq(Cells), next : Nat]
    BY <1>2, <2>3
  <2>8. QED
    BY <2>1, <2>4, <2>6, <2>7
<1>3. QED
  BY <1>1, <1>2 DEF Cached

LEMMA LegalStepIsFree ==
  ASSUME IInv, phase = "people", NEW q, LegalNow(at[Player], q)
  PROVE  q \in Passable /\ \A b \in Creatures \ {Player} : at[b] # q
<1>1. PICK region : region = CollisionCells[at[Player]]
  OBVIOUS
<1>2. q \in FreeAmong(seen) /\ q \in region
  BY <1>1 DEF LegalNow, IsLegalStep
<1>3. q \in Passable /\ \A b \in DOMAIN seen \ {Player} : seen[b] # q
  BY <1>2 DEF FreeAmong
<1>4. Faithful(region)
  BY <1>1 DEF IInv, PlansInside
<1>5. QED
  BY <1>2, <1>3, <1>4 DEF Faithful

\* The view holds the player, so that the region holds all cells a step away.
LEMMA ClampedView ==
  ASSUME NEW p \in Nat, NEW size \in Nat, NEW view \in Nat \ {0}, p < size
  PROVE  LET low == Clamp(p - view \div 2, 0, Greatest(0, size - view))
         IN  low \in Int /\ low <= p /\ p < low + view
<1>1. PICK half \in Int : half = view \div 2 /\ 0 <= half /\ half < view
  OBVIOUS
<1>2. QED
  BY <1>1 DEF Clamp, Least, Greatest

LEMMA StepsAwayAreInRegion ==
  ASSUME NEW p \in Surface, NEW c \in Surface, c[1] - p[1] \in -1..1, c[2] - p[2] \in -1..1
  PROVE  c \in CollisionCells[p]
<1>1. PICK left : left = Clamp(p[1] - ViewWidth \div 2, 0, Greatest(0, Width - ViewWidth))
  OBVIOUS
<1>2. PICK top : top = Clamp(p[2] - ViewHeight \div 2, 0, Greatest(0, Height - ViewHeight))
  OBVIOUS
<1>3. /\ p[1] \in 0..(Width - 1) /\ p[2] \in 0..(Height - 1) /\ p[3] = 0
      /\ c[1] \in 0..(Width - 1) /\ c[2] \in 0..(Height - 1) /\ c[3] = 0
      /\ p \in Cells /\ c \in Cells
  BY DEF Surface, Cells
<1>4. /\ Width \in Nat /\ Height \in Nat /\ ActiveMargin \in Nat
      /\ ViewWidth \in Nat \ {0} /\ ViewHeight \in Nat \ {0}
  BY GridAssumption
<1>5. left \in Int /\ left <= p[1] /\ p[1] < left + ViewWidth
  <2>1. p[1] \in Nat /\ p[1] < Width
    BY <1>3, <1>4
  <2>2. QED
    BY <1>1, <1>4, <2>1, ClampedView
<1>6. top \in Int /\ top <= p[2] /\ p[2] < top + ViewHeight
  <2>1. p[2] \in Nat /\ p[2] < Height
    BY <1>3, <1>4
  <2>2. QED
    BY <1>2, <1>4, <2>1, ClampedView
<1>7. /\ left - (ActiveMargin + 1) <= c[1] /\ c[1] < left + ViewWidth + (ActiveMargin + 1)
      /\ top - (ActiveMargin + 1) <= c[2] /\ c[2] < top + ViewHeight + (ActiveMargin + 1)
  BY <1>3, <1>4, <1>5, <1>6
<1>8. c \in Bounds(p, ActiveMargin + 1)
  BY <1>1, <1>2, <1>3, <1>7 DEF Bounds
<1>9. QED
  BY <1>3, <1>8 DEF CollisionCells, HasRegion

\* What the movement world of the turn shows around the player is the campground
\* as it is: a step that the whole world allows is legal in it.
LEMMA NextStepIsLegal ==
  ASSUME IInv, phase = "people", at[Player][3] = 0,
         NEW q, IsLegalStep(RouteGrid, at[Player], q)
  PROVE  LegalNow(at[Player], q)
<1>1. PICK p, region, grid :
        p = at[Player] /\ region = CollisionCells[at[Player]] /\ grid = RouteGrid
  OBVIOUS
<1>2. p \in Surface /\ grid \in SUBSET GridCells /\ grid \subseteq Surface /\ p \in GridCells
  BY <1>1, GridIsFinite
<1>3. /\ p[3] = q[3] /\ Greatest(Across(p, q), Down(p, q)) = 1
      /\ q \in grid /\ SidesFree(grid, p, q)
  BY <1>1 DEF IsLegalStep
<1>4. q[1] - p[1] \in -1..1 /\ q[2] - p[2] \in -1..1 /\ (q[1] # p[1] \/ q[2] # p[2])
  <2>1. IsLegalStep(grid, p, q) /\ q \in GridCells
    BY <1>1, <1>2, <1>3
  <2>2. QED
    BY <1>2, <2>1, StepParts
<1>5. ASSUME NEW c \in grid, c # p, c[1] - p[1] \in -1..1, c[2] - p[2] \in -1..1
      PROVE  c \in FreeAmong(seen) \intersect region
  <2>1. c \in FreeAmong(at) /\ c \in Surface
    BY <1>1, <1>5 DEF RouteGrid
  <2>2. c \in region
    BY <1>1, <1>2, <1>5, <2>1, StepsAwayAreInRegion
  <2>3. c \in Passable /\ \A a \in Creatures \ {Player} : at[a] # c
    BY <2>1, IInvParts DEF FreeAmong
  <2>4. Faithful(region)
    BY <1>1 DEF IInv, PlansInside
  <2>5. \A a \in DOMAIN seen \ {Player} : seen[a] # c
    BY <2>3, <2>4 DEF Faithful
  <2>6. QED
    BY <2>2, <2>3, <2>5 DEF FreeAmong
<1>6. q \in FreeAmong(seen) \intersect region
  BY <1>3, <1>4, <1>5
<1>7. SidesFree(FreeAmong(seen) \intersect region, p, q)
  <2>1. SUFFICES ASSUME ~Straight(p, q)
                 PROVE  {<<p[1], q[2], p[3]>>, <<q[1], p[2], p[3]>>}
                          \subseteq FreeAmong(seen) \intersect region
    BY DEF SidesFree
  <2>2. PICK c, d : c = <<p[1], q[2], p[3]>> /\ d = <<q[1], p[2], p[3]>>
    OBVIOUS
  <2>3. c \in grid /\ d \in grid
    BY <1>3, <2>1, <2>2 DEF SidesFree
  <2>4. c[1] = p[1] /\ c[2] = q[2] /\ d[1] = q[1] /\ d[2] = p[2]
    BY <2>2
  <2>5. c # p /\ d # p
    BY <2>1, <2>4 DEF Straight
  <2>6. c[1] - p[1] \in -1..1 /\ d[2] - p[2] \in -1..1
    <3>1. p[1] \in Nat /\ p[2] \in Nat
      BY <1>2, CellParts
    <3>2. QED
      BY <2>4, <3>1
  <2>7. c[2] - p[2] \in -1..1 /\ d[1] - p[1] \in -1..1
    BY <1>4, <2>4
  <2>8. c \in FreeAmong(seen) \intersect region
    BY <1>5, <2>3, <2>5, <2>6, <2>7
  <2>9. d \in FreeAmong(seen) \intersect region
    BY <1>5, <2>3, <2>5, <2>6, <2>7
  <2>10. QED
    BY <2>2, <2>8, <2>9
<1>8. IsLegalStep(FreeAmong(seen) \intersect region, p, q)
  BY <1>3, <1>6, <1>7 DEF IsLegalStep
<1>9. QED
  BY <1>1, <1>8 DEF LegalNow

LEMMA TravelsToKeeps == ASSUME NEW goal \in Places PROVE IInv /\ TravelsTo(goal) => PlayerMoved
<1> SUFFICES ASSUME IInv, TravelsTo(goal) PROVE PlayerMoved
  OBVIOUS
<1>1. PICK way : way = Cached(goal)
  OBVIOUS
<1>2. phase = "people" /\ open' = open
  BY DEF TravelsTo, PlayersTurn
<1>3. CASE travel' = None /\ told' \in {"unknown", "arrived", "blocked"} /\ at' = at
  <2>1. TravelOK'
    BY <1>3 DEF TravelOK
  <2>2. Standing'
    BY <1>2, <1>3, IInvParts DEF Standing, Passable
  <2>3. QED
    BY <1>2, <1>3, <2>1, <2>2, IInvParts DEF PlayerMoved
<1>4. CASE /\ at[Player][3] = 0
           /\ Len(way.path) >= way.next /\ LegalNow(at[Player], way.path[way.next])
           /\ at' = [at EXCEPT ![Player] = way.path[way.next]]
           /\ travel' = Onward(way) /\ told' = "moved"
  <2>1. PICK q : q = way.path[way.next]
    OBVIOUS
  <2>2. q \in Passable /\ \A b \in Creatures \ {Player} : at[b] # q
    BY <1>2, <1>4, <2>1, LegalStepIsFree
  <2>3. at' \in [Creatures -> Cells] /\ Standing'
    BY <1>2, <1>4, <2>1, <2>2, IInvParts, SteppingIsSafe
  <2>4. \A n \in People : at'[n] = at[n]
    BY <1>4, <2>1, IInvParts
  <2>5. /\ way \in [to : Places, path : Seq(Cells), next : Nat]
        /\ way.next \in 2..Len(way.path) /\ way.path[Len(way.path)] = way.to
    BY <1>1, <1>4, WaysEndAtTheGoal
  <2>6. TravelOK'
    <3>1. CASE way.next = Len(way.path)
      BY <1>4, <3>1 DEF Onward, TravelOK
    <3>2. CASE way.next # Len(way.path)
      <4>1. PICK onward : onward = [way EXCEPT !.next = way.next + 1]
        OBVIOUS
      <4>2. travel' = onward
        BY <1>4, <3>2, <4>1 DEF Onward
      <4>3. /\ onward.to = way.to /\ onward.path = way.path /\ onward.next = way.next + 1
            /\ onward \in [to : Places, path : Seq(Cells), next : Nat]
        BY <2>5, <4>1
      <4>4. Len(way.path) \in Nat
        BY <2>5
      <4>5. way.next + 1 \in 3..Len(way.path)
        BY <2>5, <3>2, <4>4
      <4>6. QED
        BY <2>5, <4>2, <4>3, <4>5 DEF TravelOK
    <3>3. QED
      BY <3>1, <3>2
  <2>7. QED
    BY <1>2, <1>4, <2>3, <2>4, <2>6, IInvParts DEF PlayerMoved
<1>5. QED
  BY <1>1, <1>3, <1>4 DEF TravelsTo

LEMMA PlayerActsKeeps == IInv /\ PlayerActs => PlayerMoved /\ AfterPlayer
<1> SUFFICES ASSUME IInv, PlayerActs PROVE PlayerMoved /\ AfterPlayer
  OBVIOUS
<1>1. CASE Rests
  BY <1>1, RestsKeeps DEF Rests
<1>2. CASE \E d \in Deltas : Walks(d)
  BY <1>2, WalksKeeps DEF Walks
<1>3. CASE \E d \in Deltas, wanted \in {"open", "closed"} : SetsDoor(d, wanted)
  <2>1. PICK d \in Deltas, wanted \in {"open", "closed"} : SetsDoor(d, wanted)
    BY <1>3
  <2>2. PlayerMoved
    BY <2>1, SetsDoorKeeps
  <2>3. AfterPlayer
    BY <2>1 DEF SetsDoor
  <2>4. QED
    BY <2>2, <2>3
<1>4. CASE TakesStairs
  BY <1>4, TakesStairsKeeps DEF TakesStairs
<1>5. CASE \E goal \in Places : TravelsTo(goal)
  BY <1>5, TravelsToKeeps DEF TravelsTo
<1>6. QED
  BY <1>1, <1>2, <1>3, <1>4, <1>5 DEF PlayerActs

-----------------------------------------------------------------------------
(* The theorems.                                                           *)

LEMMA IInvKept == IInv /\ [Next]_vars => IInv'
<1> SUFFICES ASSUME IInv, [Next]_vars PROVE IInv'
  OBVIOUS
<1>1. CASE StartTurn
  BY <1>1, StartTurnKeeps
<1>2. CASE \E n \in People : PersonActs(n)
  BY <1>2, PersonActsKeeps
<1>3. CASE PlayerActs
  BY <1>3, PlayerActsKeeps, PlayerMovedKeeps
<1>4. CASE \E n \in People : Serve(n)
  BY <1>4, ServeKeeps
<1>5. CASE UNCHANGED vars
  BY <1>5 DEF vars, IInv, TypeOK, TravelOK, Standing, Passable, LevelKept, PlansInside,
              ServedOutside, Faithful, Beyond
<1>6. QED
  BY <1>1, <1>2, <1>3, <1>4, <1>5 DEF Next

LEMMA IInvHolds == Spec => []IInv
<1>1. QED
  BY InitKeeps, IInvKept, PTL DEF Spec

\* However many people plan against the world of the turn's beginning and are moved
\* one after the other against a world to which only the last one is written back,
\* no two creatures ever stand on one cell but at the top of the stairs, and nobody
\* in a wall or a closed door (gameloop.ts, actions.ts).
THEOREM NobodyRunsIntoAnybody == Spec => []Apart
<1>1. IInv => Apart
  BY DEF IInv, Standing, Apart
<1>2. QED
  BY <1>1, IInvHolds, PTL

\* While the player stays, nobody enters or leaves the part of the campground that is
\* served a few people at a time: neither the turns of those near the player nor the
\* steps of those far away cross its border (offscreen.ts).
THEOREM NobodyCrossesTheBorder == Spec => RegionSealed
<1> DEFINE Sealed == at'[Player] = at[Player] => Offscreen(at') = Offscreen(at)
<1>1. IInv /\ [Next]_vars => [Sealed]_at
  <2> SUFFICES ASSUME IInv, Next, at' # at, at'[Player] = at[Player]
               PROVE  Offscreen(at') = Offscreen(at)
    BY DEF vars
  <2> SUFFICES Beyond(at') = Beyond(at)
    <3>1. \A positions : Offscreen(positions) =
            IF HasRegion(positions[Player]) THEN InOrderOfKeys(Beyond(positions)) ELSE <<>>
      BY DEF Offscreen, Beyond
    <3>2. QED
      BY <3>1
  <2>1. CASE StartTurn
    BY <2>1 DEF StartTurn
  <2>2. CASE \E n \in People : PersonActs(n)
    <3>1. PICK n \in People : PersonActs(n)
      BY <2>2
    <3>2. PICK region : region = CollisionCells[at[Player]]
      OBVIOUS
    <3>3. /\ phase = "people" /\ n \in waiting
      BY <3>1 DEF PersonActs
    <3>4. PICK to \in Steps(n, sight, frozen) :
            IF to = at[n] THEN UNCHANGED <<at, open>> ELSE Walk(n, to, region)
      BY <3>1, <3>2 DEF PersonActs
    <3>5. Faithful(region) /\ \A m \in waiting : at[m] \in region
      BY <3>2, <3>3 DEF IInv, PlansInside
    <3>6. /\ \A b \in Creatures \ {n} : at'[b] = at[b]
          /\ at'[n] = at[n] \/ (at'[n] = to /\ to \in region /\ to[3] = at[n][3])
      BY <3>4, <3>5, PersonStepsSafely
    <3>7. n \notin Beyond(at) /\ n \notin Beyond(at')
      BY <3>2, <3>3, <3>5, <3>6 DEF Beyond
    <3>8. ASSUME NEW m \in People PROVE m \in Beyond(at) <=> m \in Beyond(at')
      BY <3>6, <3>7, IInvParts DEF Beyond
    <3>9. QED
      BY <3>8 DEF Beyond
  <2>3. CASE PlayerActs
    <3>1. \A n \in People : at'[n] = at[n]
      BY <2>3, PlayerActsKeeps DEF PlayerMoved
    <3>2. QED
      BY <3>1 DEF Beyond
  <2>4. CASE \E n \in People : Serve(n)
    <3>1. PICK n \in People : Serve(n)
      BY <2>4
    <3>2. phase = "lazy" /\ roster # <<>> /\ n = Head(roster)
      BY <3>1 DEF Serve
    <3>3. PICK to \in Steps(n, sight, frozen) :
            IF to = at[n] \/ KeptOut(to) THEN UNCHANGED <<at, open>> ELSE Walk(n, to, sight)
      BY <3>1 DEF Serve
    <3>4. ~(to = at[n] \/ KeptOut(to))
      BY <3>3
    <3>5. Faithful(sight) /\ \A m \in ToSet(roster) : m \in Beyond(at)
      BY <3>2 DEF IInv, ServedOutside
    <3>6. n \in ToSet(roster)
      BY <3>2, IInvParts DEF ToSet
    <3>7. /\ \A b \in Creatures \ {n} : at'[b] = at[b]
          /\ at'[n] = at[n] \/ (at'[n] = to /\ to \in sight /\ to[3] = at[n][3])
      BY <3>3, <3>5, PersonStepsSafely
    <3>8. n \in Beyond(at) /\ n \in Beyond(at')
      BY <3>4, <3>5, <3>6, <3>7 DEF Beyond, KeptOut
    <3>9. ASSUME NEW m \in People PROVE m \in Beyond(at) <=> m \in Beyond(at')
      BY <3>7, <3>8, IInvParts DEF Beyond
    <3>10. QED
      BY <3>9 DEF Beyond
  <2>5. QED
    BY <2>1, <2>2, <2>3, <2>4 DEF Next
<1>2. QED
  BY <1>1, IInvHolds, PTL DEF Spec, RegionSealed

\* Either the cached way goes on by a legal step, at least its second, or the way is
\* the route of now; and the route of now goes on by a legal step if there is one.
LEMMA WaysGoOn ==
  ASSUME IInv, phase = "people", at[Player][3] = 0, NEW goal \in Places, at[Player] # goal,
         NEW way, way = Cached(goal)
  PROVE  \/ /\ way = travel /\ way.next \in Nat /\ way.next >= 3
            /\ Len(way.path) >= way.next /\ LegalNow(at[Player], way.path[way.next])
         \/ /\ way = [to |-> goal, path |-> RouteNow(goal), next |-> 2]
            /\ RouteNow(goal) # None
                 => Len(way.path) >= way.next /\ LegalNow(at[Player], way.path[way.next])
<1>1. CASE /\ way = travel /\ travel # None
           /\ LegalNow(at[Player], travel.path[travel.next])
  <2>1. /\ travel \in [to : Places, path : Seq(Cells), next : Nat]
        /\ travel.next \in 3..Len(travel.path)
    BY <1>1, IInvParts DEF TravelOK
  <2>2. QED
    BY <1>1, <2>1
<1>2. CASE way = [to |-> goal, path |-> RouteNow(goal), next |-> 2]
  <2>1. PICK route, start, grid :
          route = RouteNow(goal) /\ start = at[Player] /\ grid = RouteGrid
    OBVIOUS
  <2>2. way.path = route /\ way.next = 2
    BY <1>2, <2>1
  <2>3. ASSUME route # None
        PROVE  Len(way.path) >= way.next /\ LegalNow(at[Player], way.path[way.next])
    <3>1. LegalRoute(grid, start, goal, route)
      BY <2>1, <2>3, RoutesAreLegal
    <3>2. /\ Len(route) \in Nat /\ Len(route) > 0
          /\ route[1] = start /\ route[Len(route)] = goal
          /\ \A i \in 1..(Len(route) - 1) : IsLegalStep(grid, route[i], route[i + 1])
      BY <3>1 DEF LegalRoute
    <3>3. Len(route) # 1
      BY <2>1, <3>2
    <3>4. Len(route) >= 2 /\ IsLegalStep(grid, route[1], route[1 + 1])
      <4>1. PICK l \in Nat : l = Len(route)
        BY <3>2
      <4>2. l >= 2 /\ 1 \in 1..(l - 1)
        BY <3>2, <3>3, <4>1
      <4>3. QED
        BY <3>2, <4>1, <4>2
    <3>5. IsLegalStep(RouteGrid, at[Player], route[2])
      BY <2>1, <3>2, <3>4
    <3>6. QED
      BY <2>2, <3>4, <3>5, NextStepIsLegal
  <2>4. QED
    BY <1>2, <2>1, <2>3
<1>3. QED
  BY <1>1, <1>2 DEF Cached

LEMMA TravelsHonestly ==
  ASSUME IInv, NEW goal \in Places, TravelsTo(goal), told' \in {"moved", "blocked"}
  PROVE  LET costs == CheapestCosts(RouteGrid, Road, at[Player])
         IN  IF told' = "blocked" THEN goal \notin DOMAIN costs
             ELSE travel' # None /\ travel'.next = 3
                  => PathCost(Road, travel'.path) = costs[goal]
<1>1. PICK way, costs : way = Cached(goal) /\ costs = CheapestCosts(RouteGrid, Road, at[Player])
  OBVIOUS
<1>2. phase = "people" /\ at[Player][3] = 0 /\ at[Player] # goal
  BY DEF TravelsTo, PlayersTurn
<1>3. IF Len(way.path) >= way.next /\ LegalNow(at[Player], way.path[way.next])
      THEN travel' = Onward(way) /\ told' = "moved"
      ELSE told' = "blocked"
  BY <1>1, <1>2 DEF TravelsTo
<1>4. /\ RouteNow(goal) = None <=> goal \notin DOMAIN costs
      /\ RouteNow(goal) # None => PathCost(Road, RouteNow(goal)) = costs[goal]
  BY <1>1, <1>2, RoutesAreCheapest
<1>5. \/ /\ way = travel /\ way.next \in Nat /\ way.next >= 3
         /\ Len(way.path) >= way.next /\ LegalNow(at[Player], way.path[way.next])
      \/ /\ way = [to |-> goal, path |-> RouteNow(goal), next |-> 2]
         /\ RouteNow(goal) # None
              => Len(way.path) >= way.next /\ LegalNow(at[Player], way.path[way.next])
  BY <1>1, <1>2, WaysGoOn
<1>6. ASSUME told' = "blocked" PROVE goal \notin DOMAIN costs
  <2>1. ~(Len(way.path) >= way.next /\ LegalNow(at[Player], way.path[way.next]))
    BY <1>3, <1>6
  <2>2. RouteNow(goal) = None
    BY <1>5, <2>1
  <2>3. QED
    BY <1>4, <2>2
<1>7. ASSUME told' = "moved", travel' # None, travel'.next = 3
      PROVE  PathCost(Road, travel'.path) = costs[goal]
  <2>1. /\ Len(way.path) >= way.next /\ LegalNow(at[Player], way.path[way.next])
        /\ travel' = Onward(way)
    BY <1>3, <1>7
  <2>2. way.next # Len(way.path) /\ travel' = [way EXCEPT !.next = way.next + 1]
    BY <1>7, <2>1 DEF Onward
  <2>3. way \in [to : Places, path : Seq(Cells), next : Nat]
    BY <1>1, <1>2, <2>1, WaysEndAtTheGoal
  <2>4. travel'.path = way.path /\ travel'.next = way.next + 1
    BY <2>2, <2>3
  <2>5. ~(way.next >= 3)
    BY <1>7, <2>3, <2>4
  <2>6. way.path = RouteNow(goal) /\ way.next = 2
    BY <1>5, <2>5
  <2>7. RouteNow(goal) # None
    <3>1. Len(None) = 0
      BY DEF None
    <3>2. QED
      BY <2>1, <2>6, <3>1
  <2>8. QED
    BY <1>4, <2>4, <2>6, <2>7
<1>8. QED
  BY <1>1, <1>6, <1>7

\* Travel is called blocked only when no legal steps at all lead to the landmark, though
\* the step taken is looked at in the turn's own world and the route in the whole one;
\* and a path that is newly set out on is one of the cheapest, whatever people and closed
\* doors are in the way (campgroundActions.ts, campgroundNavigation.ts).
THEOREM TravelTellsTheTruth == Spec => TravelHonest
<1> DEFINE Honest ==
      \A goal \in Places :
        /\ phase = "people" /\ phase' # "people" /\ told' \in {"moved", "blocked"}
        /\ TravelsTo(goal)
        => LET costs == CheapestCosts(RouteGrid, Road, at[Player])
           IN  IF told' = "blocked" THEN goal \notin DOMAIN costs
               ELSE travel' # None /\ travel'.next = 3
                    => PathCost(Road, travel'.path) = costs[goal]
<1>1. IInv => Honest
  BY TravelsHonestly
<1>2. IInv /\ [Next]_vars => [Honest]_vars
  BY <1>1
<1>3. QED
  BY <1>2, IInvHolds, PTL DEF Spec, TravelHonest
=============================================================================
