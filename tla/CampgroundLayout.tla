---------------------------- MODULE CampgroundLayout ----------------------------
(***************************************************************************)
(* How the surface level is made (makeCampgroundLevel in world.ts), at its *)
(* real size and with all its camps: a geometry is drawn, every shelter is *)
(* put at the nearest place that fits, every camp gets its cooler and its  *)
(* props, the roads get awnings and muddy runoff, and people are put where *)
(* they live, travel or patrol. Each step takes what the earlier ones have *)
(* left free, and fails if that is not enough.                             *)
(*                                                                         *)
(* A geometry is one of Geometries. A shuffle of the code is any order of  *)
(* cells; here a level has one of Shuffles, <<a, b, m>> being the order by *)
(* (a * x + b * y) % m.                                                    *)
(***************************************************************************)
EXTENDS CampgroundPlan, SequencesExt, TLC

CONSTANTS Geometries, Shuffles

ASSUME LayoutAssumption ==
  /\ Geometries # {} /\ \A g \in Geometries : IsGeometry(g)
  /\ Shuffles \subseteq (Nat \X Nat \X (Nat \ {0})) /\ Shuffles # {}

VARIABLES
  stage,       \* "none", "structures", "features", "shelters", "residents",
               \* "walkers", then "made" or "failed"
  geometry,
  site,        \* what follows from it: roads, signs, entrances, landmarks
  placed,      \* how many shelters of PlacementOrder stand
  built,       \* their cells by kind
  communal,    \* the roofs of each camp's popups and carports
  taken,       \* where no further shelter may stand
  shuffle,
  coolers,     \* one for each camp furnished
  props,       \* camp props as <<cell, kind>>, in the order they are made
  awnings,     \* [patrol, traveler]: sequences of single roadside roofs
  mud,         \* the runoff
  people       \* [at, who, camp] in the order they are made, camp 0 for those
               \* who live in none

layoutVars ==
  <<stage, geometry, site, placed, built, communal, taken, shuffle, coolers, props, awnings, mud, people>>

LayoutInit ==
  /\ stage = "none" /\ geometry = <<>> /\ site = <<>>
  /\ placed = 0 /\ built = [p \in Parts |-> {}] /\ communal = [i \in CampIds |-> {}] /\ taken = {}
  /\ shuffle = <<>> /\ coolers = <<>> /\ props = <<>> /\ mud = {} /\ people = <<>>
  /\ awnings = [patrol |-> <<>>, traveler |-> <<>>]

StartCampground ==
  /\ stage = "none"
  /\ stage' = "structures"
  /\ \E g \in Geometries :
       /\ geometry' = g
       /\ site' = [road |-> Roads(g), signs |-> Signs(g), entrances |-> Entrances(g),
                   kept |-> Protected(g), roadSigns |-> RoadSigns(g), spine |-> SpineCells(g)]
       /\ taken' = Reserved(g)
  /\ UNCHANGED <<placed, built, communal, shuffle, coolers, props, awnings, mud, people>>

-----------------------------------------------------------------------------
(* Shelters (resolveTentStructures). "taken" is the reserved ground, the    *)
(* shelters with the cells beside them and the ways in to personal tents.   *)

LotRadius == 32

\* Mutant: shelters keep off the roads but not off one another.
FitsOverlapping(sign, tiles) ==
  /\ \A c \in tiles.approach : InBounds(c)
  /\ \A c \in Footprint(tiles) : InBounds(c) /\ c \notin site.road /\ Apart(c, sign) <= LotRadius

Fits(sign, tiles) ==
  /\ \A c \in tiles.approach : InBounds(c) /\ c \notin taken
  /\ \A c \in Footprint(tiles) :
       InBounds(c) /\ c \notin site.road /\ c \notin taken /\ Apart(c, sign) <= LotRadius

\* The offset nearest to where the camp wants the shelter, of those that are
\* "reach" or more away; <<>> when there is none.
RECURSIVE FittingOffset(_, _)
FittingOffset(s, reach) ==
  LET sign == Sign(geometry, s.camp)
      ring == {o \in (-20..20) \X (0..14) : Apart(o, <<0, 0>>) = reach}
      fitting == {o \in ring : Fits(sign, Tiles(geometry, s, o))}
  IN  IF fitting # {}
      THEN CHOOSE o \in fitting : \A n \in fitting : o[2] < n[2] \/ (o[2] = n[2] /\ o[1] <= n[1])
      ELSE IF reach = 34 THEN <<>> ELSE FittingOffset(s, reach + 1)

PlaceShelter ==
  /\ stage = "structures"
  /\ placed < Len(PlacementOrder)
  /\ \E s \in {PlacementOrder[placed + 1]} : \E offset \in {FittingOffset(s, 0)} :
       IF offset = <<>>
       THEN stage' = "failed" /\ UNCHANGED <<placed, built, communal, taken>>
       ELSE \E tiles \in {Tiles(geometry, s, offset)} :
              /\ placed' = placed + 1
              /\ built' = [p \in Parts |-> built[p] \cup tiles[p]]
              /\ communal' = IF s.kind = "personal" THEN communal
                             ELSE [communal EXCEPT ![s.camp] = @ \cup tiles.roof]
              /\ taken' = taken \cup Clearance(Footprint(tiles)) \cup tiles.approach
              /\ UNCHANGED stage
  /\ UNCHANGED <<geometry, site, shuffle, coolers, props, awnings, mud, people>>

Unbuilt(c) == \A p \in Parts : c \notin built[p]
Unkept(c) == c \notin site.kept /\ c \notin site.signs

-----------------------------------------------------------------------------
(* Choosing.                                                                *)

Key(order, c) == (order[1] * c[1] + order[2] * c[2]) % order[3]

\* The first "count" of the cells in an order that keep "gap" from one another, or
\* all that do when they are fewer.
RECURSIVE SpreadIn(_, _, _, _)
SpreadIn(order, cells, count, gap) ==
  IF count = 0 \/ cells = {} THEN <<>>
  ELSE LET low == Min({Key(order, c) : c \in cells})
           first == CHOOSE c \in cells : Key(order, c) = low
       IN  <<first>> \o SpreadIn(order, {c \in cells : Apart(c, first) >= gap}, count - 1, gap)

\* chooseSpreadCoordinates, and chooseRandomCoordinates, which asks for no gap.
Spread(cells, count, gap) == SpreadIn(shuffle, cells, count, gap)
Chosen(cells, count) == Spread(cells, count, 1)
Cells(sequence) == {sequence[k] : k \in DOMAIN sequence}

\* The cell of a set nearest to p, the upper and then the left one of several.
NearestCell(cells, p) ==
  LET least == Min({Apart(c, p) : c \in cells})
      row == Min({c[2] : c \in {c \in cells : Apart(c, p) = least}})
  IN  CHOOSE c \in cells : /\ Apart(c, p) = least /\ c[2] = row
                           /\ \A d \in cells : Apart(d, p) = least /\ d[2] = row => c[1] <= d[1]

-----------------------------------------------------------------------------
(* Coolers and props (makeCampFeatureLayouts).                              *)

PropCells == {props[k][1] : k \in DOMAIN props}
Furnishings == Cells(coolers) \cup PropCells

StartFurnishing ==
  /\ stage = "structures" /\ placed = Len(PlacementOrder)
  /\ stage' = "features"
  /\ \E f \in Shuffles : shuffle' = f
  /\ UNCHANGED <<geometry, site, placed, built, communal, taken, coolers, props, awnings, mud, people>>

\* Roof cells with roof on two sides at least.
Sheltered(i) ==
  {c \in communal[i] : c \notin Furnishings /\ Cardinality(Around(c) \cap communal[i]) >= 2}

OutdoorSpots(i) ==
  {c \in {OnGrid(i, Sign(geometry, i), f) : f \in {<<-4, 1>>, <<4, 1>>, <<0, 2>>, <<-6, 2>>, <<6, 2>>}} :
     InBounds(c) /\ c \notin site.road /\ Unbuilt(c) /\ Unkept(c) /\ c \notin Furnishings}

KindsOf(i, sheltered) ==
  LET Test(kind) == (kind \in WeatherSensitive) = sheltered IN SelectSeq(PropKinds(i), Test)

Furnishing(i) ==
  LET sign == Sign(geometry, i)
      sheltered == Sheltered(i)
      best == Min({Apart(c, sign) : c \in sheltered})
      cooler == Chosen({c \in sheltered : Apart(c, sign) = best}, 1)[1]
      kindsIn == KindsOf(i, TRUE)
      kindsOut == KindsOf(i, FALSE)
      inside == Spread({c \in sheltered : Apart(c, cooler) >= 2}, Len(kindsIn), 3)
      outside == Chosen(OutdoorSpots(i) \ {cooler}, Len(kindsOut))
  IN  IF sheltered = {} \/ Len(inside) < Len(kindsIn) \/ Len(outside) < Len(kindsOut)
      THEN <<>>
      ELSE [cooler |-> cooler,
            props |-> [k \in DOMAIN inside |-> <<inside[k], kindsIn[k]>>]
                        \o [k \in DOMAIN outside |-> <<outside[k], kindsOut[k]>>]]

FurnishCamp ==
  /\ stage = "features" /\ Len(coolers) < Len(Camps)
  /\ \E made \in {Furnishing(Len(coolers) + 1)} :
       IF made = <<>>
       THEN stage' = "failed" /\ UNCHANGED <<coolers, props>>
       ELSE /\ coolers' = Append(coolers, made.cooler)
            /\ props' = props \o made.props
            /\ UNCHANGED stage
  /\ UNCHANGED <<geometry, site, placed, built, communal, taken, shuffle, awnings, mud, people>>

-----------------------------------------------------------------------------
(* What is put beside the roads.                                            *)

\* One lantern at every eighteenth cell of the way to the temple.
Lanterns ==
  LET spine == Spine(geometry)
      sides(c, upright) ==
        LET across == << <<c[1] + 1, c[2]>>, <<c[1] - 1, c[2]>> >>
        IN  IF upright THEN << <<c[1], c[2] - 1>>, <<c[1], c[2] + 1>> >> \o Reverse(across)
            ELSE across \o << <<c[1], c[2] + 1>>, <<c[1], c[2] - 1>> >>
      beside(k) == SelectSeq(sides(spine[k], (k - 1) % 36 = 9),
                             LAMBDA c : InBounds(c) /\ c \notin site.road)
      lit == SelectSeq([k \in DOMAIN spine |-> k], LAMBDA k : (k - 1) % 18 = 9 /\ beside(k) # <<>>)
      spots == [n \in DOMAIN lit |-> beside(lit[n])[1]]
  IN  SelectSeq(spots, LAMBDA c : c \notin PropCells /\ Unbuilt(c) /\ c \notin TempleWalls(geometry))

ArrivalProps == << <<Gate, "arrival-gate">>, <<Directory, "directory">>, <<WaterStation, "water-station">> >>

\* The ground beside a road where an awning may stand.
AwningSpots(propCells) ==
  LET shoulders == {c \in UNION {Around(d) : d \in site.road} : InBounds(c) /\ c \notin site.road}
      coolerCells == Cells(coolers)
      Suitable(c) ==
        /\ Unbuilt(c) /\ Unkept(c) /\ c \notin site.entrances /\ c \notin site.roadSigns
        /\ c \notin propCells /\ c \notin coolerCells
        /\ c \notin Corridor /\ c \notin ArrivalCanopy /\ c # DirectorySign /\ c \notin MudPuddle
  IN  {c \in shoulders : Suitable(c)}

\* Where an awning may stand for the patrols of each flagship camp, the effigy
\* and the temple, each as near as can be (selectPatrolAwningCoordinates).
PatrolPosts ==
  LET Flagship(i) == Camps[i].flagship
      flagships == SelectSeq([i \in CampIds |-> i], Flagship)
  IN  [k \in DOMAIN flagships |-> Sign(geometry, flagships[k])]
        \o << <<geometry.cx, geometry.cy>>, Temple(geometry) >>

RECURSIVE PatrolAwnings(_, _)
PatrolAwnings(posts, spots) ==
  IF posts = <<>> THEN <<>>
  ELSE LET near == {c \in spots : Apart(c, Head(posts)) <= 12}
           first == NearestCell(near, Head(posts))
       IN  IF near = {} THEN <<>> ELSE <<first>> \o PatrolAwnings(Tail(posts), spots \ {first})

TravelerSpots(spots, patrols) ==
  {c \in spots : /\ Apart(c, WakeUp) >= 20
                 /\ \A p \in patrols : Apart(c, p) >= 12
                 /\ \A s \in site.signs : Apart(c, s) > 14}

\* Mutant: the props of the arrival are made after those of the camps.
AllPropsArrivalLast ==
  LET lanterns == Lanterns
  IN  props \o [k \in DOMAIN lanterns |-> <<lanterns[k], "lantern">>] \o ArrivalProps

AllProps ==
  LET lanterns == Lanterns
  IN  ArrivalProps \o [k \in DOMAIN lanterns |-> <<lanterns[k], "lantern">>] \o props

PutUpAwnings ==
  /\ stage = "features" /\ Len(coolers) = Len(Camps)
  /\ \E all \in {AllProps} : \E spots \in {AwningSpots({p[1] : p \in Cells(all)})} :
     \E patrols \in {PatrolAwnings(PatrolPosts, spots)} :
     \E travelers \in {Spread(TravelerSpots(spots, Cells(patrols)), TravelerCount - RoadTravelerCount, 30)} :
         /\ props' = all
         /\ awnings' = [patrol |-> patrols, traveler |-> travelers]
         /\ stage' = IF /\ Len(patrols) = Len(PatrolPosts)
                        /\ Len(travelers) = TravelerCount - RoadTravelerCount
                     THEN "shelters" ELSE "failed"
  /\ UNCHANGED <<geometry, site, placed, built, communal, taken, shuffle, coolers, mud, people>>

Puddle(c) == {<<c[1] + d[1], c[2] + d[2]>> : d \in {<<0, 0>>, <<-1, 0>>, <<1, 0>>, <<0, -1>>, <<0, 1>>, <<1, 1>>}}

\* Where a puddle may gather: beside a road, on ground that is not used.
RunoffSpots ==
  LET awning == Cells(awnings.patrol) \cup Cells(awnings.traveler)
      spineSides == Clearance(site.spine)
      used == Furnishings
      Dry(c) == \/ c \in site.road \/ ~Unbuilt(c) \/ ~Unkept(c) \/ c \in site.roadSigns
                \/ c \in awning \/ c \in used \/ c \in spineSides
                \/ c \in ArrivalCanopy \/ c \in ArrivalMarkers \/ c \in MudPuddle
      Wet(c) == /\ Apart(c, WakeUp) >= 20
                /\ \A d \in Puddle(c) : InBounds(d) /\ ~Dry(d)
                /\ \E d \in Puddle(c) : \E n \in Around(d) : n \in site.road
      beside(r) == {<<r[1] - 2, r[2]>>, <<r[1] + 2, r[2]>>, <<r[1], r[2] - 2>>, <<r[1], r[2] + 2>>}
  IN  {c \in UNION {beside(r) : r \in site.road} : Wet(c)}

RunoffCount == 18

LetItRain ==
  /\ stage = "shelters"
  /\ \E centres \in {Spread(RunoffSpots, RunoffCount, 10)} :
         /\ mud' = UNION {Puddle(c) : c \in Cells(centres)}
         /\ stage' = IF Len(centres) = RunoffCount THEN "residents" ELSE "failed"
  /\ UNCHANGED <<geometry, site, placed, built, communal, taken, shuffle, coolers, props, awnings, people>>

-----------------------------------------------------------------------------
(* People (makeCampgroundNpcs).                                             *)

Standing == {people[k].at : k \in DOMAIN people}

\* The cells of a set that a person may be put on.
Free(cells) ==
  LET used == Furnishings \cup Standing \cup mud
      Blocked(c) ==
        \/ ~Unkept(c) \/ c \in site.entrances \/ c \in site.roadSigns
        \/ \E p \in Parts \ {"roof"} : c \in built[p]
        \/ c \in used \/ c \in Corridor
        \/ c \in ArrivalMarkers \/ c \in ArrivalCanopy \/ c \in MudPuddle
  IN  {c \in cells : ~Blocked(c)}

\* The cells of a set that fewer than n others go before, by their distance.
Foremost(cells, p, n) ==
  LET order == [c \in cells |-> Apart(c, p) * 1000000 + c[2] * 1000 + c[1]] @@ <<>>
  IN  {c \in cells : Cardinality({d \in cells : order[d] < order[c]}) < n}

PutAt(cells, who, camp) == [k \in DOMAIN cells |-> [at |-> cells[k], who |-> who, camp |-> camp]]

HouseCamp(i) ==
  LET count == ResidentHippies[i] + Camps[i].rangers
      spots == Foremost(Free(communal[i]), Sign(geometry, i), 4 * count)
      homes == Chosen(spots, count)
  IN  PutAt(SubSeq(homes, 1, ResidentHippies[i]), "hippie", i)
        \o PutAt(SubSeq(homes, ResidentHippies[i] + 1, Len(homes)), "ranger", i)

HousePeople ==
  /\ stage = "residents"
  /\ \E housed \in {FlattenSeq([i \in CampIds |-> HouseCamp(i)])} :
       /\ people' = housed
       /\ stage' = IF Len(housed) = 56 + RangersAtHome THEN "walkers" ELSE "failed"
  /\ UNCHANGED <<geometry, site, placed, built, communal, taken, shuffle, coolers, props, awnings, mud>>

PutOnRoads ==
  /\ stage = "walkers"
  /\ \E onRoad \in {Chosen(Free(site.road) \ Cells(awnings.patrol), RoadTravelerCount)} :
     \E sheltered \in {Chosen(Free(Cells(awnings.traveler)), TravelerCount - RoadTravelerCount)} :
     \E patrols \in {Chosen(Free(Cells(awnings.patrol)), Len(awnings.patrol))} :
     \E exposed \in {Chosen({c \in Free(site.road) \ Cells(onRoad) : \A s \in site.signs : Apart(c, s) > 14},
                            PatrolCount - Len(patrols))} :
       /\ people' = people \o PutAt(onRoad \o sheltered, "traveler", 0)
                       \o PutAt(patrols \o exposed \o <<Greeter>>, "ranger", 0)
       /\ stage' = IF /\ Len(onRoad) + Len(sheltered) = TravelerCount
                      /\ Len(patrols) = Len(awnings.patrol)
                      /\ Len(patrols) + Len(exposed) = PatrolCount
                   THEN "made" ELSE "failed"
  /\ UNCHANGED <<geometry, site, placed, built, communal, taken, shuffle, coolers, props, awnings, mud>>

LayoutNext ==
  \/ PlaceShelter \/ StartFurnishing \/ FurnishCamp
  \/ PutUpAwnings \/ LetItRain \/ HousePeople \/ PutOnRoads

-----------------------------------------------------------------------------
(* Properties.                                                              *)

\* Where a walker can stand; a tent's door is one that can be opened.
Walkable ==
  Box(0, GridWidth - 1, 0, GridHeight - 1)
    \ (TempleWalls(geometry) \cup built.wall \cup built.post
          \cup {p[1] : p \in {p \in Cells(props) : p[2] \notin PassableProps}})

\* 2^k layers more of a flood over the ground: the last two layers and how many
\* cells the flood has covered.
RECURSIVE Flood(_, _, _)
Flood(ground, k, flood) ==
  IF flood.edge = {} THEN flood
  ELSE IF k > 0 THEN Flood(ground, k - 1, Flood(ground, k - 1, flood))
  ELSE LET beyond == {c \in UNION {Around(d) : d \in flood.edge} :
                        c \in ground /\ c \notin flood.edge /\ c \notin flood.last}
       IN  [last |-> flood.edge, edge |-> beyond, covered |-> flood.covered + Cardinality(beyond)]

CellsReached(ground) == Flood(ground, 11, [last |-> {}, edge |-> {WakeUp}, covered |-> 1]).covered

SumSizes(layers) == FoldLeft(LAMBDA sum, layer : sum + Cardinality(layer), 0, layers)

\* However the level turned out, whoever wakes up at the gate can walk, without
\* cutting a corner, to every cell that can be stood on at all: no shelter, wall
\* or table closes anything off, so every camp, cooler, tent, person and the
\* stairs to the dungeon can be reached.
EverywhereWithinReach ==
  stage = "made" => LET ground == Walkable IN CellsReached(ground) = Cardinality(ground)

\* There are "count" cells so far apart that no cell is within the gap of two.
Roomy(cells, count, gap) ==
  Len(SpreadIn(<<1, GridWidth, GridWidth * GridHeight>>, cells, count, 2 * gap - 1)) = count

\* Making the level never fails, and would not for any other shuffle: wherever
\* cells are chosen that keep a gap, the cells to choose from are roomy, so that
\* none chosen earlier can take the room of two that are still to come.
RoomForEveryShuffle ==
  /\ stage # "failed"
  /\ stage = "features" /\ coolers = <<>> =>
       \A i \in CampIds : Roomy(Sheltered(i), Len(KindsOf(i, TRUE)) + 1, 3)
  /\ stage = "shelters" =>
       /\ Roomy(RunoffSpots, RunoffCount, 10)
       /\ Roomy(TravelerSpots(AwningSpots(PropCells), Cells(awnings.patrol)), TravelerCount - RoadTravelerCount, 30)

\* What is put down at different times, each by its own rule, never lands on one
\* cell: no tent or table stands on a road, in a doorway or over a sign, no shelter
\* reaches into another, no puddle gathers under a roof and no two people begin in
\* one place or on anything that is not ground.
NothingOverlaps ==
  stage = "made" =>
    LET furniture == << TempleWalls(geometry), Effigy(geometry), built.wall, built.post, built.door,
                        built.approach, PropCells, Cells(coolers), site.signs, site.roadSigns >>
        Disjoint(layers) == SumSizes(layers) = Cardinality(UNION Cells(layers))
    IN  /\ Disjoint(furniture \o <<mud, Standing \ {Greeter}>>)
        /\ Disjoint(<<site.road \ Effigy(geometry), built.roof, built.wall, built.post, built.door, mud>>)
        /\ Cardinality(Standing) = Len(people)

\* The two together: everything finds a place, and a place of its own.
EverythingHasItsPlace == RoomForEveryShuffle /\ NothingOverlaps
=============================================================================
