----------------------------- MODULE CampgroundPlan -----------------------------
(***************************************************************************)
(* What the geometry of a campground fixes before anything is placed       *)
(* (world.ts): its roads, the landmarks, the lot of each camp, the tiles   *)
(* of each shelter and the ground that is kept free. A camp's shelters are *)
(* described in the frame of its lot, a cell <<along, depth>> counting     *)
(* along the road from the camp's sign and away from the road.             *)
(***************************************************************************)
EXTENDS CampgroundCatalog, FiniteSets, FiniteSetsExt

GridWidth == 360
GridHeight == 160
GateX == 96
MainY == 120
Corridor == (GateX..(GateX + 84)) \X {MainY}
WakeUp == <<GateX - 1, MainY>>
MudPuddle ==
  {<<GateX + d[1], MainY + d[2]>> :
     d \in {<<-1, 0>>, <<-2, 0>>, <<-3, 0>>, <<-4, 0>>, <<-1, -1>>, <<-2, -1>>, <<-3, -2>>, <<-2, 1>>, <<-1, 1>>}}

LOCAL Abs(n) == IF n < 0 THEN -n ELSE n
Apart(p, q) == Abs(p[1] - q[1]) + Abs(p[2] - q[2])
Around(c) == {<<c[1] + 1, c[2]>>, <<c[1] - 1, c[2]>>, <<c[1], c[2] + 1>>, <<c[1], c[2] - 1>>}
InBounds(c) == 0 <= c[1] /\ c[1] < GridWidth /\ 0 <= c[2] /\ c[2] < GridHeight
Clearance(cells) == cells \cup UNION {Around(c) : c \in cells}
Box(l, r, t, b) == (l..r) \X (t..b)
Loop(l, r, t, b) == ((l..r) \X {t, b}) \cup ({l, r} \X (t..b))

\* A geometry has its centre cx, cy and the radii mx, my and ix, iy of the
\* middle and the inner road loop.
IsGeometry(g) ==
  /\ g.cx \in 176..184 /\ g.cy \in 78..82
  /\ g.mx \in 118..124 /\ g.my \in 46..49 /\ g.ix \in 58..62 /\ g.iy \in 28..30

Temple(g) == <<g.cx + 90, g.cy - 36>>
StairsDown(g) == <<g.cx + 90, g.cy - 34>>
\* Mutant: the way in is walled up.
TempleWallsClosed(g) ==
  LET t == Temple(g) IN Loop(t[1] - 6, t[1] + 6, t[2] - 4, t[2] + 4)

TempleWalls(g) ==
  LET t == Temple(g)
  IN  Loop(t[1] - 6, t[1] + 6, t[2] - 4, t[2] + 4) \ Box(t[1] - 1, t[1] + 1, t[2] + 4, t[2] + 4)
Effigy(g) ==
  {<<g.cx + d[1], g.cy + d[2]>> :
     d \in {<<0, 0>>, <<-1, 0>>, <<1, 0>>, <<-2, 1>>, <<2, 1>>, <<0, -1>>, <<0, 1>>}}
Protected(g) ==
  Box(g.cx - 5, g.cx + 5, g.cy - 4, g.cy + 4)
    \cup Box(g.cx + 82, g.cx + 98, g.cy - 42, g.cy - 27)

\* What stands where the player arrives.
Gate == <<GateX, MainY>>
Directory == <<GateX + 4, MainY - 3>>
DirectorySign == <<GateX + 4, MainY - 4>>
WaterStation == <<GateX + 9, MainY + 2>>
WaterLabel == <<GateX + 4, MainY + 4>>
Greeter == <<GateX + 7, MainY - 3>>
ArrivalWater == Box(GateX + 7, GateX + 10, MainY + 3, MainY + 3)
ArrivalCanopy ==
  Box(GateX + 6, GateX + 8, MainY - 3, MainY - 1) \cup Box(GateX + 3, GateX + 10, MainY + 2, MainY + 4)
ArrivalMarkers ==
  {Gate, Directory, DirectorySign, WaterStation, WaterLabel, Greeter} \cup ArrivalWater
RoadSigns(g) ==
  {<<g.cx, g.cy - g.iy>>, <<g.cx + g.ix, g.cy>>, <<g.cx, g.cy + g.iy>>, <<g.cx - g.ix, g.cy>>}

-----------------------------------------------------------------------------
(* Lots.                                                                    *)

\* Where the entrance of each camp leaves its road.
Anchor(g, i) ==
  LET columns == <<30, g.cx - g.mx + 20, g.cx - g.ix + 12, g.cx - 25,
                   g.cx + 20, g.cx + g.ix - 12, g.cx + g.mx - 20, GridWidth - 31>>
      rings == <<"outer", "middle", "inner", "outer", "middle", "inner", "middle", "outer">>
      sides == <<"outer", "middle", "inner", "outer">>
      rows == <<30, g.cy - 18, g.cy + 4, GridHeight - 31>>
      k == (Slot(i) % 8) + 1
      j == (Slot(i) % 4) + 1
      radiusX == [outer |-> 0, middle |-> g.mx, inner |-> g.ix]
      radiusY == [outer |-> 0, middle |-> g.my, inner |-> g.iy]
  IN  CASE Bands[i] = "north" ->
             <<columns[k], IF rings[k] = "outer" THEN 0 ELSE g.cy - radiusY[rings[k]]>>
        [] Bands[i] = "south" ->
             <<columns[k], IF rings[k] = "outer" THEN GridHeight - 1 ELSE g.cy + radiusY[rings[k]]>>
        [] Bands[i] = "west" ->
             <<IF sides[j] = "outer" THEN 0 ELSE g.cx - radiusX[sides[j]], rows[j]>>
        [] Bands[i] = "east" ->
             <<IF sides[j] = "outer" THEN GridWidth - 1 ELSE g.cx + radiusX[sides[j]], rows[j]>>

Inward == [north |-> <<0, 1>>, south |-> <<0, -1>>, west |-> <<1, 0>>, east |-> <<-1, 0>>]
Tangent == [north |-> <<1, 0>>, south |-> <<1, 0>>, west |-> <<0, 1>>, east |-> <<0, 1>>]

\* The cell of the grid that a cell of a frame with its origin at p stands for.
OnGrid(i, p, c) ==
  LET t == Tangent[Bands[i]]
      d == Inward[Bands[i]]
  IN  <<p[1] + c[1] * t[1] + c[2] * d[1], p[2] + c[1] * t[2] + c[2] * d[2]>>

Sign(g, i) == OnGrid(i, Anchor(g, i), <<0, 3>>)
Entrance(g, i) == {OnGrid(i, Anchor(g, i), <<0, d>>) : d \in 0..2}
Signs(g) == {Sign(g, i) : i \in CampIds}
Entrances(g) == UNION {Entrance(g, i) : i \in CampIds}

-----------------------------------------------------------------------------
(* Roads.                                                                   *)

LoopRoads(g) ==
  Loop(0, GridWidth - 1, 0, GridHeight - 1)
    \cup Loop(g.cx - g.mx, g.cx + g.mx, g.cy - g.my, g.cy + g.my)
    \cup Loop(g.cx - g.ix, g.cx + g.ix, g.cy - g.iy, g.cy + g.iy)
    \cup ({g.cx - 80, g.cx, g.cx + 80} \X (0..(GridHeight - 1)))
    \cup ((0..(GridWidth - 1)) \X {g.cy - 50, g.cy, g.cy + 50})

\* The way from the arrival over the effigy to the temple, in order.
Spine(g) ==
  LET east == IF g.cx > GateX + 84 THEN g.cx ELSE GateX + 84
  IN  [k \in 1..(east - GateX + 1) |-> <<GateX + k - 1, MainY>>]
        \o [k \in 1..(MainY - g.cy) |-> <<g.cx, g.cy + k - 1>>]
        \o [k \in 1..90 |-> <<g.cx + k, g.cy>>]
        \o [k \in 1..32 |-> <<g.cx + 90, g.cy - 33 + k>>]
SpineCells(g) == {Spine(g)[k] : k \in DOMAIN Spine(g)}

Plazas(g) ==
  Loop(g.cx - 4, g.cx + 4, g.cy - 3, g.cy + 3)
    \cup Box(g.cx + 89, g.cx + 91, g.cy - 36, g.cy - 28)
    \cup Box(g.cx + 87, g.cx + 93, g.cy - 31, g.cy - 29)

Roads(g) ==
  LET base == LoopRoads(g) \cup SpineCells(g) \cup Entrances(g)
      junctions == {c \in base : Cardinality(Around(c) \cap base) >= 3}
      squares == UNION {Box(c[1] - 1, c[1] + 1, c[2] - 1, c[2] + 1) : c \in junctions}
  IN  {c \in base \cup squares \cup Plazas(g) : InBounds(c)} \ MudPuddle

\* The effigy and the temple with its stairs lie in the protected ground.
Reserved(g) ==
  Protected(g) \cup Signs(g) \cup Entrances(g) \cup RoadSigns(g) \cup Corridor
    \cup ArrivalCanopy \cup ArrivalMarkers \cup {WakeUp} \cup MudPuddle

-----------------------------------------------------------------------------
(* Shelters.                                                                *)

\* The order in which they are placed: popups and carports of every camp, then
\* the personal tents.
PlacementOrder ==
  LET run(i, kind) == [k \in 1..Camps[i][kind] |-> [camp |-> i, kind |-> kind, nth |-> k - 1]]
      communal[i \in 0..Len(Camps)] ==
        IF i = 0 THEN <<>> ELSE communal[i - 1] \o run(i, "popup") \o run(i, "carport")
      personal[i \in 0..Len(Camps)] == IF i = 0 THEN <<>> ELSE personal[i - 1] \o run(i, "personal")
  IN  communal[Len(Camps)] \o personal[Len(Camps)]

\* Half of the way is rounded up, as Math.round does.
CenteredOffset(index, count, spacing) == ((2 * index - (count - 1)) * spacing + 1) \div 2

\* Bands whose rows or columns count towards the road.
FarSide(i) == Bands[i] \in {"south", "east"}

PersonalTiles(s) ==
  LET size == IF (Slot(s.camp) + s.nth) % 2 = 0 THEN 3 ELSE 4
      a == CenteredOffset(s.nth, Camps[s.camp].personal, 6) - size \div 2
      d == IF FarSide(s.camp) THEN size + 1 ELSE 3
      door == <<a + 1, d>>
  IN  [roof |-> Box(a + 1, a + size - 2, d + 1, d + 1),
       wall |-> Loop(a, a + size - 1, d, d + 2) \ {door},
       post |-> {}, door |-> {door}, approach |-> {<<a + 1, d - 1>>}]

PopupTiles(s) ==
  LET w == IF Camps[s.camp].flagship THEN 9 ELSE 7
      h == IF Camps[s.camp].flagship THEN 6 ELSE 5
      a == CenteredOffset(s.nth, Camps[s.camp].popup, 11) - w \div 2
      edge == {k \in 1..w : k % 3 = 0}
      side == {IF FarSide(s.camp) THEN h + 3 - k ELSE 2 + k : k \in {k \in 1..h : k % 3 = 0}}
  IN  [roof |-> Box(a, a + w - 1, 3, h + 2),
       wall |-> {},
       post |-> ({a - 1, a + w} \cup {a - 1 + k : k \in edge}) \X {2, h + 3}
                  \cup ({a - 1, a + w} \X side),
       door |-> {}, approach |-> {}]

CarportTiles(s) ==
  LET length == IF Camps[s.camp].flagship THEN 7 ELSE 6
      a == CenteredOffset(s.nth, Camps[s.camp].carport, 9) - length \div 2
      gap == IF Camps[s.camp].popup = 0 THEN 3 ELSE 12
  IN  [roof |-> Box(a, a + length - 1, gap, gap + 2),
       wall |-> (a..(a + length - 1)) \X {gap - 1, gap + 3},
       post |-> {}, door |-> {}, approach |-> {}]

FrameTiles(s) ==
  CASE s.kind = "personal" -> PersonalTiles(s)
    [] s.kind = "popup" -> PopupTiles(s)
    [] s.kind = "carport" -> CarportTiles(s)

Parts == {"roof", "wall", "post", "door", "approach"}

\* The tiles of a shelter on the grid, moved away from where its camp wants it.
Tiles(g, s, offset) ==
  LET frame == FrameTiles(s)
      moved(c) == OnGrid(s.camp, Sign(g, s.camp), <<c[1] + offset[1], c[2] + offset[2]>>)
      all(cells) == {moved(c) : c \in cells}
  IN  [roof |-> all(frame.roof), wall |-> all(frame.wall), post |-> all(frame.post),
       door |-> all(frame.door), approach |-> all(frame.approach)]

Footprint(tiles) == tiles.roof \cup tiles.wall \cup tiles.post \cup tiles.door

-----------------------------------------------------------------------------
(* People.                                                                  *)

LOCAL Hippies(i) == Camps[i].hippies
LOCAL Travelers(i) == Camps[i].travelers

\* 56 hippies shared out by weight, one to each camp at least, what rounding
\* leaves over to the camps that were cut by the most.
ResidentHippies ==
  LET total == MapThenSumSet(Hippies, CampIds)
      share(i) == (56 - Len(Camps)) * Hippies(i)
      sure == [i \in CampIds |-> 1 + share(i) \div total]
      spare == 56 - MapThenSumSet(LAMBDA i : sure[i], CampIds)
      cut == [i \in CampIds |-> share(i) % total]
      rank(i) == Cardinality({j \in CampIds : cut[j] > cut[i] \/ (cut[j] = cut[i] /\ j < i)})
  IN  [i \in CampIds |-> IF rank(i) < spare THEN sure[i] + 1 ELSE sure[i]]

RangersAtHome == MapThenSumSet(LAMBDA i : Camps[i].rangers, CampIds)

TravelerCount == 8
RoadTravelerCount == Min({4, Max({1, (MapThenSumSet(Travelers, CampIds) + 9) \div 10})})
PatrolCount == 11
=============================================================================
