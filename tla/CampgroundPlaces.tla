---------------------------- MODULE CampgroundPlaces ----------------------------
(***************************************************************************)
(* What the game makes of a surface level it is given                      *)
(* (campgroundNavigation.ts, campgroundState.ts): where its landmarks are, *)
(* which signs pass for camps, and which part each person plays. All of it *)
(* is read off the entities again, by their names, kinds and distances;    *)
(* what two entities have in common is decided by their keys.              *)
(***************************************************************************)
EXTENDS CampgroundLayout

VARIABLES
  landmarks,   \* their positions
  phantoms,    \* signs that are taken for camps of unknown name
  roles        \* what each person does, by index, and where

placesVars == <<layoutVars, landmarks, phantoms, roles>>

PlacesInit == LayoutInit /\ landmarks = <<>> /\ phantoms = {} /\ roles = <<>>

CurrentLandmarkRadius == 12
NpcCampAssignmentRadius == 24

-----------------------------------------------------------------------------
(* Landmarks.                                                               *)

\* Keys are numbers in writing: one key sorts before another as text does.
Lengthened(n) ==
  CASE n < 10 -> n * 10000 [] n < 100 -> n * 1000 [] n < 1000 -> n * 100
    [] n < 10000 -> n * 10 [] OTHER -> n
KeyBefore(m, n) == Lengthened(m) < Lengthened(n)

\* The keys are handed out to the walls, doors, posts, roofs and signs first.
FirstPropKey ==
  LET awning == Cells(awnings.patrol) \cup Cells(awnings.traveler)
  IN  Cardinality(TempleWalls(geometry)) + Cardinality(built.wall) + Cardinality(built.door)
        + Cardinality(built.post) + Cardinality(built.roof \cup ArrivalCanopy \cup awning)
        + Len(Camps) + 4 + 2

\* The entity nearest to the middle of those that match, [at, key] each.
Representative(matches) ==
  LET n == Cardinality(matches)
      x == MapThenSumSet(LAMBDA e : e.at[1], matches)
      y == MapThenSumSet(LAMBDA e : e.at[2], matches)
      off == [e \in matches |-> Apart(<<n * e.at[1], n * e.at[2]>>, <<x, y>>)]
  IN  CHOOSE e \in matches :
        \A f \in matches \ {e} : off[e] < off[f] \/ (off[e] = off[f] /\ KeyBefore(e.key, f.key))

PropsOf(kind) ==
  {[at |-> props[k][1], key |-> FirstPropKey + k - 1] : k \in {k \in DOMAIN props : props[k][2] = kind}}

Landmarks ==
  [arrival |-> Representative(PropsOf("arrival-gate")).at,
   directory |-> Representative(PropsOf("directory")).at,
   water |-> Representative(PropsOf("water-station")).at,
   effigy |-> Representative({[at |-> c, key |-> 0] : c \in Effigy(geometry)}).at,
   temple |-> Temple(geometry)]

\* Any other sign that has a cooler near by passes for a camp.
Phantoms ==
  {c \in site.roadSigns \cup {DirectorySign, WaterLabel} : \E k \in DOMAIN coolers : Apart(c, coolers[k]) <= 4}

-----------------------------------------------------------------------------
(* Parts to play (deriveCampgroundNpcAssignments). People are made in the   *)
(* order of their keys.                                                     *)

People(who) == {k \in DOMAIN people : people[k].who = who}

\* The nearest to a place of those in a set of people, the one made first of two.
NearestOf(set, place) ==
  CHOOSE k \in set :
    \A j \in set : LET dk == Apart(people[k].at, place)
                       dj == Apart(people[j].at, place)
                   IN  dk < dj \/ (dk = dj /\ k <= j)

Assigned(given, place, eligible, reach, part) ==
  LET free == {k \in eligible \ DOMAIN given : Apart(people[k].at, place) <= reach}
  IN  IF free = {} THEN given ELSE given @@ (NearestOf(free, place) :> part)

Civic(given, place, name) ==
  LET rangers == People("ranger") \ DOMAIN given
  IN  Assigned(given, place, IF rangers # {} THEN rangers ELSE DOMAIN people, 1000, <<"civic", name>>)

Host(given, i) ==
  IF Camps[i].flagship
  THEN Assigned(given, Sign(geometry, i), People("hippie"), NpcCampAssignmentRadius, <<"host", i>>)
  ELSE given

Remaining(k) ==
  LET near == {i \in CampIds : Apart(Sign(geometry, i), people[k].at) <= NpcCampAssignmentRadius}
      home == CHOOSE i \in near : \A j \in near :
                Apart(Sign(geometry, i), people[k].at) <= Apart(Sign(geometry, j), people[k].at)
  IN  IF people[k].who = "traveler" \/ (near = {} /\ people[k].who = "hippie") THEN <<"traveler", 0>>
      ELSE IF near = {} THEN <<"patrol", 0>>
      ELSE <<"resident", home>>

Roles(at) ==
  LET greeted == Assigned(<<>>, at.arrival, People("ranger"), CurrentLandmarkRadius, <<"civic", "arrival">>)
      hosted == FoldLeft(Host, greeted, [i \in CampIds |-> i])
      kept == Civic(Civic(hosted, at.effigy, "effigy"), at.temple, "temple")
  IN  kept @@ [k \in DOMAIN people |-> Remaining(k)]

SettleIn ==
  /\ stage = "made"
  /\ stage' = "settled"
  /\ landmarks' = Landmarks
  /\ phantoms' = Phantoms
  /\ \E at \in {Landmarks} : roles' = Roles(at)
  /\ UNCHANGED <<geometry, site, placed, built, communal, taken, shuffle, coolers, props, awnings, mud, people>>

PlacesNext == (LayoutNext /\ UNCHANGED <<landmarks, phantoms, roles>>) \/ SettleIn

-----------------------------------------------------------------------------
\* The parts of the campground still fit together when they are read off the
\* finished level: the landmarks of the arrival are found there and not at the camp
\* that has a prop of the same kind, no road sign passes for a camp, a ranger keeps
\* each landmark that needs one, every flagship camp is hosted by somebody of its
\* own, and nobody is taken for a resident of a camp they were not housed in.
EveryoneInTheirPlace ==
  stage = "settled" =>
    /\ landmarks.arrival = Gate /\ landmarks.directory = Directory /\ landmarks.water = WaterStation
    /\ phantoms = {}
    /\ \A place \in {"arrival", "effigy", "temple"} :
         \E k \in People("ranger") :
           /\ roles[k] = <<"civic", place>>
           /\ Apart(people[k].at, landmarks[place]) <= CurrentLandmarkRadius
    /\ \A i \in CampIds : Camps[i].flagship =>
         \E k \in DOMAIN people : roles[k] = <<"host", i>> /\ people[k].camp = i
    /\ \A k \in DOMAIN people : people[k].camp # 0 =>
         roles[k] \in {<<"host", people[k].camp>>, <<"resident", people[k].camp>>}
=============================================================================
