--------------------------- MODULE CampgroundCatalog ---------------------------
(***************************************************************************)
(* The camps that the campground is laid out for (campground.ts): what     *)
(* kind each is, its theme, how many shelters of each kind it puts up and  *)
(* how many people of each kind belong to it. A camp's slot is its         *)
(* position in this sequence less one.                                     *)
(***************************************************************************)
EXTENDS Integers, Sequences

LOCAL Camp(kind, motif, structure, npcMix) ==
  [flagship |-> kind = "flagship", motif |-> motif,
   personal |-> structure[1], popup |-> structure[2], carport |-> structure[3],
   hippies |-> npcMix[1], rangers |-> npcMix[2], travelers |-> npcMix[3]]

NorthCamps ==
  << Camp("flagship", "communal-kitchen", <<1, 2, 1>>, <<4, 0, 2>>),  \* dusty-spoon
     Camp("flagship", "repair-yard", <<2, 1, 1>>, <<3, 0, 2>>),       \* patch-bay
     Camp("support", "tent-cluster", <<3, 1, 0>>, <<2, 0, 1>>),       \* moth-lantern
     Camp("flagship", "dance-dome", <<1, 2, 2>>, <<5, 0, 3>>),        \* pulse-dome
     Camp("support", "shade-court", <<2, 1, 1>>, <<2, 0, 1>>),        \* pocket-universe
     Camp("flagship", "art-yard", <<2, 2, 1>>, <<4, 0, 2>>),          \* questionable-gallery
     Camp("support", "tea-circle", <<2, 1, 0>>, <<2, 0, 1>>),         \* tea-and-sympathy
     Camp("flagship", "quiet-garden", <<4, 1, 1>>, <<3, 0, 1>>) >>    \* hush-harbor

SouthCamps ==
  << Camp("flagship", "shaded-lounge", <<3, 2, 2>>, <<5, 0, 2>>),     \* soft-landing
     Camp("flagship", "flag-workshop", <<2, 2, 1>>, <<4, 0, 2>>),     \* flag-lab
     Camp("support", "shade-court", <<2, 1, 1>>, <<2, 0, 1>>),        \* shade-tree
     Camp("support", "tent-cluster", <<3, 1, 0>>, <<2, 0, 1>>),       \* lost-sock-exchange
     Camp("flagship", "ranger-outpost", <<2, 2, 1>>, <<1, 4, 3>>),    \* ranger-post-nine
     Camp("support", "tent-cluster", <<4, 0, 1>>, <<2, 0, 1>>),       \* dust-bunnies
     Camp("support", "tea-circle", <<2, 1, 0>>, <<2, 0, 1>>),         \* slow-burn
     Camp("support", "reading-nook", <<3, 1, 0>>, <<2, 0, 1>>) >>     \* night-owl-nook

WestCamps ==
  << Camp("support", "shade-court", <<2, 1, 1>>, <<2, 0, 1>>),        \* solar-salon
     Camp("support", "repair-yard", <<2, 1, 1>>, <<2, 0, 1>>),        \* spare-parts
     Camp("support", "reading-nook", <<3, 1, 0>>, <<2, 0, 1>>),       \* cloud-library
     Camp("support", "shaded-lounge", <<2, 1, 1>>, <<2, 0, 1>>) >>    \* sunset-society

EastCamps ==
  << Camp("support", "tent-cluster", <<3, 1, 0>>, <<2, 0, 1>>),       \* banana-phone
     Camp("support", "shade-court", <<2, 1, 1>>, <<2, 0, 1>>),        \* cosmic-laundromat
     Camp("support", "repair-yard", <<2, 1, 1>>, <<2, 0, 1>>),        \* odd-jobs
     Camp("support", "tent-cluster", <<4, 1, 0>>, <<3, 0, 1>>) >>     \* friendly-neighborhood

Camps == NorthCamps \o SouthCamps \o WestCamps \o EastCamps
CampIds == 1..Len(Camps)
Slot(i) == i - 1

Bands ==
  LET of(camps, band) == [k \in DOMAIN camps |-> band]
  IN  of(NorthCamps, "north") \o of(SouthCamps, "south") \o of(WestCamps, "west") \o of(EastCamps, "east")

\* The props of each theme in order (motifCampPropKinds); support camps put up
\* only the first two.
MotifProps(motif) ==
  CASE motif = "communal-kitchen" -> <<"table", "table", "water-station">>
    [] motif = "repair-yard" -> <<"workbench", "bike-rack", "table">>
    [] motif = "dance-dome" -> <<"stage", "speaker", "speaker">>
    [] motif = "art-yard" -> <<"artwork", "flagpole", "artwork">>
    [] motif = "flag-workshop" -> <<"flagpole", "workbench", "artwork">>
    [] motif = "ranger-outpost" -> <<"directory", "bike-rack", "table">>
    [] motif = "quiet-garden" -> <<"artwork", "table", "lantern">>
    [] motif \in {"shaded-lounge", "tea-circle", "reading-nook"} -> <<"table", "lantern", "artwork">>
    [] motif = "shade-court" -> <<"table", "artwork", "lantern">>
    [] motif = "tent-cluster" -> <<"lantern", "table", "flagpole">>

PropKinds(i) == SubSeq(MotifProps(Camps[i].motif), 1, IF Camps[i].flagship THEN 3 ELSE 2)
WeatherSensitive == {"speaker", "stage", "table", "water-station", "workbench"}
PassableProps == {"arrival-gate", "stage", "directory", "lantern"}
=============================================================================
