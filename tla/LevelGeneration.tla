---------------------------- MODULE LevelGeneration ----------------------------
(***************************************************************************)
(* One level is generated, which may be the surface (CampgroundGenLevel),  *)
(* the first dungeon level or a deeper one (makeBspLevel). Each has its    *)
(* own seed and its own keys, so that no level depends on another one.     *)
(***************************************************************************)
EXTENDS CampgroundPlaces, FirstDungeonLevel, BspLevel

levelVars == <<placesVars, mazeVars, bspVars>>

Init == PlacesInit /\ MazeInit /\ BspInit

NothingYet == stage = "none" /\ maze = "none" /\ agenda = <<[task |-> "none"]>>

GenerateSurface ==
  /\ NothingYet /\ StartCampground
  /\ UNCHANGED <<landmarks, phantoms, roles, mazeVars, bspVars>>

GenerateFirstDungeonLevel == NothingYet /\ StartMaze /\ UNCHANGED <<placesVars, bspVars>>

GenerateDeeperLevel == NothingYet /\ StartBsp /\ UNCHANGED <<placesVars, mazeVars>>

Generated == stage \in {"settled", "failed"} \/ maze \in {"furnished", "failed"} \/ agenda = <<>>

Next ==
  \/ GenerateSurface \/ GenerateFirstDungeonLevel \/ GenerateDeeperLevel
  \/ PlacesNext /\ UNCHANGED <<mazeVars, bspVars>>
  \/ MazeNext /\ UNCHANGED <<placesVars, bspVars>>
  \/ BspNext /\ UNCHANGED <<placesVars, mazeVars>>
  \/ Generated /\ UNCHANGED levelVars

Spec == Init /\ [][Next]_levelVars
=============================================================================
