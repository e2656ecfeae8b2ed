CONSTANTS
  you = you
  ann = ann
  bob = bob
  Width = 6
  Height = 2
  Road <- RoadRow
  Walls <- OneWall
  Doors <- OneDoor
  Dungeon <- Below
  StairsDown <- Top
  StairsUp <- Bottom
  Arrival <- Landing
  Player = you
  Npcs <- Names
  Role <- Roles
  Home <- Homes
  Stops <- StopsOf
  Places <- Entrances
  ViewWidth = 1
  ViewHeight = 2
  ActiveMargin = 1
  Budget = 1
  HomeRadius = 1
SPECIFICATION FairSpec
INVARIANT Apart
PROPERTIES RegionSealed TravelHonest EverybodyServed TravelArrives
