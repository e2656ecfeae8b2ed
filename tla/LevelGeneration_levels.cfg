SPECIFICATION Spec
CONSTANTS
  Geometries <- AFewGeometries
  Shuffles <- TwoShuffles
  MazeWidth = 10
  MazeHeight = 8
  HippieCount = 2
  BlockWidth = 13
  BlockHeight = 9
  MaxPartWidth = 8
  MaxPartHeight = 8
  MinPartSpan = 4
  Grain = 2
  Draws <- TwoDraws
INVARIANTS EverythingHasItsPlace EverywhereWithinReach EveryoneInTheirPlace FlagAtTheEndOfAMaze LevelHoldsTogether
