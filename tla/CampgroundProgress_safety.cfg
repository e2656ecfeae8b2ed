CONSTANTS
  Waters <- OneWater
  Decoys <- AHammer
  Stowed <- Errands
SPECIFICATION KeenSpec
INVARIANTS HandedIn Settled ToldOnce
PROPERTIES PhasesOnlyForward RewardedOnce StoryFinishes
