CONSTANTS
  Replay = 2
  Capacity = 2
  Wire = 1
  Pending = Pending
  MaxVersion = 4
  MaxGeneration = 3
SPECIFICATION FairSpec
CHECK_DEADLOCK FALSE
INVARIANT DrainedIsCurrent
PROPERTIES MirrorSpec EventuallyShown
