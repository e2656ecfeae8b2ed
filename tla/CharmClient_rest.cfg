CONSTANTS
  QueueLimit = 1
  AutoKinds = {"landmark"}
  Endings = {"save"}
  Faults = {"refused", "lost"}
  FirstSetup = "selectRole"
  MaxSerial = 3
  MaxFaults = 1
  MaxOthers = 0
  MaxRestarts = 0
  MaxSteps = 1
  None = None
SPECIFICATION FairSpec
CHECK_DEADLOCK FALSE
INVARIANT BeginsInOrder
PROPERTY ComesToRest
