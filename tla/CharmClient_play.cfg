CONSTANTS
  QueueLimit = 1
  AutoKinds = {"run"}
  Endings = {"save", "quit"}
  Faults = {"refused", "lost"}
  FirstSetup = "complete"
  MaxSerial = 3
  MaxFaults = 1
  MaxOthers = 0
  MaxRestarts = 0
  MaxSteps = 2
  None = None
SPECIFICATION Spec
CHECK_DEADLOCK FALSE
INVARIANT OneAtATime
PROPERTY KeysInOrder
