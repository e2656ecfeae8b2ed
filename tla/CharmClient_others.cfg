CONSTANTS
  QueueLimit = 1
  AutoKinds = {"travel"}
  Endings = {"save", "C-c"}
  Faults = {"refused"}
  FirstSetup = "complete"
  MaxSerial = 1
  MaxFaults = 1
  MaxOthers = 1
  MaxRestarts = 1
  MaxSteps = 1
  None = None
SPECIFICATION Spec
CHECK_DEADLOCK FALSE
INVARIANTS DrainedIsCurrent RecoveryArmed
PROPERTY StreamNotOverwritten
