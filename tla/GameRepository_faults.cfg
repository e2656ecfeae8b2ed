CONSTANTS
  r1 = r1
  r2 = r2
  Requests <- TwoRequests
  Shutdown = Shutdown
  Free = Free
  NoGame = NoGame
  Corrupt = Corrupt
  Faults <- AllFaults
  InOrderIO = FALSE
  MaxMutations = 1
SPECIFICATION Spec
SYMMETRY SlotSymmetry
INVARIANT TerminalIsEmpty
PROPERTIES SaveNeverTorn ProseOnlyFromConfirm ProgressOnlyForward
