CONSTANTS
  r1 = r1
  r2 = r2
  Requests <- TwoRequests
  Shutdown = Shutdown
  Free = Free
  NoGame = NoGame
  Corrupt = Corrupt
  Faults <- AbortOnly
  InOrderIO = TRUE
  MaxMutations = 2
SPECIFICATION Spec
INVARIANT QuitIsFinal
