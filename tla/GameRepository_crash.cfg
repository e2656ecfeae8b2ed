CONSTANTS
  r1 = r1
  r2 = r2
  Requests <- TwoRequests
  Shutdown = Shutdown
  Free = Free
  NoGame = NoGame
  Corrupt = Corrupt
  Faults <- CrashIo
  InOrderIO = TRUE
  MaxMutations = 1
SPECIFICATION SteadyFairSpec
INVARIANTS DurableSave QuitIsFinal SteadyIsAnnounced
PROPERTIES SteadyReload RequestsFinish
