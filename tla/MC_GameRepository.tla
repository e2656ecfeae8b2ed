------------------------- MODULE MC_GameRepository -------------------------
(* Small instances of GameRepository for TLC.                              *)
EXTENDS GameRepository, TLC

CONSTANTS r1, r2

TwoRequests == {r1, r2}
SlotSymmetry == Permutations(TwoRequests)

CrashIo   == {"crash", "io"}
AbortOnly == {"abort"}
IoOnly    == {"io"}
=============================================================================
