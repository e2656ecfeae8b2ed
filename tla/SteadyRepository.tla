-------------------------- MODULE SteadyRepository --------------------------
(* GameRepository with a record of failed calls, for the properties that   *)
(* hold as long as the file system does what it is asked.                  *)
EXTENDS MC_GameRepository

VARIABLE steady   \* history: has no call failed in this process?

Fails == \E f \in Fibers : IoFails(f)

SteadySpec ==
  /\ Init /\ steady = TRUE
  /\ [][Next /\ steady' = (~Fails /\ (steady \/ Boot))]_<<vars, steady>>

SteadyFairSpec == SteadySpec /\ Fairness

\* Unless a call has failed in this process, the state announced last is the
\* current one whenever no operation is in progress: every change of the live game
\* has been published, whatever crashed before (publishClientStateUnlocked).
SteadyIsAnnounced == steady => AnnouncedIsLive

\* A graceful shutdown during which and before which no call has failed leaves
\* the live game in the file, whatever requests it overtook (server.ts, the
\* finalizer of the repository).
SteadyReload ==
  [][steady /\ Exit /\ live # NoGame /\ live.player => disk' = live]_<<vars, steady>>
=============================================================================
