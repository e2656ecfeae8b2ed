--------------------------- MODULE GameRepository ---------------------------
(***************************************************************************)
(* The process-wide game service of packages/server/src: GameRepository.ts *)
(* over GameStateStore.ts and GamePersistence.ts, the HTTP fibers of       *)
(* Api.ts that call it, and the signal handling of server.ts.              *)
(*                                                                         *)
(* Every operation takes the one permit of lifecycleSemaphore, works on    *)
(* the store in memory, and waits for the file system while it holds the   *)
(* permit.  A fiber therefore steps from one wait to the next; everything  *)
(* between two waits is one action.  A fiber can be interrupted wherever   *)
(* it waits or yields: the permit is given back, but the promise it was    *)
(* waiting for has no AbortSignal and its file-system call still lands.    *)
(*                                                                         *)
(* A game is abstracted to what the lifecycle tells apart: a stamp that    *)
(* says which change made it, the setup phase, whether its world still     *)
(* holds the player, and whether its event history still holds the opening *)
(* prose.                                                                  *)
(***************************************************************************)
EXTENDS Naturals

CONSTANTS
  Requests,      \* slots for concurrent HTTP request fibers
  Shutdown,      \* the fiber that runs the autosaves of a graceful shutdown
  Free,          \* the holder of the permit when nobody has it
  NoGame,        \* Option.none(), an absent file, nothing read
  Corrupt,       \* a file that does not decode
  Faults,        \* which of AllFaults may happen
  InOrderIO,     \* do file-system calls complete in the order of issue?
  MaxMutations   \* bound: mutating requests accepted in a behaviour

AllFaults == {"crash", "io", "abort"}

Fibers == Requests \union {Shutdown}
Phases == {"selectRole", "confirm", "complete"}
Game   == [stamp: Nat, phase: Phases, player: BOOLEAN, prose: BOOLEAN]

ASSUME ConstantsAssumption ==
  /\ Shutdown \notin Requests
  /\ Free \notin Fibers
  /\ NoGame \notin Game
  /\ Corrupt \notin Game \union {NoGame}
  /\ Faults \subseteq AllFaults
  /\ InOrderIO \in BOOLEAN
  /\ MaxMutations \in Nat

VARIABLES
  disk,       \* the save file: NoGame, Corrupt or a game
  live,       \* GameStateStore's stateRef
  terminal,   \* terminalLifecycleRef and -KindRef: "no", "save" or "quit"
  announced,  \* the last client state published in this process, if any
  lock,       \* who holds the permit of lifecycleSemaphore
  op,         \* op[f]: the operation fiber f runs, "none" if it runs none
  pc,         \* pc[f]: where it is
  hand,       \* hand[f]: the game f has read or is writing
  mode,       \* "up", "draining", "closing" or "down" (server.ts)
  clock,      \* the stamp of the latest change
  mutations,  \* mutating requests accepted so far (bounded)
  promise     \* history: the game of the last completed save, until a quit,
              \* a restore or a deletion takes it back

memory == <<live, terminal, announced>>
vars == <<disk, live, terminal, announced, lock, op, pc, hand, mode, clock,
          mutations, promise>>

-----------------------------------------------------------------------------
(* Operations and places.                                                  *)

SetupOps  == {"role", "confirm", "decline"}
Mutators  == SetupOps \union {"act"}
Ending    == {"save", "quit"}
RequestOps == Mutators \union Ending \union {"view", "restore"}
Ops == RequestOps \union {"autosave", "none"}

IoPlaces   == {"read", "purge", "consume", "delete", "sweep", "write", "rename"}
LatePlaces == {"lateDelete", "lateWrite", "lateRename"}
InPlaces   == IoPlaces \union {"body", "commit", "publish"}
Places     == {"idle", "wait"} \union InPlaces \union LatePlaces

Inside(f) == pc[f] \in InPlaces

-----------------------------------------------------------------------------
(* Games.                                                                  *)

\* makeInitialGameState: the same world every time, setup still to be done.
Fresh == [stamp |-> 0, phase |-> "selectRole", player |-> TRUE, prose |-> FALSE]

\* Mutant: the retained arrival narration is kept.
PreparedKeepsProse(g) == g

\* prepareRestoredCampgroundState drops the retained arrival narration.
Prepared(g) == [g EXCEPT !.prose = FALSE]

\* GameStateStore.get and modifyEffect create the game on first use.
LiveOrFresh == IF live = NoGame THEN Fresh ELSE live

IsTerminalEmpty == terminal # "no" /\ live = NoGame

\* What a transform makes of a game; the stamp n is spent only on a change.
Turn(g, n) == IF g.phase = "complete" THEN [g EXCEPT !.stamp = n] ELSE g

SetupChanges(o, g) ==
  /\ g.phase # "complete"
  /\ o = "confirm" => g.phase = "confirm"

Setup(o, g, n) ==
  CASE ~SetupChanges(o, g) -> g
    [] o = "role"    -> [g EXCEPT !.stamp = n, !.phase = "confirm"]
    [] o = "decline" -> [g EXCEPT !.stamp = n, !.phase = "selectRole"]
    [] OTHER         -> [g EXCEPT !.stamp = n, !.phase = "complete",
                                  !.prose = TRUE]

\* getClientStateUnlocked with the terminal marker of the event.
View == [game |-> IF terminal # "no" THEN live ELSE LiveOrFresh,
         terminal |-> terminal]

-----------------------------------------------------------------------------
(* The permit and the fiber's own bookkeeping.                             *)

Goto(f, place) == pc' = [pc EXCEPT ![f] = place]

Stay == UNCHANGED <<op, lock>>

\* The end of an operation, successful or not: withPermits releases.
Leave(f) ==
  /\ Goto(f, "idle")
  /\ op' = [op EXCEPT ![f] = "none"]
  /\ lock' = Free

\* Mutant: the lazy restore does not ask whether a live game is there.
FirstPlaceNoPeek(o) ==
  CASE o = "quit"     -> "delete"
    [] o = "restore"  -> "read"
    [] o = "autosave" -> "body"
    [] OTHER -> IF terminal # "no" THEN "body" ELSE "read"

\* Mutant: a quit ends the game without deleting its file.
FirstPlaceNoDelete(o) ==
  CASE o = "quit"     -> "commit"
    [] o = "restore"  -> "read"
    [] o = "autosave" -> "body"
    [] OTHER -> IF live # NoGame \/ terminal # "no" THEN "body" ELSE "read"

\* ensureRestoredUnlocked reads the file only when there is neither a live
\* game nor a terminal one; restore always reads, quit never does.
FirstPlace(o) ==
  CASE o = "quit"     -> "delete"
    [] o = "restore"  -> "read"
    [] o = "autosave" -> "body"
    [] OTHER -> IF live # NoGame \/ terminal # "no" THEN "body" ELSE "read"

\* A request arrives while the HTTP server still listens.
Request(r, o) ==
  /\ mode \in {"up", "draining"}
  /\ pc[r] = "idle"
  /\ o \in Mutators => mutations < MaxMutations
  /\ mutations' = IF o \in Mutators THEN mutations + 1 ELSE mutations
  /\ op' = [op EXCEPT ![r] = o]
  /\ Goto(r, "wait")
  /\ UNCHANGED <<disk, memory, lock, hand, mode, clock, promise>>

\* A quit has nothing to read: its deletion is issued as it gets the permit.
Acquire(f) ==
  /\ pc[f] = "wait"
  /\ lock = Free
  /\ lock' = f
  /\ Goto(f, FirstPlace(op[f]))
  /\ promise' = IF op[f] = "quit" THEN NoGame ELSE promise
  /\ UNCHANGED <<disk, memory, op, hand, mode, clock, mutations>>

-----------------------------------------------------------------------------
(* The file system.  With InOrderIO a call waits for the abandoned calls   *)
(* issued before it; a save issues its rename only after its write.        *)

Settled == InOrderIO => \A f \in Fibers : pc[f] \notin {"lateDelete", "lateWrite"}

AfterRead(o) == IF o = "restore" THEN "commit" ELSE "body"

\* readSaveFile and decode in restorePreserving.  ensureRestored installs the
\* game at once; restoreAndConsume still has to delete the file.
Read(f) ==
  /\ pc[f] = "read"
  /\ Settled
  /\ \/ /\ disk = NoGame
        /\ Goto(f, AfterRead(op[f]))
        /\ UNCHANGED <<live, hand, promise>>
     \/ /\ disk = Corrupt
        /\ Goto(f, "purge")
        /\ UNCHANGED <<live, hand, promise>>
     \/ /\ disk \notin {NoGame, Corrupt}
        /\ op[f] # "restore"
        /\ live' = Prepared(disk)
        /\ Goto(f, "body")
        /\ UNCHANGED <<hand, promise>>
     \/ /\ disk \notin {NoGame, Corrupt}
        /\ op[f] = "restore"
        /\ hand' = [hand EXCEPT ![f] = disk]
        /\ promise' = NoGame
        /\ Goto(f, "consume")
        /\ UNCHANGED live
  /\ UNCHANGED <<disk, terminal, announced, lock, op, mode, clock, mutations>>

\* deleteSave resolves: after a corrupt read, a consume, a playerless game or
\* a quit the operation goes on; after the sweep of an unchanged setup it ends.
DeleteLands(f) ==
  /\ pc[f] \in {"purge", "consume", "delete", "sweep"}
  /\ Settled
  /\ disk' = NoGame
  /\ \/ /\ pc[f] \in {"purge", "consume"}
        /\ Goto(f, AfterRead(op[f]))
        /\ Stay
     \/ /\ pc[f] = "delete" /\ op[f] # "autosave"
        /\ Goto(f, IF op[f] \in Mutators THEN "publish" ELSE "commit")
        /\ Stay
     \/ /\ pc[f] = "sweep" \/ (pc[f] = "delete" /\ op[f] = "autosave")
        /\ Leave(f)
  /\ UNCHANGED <<memory, hand, mode, clock, mutations, promise>>

\* Mutant: the save file itself is written, not a temporary one.
WriteInPlace(f) ==
  /\ pc[f] = "write"
  /\ Settled
  /\ disk' = Corrupt
  /\ Goto(f, "rename")
  /\ UNCHANGED <<memory, lock, op, hand, mode, clock, mutations, promise>>

\* mkdir and writeFile of the temporary path: the save file is untouched.
WriteTemp(f) ==
  /\ pc[f] = "write"
  /\ Settled
  /\ Goto(f, "rename")
  /\ UNCHANGED <<disk, memory, lock, op, hand, mode, clock, mutations, promise>>

\* rename(tempPath, saveFilePath) replaces the file in one step.
Rename(f) ==
  /\ pc[f] = "rename"
  /\ Settled
  /\ disk' = hand[f]
  /\ promise' = hand[f]
  /\ hand' = [hand EXCEPT ![f] = NoGame]
  /\ IF op[f] = "autosave"
       THEN Leave(f)
       ELSE /\ Goto(f, IF op[f] \in SetupOps THEN "publish" ELSE "commit")
            /\ Stay
  /\ UNCHANGED <<memory, mode, clock, mutations>>

\* Mutant: a failed write removes the save file in its cleanup.
IoFailsCleansUp(f) ==
  /\ "io" \in Faults
  /\ pc[f] \in IoPlaces
  /\ Leave(f)
  /\ hand' = [hand EXCEPT ![f] = NoGame]
  /\ disk' = IF pc[f] \in {"write", "rename"} THEN NoGame ELSE disk
  /\ UNCHANGED <<memory, mode, clock, mutations, promise>>

\* The promise rejects; Effect.orDie fails the operation, nothing is undone.
IoFails(f) ==
  /\ "io" \in Faults
  /\ pc[f] \in IoPlaces
  /\ Leave(f)
  /\ hand' = [hand EXCEPT ![f] = NoGame]
  /\ UNCHANGED <<disk, memory, mode, clock, mutations, promise>>

-----------------------------------------------------------------------------
(* The bodies of the operations, between two waits.                        *)

\* Persist a game with a player, delete the file of one without.
Persist(f, g) ==
  IF g.player
    THEN /\ Goto(f, "write")
         /\ hand' = [hand EXCEPT ![f] = g]
         /\ UNCHANGED promise
    ELSE /\ Goto(f, "delete")
         /\ promise' = NoGame
         /\ UNCHANGED hand

\* Mutant: a view creates a game without asking whether the last one is over.
ServeViewAlways(f) ==
  /\ pc[f] = "body" /\ op[f] = "view"
  /\ live' = LiveOrFresh
  /\ Leave(f)
  /\ UNCHANGED <<disk, terminal, announced, hand, mode, clock, mutations,
                 promise>>

\* The getters and the stream's snapshot: withRestoredStore's effect.
ServeView(f) ==
  /\ pc[f] = "body" /\ op[f] = "view"
  /\ live' = IF IsTerminalEmpty THEN live ELSE LiveOrFresh
  /\ Leave(f)
  /\ UNCHANGED <<disk, terminal, announced, hand, mode, clock, mutations,
                 promise>>

\* Mutant: a mutation of a game that is over is retried until there is one.
SkipEndedRetries(f) ==
  /\ pc[f] = "body" /\ op[f] \in Mutators
  /\ IsTerminalEmpty
  /\ Goto(f, "wait")
  /\ lock' = Free
  /\ UNCHANGED <<disk, memory, op, hand, mode, clock, mutations, promise>>

\* A mutation of a game that is over does nothing.
SkipEnded(f) ==
  /\ pc[f] = "body" /\ op[f] \in Mutators
  /\ IsTerminalEmpty
  /\ Leave(f)
  /\ UNCHANGED <<disk, memory, hand, mode, clock, mutations, promise>>

\* Mutant: a turn is not announced.
TakeTurnSilently(f) ==
  /\ pc[f] = "body" /\ op[f] = "act"
  /\ ~IsTerminalEmpty
  /\ clock' = clock + 1
  /\ live' = Turn(LiveOrFresh, clock')
  /\ IF live'.player
       THEN Leave(f) /\ UNCHANGED promise
       ELSE Goto(f, "delete") /\ promise' = NoGame /\ Stay
  /\ UNCHANGED <<disk, terminal, announced, hand, mode, mutations>>

\* doPlayerAction: no autosave; a game that has lost its player loses its file.
TakeTurn(f) ==
  /\ pc[f] = "body" /\ op[f] = "act"
  /\ ~IsTerminalEmpty
  /\ clock' = clock + 1
  /\ live' = Turn(LiveOrFresh, clock')
  /\ IF live'.player
       THEN Goto(f, "publish") /\ UNCHANGED promise
       ELSE Goto(f, "delete") /\ promise' = NoGame
  /\ UNCHANGED <<disk, terminal, announced, lock, op, hand, mode, mutations>>

\* selectRole and confirmSetup: a change is stored, persisted and announced.
ChangeSetup(f) ==
  /\ pc[f] = "body" /\ op[f] \in SetupOps
  /\ ~IsTerminalEmpty
  /\ SetupChanges(op[f], LiveOrFresh)
  /\ clock' = clock + 1
  /\ live' = Setup(op[f], LiveOrFresh, clock')
  /\ Persist(f, live')
  /\ UNCHANGED <<disk, terminal, announced, lock, op, mode, mutations>>

\* An unchanged setup is stored, neither saved nor announced.
KeepSetup(f) ==
  /\ pc[f] = "body" /\ op[f] \in SetupOps
  /\ ~IsTerminalEmpty
  /\ ~SetupChanges(op[f], LiveOrFresh)
  /\ live' = LiveOrFresh
  /\ IF live'.player
       THEN Leave(f) /\ UNCHANGED promise
       ELSE Goto(f, "sweep") /\ promise' = NoGame /\ Stay
  /\ UNCHANGED <<disk, terminal, announced, hand, mode, clock, mutations>>

\* saveGame writes first and ends the game afterwards.
SaveBody(f) ==
  /\ pc[f] = "body" /\ op[f] = "save"
  /\ IF live = NoGame
       THEN Goto(f, "commit") /\ UNCHANGED <<hand, promise>>
       ELSE Persist(f, live)
  /\ UNCHANGED <<disk, memory, lock, op, mode, clock, mutations>>

\* saveCurrentGame at shutdown.
AutosaveBody(f) ==
  /\ pc[f] = "body" /\ op[f] = "autosave"
  /\ IF live = NoGame
       THEN Leave(f) /\ UNCHANGED <<hand, promise>>
       ELSE Persist(f, live) /\ Stay
  /\ UNCHANGED <<disk, memory, mode, clock, mutations>>

\* store.reset and the terminal refs, once the file is as it should be.
EndGame(f) ==
  /\ pc[f] = "commit" /\ op[f] \in Ending
  /\ live' = NoGame
  /\ terminal' = op[f]
  /\ Goto(f, "publish")
  /\ UNCHANGED <<disk, announced, lock, op, hand, mode, clock, mutations,
                 promise>>

\* The restored game replaces the live one, and the game is on again.
Resume(f) ==
  /\ pc[f] = "commit" /\ op[f] = "restore"
  /\ terminal' = "no"
  /\ live' = IF hand[f] = NoGame THEN NoGame ELSE Prepared(hand[f])
  /\ hand' = [hand EXCEPT ![f] = NoGame]
  /\ Goto(f, "publish")
  /\ UNCHANGED <<disk, announced, lock, op, mode, clock, mutations, promise>>

\* publishClientStateUnlocked projects the store, creating a game if need be.
Publish(f) ==
  /\ pc[f] = "publish"
  /\ live' = IF IsTerminalEmpty THEN live ELSE LiveOrFresh
  /\ announced' = View
  /\ Leave(f)
  /\ UNCHANGED <<disk, terminal, hand, mode, clock, mutations, promise>>

-----------------------------------------------------------------------------
(* Interruption, signals and restarts.                                     *)

\* What is left of an interrupted fiber: the file-system call in flight.
Abandoned(place) ==
  CASE place \in {"purge", "consume", "delete", "sweep"} -> "lateDelete"
    [] place = "write"       -> "lateWrite"
    [] place = "rename"      -> "lateRename"
    [] place \in LatePlaces  -> place
    [] OTHER                 -> "idle"

KeptHand(f) == IF Abandoned(pc[f]) \in {"lateWrite", "lateRename"}
               THEN hand[f] ELSE NoGame

\* The client goes away before the answer: the HTTP server interrupts.
Abort(r) ==
  /\ "abort" \in Faults
  /\ pc[r] = "wait" \/ Inside(r)
  /\ Goto(r, Abandoned(pc[r]))
  /\ op' = [op EXCEPT ![r] = "none"]
  /\ hand' = [hand EXCEPT ![r] = KeptHand(r)]
  /\ lock' = IF lock = r THEN Free ELSE lock
  /\ UNCHANGED <<disk, memory, mode, clock, mutations, promise>>

LateDelete(r) ==
  /\ pc[r] = "lateDelete"
  /\ disk' = NoGame
  /\ Goto(r, "idle")
  /\ UNCHANGED <<memory, lock, op, hand, mode, clock, mutations, promise>>

LateWrite(r) ==
  /\ pc[r] = "lateWrite"
  /\ Goto(r, "lateRename")
  /\ UNCHANGED <<disk, memory, lock, op, hand, mode, clock, mutations, promise>>

LateRename(r) ==
  /\ pc[r] = "lateRename"
  /\ Settled
  /\ disk' = hand[r]
  /\ hand' = [hand EXCEPT ![r] = NoGame]
  /\ Goto(r, "idle")
  /\ UNCHANGED <<memory, lock, op, mode, clock, mutations, promise>>

\* SIGINT, SIGTERM or SIGUSR2: only the first one counts.
Signal ==
  /\ mode = "up"
  /\ mode' = "draining"
  /\ Goto(Shutdown, "wait")
  /\ op' = [op EXCEPT ![Shutdown] = "autosave"]
  /\ UNCHANGED <<disk, memory, lock, hand, clock, mutations, promise>>

\* Mutant: the repository's scope has no finalizer.
CloseServerAtOnce ==
  /\ mode = "draining" /\ pc[Shutdown] = "idle"
  /\ mode' = "closing"
  /\ pc' = [f \in Fibers |-> Abandoned(pc[f])]
  /\ op' = [f \in Fibers |-> "none"]
  /\ hand' = [f \in Fibers |-> KeptHand(f)]
  /\ lock' = Free
  /\ UNCHANGED <<disk, memory, clock, mutations, promise>>

\* The main fiber is interrupted once runRegisteredAutosaves is over: the HTTP
\* server goes first and interrupts its requests, then the finalizer of the
\* repository autosaves once more.
CloseServer ==
  /\ mode = "draining" /\ pc[Shutdown] = "idle"
  /\ mode' = "closing"
  /\ pc' = [f \in Fibers |->
              IF f = Shutdown THEN "wait" ELSE Abandoned(pc[f])]
  /\ op' = [f \in Fibers |-> IF f = Shutdown THEN "autosave" ELSE "none"]
  /\ hand' = [f \in Fibers |-> KeptHand(f)]
  /\ lock' = Free
  /\ UNCHANGED <<disk, memory, clock, mutations, promise>>

\* The process is gone: only the file is left.
Stop ==
  /\ mode' = "down"
  /\ live' = NoGame /\ terminal' = "no" /\ announced' = NoGame
  /\ lock' = Free
  /\ op' = [f \in Fibers |-> "none"]
  /\ pc' = [f \in Fibers |-> "idle"]
  /\ hand' = [f \in Fibers |-> NoGame]
  /\ UNCHANGED <<disk, clock, mutations, promise>>

Exit == mode = "closing" /\ pc[Shutdown] = "idle" /\ Stop

Crash == "crash" \in Faults /\ mode # "down" /\ Stop

Boot ==
  /\ mode = "down"
  /\ mode' = "up"
  /\ UNCHANGED <<disk, memory, lock, op, pc, hand, clock, mutations, promise>>

-----------------------------------------------------------------------------
(* Specification.                                                          *)

\* Files an earlier process, or an older version, can have left behind.
FirstFiles ==
  {NoGame, Corrupt, Fresh,
   [stamp |-> 1, phase |-> "confirm", player |-> TRUE, prose |-> FALSE]}
    \union {[stamp |-> 1, phase |-> "complete", player |-> p, prose |-> p] :
              p \in BOOLEAN}

Init ==
  /\ disk \in FirstFiles
  /\ live = NoGame /\ terminal = "no" /\ announced = NoGame
  /\ lock = Free
  /\ op = [f \in Fibers |-> "none"]
  /\ pc = [f \in Fibers |-> "idle"]
  /\ hand = [f \in Fibers |-> NoGame]
  /\ mode = "up"
  /\ clock = 1
  /\ mutations = 0
  /\ promise = NoGame

\* One step of a fiber that holds the permit.
Step(f) ==
  \/ Read(f) \/ DeleteLands(f) \/ WriteTemp(f) \/ Rename(f)
  \/ ServeView(f) \/ SkipEnded(f) \/ TakeTurn(f) \/ ChangeSetup(f)
  \/ KeepSetup(f) \/ SaveBody(f) \/ AutosaveBody(f)
  \/ EndGame(f) \/ Resume(f) \/ Publish(f)

Late(r) == LateDelete(r) \/ LateWrite(r) \/ LateRename(r)

Next ==
  \/ \E r \in Requests, o \in RequestOps : Request(r, o)
  \/ \E f \in Fibers : Acquire(f) \/ Step(f) \/ IoFails(f)
  \/ \E r \in Requests : Abort(r) \/ Late(r)
  \/ Signal \/ CloseServer \/ Exit \/ Crash \/ Boot

Spec == Init /\ [][Next]_vars

\* A fiber that can run does; the semaphore offers every release to its
\* waiters in the order they came; abandoned calls complete.
Fairness ==
  /\ \A f \in Fibers : SF_vars(Acquire(f)) /\ WF_vars(Step(f))
  /\ \A r \in Requests : WF_vars(Late(r))
  /\ WF_vars(CloseServer) /\ WF_vars(Exit)

FairSpec == Spec /\ Fairness

-----------------------------------------------------------------------------
(* Properties.                                                             *)

TypeOK ==
  /\ disk \in Game \union {NoGame, Corrupt}
  /\ live \in Game \union {NoGame}
  /\ terminal \in {"no", "save", "quit"}
  /\ announced \in [game: Game \union {NoGame},
                    terminal: {"no", "save", "quit"}] \union {NoGame}
  /\ lock \in Fibers \union {Free}
  /\ op \in [Fibers -> Ops]
  /\ pc \in [Fibers -> Places]
  /\ hand \in [Fibers -> Game \union {NoGame}]
  /\ mode \in {"up", "draining", "closing", "down"}
  /\ clock \in Nat
  /\ mutations \in Nat
  /\ promise \in Game \union {NoGame}

\* While the terminal marker of an ended game is set no operation, failed or
\* interrupted, brings a live game back: only restore clears the marker
\* (isTerminalEmptyState guards every lazy creation of the store).
TerminalIsEmpty == terminal # "no" => live = NoGame

\* The save file is replaced by rename only: whatever is interrupted, fails or
\* crashes, the program never leaves a half-written file behind
\* (GamePersistence.save).
StaysWhole == disk' = Corrupt => disk = Corrupt
SaveNeverTorn == [][StaysWhole]_vars

\* A game whose opening prose has been seen does not get it back from a save
\* file: a live game gains the prose only in the confirmation of its setup
\* (prepareRestoredCampgroundState on both restore paths).
Holding(place, o) == \E f \in Fibers : lock = f /\ pc[f] = place /\ op[f] = o

ProseIsConfirmed ==
  live' # NoGame /\ live'.prose /\ ~(live # NoGame /\ live.prose)
    => Holding("body", "confirm")
ProseOnlyFromConfirm == [][ProseIsConfirmed]_vars

\* A live game is never replaced by an older one: neither the lazy restore nor
\* the lazy creation of a game runs over turns already played.  Only an explicit
\* restore may go back.
GoesForward ==
  live # NoGame /\ live' \notin {NoGame, live} /\ ~Holding("commit", "restore")
    => live'.stamp > live.stamp
ProgressOnlyForward == [][GoesForward]_vars

\* Once a save has completed the file holds that game or a later one until a
\* quit, an explicit restore or the loss of the player takes it back, through
\* crashes, restarts and failing file-system calls.
DurableSave == promise # NoGame => disk \notin {NoGame, Corrupt} /\ disk.stamp >= promise.stamp

\* A confirmed quit leaves no save file for a later process to restore.
QuitIsFinal == terminal = "quit" => disk = NoGame

\* Whenever no operation is in progress the client state announced last is
\* the current one: every change of the live game has been published.
AnnouncedIsLive ==
  lock = Free /\ mode \in {"up", "draining"} /\ announced # NoGame
    => announced = View

\* Every request gets its answer (or its connection is closed), and every
\* signalled shutdown comes to an end: the permit is always given back.
RequestsFinish ==
  /\ \A r \in Requests : pc[r] = "wait" ~> pc[r] = "idle"
  /\ mode = "draining" ~> mode = "down"
=============================================================================
