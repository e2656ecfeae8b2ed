------------------------ MODULE GameRepositoryProofs ------------------------
(***************************************************************************)
(* Theorems about GameRepository, for every number of request slots, every *)
(* set of faults and any number of mutations, and about SteadyRepository.  *)
(***************************************************************************)
EXTENDS SteadyRepository, TLAPS

\* The games an operation makes are games.
LEMMA FreshIsGame == Fresh \in Game
BY DEF Fresh, Game, Phases

LEMMA FirstFilesAreFiles == FirstFiles \subseteq Game \union {NoGame, Corrupt}
<1>1. [stamp |-> 1, phase |-> "confirm", player |-> TRUE, prose |-> FALSE] \in Game
  BY DEF Game, Phases
<1>2. \A p \in BOOLEAN :
        [stamp |-> 1, phase |-> "complete", player |-> p, prose |-> p] \in Game
  BY DEF Game, Phases
<1>3. QED
  BY <1>1, <1>2, FreshIsGame DEF FirstFiles

LEMMA PreparedIsGame == ASSUME NEW g \in Game PROVE Prepared(g) \in Game
BY DEF Prepared, Game

LEMMA LiveOrFreshIsGame == ASSUME TypeOK PROVE LiveOrFresh \in Game
BY FreshIsGame DEF LiveOrFresh, TypeOK

LEMMA TurnIsGame == ASSUME NEW g \in Game, NEW n \in Nat PROVE Turn(g, n) \in Game
BY DEF Turn, Game

LEMMA SetupIsGame ==
  ASSUME NEW g \in Game, NEW n \in Nat, NEW o PROVE Setup(o, g, n) \in Game
BY DEF Setup, Game, Phases

LEMMA AbandonedIsPlace ==
  ASSUME NEW p \in Places PROVE Abandoned(p) \in {"idle"} \union LatePlaces
BY DEF Abandoned, Places, LatePlaces

\* The shape of the state is preserved by every step: types of the store, the
\* file, the fibers' places and the values they carry across waits.
LEMMA TypePreserved == TypeOK /\ [Next]_vars => TypeOK'
<1> SUFFICES ASSUME TypeOK, [Next]_vars PROVE TypeOK'
  OBVIOUS
<1>0. LiveOrFresh \in Game
  BY LiveOrFreshIsGame
<1>1. ASSUME NEW r \in Requests, NEW o \in RequestOps, Request(r, o)
      PROVE TypeOK'
  BY <1>1 DEF TypeOK, Request, Goto, memory, Fibers, Places, Ops, RequestOps
<1>2. ASSUME NEW f \in Fibers, Acquire(f)
      PROVE TypeOK'
  BY <1>2 DEF TypeOK, Acquire, Goto, FirstPlace, memory, Places, InPlaces,
              IoPlaces
<1>3. ASSUME NEW f \in Fibers, Step(f)
      PROVE TypeOK'
  <2> USE DEF TypeOK, Goto, Leave, Stay, memory, Places, InPlaces, IoPlaces
  <2>1. CASE Read(f)
    BY <2>1, PreparedIsGame DEF Read, AfterRead
  <2>2. CASE DeleteLands(f)
    BY <2>2 DEF DeleteLands, AfterRead, Ops
  <2>3. CASE WriteTemp(f)
    BY <2>3 DEF WriteTemp
  <2>4. CASE Rename(f)
    BY <2>4 DEF Rename, Ops
  <2>5. CASE ServeView(f)
    BY <2>5, <1>0 DEF ServeView, Ops
  <2>6. CASE SkipEnded(f)
    BY <2>6 DEF SkipEnded, Ops
  <2>7. CASE TakeTurn(f)
    BY <2>7, <1>0, TurnIsGame DEF TakeTurn
  <2>8. CASE ChangeSetup(f)
    BY <2>8, <1>0, SetupIsGame DEF ChangeSetup, Persist
  <2>9. CASE KeepSetup(f)
    BY <2>9, <1>0 DEF KeepSetup, Ops
  <2>10. CASE SaveBody(f)
    BY <2>10 DEF SaveBody, Persist
  <2>11. CASE AutosaveBody(f)
    BY <2>11 DEF AutosaveBody, Persist, Ops
  <2>12. CASE EndGame(f)
    BY <2>12 DEF EndGame, Ending
  <2>13. CASE Resume(f)
    BY <2>13, PreparedIsGame DEF Resume
  <2>14. CASE Publish(f)
    BY <2>14, <1>0 DEF Publish, View, Ops
  <2>15. QED
    BY <1>3, <2>1, <2>2, <2>3, <2>4, <2>5, <2>6, <2>7, <2>8, <2>9, <2>10,
       <2>11, <2>12, <2>13, <2>14 DEF Step
<1>4. ASSUME NEW f \in Fibers, IoFails(f)
      PROVE TypeOK'
  BY <1>4 DEF TypeOK, IoFails, Leave, Goto, memory, Places, Ops
<1>5. ASSUME NEW r \in Requests, Abort(r)
      PROVE TypeOK'
  BY <1>5, AbandonedIsPlace
     DEF TypeOK, Abort, Goto, KeptHand, memory, Fibers, Places, Ops
<1>6. ASSUME NEW r \in Requests, Late(r)
      PROVE TypeOK'
  BY <1>6 DEF TypeOK, Late, LateDelete, LateWrite, LateRename, Goto, memory,
              Fibers, Places, LatePlaces
<1>7. CASE Signal
  BY <1>7 DEF TypeOK, Signal, Goto, memory, Fibers, Places, Ops
<1>8. CASE CloseServer
  BY <1>8, AbandonedIsPlace
     DEF TypeOK, CloseServer, KeptHand, memory, Places, Ops
<1>9. CASE Exit \/ Crash
  BY <1>9 DEF TypeOK, Exit, Crash, Stop, Places, Ops
<1>10. CASE Boot
  BY <1>10 DEF TypeOK, Boot, memory
<1>11. CASE UNCHANGED vars
  BY <1>11 DEF TypeOK, vars, memory
<1>12. QED
  BY <1>1, <1>2, <1>3, <1>4, <1>5, <1>6, <1>7, <1>8, <1>9, <1>10, <1>11
     DEF Next

\* Every reachable state is well formed, whatever fails or is interrupted.
THEOREM TypeCorrect == Spec => []TypeOK
<1>1. Init => TypeOK
  BY FirstFilesAreFiles DEF Init, TypeOK, Places, Ops, Fibers
<1>2. QED
  BY <1>1, TypePreserved, PTL DEF Spec

-----------------------------------------------------------------------------
(* The inductive invariant.  TerminalIsEmpty and ProgressOnlyForward both  *)
(* depend on what a fiber knew when it issued its read still being true    *)
(* when the read resolves; that is so because it holds the permit.         *)

\* Exactly the fiber that is inside an operation holds the permit.
PermitHeld == \A f \in Fibers : Inside(f) <=> lock = f

\* The lazy restore is in progress only while there is nothing to restore over.
LazyReadIsNeeded ==
  \A f \in Fibers :
    pc[f] = "read" /\ op[f] # "restore" => live = NoGame /\ terminal = "no"

\* The fiber of the shutdown sleeps until a signal comes.
ShutdownSleeps == mode \in {"up", "down"} => pc[Shutdown] = "idle"

\* No game anywhere carries a stamp that has not been given out.
StampsGivenOut ==
  /\ live # NoGame => live.stamp <= clock
  /\ disk \notin {NoGame, Corrupt} => disk.stamp <= clock
  /\ \A f \in Fibers : hand[f] # NoGame => hand[f].stamp <= clock

IInv ==
  /\ TypeOK
  /\ PermitHeld
  /\ ShutdownSleeps
  /\ LazyReadIsNeeded
  /\ StampsGivenOut
  /\ TerminalIsEmpty

LEMMA InitIInv == Init => IInv
<1> SUFFICES ASSUME Init PROVE IInv
  OBVIOUS
<1>1. TypeOK
  BY FirstFilesAreFiles DEF Init, TypeOK, Places, Ops, Fibers
<1>2. PermitHeld
  BY ConstantsAssumption DEF Init, PermitHeld, Inside, InPlaces, IoPlaces
<1>3. ShutdownSleeps /\ LazyReadIsNeeded /\ TerminalIsEmpty
  BY DEF Init, ShutdownSleeps, LazyReadIsNeeded, TerminalIsEmpty, Fibers
<1>4. StampsGivenOut
  BY DEF Init, StampsGivenOut, FirstFiles, Fresh
<1>5. QED
  BY <1>1, <1>2, <1>3, <1>4 DEF IInv

\* The permit passes from one fiber to the next: a fiber enters by acquiring a
\* free permit, and leaves an operation, finished, failed or interrupted, only
\* together with the permit.
LEMMA PermitPreserved == IInv /\ [Next]_vars => PermitHeld'
<1> SUFFICES ASSUME IInv, [Next]_vars PROVE PermitHeld'
  OBVIOUS
<1> USE ConstantsAssumption DEF IInv, TypeOK, PermitHeld, Inside, InPlaces,
        IoPlaces, Goto, memory
<1>1. ASSUME NEW r \in Requests, NEW o \in RequestOps, Request(r, o)
      PROVE PermitHeld'
  BY <1>1 DEF Request, Fibers
<1>2. ASSUME NEW f \in Fibers, Acquire(f)
      PROVE PermitHeld'
  BY <1>2 DEF Acquire, FirstPlace
<1>3. ASSUME NEW f \in Fibers, Step(f)
      PROVE PermitHeld'
  <2> USE DEF Leave, Stay, AfterRead, Persist
  <2>1. CASE Read(f) \/ DeleteLands(f) \/ WriteTemp(f) \/ Rename(f)
    BY <2>1 DEF Read, DeleteLands, WriteTemp, Rename
  <2>2. CASE ServeView(f) \/ SkipEnded(f) \/ TakeTurn(f) \/ ChangeSetup(f)
    BY <2>2 DEF ServeView, SkipEnded, TakeTurn, ChangeSetup
  <2>3. CASE KeepSetup(f) \/ SaveBody(f) \/ AutosaveBody(f)
    BY <2>3 DEF KeepSetup, SaveBody, AutosaveBody
  <2>4. CASE EndGame(f) \/ Resume(f) \/ Publish(f)
    BY <2>4 DEF EndGame, Resume, Publish
  <2>5. QED
    BY <1>3, <2>1, <2>2, <2>3, <2>4 DEF Step
<1>4. ASSUME NEW f \in Fibers, IoFails(f)
      PROVE PermitHeld'
  BY <1>4 DEF IoFails, Leave
<1>5. ASSUME NEW r \in Requests, Abort(r)
      PROVE PermitHeld'
  <2>1. Abandoned(pc[r]) \in {"idle"} \union LatePlaces
    BY AbandonedIsPlace DEF Fibers
  <2>2. QED
    BY <1>5, <2>1 DEF Abort, Fibers, LatePlaces
<1>6. ASSUME NEW r \in Requests, Late(r)
      PROVE PermitHeld'
  BY <1>6 DEF Late, LateDelete, LateWrite, LateRename, Fibers
<1>7. CASE Signal
  BY <1>7 DEF Signal, ShutdownSleeps, Fibers
<1>8. CASE CloseServer
  <2>1. \A f \in Fibers : Abandoned(pc[f]) \in {"idle"} \union LatePlaces
    BY AbandonedIsPlace
  <2>2. QED
    BY <1>8, <2>1 DEF CloseServer, LatePlaces
<1>9. CASE Exit \/ Crash
  BY <1>9 DEF Exit, Crash, Stop
<1>10. CASE Boot
  BY <1>10 DEF Boot
<1>11. CASE UNCHANGED vars
  BY <1>11 DEF vars
<1>12. QED
  BY <1>1, <1>2, <1>3, <1>4, <1>5, <1>6, <1>7, <1>8, <1>9, <1>10, <1>11
     DEF Next

\* Only a signal and the closing of the server set the shutdown's fiber going,
\* and both leave "up"; a stop puts every fiber to rest.
LEMMA SleepPreserved == IInv /\ [Next]_vars => ShutdownSleeps'
<1> SUFFICES ASSUME IInv, [Next]_vars PROVE ShutdownSleeps'
  OBVIOUS
<1> USE ConstantsAssumption DEF IInv, TypeOK, ShutdownSleeps, Goto, memory, Fibers
<1>1. ASSUME NEW r \in Requests, NEW o \in RequestOps, Request(r, o)
      PROVE ShutdownSleeps'
  BY <1>1 DEF Request
<1>2. ASSUME NEW f \in Fibers, Acquire(f)
      PROVE ShutdownSleeps'
  BY <1>2 DEF Acquire
<1>3. ASSUME NEW f \in Fibers, Step(f)
      PROVE ShutdownSleeps'
  <2>1. /\ mode' = mode
        /\ pc[f] # "idle"
        /\ \A g \in Fibers \ {f} : pc'[g] = pc[g]
    BY <1>3 DEF Step, Leave, Stay, Persist, Read, DeleteLands, WriteTemp, Rename,
                ServeView, SkipEnded, TakeTurn, ChangeSetup, KeepSetup, SaveBody,
                AutosaveBody, EndGame, Resume, Publish
  <2>2. QED
    BY <2>1
<1>4. ASSUME NEW f \in Fibers, IoFails(f)
      PROVE ShutdownSleeps'
  BY <1>4 DEF IoFails, Leave, IoPlaces
<1>5. ASSUME NEW r \in Requests, Abort(r) \/ Late(r)
      PROVE ShutdownSleeps'
  BY <1>5 DEF Abort, Late, LateDelete, LateWrite, LateRename
<1>6. CASE Signal \/ CloseServer \/ Boot
  BY <1>6 DEF Signal, CloseServer, Boot
<1>7. CASE Exit \/ Crash
  BY <1>7 DEF Exit, Crash, Stop
<1>8. CASE UNCHANGED vars
  BY <1>8 DEF vars
<1>9. QED
  BY <1>1, <1>2, <1>3, <1>4, <1>5, <1>6, <1>7, <1>8 DEF Next

\* What a lazy restore found when it asked for the file, neither a live game nor
\* a terminal one, is still so when the file arrives.
LEMMA LazyReadPreserved == IInv /\ [Next]_vars => LazyReadIsNeeded'
<1> SUFFICES ASSUME IInv, [Next]_vars PROVE LazyReadIsNeeded'
  OBVIOUS
<1> USE ConstantsAssumption DEF IInv, TypeOK, LazyReadIsNeeded, Goto, memory
<1>1. ASSUME NEW r \in Requests, NEW o \in RequestOps, Request(r, o)
      PROVE LazyReadIsNeeded'
  BY <1>1 DEF Request, Fibers
<1>2. ASSUME NEW f \in Fibers, Acquire(f)
      PROVE LazyReadIsNeeded'
  BY <1>2 DEF Acquire, FirstPlace
<1>3. ASSUME NEW f \in Fibers, Step(f)
      PROVE LazyReadIsNeeded'
  <2>1. Inside(f) /\ lock = f
    BY <1>3 DEF PermitHeld, Inside, InPlaces, IoPlaces, Step, Read, DeleteLands,
                WriteTemp, Rename, ServeView, SkipEnded, TakeTurn, ChangeSetup,
                KeepSetup, SaveBody, AutosaveBody, EndGame, Resume, Publish
  <2>2. \A g \in Fibers \ {f} : pc[g] # "read"
    BY <2>1 DEF PermitHeld, Inside, InPlaces, IoPlaces
  <2>3. /\ pc'[f] # "read"
        /\ \A g \in Fibers \ {f} : pc'[g] = pc[g]
    BY <1>3 DEF Step, Leave, Stay, AfterRead, Persist, Read, DeleteLands,
                WriteTemp, Rename, ServeView, SkipEnded, TakeTurn, ChangeSetup,
                KeepSetup, SaveBody, AutosaveBody, EndGame, Resume, Publish
  <2>4. QED
    BY <2>2, <2>3
<1>4. ASSUME NEW f \in Fibers, IoFails(f)
      PROVE LazyReadIsNeeded'
  BY <1>4 DEF IoFails, Leave
<1>5. ASSUME NEW r \in Requests, Abort(r)
      PROVE LazyReadIsNeeded'
  <2>1. Abandoned(pc[r]) # "read"
    BY AbandonedIsPlace DEF Fibers, LatePlaces
  <2>2. QED
    BY <1>5, <2>1 DEF Abort, Fibers
<1>6. ASSUME NEW r \in Requests, Late(r)
      PROVE LazyReadIsNeeded'
  BY <1>6 DEF Late, LateDelete, LateWrite, LateRename, Fibers
<1>7. CASE Signal
  BY <1>7 DEF Signal, Fibers
<1>8. CASE CloseServer
  <2>1. \A f \in Fibers : Abandoned(pc[f]) # "read"
    BY AbandonedIsPlace DEF LatePlaces
  <2>2. QED
    BY <1>8, <2>1 DEF CloseServer
<1>9. CASE Exit \/ Crash
  BY <1>9 DEF Exit, Crash, Stop
<1>10. CASE Boot \/ UNCHANGED vars
  BY <1>10 DEF Boot, vars
<1>11. QED
  BY <1>1, <1>2, <1>3, <1>4, <1>5, <1>6, <1>7, <1>8, <1>9, <1>10 DEF Next

\* What an operation makes of a game keeps its stamp or takes the new one.
LEMMA StampOfLiveOrFresh ==
  ASSUME IInv PROVE LiveOrFresh.stamp <= clock
BY DEF IInv, TypeOK, StampsGivenOut, LiveOrFresh, Fresh

LEMMA StampOfPrepared ==
  ASSUME NEW g \in Game PROVE Prepared(g).stamp = g.stamp
BY DEF Prepared, Game

LEMMA StampOfTurn ==
  ASSUME NEW g \in Game, NEW n \in Nat PROVE Turn(g, n) = g \/ Turn(g, n).stamp = n
BY DEF Turn, Game

LEMMA StampOfSetup ==
  ASSUME NEW g \in Game, NEW n \in Nat, NEW o, SetupChanges(o, g)
  PROVE  Setup(o, g, n).stamp = n
BY DEF Setup, Game

\* Stamps are given out in order and only copied between store, file and fibers.
LEMMA StampsPreserved == IInv /\ [Next]_vars => StampsGivenOut'
<1> SUFFICES ASSUME IInv, [Next]_vars PROVE StampsGivenOut'
  OBVIOUS
<1>0. LiveOrFresh \in Game /\ LiveOrFresh.stamp <= clock
  BY LiveOrFreshIsGame, StampOfLiveOrFresh DEF IInv
<1>a. \A g \in Game : g.stamp \in Nat
  BY DEF Game
<1> USE ConstantsAssumption DEF IInv, TypeOK, StampsGivenOut, Goto, memory
<1>1. ASSUME NEW r \in Requests, NEW o \in RequestOps, Request(r, o)
      PROVE StampsGivenOut'
  BY <1>1 DEF Request
<1>2. ASSUME NEW f \in Fibers, Acquire(f)
      PROVE StampsGivenOut'
  BY <1>2 DEF Acquire
<1>3. ASSUME NEW f \in Fibers, Step(f)
      PROVE StampsGivenOut'
  <2> USE DEF Leave, Stay
  <2>1. CASE Read(f)
    BY <2>1, StampOfPrepared DEF Read
  <2>2. CASE DeleteLands(f) \/ WriteTemp(f)
    BY <2>2 DEF DeleteLands, WriteTemp
  <2>3. CASE Rename(f)
    BY <2>3 DEF Rename
  <2>4. CASE ServeView(f) \/ SkipEnded(f)
    BY <2>4, <1>0 DEF ServeView, SkipEnded
  <2>5. CASE TakeTurn(f)
    <3>1. /\ clock' = clock + 1
          /\ live' = Turn(LiveOrFresh, clock + 1)
          /\ disk' = disk /\ hand' = hand
      BY <2>5 DEF TakeTurn
    <3>2. live'.stamp <= clock'
      BY <3>1, <1>0, <1>a, StampOfTurn
    <3>3. QED
      BY <3>1, <3>2, <1>a
  <2>6. CASE ChangeSetup(f)
    <3>1. /\ clock' = clock + 1
          /\ live' = Setup(op[f], LiveOrFresh, clock + 1)
          /\ SetupChanges(op[f], LiveOrFresh)
          /\ disk' = disk
          /\ hand' = hand \/ hand' = [hand EXCEPT ![f] = live']
      BY <2>6 DEF ChangeSetup, Persist
    <3>2. live'.stamp = clock'
      BY <3>1, <1>0, StampOfSetup
    <3>3. QED
      BY <3>1, <3>2, <1>a
  <2>7. CASE KeepSetup(f) \/ EndGame(f) \/ Publish(f)
    BY <2>7, <1>0 DEF KeepSetup, EndGame, Publish
  <2>8. CASE SaveBody(f) \/ AutosaveBody(f)
    BY <2>8 DEF SaveBody, AutosaveBody, Persist
  <2>9. CASE Resume(f)
    BY <2>9, StampOfPrepared DEF Resume
  <2>10. QED
    BY <1>3, <2>1, <2>2, <2>3, <2>4, <2>5, <2>6, <2>7, <2>8, <2>9 DEF Step
<1>4. ASSUME NEW f \in Fibers, IoFails(f)
      PROVE StampsGivenOut'
  BY <1>4 DEF IoFails
<1>5. ASSUME NEW r \in Requests, Abort(r) \/ Late(r)
      PROVE StampsGivenOut'
  BY <1>5 DEF Abort, KeptHand, Late, LateDelete, LateWrite, LateRename, Fibers
<1>6. CASE Signal \/ Boot \/ UNCHANGED vars
  BY <1>6 DEF Signal, Boot, vars
<1>7. CASE CloseServer
  BY <1>7 DEF CloseServer, KeptHand
<1>8. CASE Exit \/ Crash
  BY <1>8 DEF Exit, Crash, Stop
<1>9. QED
  BY <1>1, <1>2, <1>3, <1>4, <1>5, <1>6, <1>7, <1>8 DEF Next

\* An operation that could create or restore a game has checked the marker, in
\* the same step or, for the lazy restore, before a wait through which it held
\* the permit.
LEMMA TerminalPreserved == IInv /\ [Next]_vars => TerminalIsEmpty'
<1> SUFFICES ASSUME IInv, [Next]_vars PROVE TerminalIsEmpty'
  OBVIOUS
<1> USE DEF IInv, TypeOK, TerminalIsEmpty, memory
<1>1. ASSUME NEW r \in Requests, NEW o \in RequestOps, Request(r, o)
      PROVE TerminalIsEmpty'
  BY <1>1 DEF Request
<1>2. ASSUME NEW f \in Fibers, Acquire(f) \/ IoFails(f)
      PROVE TerminalIsEmpty'
  BY <1>2 DEF Acquire, IoFails
<1>3. ASSUME NEW f \in Fibers, Step(f)
      PROVE TerminalIsEmpty'
  <2>1. CASE Read(f)
    BY <2>1 DEF Read, LazyReadIsNeeded
  <2>2. CASE DeleteLands(f) \/ WriteTemp(f) \/ Rename(f) \/ SkipEnded(f)
    BY <2>2 DEF DeleteLands, WriteTemp, Rename, SkipEnded
  <2>3. CASE ServeView(f) \/ KeepSetup(f) \/ Publish(f)
    BY <2>3 DEF ServeView, KeepSetup, Publish, IsTerminalEmpty
  <2>4. CASE TakeTurn(f) \/ ChangeSetup(f)
    BY <2>4 DEF TakeTurn, ChangeSetup, IsTerminalEmpty
  <2>5. CASE SaveBody(f) \/ AutosaveBody(f)
    BY <2>5 DEF SaveBody, AutosaveBody
  <2>6. CASE EndGame(f) \/ Resume(f)
    BY <2>6 DEF EndGame, Resume
  <2>7. QED
    BY <1>3, <2>1, <2>2, <2>3, <2>4, <2>5, <2>6 DEF Step
<1>4. ASSUME NEW r \in Requests, Abort(r) \/ Late(r)
      PROVE TerminalIsEmpty'
  BY <1>4 DEF Abort, Late, LateDelete, LateWrite, LateRename
<1>5. CASE Signal \/ CloseServer \/ Boot \/ UNCHANGED vars
  BY <1>5 DEF Signal, CloseServer, Boot, vars
<1>6. CASE Exit \/ Crash
  BY <1>6 DEF Exit, Crash, Stop
<1>7. QED
  BY <1>1, <1>2, <1>3, <1>4, <1>5, <1>6 DEF Next

LEMMA IInvariant == Spec => []IInv
<1>1. IInv /\ [Next]_vars => IInv'
  BY TypePreserved, PermitPreserved, SleepPreserved, LazyReadPreserved,
     StampsPreserved, TerminalPreserved DEF IInv
<1>2. QED
  BY InitIInv, <1>1, PTL DEF Spec

\* Two operations never run at the same time: every request and both autosaves
\* of a shutdown have the store and the file to themselves.
THEOREM MutualExclusion ==
  Spec => [](\A f, g \in Fibers : Inside(f) /\ Inside(g) => f = g)
<1>1. IInv => \A f, g \in Fibers : Inside(f) /\ Inside(g) => f = g
  BY DEF IInv, PermitHeld
<1>2. QED
  BY <1>1, IInvariant, PTL

\* An ended game stays ended until it is explicitly restored.
THEOREM EndedStaysEnded == Spec => []TerminalIsEmpty
<1>1. IInv => TerminalIsEmpty
  BY DEF IInv
<1>2. QED
  BY <1>1, IInvariant, PTL

-----------------------------------------------------------------------------
(* Action properties.                                                      *)

\* Only a rename changes the save file to something, and what it moves into
\* place is a whole game: no crash, failure or interruption tears the save.
THEOREM SaveIsNeverTorn == Spec => SaveNeverTorn
<1>1. IInv /\ [Next]_vars => [StaysWhole]_vars
  <2> SUFFICES ASSUME IInv, [Next]_vars, disk' # disk PROVE disk' # Corrupt
    BY DEF StaysWhole
  <2> USE ConstantsAssumption DEF IInv, TypeOK
  <2>1. ASSUME NEW f \in Fibers, Step(f)
        PROVE disk' # Corrupt
    BY <2>1 DEF Step, Read, DeleteLands, WriteTemp, Rename, ServeView, SkipEnded,
                TakeTurn, ChangeSetup, KeepSetup, SaveBody, AutosaveBody, EndGame,
                Resume, Publish
  <2>2. ASSUME NEW r \in Requests, Late(r)
        PROVE disk' # Corrupt
    BY <2>2 DEF Late, LateDelete, LateWrite, LateRename, Fibers
  <2>3. QED
    BY <2>1, <2>2 DEF Next, vars, Request, Acquire, IoFails, Abort, Signal,
                      CloseServer, Exit, Crash, Stop, Boot
<1>2. QED
  BY <1>1, IInvariant, PTL DEF Spec, SaveNeverTorn

\* A step that puts another game in the place of a live one, outside the commit
\* of an explicit restore, puts a newer one there.
LEMMA StepGoesForward ==
  ASSUME IInv, NEW f \in Fibers, Step(f), live # NoGame,
         live' \notin {NoGame, live}, ~Holding("commit", "restore")
  PROVE  live'.stamp > live.stamp
<1> USE DEF IInv, TypeOK
<1>1. LiveOrFresh = live /\ live \in Game /\ live.stamp \in Nat /\ live.stamp <= clock
  BY DEF LiveOrFresh, StampsGivenOut, Game
<1>2. CASE TakeTurn(f)
  <2>1. live' = Turn(live, clock + 1)
    BY <1>2, <1>1 DEF TakeTurn
  <2>2. live'.stamp = clock + 1
    BY <2>1, <1>1, StampOfTurn
  <2>3. QED
    BY <2>2, <1>1
<1>3. CASE ChangeSetup(f)
  <2>1. live' = Setup(op[f], live, clock + 1) /\ SetupChanges(op[f], live)
    BY <1>3, <1>1 DEF ChangeSetup
  <2>2. live'.stamp = clock + 1
    <3>1. clock + 1 \in Nat
      OBVIOUS
    <3>2. QED
      BY ONLY <1>1, <2>1, <3>1, StampOfSetup
  <2>3. QED
    BY <2>2, <1>1
<1>4. CASE Read(f)
  BY <1>4 DEF Read, LazyReadIsNeeded
<1>5. CASE Resume(f)
  <2>1. pc[f] = "commit" /\ op[f] = "restore"
    BY <1>5 DEF Resume
  <2>2. lock = f
    BY <2>1 DEF PermitHeld, Inside, InPlaces
  <2>3. QED
    BY <2>1, <2>2 DEF Holding
<1>6. CASE \/ DeleteLands(f) \/ WriteTemp(f) \/ Rename(f) \/ SkipEnded(f)
           \/ SaveBody(f) \/ AutosaveBody(f) \/ EndGame(f)
  BY <1>6 DEF DeleteLands, WriteTemp, Rename, SkipEnded, SaveBody, AutosaveBody,
              EndGame, memory
<1>7. CASE ServeView(f) \/ KeepSetup(f) \/ Publish(f)
  BY <1>7, <1>1 DEF ServeView, KeepSetup, Publish
<1>8. QED
  BY <1>2, <1>3, <1>4, <1>5, <1>6, <1>7 DEF Step

\* No turn already played is ever run over by the lazy restore, by the creation
\* of a fresh game or by an operation that started on an older game.
THEOREM PlayGoesForward == Spec => ProgressOnlyForward
<1>1. IInv /\ [Next]_vars => [GoesForward]_vars
  <2> SUFFICES ASSUME IInv, [Next]_vars, live # NoGame,
                      live' \notin {NoGame, live}, ~Holding("commit", "restore")
               PROVE  live'.stamp > live.stamp
    BY DEF GoesForward
  <2>1. PICK f \in Fibers : Step(f)
    BY DEF Next, vars, memory, Request, Acquire, IoFails, Abort, Late, LateDelete,
           LateWrite, LateRename, Signal, CloseServer, Exit, Crash, Stop, Boot
  <2>2. QED
    BY <2>1, StepGoesForward
<1>2. QED
  BY <1>1, IInvariant, PTL DEF Spec, ProgressOnlyForward

\* Both restore paths strip the opening prose, so only the confirmation of a
\* setup can put it into a live game.
THEOREM ProseIsToldOnce == Spec => ProseOnlyFromConfirm
<1>1. IInv /\ [Next]_vars => [ProseIsConfirmed]_vars
  <2> SUFFICES ASSUME IInv, [Next]_vars, live' # NoGame, live'.prose,
                      ~(live # NoGame /\ live.prose)
               PROVE  Holding("body", "confirm")
    BY DEF ProseIsConfirmed
  <2> USE DEF IInv, TypeOK
  <2>0. LiveOrFresh \in Game /\ (LiveOrFresh.prose => live # NoGame /\ live.prose)
    BY LiveOrFreshIsGame DEF LiveOrFresh, Fresh
  <2>1. PICK f \in Fibers : Step(f)
    BY DEF Next, vars, memory, Request, Acquire, IoFails, Abort, Late, LateDelete,
           LateWrite, LateRename, Signal, CloseServer, Exit, Crash, Stop, Boot
  <2>2. CASE ChangeSetup(f)
    <3>1. live' = Setup(op[f], LiveOrFresh, clock + 1) /\ pc[f] = "body"
      BY <2>2 DEF ChangeSetup
    <3>2. op[f] \in SetupOps
      BY <2>2 DEF ChangeSetup
    <3>3. op[f] = "confirm"
      BY <3>1, <3>2, <2>0 DEF Setup, Game, SetupOps
    <3>4. lock = f
      BY <3>1 DEF PermitHeld, Inside, InPlaces
    <3>5. QED
      BY <3>1, <3>3, <3>4 DEF Holding
  <2>3. CASE TakeTurn(f)
    <3>1. live' = Turn(LiveOrFresh, clock + 1)
      BY <2>3 DEF TakeTurn
    <3>2. QED
      BY <3>1, <2>0 DEF Turn, Game
  <2>4. CASE Read(f)
    BY <2>4 DEF Read, Prepared, Game
  <2>5. CASE Resume(f)
    BY <2>5 DEF Resume, Prepared, Game
  <2>6. CASE \/ DeleteLands(f) \/ WriteTemp(f) \/ Rename(f) \/ SkipEnded(f)
             \/ SaveBody(f) \/ AutosaveBody(f) \/ EndGame(f)
    BY <2>6 DEF DeleteLands, WriteTemp, Rename, SkipEnded, SaveBody, AutosaveBody,
                EndGame, memory
  <2>7. CASE ServeView(f) \/ KeepSetup(f) \/ Publish(f)
    BY <2>7, <2>0 DEF ServeView, KeepSetup, Publish
  <2>8. QED
    BY <2>1, <2>2, <2>3, <2>4, <2>5, <2>6, <2>7 DEF Step
<1>2. QED
  BY <1>1, IInvariant, PTL DEF Spec, ProseOnlyFromConfirm

-----------------------------------------------------------------------------
(* Saving and quitting. The interruption of a request breaks both promises, *)
(* which is why the theorems of this part assume that none happens while    *)
(* the server is up; its closing still interrupts whatever runs then.       *)

\* Only the closing of the server leaves calls behind.
LateOnlyAtTheEnd == \A f \in Fibers : pc[f] \in LatePlaces => mode = "closing"

ServerClosed ==
  mode = "closing" => \A r \in Requests : pc[r] \in {"idle"} \union LatePlaces

\* The shutdown does nothing but save.
ShutdownSaves ==
  /\ pc[Shutdown] \in {"idle", "wait", "body", "write", "rename", "delete"}
  /\ pc[Shutdown] # "idle" => op[Shutdown] = "autosave"

\* What is being written is the live game, also by a call left behind.
WritesTheLiveGame ==
  \A f \in Fibers :
    pc[f] \in {"write", "rename", "lateWrite", "lateRename"} => live # NoGame /\ hand[f] = live

SaversWrite ==
  \A f \in Fibers : pc[f] \in {"write", "rename"} => op[f] \in SetupOps \union {"save", "autosave"}

DeletedBeforeTheEnd ==
  \A f \in Fibers : pc[f] = "commit" /\ op[f] = "quit" => disk = NoGame

QInv ==
  /\ IInv
  /\ LateOnlyAtTheEnd /\ ServerClosed /\ ShutdownSaves
  /\ WritesTheLiveGame /\ SaversWrite /\ DeletedBeforeTheEnd /\ QuitIsFinal

\* Whoever is about to delete the file, or has just read that there is none, has
\* no save to answer for.
NothingPromised ==
  \A f \in Fibers :
    pc[f] \in {"purge", "consume", "delete", "sweep", "lateDelete"}
      \/ (pc[f] = "commit" /\ op[f] = "restore")
    => promise = NoGame

NothingToRestore ==
  \A f \in Fibers :
    (pc[f] = "publish" \/ (pc[f] = "body" /\ op[f] # "autosave"))
      /\ live = NoGame /\ terminal = "no"
    => promise = NoGame

LiveIsNoOlder == promise # NoGame /\ live # NoGame => live.stamp >= promise.stamp

SInv ==
  /\ QInv
  /\ NothingPromised /\ NothingToRestore /\ LiveIsNoOlder /\ DurableSave

\* What the steps of a fiber have in common.
LEMMA StepOfOne ==
  ASSUME IInv, NEW f \in Fibers, Step(f)
  PROVE  /\ lock = f /\ Inside(f) /\ mode' = mode
         /\ pc'[f] \in {"idle"} \union InPlaces
         /\ op'[f] = op[f] \/ pc'[f] = "idle"
         /\ \A g \in Fibers \ {f} :
              ~Inside(g) /\ pc'[g] = pc[g] /\ op'[g] = op[g] /\ hand'[g] = hand[g]
<1> USE DEF IInv, TypeOK
<1>1. Inside(f)
  BY DEF Inside, InPlaces, IoPlaces, Step, Read, DeleteLands, WriteTemp, Rename,
         ServeView, SkipEnded, TakeTurn, ChangeSetup, KeepSetup, SaveBody, AutosaveBody,
         EndGame, Resume, Publish
<1>2. lock = f /\ \A g \in Fibers \ {f} : ~Inside(g)
  BY <1>1 DEF PermitHeld
<1>3. /\ mode' = mode
      /\ pc'[f] \in {"idle"} \union InPlaces /\ (op'[f] = op[f] \/ pc'[f] = "idle")
      /\ \A g \in Fibers \ {f} : pc'[g] = pc[g] /\ op'[g] = op[g] /\ hand'[g] = hand[g]
  <2> USE DEF Goto, Leave, Stay, Persist, AfterRead, InPlaces, IoPlaces, memory
  <2>1. CASE Read(f) \/ DeleteLands(f) \/ WriteTemp(f) \/ Rename(f)
    BY <2>1 DEF Read, DeleteLands, WriteTemp, Rename
  <2>2. CASE ServeView(f) \/ SkipEnded(f) \/ TakeTurn(f) \/ ChangeSetup(f)
    BY <2>2 DEF ServeView, SkipEnded, TakeTurn, ChangeSetup
  <2>3. CASE KeepSetup(f) \/ SaveBody(f) \/ AutosaveBody(f)
    BY <2>3 DEF KeepSetup, SaveBody, AutosaveBody
  <2>4. CASE EndGame(f) \/ Resume(f) \/ Publish(f)
    BY <2>4 DEF EndGame, Resume, Publish
  <2>5. QED
    BY <2>1, <2>2, <2>3, <2>4 DEF Step
<1>4. QED
  BY <1>1, <1>2, <1>3

\* Where a fiber can go from where it is, and what it takes along.
LEMMA WhereStepsLead ==
  ASSUME IInv, NEW f \in Fibers, Step(f)
  PROVE  /\ pc'[f] = "commit" /\ op[f] = "quit" => DeleteLands(f) \/ Rename(f)
         /\ pc'[f] \in {"write", "rename"} =>
              \/ /\ pc[f] = "body" /\ op[f] \in SetupOps \union {"save", "autosave"}
                 /\ live' # NoGame /\ hand'[f] = live'
              \/ pc[f] = "write" /\ live' = live /\ hand'[f] = hand[f]
         /\ disk' = disk \/ (DeleteLands(f) /\ disk' = NoGame) \/ (Rename(f) /\ disk' = hand[f])
<1> USE DEF IInv, TypeOK, Goto, Leave, Stay, Persist, AfterRead, memory
<1>1. CASE Read(f)
  BY <1>1 DEF Read
<1>2. CASE DeleteLands(f)
  BY <1>2 DEF DeleteLands
<1>3. CASE WriteTemp(f)
  BY <1>3 DEF WriteTemp
<1>4. CASE Rename(f)
  BY <1>4 DEF Rename
<1>5. CASE ServeView(f) \/ SkipEnded(f) \/ EndGame(f) \/ Resume(f) \/ Publish(f)
  BY <1>5 DEF ServeView, SkipEnded, EndGame, Resume, Publish
<1>6. CASE TakeTurn(f)
  BY <1>6 DEF TakeTurn
<1>7. CASE KeepSetup(f)
  BY <1>7 DEF KeepSetup
<1>8. CASE ChangeSetup(f)
  <2>1. PICK g : g = Setup(op[f], LiveOrFresh, clock')
    OBVIOUS
  <2>2. clock' = clock + 1 /\ SetupChanges(op[f], LiveOrFresh) /\ live' = g
    BY <1>8, <2>1 DEF ChangeSetup
  <2>3. g \in Game
    <3>1. LiveOrFresh \in Game /\ clock' \in Nat
      BY <2>2, LiveOrFreshIsGame
    <3>2. QED
      BY ONLY <2>1, <3>1, SetupIsGame
  <2>4. g # NoGame
    BY <2>3, ConstantsAssumption
  <2>5. pc[f] = "body" /\ op[f] \in SetupOps /\ disk' = disk
        /\ pc' = [pc EXCEPT ![f] = IF g.player THEN "write" ELSE "delete"]
        /\ (g.player => hand' = [hand EXCEPT ![f] = g])
    BY <1>8, <2>2 DEF ChangeSetup
  <2>6. QED
    BY <2>2, <2>4, <2>5 DEF SetupOps
<1>9. CASE SaveBody(f) \/ AutosaveBody(f)
  BY <1>9 DEF SaveBody, AutosaveBody
<1>10. QED
  BY <1>1, <1>2, <1>3, <1>4, <1>5, <1>6, <1>7, <1>8, <1>9 DEF Step

\* The live game is left alone by the shutdown and by everybody while somebody writes.
LEMMA WhoChangesLive ==
  ASSUME NEW f \in Fibers, Step(f)
  PROVE  pc[f] \in {"write", "rename", "delete"} \/ (op[f] = "autosave" /\ pc[f] = "body")
           => live' = live /\ terminal' = terminal
<1>1. CASE pc[f] \in {"write", "rename", "delete"}
  BY <1>1 DEF Step, memory, Read, DeleteLands, WriteTemp, Rename, ServeView, SkipEnded,
     TakeTurn, ChangeSetup, KeepSetup, SaveBody, AutosaveBody, EndGame, Resume, Publish
<1>2. CASE op[f] = "autosave" /\ pc[f] = "body"
  BY <1>2 DEF Step, memory, Read, DeleteLands, WriteTemp, Rename, ServeView, SkipEnded,
     TakeTurn, ChangeSetup, KeepSetup, SaveBody, AutosaveBody, EndGame, Resume, Publish,
     Mutators, SetupOps
<1>3. QED
  BY <1>1, <1>2

LEMMA InitQInv == Init => QInv
<1> SUFFICES ASSUME Init PROVE QInv
  OBVIOUS
<1>1. IInv
  BY InitIInv
<1>2. terminal = "no" /\ mode = "up" /\ \A f \in Fibers : pc[f] = "idle"
  BY DEF Init
<1>3. Shutdown \in Fibers /\ Requests \subseteq Fibers
  BY DEF Fibers
<1>4. QED
  BY <1>1, <1>2, <1>3
     DEF QInv, LateOnlyAtTheEnd, ServerClosed, ShutdownSaves, WritesTheLiveGame, SaversWrite,
         DeletedBeforeTheEnd, QuitIsFinal, LatePlaces

\* While the server closes only the shutdown is inside.
LEMMA InsideWhileClosing ==
  ASSUME QInv, mode = "closing", NEW f \in Fibers, Inside(f)
  PROVE  f = Shutdown
  BY DEF QInv, ServerClosed, Inside, InPlaces, IoPlaces, LatePlaces, Fibers

LEMMA StepKeepsQInv ==
  ASSUME QInv, NEW f \in Fibers, Step(f)
  PROVE  /\ LateOnlyAtTheEnd' /\ ServerClosed' /\ ShutdownSaves'
         /\ WritesTheLiveGame' /\ SaversWrite' /\ DeletedBeforeTheEnd' /\ QuitIsFinal'
<1>1. IInv /\ TypeOK
  BY DEF QInv, IInv
<1>2. /\ lock = f /\ Inside(f) /\ mode' = mode
      /\ pc'[f] \in {"idle"} \union InPlaces
      /\ op'[f] = op[f] \/ pc'[f] = "idle"
      /\ \A g \in Fibers \ {f} :
           ~Inside(g) /\ pc'[g] = pc[g] /\ op'[g] = op[g] /\ hand'[g] = hand[g]
  BY <1>1, StepOfOne
<1>3. /\ pc'[f] = "commit" /\ op[f] = "quit" => DeleteLands(f) \/ Rename(f)
      /\ pc'[f] \in {"write", "rename"} =>
           \/ /\ pc[f] = "body" /\ op[f] \in SetupOps \union {"save", "autosave"}
              /\ live' # NoGame /\ hand'[f] = live'
           \/ pc[f] = "write" /\ live' = live /\ hand'[f] = hand[f]
      /\ disk' = disk \/ (DeleteLands(f) /\ disk' = NoGame) \/ (Rename(f) /\ disk' = hand[f])
  BY <1>1, WhereStepsLead
<1>4. LateOnlyAtTheEnd'
  BY <1>2 DEF QInv, LateOnlyAtTheEnd, InPlaces, IoPlaces, LatePlaces
<1>5. Shutdown \in Fibers /\ Shutdown \notin Requests
  BY ConstantsAssumption DEF Fibers
<1>6. mode = "closing" => f = Shutdown
  BY <1>2, InsideWhileClosing
<1>7. ServerClosed'
  BY <1>2, <1>5, <1>6 DEF QInv, ServerClosed, Fibers
<1>8. f = Shutdown => op[f] = "autosave" /\ pc[f] \in {"body", "write", "rename", "delete"}
  BY <1>2 DEF QInv, ShutdownSaves, Inside, InPlaces, IoPlaces
<1>9. ShutdownSaves'
  <2>1. CASE f # Shutdown
    BY <1>2, <1>5, <2>1 DEF QInv, ShutdownSaves
  <2>2. CASE f = Shutdown
    <3>1. pc'[f] \in {"idle", "write", "rename", "delete"}
      BY <1>1, <1>8, <2>2
         DEF TypeOK, Step, Goto, Leave, Stay, Persist, Read, DeleteLands, WriteTemp, Rename,
             ServeView, SkipEnded, TakeTurn, ChangeSetup, KeepSetup, SaveBody, AutosaveBody,
             EndGame, Resume, Publish, Mutators, SetupOps
    <3>2. QED
      BY <1>2, <1>8, <2>2, <3>1 DEF ShutdownSaves
  <2>3. QED
    BY <2>1, <2>2
<1>10. f = Shutdown => live' = live
  <2>1. pc[f] \in {"write", "rename", "delete"} \/ (op[f] = "autosave" /\ pc[f] = "body")
          => live' = live /\ terminal' = terminal
    BY WhoChangesLive
  <2>2. QED
    BY <1>8, <2>1
<1>11. ASSUME NEW g \in Fibers, pc'[g] \in {"write", "rename", "lateWrite", "lateRename"}
       PROVE  live' # NoGame /\ hand'[g] = live'
  <2>1. CASE g = f
    BY <1>2, <1>3, <1>11, <2>1 DEF QInv, WritesTheLiveGame, InPlaces, IoPlaces
  <2>2. CASE g # f
    <3>1. pc[g] \in {"lateWrite", "lateRename"}
      BY <1>2, <1>11, <2>2 DEF Inside, InPlaces, IoPlaces
    <3>2. mode = "closing"
      BY <3>1 DEF QInv, LateOnlyAtTheEnd, LatePlaces
    <3>3. live' = live
      BY <1>6, <1>10, <3>2
    <3>4. QED
      BY <1>2, <2>2, <3>1, <3>3 DEF QInv, WritesTheLiveGame
  <2>3. QED
    BY <2>1, <2>2
<1>12. WritesTheLiveGame'
  BY <1>11 DEF WritesTheLiveGame
<1>13. SaversWrite'
  BY <1>2, <1>3 DEF QInv, SaversWrite
<1>14. Rename(f) => pc[f] = "rename" /\ live # NoGame /\ live' = live /\ terminal' = terminal
                    /\ hand[f] = live
  <2>1. pc[f] \in {"write", "rename", "delete"} => live' = live /\ terminal' = terminal
    BY WhoChangesLive
  <2>2. Rename(f) => pc[f] = "rename"
    BY DEF Rename
  <2>3. QED
    BY <2>1, <2>2 DEF QInv, WritesTheLiveGame
<1>15. ASSUME NEW g \in Fibers, pc'[g] = "commit", op'[g] = "quit" PROVE disk' = NoGame
  <2>1. g = f
    BY <1>2, <1>15 DEF Inside, InPlaces
  <2>2. op[f] = "quit"
    BY <1>2, <1>15, <2>1
  <2>3. ~Rename(f)
    BY <1>14, <2>2 DEF QInv, SaversWrite, SetupOps
  <2>4. DeleteLands(f)
    BY <1>3, <1>15, <2>1, <2>2, <2>3
  <2>5. QED
    BY <2>4 DEF DeleteLands
<1>16. DeletedBeforeTheEnd'
  BY <1>15 DEF DeletedBeforeTheEnd
<1>17. ASSUME terminal' = "quit" PROVE disk' = NoGame
  <2>1. CASE terminal = "quit"
    <3>1. disk = NoGame /\ live = NoGame
      BY <2>1 DEF QInv, QuitIsFinal, IInv, TerminalIsEmpty
    <3>2. QED
      BY <1>3, <1>14, <3>1
  <2>2. CASE terminal # "quit"
    <3>1. EndGame(f) /\ op[f] = "quit"
      BY <1>17, <2>2 DEF Step, memory, Read, DeleteLands, WriteTemp, Rename, ServeView,
         SkipEnded, TakeTurn, ChangeSetup, KeepSetup, SaveBody, AutosaveBody, EndGame,
         Resume, Publish
    <3>2. QED
      BY <3>1 DEF EndGame, QInv, DeletedBeforeTheEnd
  <2>3. QED
    BY <2>1, <2>2
<1>18. QED
  BY <1>4, <1>7, <1>9, <1>12, <1>13, <1>16, <1>17 DEF QuitIsFinal

LEMMA QInvKept == "abort" \notin Faults /\ QInv /\ [Next]_vars => QInv'
<1> SUFFICES ASSUME "abort" \notin Faults, QInv, [Next]_vars PROVE QInv'
  OBVIOUS
<1> DEFINE Parts == /\ LateOnlyAtTheEnd /\ ServerClosed /\ ShutdownSaves
                    /\ WritesTheLiveGame /\ SaversWrite /\ DeletedBeforeTheEnd /\ QuitIsFinal
<1>0. IInv'
  BY TypePreserved, PermitPreserved, SleepPreserved, LazyReadPreserved,
     StampsPreserved, TerminalPreserved DEF IInv, QInv
<1>a. TypeOK /\ PermitHeld /\ Parts /\ ShutdownSleeps /\ TerminalIsEmpty
  BY DEF QInv, IInv
<1>b. Shutdown \in Fibers /\ Shutdown \notin Requests /\ Fibers = Requests \union {Shutdown}
  BY ConstantsAssumption DEF Fibers
<1> SUFFICES Parts'
  BY <1>0 DEF QInv
<1>1. ASSUME NEW r \in Requests, NEW o \in RequestOps, Request(r, o)
      PROVE Parts'
  BY <1>1, <1>a, <1>b
     DEF TypeOK, Request, Goto, memory, LateOnlyAtTheEnd, ServerClosed, ShutdownSaves,
         WritesTheLiveGame, SaversWrite, DeletedBeforeTheEnd, QuitIsFinal, LatePlaces
<1>2. ASSUME NEW f \in Fibers, Acquire(f)
      PROVE Parts'
  <2>1. /\ pc[f] = "wait" /\ pc' = [pc EXCEPT ![f] = FirstPlace(op[f])]
        /\ UNCHANGED <<disk, memory, op, hand, mode>>
    BY <1>2 DEF Acquire, Goto
  <2>2. FirstPlace(op[f]) \in {"delete", "read", "body"}
        /\ (op[f] = "autosave" => FirstPlace(op[f]) = "body")
    BY DEF FirstPlace
  <2>3. mode = "closing" => f = Shutdown
    BY <1>a, <1>b, <2>1 DEF ServerClosed, LatePlaces
  <2>4. pc' \in [Fibers -> {"delete", "read", "body"} \union Places]
        /\ pc'[f] = FirstPlace(op[f]) /\ \A g \in Fibers \ {f} : pc'[g] = pc[g]
    BY <1>a, <2>1, <2>2 DEF TypeOK
  <2>5. LateOnlyAtTheEnd' /\ SaversWrite' /\ DeletedBeforeTheEnd' /\ QuitIsFinal' /\ WritesTheLiveGame'
    BY <1>a, <2>1, <2>2, <2>4
       DEF memory, LateOnlyAtTheEnd, SaversWrite, DeletedBeforeTheEnd, QuitIsFinal,
           WritesTheLiveGame, LatePlaces
  <2>6. ServerClosed' /\ ShutdownSaves'
    BY <1>a, <1>b, <2>1, <2>2, <2>3, <2>4 DEF ServerClosed, ShutdownSaves
  <2>7. QED
    BY <2>5, <2>6
<1>3. ASSUME NEW f \in Fibers, Step(f)
      PROVE Parts'
  BY <1>3, StepKeepsQInv
<1>4. ASSUME NEW f \in Fibers, IoFails(f)
      PROVE Parts'
  <2>1. pc' = [pc EXCEPT ![f] = "idle"] /\ op' = [op EXCEPT ![f] = "none"]
        /\ hand' = [hand EXCEPT ![f] = NoGame] /\ UNCHANGED <<disk, memory, mode>>
    BY <1>4 DEF IoFails, Leave, Goto
  <2>2. /\ pc'[f] = "idle"
        /\ \A g \in Fibers \ {f} : pc'[g] = pc[g] /\ op'[g] = op[g] /\ hand'[g] = hand[g]
    BY <1>a, <2>1 DEF TypeOK
  <2>3. LateOnlyAtTheEnd' /\ SaversWrite' /\ DeletedBeforeTheEnd' /\ QuitIsFinal' /\ WritesTheLiveGame'
    BY <1>a, <2>1, <2>2
       DEF memory, LateOnlyAtTheEnd, SaversWrite, DeletedBeforeTheEnd, QuitIsFinal,
           WritesTheLiveGame, LatePlaces
  <2>4. ServerClosed' /\ ShutdownSaves'
    BY <1>a, <1>b, <2>1, <2>2 DEF ServerClosed, ShutdownSaves
  <2>5. QED
    BY <2>3, <2>4
<1>5. ASSUME NEW r \in Requests, Late(r)
      PROVE Parts'
  <2>1. /\ pc[r] \in LatePlaces /\ UNCHANGED <<memory, op, mode>>
        /\ pc'[r] \in {"idle", "lateRename"}
        /\ \A g \in Fibers \ {r} : pc'[g] = pc[g] /\ hand'[g] = hand[g]
        /\ pc'[r] = "lateRename" => pc[r] = "lateWrite" /\ hand'[r] = hand[r]
        /\ disk' \in {disk, NoGame} \/ (pc[r] = "lateRename" /\ disk' = hand[r])
    BY <1>5, <1>a, <1>b DEF TypeOK, Late, LateDelete, LateWrite, LateRename, Goto, LatePlaces
  <2>2. mode = "closing"
    BY <1>a, <1>b, <2>1 DEF LateOnlyAtTheEnd
  <2>3. WritesTheLiveGame'
    BY <1>a, <1>b, <2>1 DEF memory, WritesTheLiveGame
  <2>4. LateOnlyAtTheEnd' /\ ServerClosed' /\ ShutdownSaves' /\ SaversWrite'
    BY <1>a, <1>b, <2>1, <2>2
       DEF LateOnlyAtTheEnd, ServerClosed, ShutdownSaves, SaversWrite, LatePlaces
  <2>5. \A g \in Fibers : pc[g] # "commit"
    BY <1>a, <1>b, <2>2 DEF ServerClosed, ShutdownSaves, LatePlaces
  <2>6. DeletedBeforeTheEnd'
    BY <2>1, <2>5 DEF DeletedBeforeTheEnd
  <2>7. QuitIsFinal'
    BY <1>a, <1>b, <2>1 DEF memory, QuitIsFinal, TerminalIsEmpty, WritesTheLiveGame
  <2>8. QED
    BY <2>3, <2>4, <2>6, <2>7
<1>6. CASE Signal
  <2>1. pc' = [pc EXCEPT ![Shutdown] = "wait"] /\ op' = [op EXCEPT ![Shutdown] = "autosave"]
        /\ mode = "up" /\ mode' = "draining" /\ UNCHANGED <<disk, memory, hand>>
    BY <1>6 DEF Signal, Goto
  <2>2. /\ pc'[Shutdown] = "wait" /\ op'[Shutdown] = "autosave"
        /\ \A g \in Requests : pc'[g] = pc[g] /\ op'[g] = op[g]
    BY <1>a, <1>b, <2>1 DEF TypeOK
  <2>3. QED
    BY <1>a, <1>b, <2>1, <2>2
       DEF memory, LateOnlyAtTheEnd, ServerClosed, ShutdownSaves,
           WritesTheLiveGame, SaversWrite, DeletedBeforeTheEnd, QuitIsFinal, LatePlaces
<1>7. CASE CloseServer
  <2>1. /\ mode = "draining" /\ mode' = "closing" /\ UNCHANGED <<disk, memory>>
        /\ pc'[Shutdown] = "wait" /\ op'[Shutdown] = "autosave"
        /\ \A r \in Requests : pc'[r] = Abandoned(pc[r]) /\ op'[r] = "none" /\ hand'[r] = KeptHand(r)
    BY <1>7, <1>b DEF CloseServer
  <2>2. ASSUME NEW r \in Requests
        PROVE  /\ pc[r] \notin LatePlaces
               /\ Abandoned(pc[r]) \in {"idle"} \union LatePlaces
               /\ Abandoned(pc[r]) \in {"lateWrite", "lateRename"} => pc[r] \in {"write", "rename"}
               /\ Abandoned(pc[r]) \in {"lateWrite", "lateRename"} => KeptHand(r) = hand[r]
    <3>1. pc[r] \in Places /\ pc[r] \notin LatePlaces
      BY <1>a, <1>b, <2>1 DEF TypeOK, LateOnlyAtTheEnd
    <3>2. QED
      BY <3>1, AbandonedIsPlace DEF Abandoned, KeptHand, LatePlaces
  <2>3. WritesTheLiveGame'
    <3>1. ASSUME NEW g \in Fibers, pc'[g] \in {"write", "rename", "lateWrite", "lateRename"}
          PROVE  live # NoGame /\ hand'[g] = live
      <4>1. g \in Requests
        BY <1>b, <2>1, <3>1
      <4>2. pc'[g] \in {"lateWrite", "lateRename"} /\ pc'[g] = Abandoned(pc[g])
        BY <2>1, <2>2, <3>1, <4>1 DEF LatePlaces
      <4>3. pc[g] \in {"write", "rename"} /\ hand'[g] = hand[g]
        BY <2>1, <2>2, <4>1, <4>2
      <4>4. QED
        BY <1>a, <4>3 DEF WritesTheLiveGame
    <3>2. QED
      BY <2>1, <3>1 DEF memory, WritesTheLiveGame
  <2>4. LateOnlyAtTheEnd' /\ ServerClosed' /\ ShutdownSaves' /\ QuitIsFinal'
    BY <1>a, <1>b, <2>1, <2>2
       DEF memory, LateOnlyAtTheEnd, ServerClosed, ShutdownSaves, QuitIsFinal
  <2>5. SaversWrite' /\ DeletedBeforeTheEnd'
    BY <1>b, <2>1, <2>2 DEF SaversWrite, DeletedBeforeTheEnd, LatePlaces
  <2>6. QED
    BY <2>3, <2>4, <2>5
<1>8. CASE Exit \/ Crash
  BY <1>8, <1>b
     DEF Exit, Crash, Stop, LateOnlyAtTheEnd, ServerClosed, ShutdownSaves,
         WritesTheLiveGame, SaversWrite, DeletedBeforeTheEnd, QuitIsFinal, LatePlaces
<1>9. CASE Boot
  BY <1>9, <1>a DEF Boot, memory, LateOnlyAtTheEnd, ServerClosed, ShutdownSaves,
         WritesTheLiveGame, SaversWrite, DeletedBeforeTheEnd, QuitIsFinal
<1>10. CASE UNCHANGED vars
  BY <1>10, <1>a DEF vars, memory, LateOnlyAtTheEnd, ServerClosed, ShutdownSaves,
         WritesTheLiveGame, SaversWrite, DeletedBeforeTheEnd, QuitIsFinal
<1>11. QED
  BY <1>1, <1>2, <1>3, <1>4, <1>5, <1>6, <1>7, <1>8, <1>9, <1>10 DEF Next, Abort

\* A confirmed quit leaves no save file for a later process, as long as no request
\* is interrupted: the file is gone before the game is, and whatever the closing of
\* the server leaves behind writes only a game that is still on (quitGame).
THEOREM QuitLeavesNothing ==
  ASSUME "abort" \notin Faults PROVE Spec => []QuitIsFinal
<1>1. QInv /\ [Next]_vars => QInv'
  BY QInvKept
<1>2. QInv => QuitIsFinal
  BY DEF QInv
<1>3. QED
  BY InitQInv, <1>1, <1>2, PTL DEF Spec

\* A step of a fiber that is not the landing of a rename leaves the promise as it
\* is or takes it back; as long as one stands, the file is left alone, nobody is
\* about to delete it, and the live game is at least as new.
LEMMA StepOnAPromise ==
  ASSUME SInv, NEW f \in Fibers, Step(f), ~Rename(f), promise' # NoGame
  PROVE  /\ promise' = promise /\ disk' = disk
         /\ pc'[f] \notin {"purge", "consume", "delete", "sweep", "lateDelete"}
         /\ pc'[f] = "commit" => op'[f] # "restore"
         /\ pc'[f] = "publish" \/ (pc'[f] = "body" /\ op'[f] # "autosave")
              => live' # NoGame \/ terminal' # "no"
         /\ live' # NoGame => live'.stamp >= promise.stamp
<1>1. IInv /\ TypeOK
  BY DEF SInv, QInv, IInv
<1>2. promise' = promise
  BY DEF Step, Rename, Read, DeleteLands, WriteTemp, ServeView, SkipEnded, TakeTurn,
         ChangeSetup, KeepSetup, SaveBody, AutosaveBody, EndGame, Resume, Publish, Persist
<1>3. promise # NoGame /\ promise \in Game
  BY <1>1, <1>2 DEF TypeOK
<1>4. /\ pc[f] \notin {"purge", "consume", "delete", "sweep", "lateDelete"}
      /\ pc[f] = "commit" => op[f] # "restore"
      /\ pc[f] = "publish" \/ (pc[f] = "body" /\ op[f] # "autosave")
           => live # NoGame \/ terminal # "no"
  BY <1>3 DEF SInv, NothingPromised, NothingToRestore
<1>5. disk \in Game /\ disk.stamp >= promise.stamp
  BY <1>1, <1>3 DEF SInv, DurableSave, TypeOK
<1>6. live # NoGame => live.stamp >= promise.stamp
  BY <1>3 DEF SInv, LiveIsNoOlder
<1>7. disk' = disk
  BY <1>1, <1>4, WhereStepsLead DEF DeleteLands
<1>8. live # NoGame /\ live' # NoGame => live'.stamp >= promise.stamp
  <2> SUFFICES ASSUME live # NoGame, live' # NoGame, live' # live
               PROVE  live'.stamp >= promise.stamp
    BY <1>6
  <2>1. ~Holding("commit", "restore")
    <3>1. lock = f
      BY <1>1, StepOfOne
    <3>2. QED
      BY <1>1, <1>4, <3>1 DEF Holding
  <2>2. live'.stamp > live.stamp
    BY <1>1, <2>1, StepGoesForward
  <2>3. live \in Game /\ live' \in Game
    BY <1>1, TypePreserved DEF TypeOK, Next
  <2>4. QED
    BY <1>3, <1>6, <2>2, <2>3 DEF Game
<1>9. CASE Read(f)
  <2>1. op[f] # "restore" /\ live' = Prepared(disk) /\ pc' = [pc EXCEPT ![f] = "body"]
    BY <1>2, <1>3, <1>5, <1>9, ConstantsAssumption DEF Read, Goto
  <2>2. live'.stamp = disk.stamp /\ live' \in Game
    BY <1>5, <2>1, StampOfPrepared, PreparedIsGame
  <2>3. pc'[f] = "body"
    BY <1>1, <2>1 DEF TypeOK
  <2>4. QED
    BY <1>2, <1>5, <1>7, <1>8, <2>2, <2>3, ConstantsAssumption
<1>10. CASE DeleteLands(f)
  BY <1>4, <1>10 DEF DeleteLands
<1>11. CASE WriteTemp(f)
  BY <1>1, <1>2, <1>6, <1>7, <1>11 DEF WriteTemp, TypeOK, Goto, memory
<1>12. CASE ServeView(f) \/ SkipEnded(f) \/ Publish(f)
  <2>1. pc' = [pc EXCEPT ![f] = "idle"]
    BY <1>12 DEF ServeView, SkipEnded, Publish, Leave, Goto
  <2>2. live = NoGame => live' = NoGame
    BY <1>4, <1>12 DEF ServeView, SkipEnded, Publish, IsTerminalEmpty, memory
  <2>3. QED
    BY <1>1, <1>2, <1>7, <1>8, <2>1, <2>2 DEF TypeOK
<1>13. ASSUME pc[f] = "body", op[f] \in Mutators, ~IsTerminalEmpty
       PROVE  live # NoGame
  <2>1. op[f] # "autosave"
    BY <1>13 DEF Mutators, SetupOps
  <2>2. QED
    BY <1>4, <1>13, <2>1 DEF IsTerminalEmpty
<1>14. CASE TakeTurn(f)
  <2>1. /\ pc[f] = "body" /\ op[f] = "act" /\ ~IsTerminalEmpty
        /\ pc' = [pc EXCEPT ![f] = "publish"]
        /\ live' = Turn(LiveOrFresh, clock')
        /\ clock' = clock + 1
    BY <1>3, <1>14, <1>2 DEF TakeTurn, Goto
  <2>2. live # NoGame
    BY <1>13, <2>1 DEF Mutators
  <2>3. live' \in Game
    BY <1>1, <2>1, LiveOrFreshIsGame, TurnIsGame DEF TypeOK
  <2>4. QED
    BY <1>1, <1>2, <1>7, <1>8, <2>1, <2>2, <2>3, ConstantsAssumption DEF TypeOK
<1>15. CASE ChangeSetup(f)
  <2>1. /\ pc[f] = "body" /\ op[f] \in SetupOps /\ ~IsTerminalEmpty
        /\ pc' = [pc EXCEPT ![f] = "write"]
    BY <1>3, <1>15, <1>2 DEF ChangeSetup, Persist, Goto
  <2>2. live # NoGame
    BY <1>13, <2>1 DEF Mutators
  <2>3. QED
    BY <1>1, <1>2, <1>7, <1>8, <2>1, <2>2 DEF TypeOK
<1>16. CASE KeepSetup(f)
  <2>1. /\ pc[f] = "body" /\ op[f] \in SetupOps /\ ~IsTerminalEmpty
        /\ pc' = [pc EXCEPT ![f] = "idle"]
    BY <1>3, <1>16, <1>2 DEF KeepSetup, Leave, Goto
  <2>2. live # NoGame
    BY <1>13, <2>1 DEF Mutators
  <2>3. QED
    BY <1>1, <1>2, <1>7, <1>8, <2>1, <2>2 DEF TypeOK
<1>17. CASE SaveBody(f)
  <2>1. /\ op[f] = "save" /\ op' = op /\ live' = live
        /\ pc' = [pc EXCEPT ![f] = "commit"] \/ pc' = [pc EXCEPT ![f] = "write"]
    BY <1>3, <1>17, <1>2 DEF SaveBody, Persist, Goto, memory
  <2>2. QED
    BY <1>1, <1>2, <1>6, <1>7, <2>1 DEF TypeOK
<1>18. CASE AutosaveBody(f)
  <2>1. /\ live' = live
        /\ pc' = [pc EXCEPT ![f] = "idle"] \/ pc' = [pc EXCEPT ![f] = "write"]
    BY <1>3, <1>18, <1>2 DEF AutosaveBody, Persist, Leave, Goto, memory
  <2>2. QED
    BY <1>1, <1>2, <1>6, <1>7, <2>1 DEF TypeOK
<1>19. CASE EndGame(f)
  <2>1. live' = NoGame /\ terminal' = op[f] /\ op[f] # "no" /\ pc' = [pc EXCEPT ![f] = "publish"]
    BY <1>19 DEF EndGame, Goto, Ending
  <2>2. QED
    BY <1>1, <1>2, <1>7, <2>1 DEF TypeOK
<1>20. CASE Resume(f)
  BY <1>4, <1>20 DEF Resume
<1>21. QED
  BY <1>9, <1>10, <1>11, <1>12, <1>14, <1>15, <1>16, <1>17, <1>18, <1>19, <1>20 DEF Step

SaveParts == NothingPromised /\ NothingToRestore /\ LiveIsNoOlder /\ DurableSave

\* Where no save is promised there is nothing to keep.
LEMMA NoPromiseToKeep == promise' = NoGame => SaveParts'
BY DEF SaveParts, NothingPromised, NothingToRestore, LiveIsNoOlder, DurableSave

LEMMA StepKeepsSaves ==
  ASSUME InOrderIO, SInv, NEW f \in Fibers, Step(f)
  PROVE  SaveParts'
<1>1. IInv /\ TypeOK
  BY DEF SInv, QInv, IInv
<1>2. \A g \in Fibers \ {f} : ~Inside(g) /\ pc'[g] = pc[g] /\ op'[g] = op[g]
  BY <1>1, StepOfOne
<1>3. \A g \in Fibers \ {f} :
        pc'[g] \notin {"purge", "consume", "delete", "sweep", "commit", "body", "publish"}
  BY <1>2 DEF Inside, InPlaces, IoPlaces
<1>4. CASE Rename(f)
  <2>1. /\ pc[f] = "rename" /\ Settled
        /\ disk' = hand[f] /\ promise' = hand[f] /\ UNCHANGED memory
        /\ pc' = [pc EXCEPT ![f] = pc'[f]]
        /\ pc'[f] \in {"idle", "publish"} \/ (pc'[f] = "commit" /\ op'[f] = op[f])
    BY <1>1, <1>4 DEF TypeOK, Rename, Leave, Goto, Stay
  <2>2. hand[f] = live /\ live # NoGame /\ live \in Game
    BY <1>1, <2>1 DEF SInv, QInv, WritesTheLiveGame, TypeOK
  <2>3. op[f] # "restore"
    BY <2>1 DEF SInv, QInv, SaversWrite, SetupOps
  <2>4. \A g \in Fibers \ {f} : pc'[g] # "lateDelete"
    BY <1>2, <2>1 DEF Settled
  <2>5. NothingPromised'
    BY <1>3, <2>1, <2>3, <2>4 DEF NothingPromised
  <2>6. NothingToRestore' /\ LiveIsNoOlder' /\ DurableSave'
    <3>1. live' = live /\ promise' = live /\ disk' = live
      BY <2>1, <2>2 DEF memory
    <3>2. live.stamp >= live.stamp /\ live \notin {NoGame, Corrupt}
      BY <2>2, ConstantsAssumption DEF Game
    <3>3. QED
      BY <3>1, <3>2 DEF NothingToRestore, LiveIsNoOlder, DurableSave
  <2>7. QED
    BY <2>5, <2>6 DEF SaveParts
<1>5. CASE ~Rename(f) /\ promise' # NoGame
  <2>1. /\ promise' = promise /\ disk' = disk
        /\ pc'[f] \notin {"purge", "consume", "delete", "sweep", "lateDelete"}
        /\ pc'[f] = "commit" => op'[f] # "restore"
        /\ pc'[f] = "publish" \/ (pc'[f] = "body" /\ op'[f] # "autosave")
             => live' # NoGame \/ terminal' # "no"
        /\ live' # NoGame => live'.stamp >= promise.stamp
    BY <1>5, StepOnAPromise
  <2>2. NothingPromised'
    BY <1>2, <1>3, <2>1 DEF SInv, NothingPromised
  <2>3. NothingToRestore'
    BY <1>3, <2>1 DEF NothingToRestore
  <2>4. LiveIsNoOlder' /\ DurableSave'
    BY <2>1 DEF SInv, LiveIsNoOlder, DurableSave
  <2>5. QED
    BY <2>2, <2>3, <2>4 DEF SaveParts
<1>6. QED
  BY <1>4, <1>5, NoPromiseToKeep

LEMMA InitSInv == Init => SInv
<1> SUFFICES ASSUME Init PROVE SInv
  OBVIOUS
<1>1. promise = NoGame
  BY DEF Init
<1>2. QED
  BY <1>1, InitQInv
     DEF SInv, NothingPromised, NothingToRestore, LiveIsNoOlder, DurableSave

LEMMA SInvKept == InOrderIO /\ "abort" \notin Faults /\ SInv /\ [Next]_vars => SInv'
<1> SUFFICES ASSUME InOrderIO, "abort" \notin Faults, SInv, [Next]_vars PROVE SInv'
  OBVIOUS
<1>0. QInv'
  BY QInvKept DEF SInv
<1>a. TypeOK /\ PermitHeld /\ QInv /\ SaveParts /\ TerminalIsEmpty
  BY DEF SInv, QInv, IInv, SaveParts
<1>b. Shutdown \in Fibers /\ Shutdown \notin Requests /\ Fibers = Requests \union {Shutdown}
  BY ConstantsAssumption DEF Fibers
<1> SUFFICES SaveParts'
  BY <1>0 DEF SInv, SaveParts
<1>1. ASSUME NEW r \in Requests, NEW o \in RequestOps, Request(r, o)
      PROVE SaveParts'
  BY <1>1, <1>a, <1>b
     DEF TypeOK, Request, Goto, memory, SaveParts, NothingPromised, NothingToRestore,
         LiveIsNoOlder, DurableSave
<1>2. ASSUME NEW f \in Fibers, Acquire(f)
      PROVE SaveParts'
  <2> SUFFICES ASSUME promise' # NoGame PROVE SaveParts'
    BY NoPromiseToKeep
  <2>1. /\ op[f] # "quit" /\ promise' = promise /\ pc' = [pc EXCEPT ![f] = FirstPlace(op[f])]
        /\ UNCHANGED <<disk, memory, op>>
    BY <1>2 DEF Acquire, Goto
  <2>2. /\ FirstPlace(op[f]) \in {"read", "body"}
        /\ FirstPlace(op[f]) = "body" /\ op[f] # "autosave" => live # NoGame \/ terminal # "no"
    BY <2>1 DEF FirstPlace
  <2>3. pc'[f] = FirstPlace(op[f]) /\ \A g \in Fibers \ {f} : pc'[g] = pc[g]
    BY <1>a, <2>1 DEF TypeOK
  <2>4. NothingPromised' /\ NothingToRestore'
    BY <1>a, <2>1, <2>2, <2>3 DEF memory, SaveParts, NothingPromised, NothingToRestore
  <2>5. LiveIsNoOlder' /\ DurableSave'
    BY <1>a, <2>1 DEF memory, SaveParts, LiveIsNoOlder, DurableSave
  <2>6. QED
    BY <2>4, <2>5 DEF SaveParts
<1>3. ASSUME NEW f \in Fibers, Step(f)
      PROVE SaveParts'
  BY <1>3, StepKeepsSaves
<1>4. ASSUME NEW f \in Fibers, IoFails(f)
      PROVE SaveParts'
  BY <1>4, <1>a
     DEF TypeOK, IoFails, Leave, Goto, memory, SaveParts, NothingPromised, NothingToRestore,
         LiveIsNoOlder, DurableSave
<1>5. ASSUME NEW r \in Requests, Late(r)
      PROVE SaveParts'
  <2>1. /\ UNCHANGED <<memory, op, promise>>
        /\ pc[r] \in LatePlaces /\ pc'[r] \in {"idle", "lateRename"}
        /\ \A g \in Fibers \ {r} : pc'[g] = pc[g]
        /\ \/ disk' = disk
           \/ pc[r] = "lateDelete"
           \/ pc[r] = "lateRename" /\ disk' = hand[r]
    BY <1>5, <1>a, <1>b DEF TypeOK, Late, LateDelete, LateWrite, LateRename, Goto, LatePlaces
  <2>2. NothingPromised' /\ NothingToRestore' /\ LiveIsNoOlder'
    BY <1>a, <1>b, <2>1
       DEF memory, SaveParts, NothingPromised, NothingToRestore, LiveIsNoOlder
  <2>3. CASE disk' = disk
    BY <1>a, <2>1, <2>2, <2>3 DEF SaveParts, DurableSave
  <2>4. CASE pc[r] = "lateDelete"
    BY <1>a, <1>b, <2>1, <2>4, NoPromiseToKeep DEF SaveParts, NothingPromised
  <2>5. CASE pc[r] = "lateRename" /\ disk' = hand[r]
    <3>1. disk' = live /\ live # NoGame /\ live # Corrupt
      BY <1>a, <1>b, <2>5, ConstantsAssumption DEF QInv, WritesTheLiveGame, TypeOK
    <3>2. QED
      BY <1>a, <2>1, <2>2, <3>1 DEF SaveParts, LiveIsNoOlder, DurableSave
  <2>6. QED
    BY <2>1, <2>3, <2>4, <2>5
<1>6. CASE Signal
  BY <1>6, <1>a, <1>b
     DEF TypeOK, Signal, Goto, memory, SaveParts, NothingPromised, NothingToRestore,
         LiveIsNoOlder, DurableSave
<1>7. CASE CloseServer
  <2>1. /\ UNCHANGED <<disk, memory, promise>>
        /\ \A g \in Fibers : pc'[g] = "wait" \/ pc'[g] = Abandoned(pc[g])
    BY <1>7 DEF CloseServer
  <2>2. \A g \in Fibers : /\ Abandoned(pc[g]) \in {"idle"} \union LatePlaces
                          /\ Abandoned(pc[g]) = "lateDelete" =>
                               pc[g] \in {"purge", "consume", "delete", "sweep", "lateDelete"}
    <3>1. \A g \in Fibers : pc[g] \in Places
      BY <1>a DEF TypeOK
    <3>2. QED
      BY <3>1, AbandonedIsPlace DEF Abandoned, LatePlaces
  <2>3. QED
    BY <1>a, <2>1, <2>2
       DEF memory, SaveParts, NothingPromised, NothingToRestore, LiveIsNoOlder, DurableSave,
           LatePlaces
<1>8. CASE Exit \/ Crash
  BY <1>8, <1>a
     DEF Exit, Crash, Stop, SaveParts, NothingPromised, NothingToRestore, LiveIsNoOlder,
         DurableSave
<1>9. CASE Boot
  BY <1>9, <1>a
     DEF Boot, memory, SaveParts, NothingPromised, NothingToRestore, LiveIsNoOlder, DurableSave
<1>10. CASE UNCHANGED vars
  BY <1>10, <1>a
     DEF vars, memory, SaveParts, NothingPromised, NothingToRestore, LiveIsNoOlder, DurableSave
<1>11. QED
  BY <1>1, <1>2, <1>3, <1>4, <1>5, <1>6, <1>7, <1>8, <1>9, <1>10 DEF Next, Abort

\* A completed save is never lost, nor run over by an older game, through crashes,
\* restarts, failing calls and the calls that the closing of the server leaves
\* behind, as long as calls land in order and no request is interrupted
\* (saveCurrentGameUnlocked, restorePreserving).
THEOREM SavesAreDurable ==
  ASSUME InOrderIO, "abort" \notin Faults PROVE Spec => []DurableSave
<1>1. SInv /\ [Next]_vars => SInv'
  BY SInvKept
<1>2. SInv => DurableSave
  BY DEF SInv
<1>3. QED
  BY InitSInv, <1>1, <1>2, PTL DEF Spec

-----------------------------------------------------------------------------
(* SteadyRepository: what the repository promises as long as no call of the  *)
(* file system fails and no request is interrupted.                          *)

SteadyNext == Next /\ steady' = (~Fails /\ (steady \/ Boot))
steadyVars == <<vars, steady>>

\* A process that is gone runs nothing and has announced nothing.
DownIsEmpty == mode = "down" => announced = NoGame /\ \A f \in Fibers : pc[f] = "idle"

\* Somebody who holds the permit will announce before giving it back.
Owed == \E f \in Fibers :
          pc[f] = "publish" \/ (pc[f] \in {"write", "rename", "delete"} /\ op[f] \in Mutators)

ChangesAreOwed ==
  steady /\ mode # "closing" /\ announced # NoGame /\ announced # View => Owed

\* Once a state has been announced there is a live game, an ended one, or somebody
\* about to announce: the lazy restore does not come into it again.
ShownIsThere ==
  mode # "closing" /\ announced # NoGame /\ live = NoGame /\ terminal = "no"
    => \E f \in Fibers : pc[f] = "publish"

AInv == QInv /\ DownIsEmpty /\ ChangesAreOwed /\ ShownIsThere

LEMMA InitAInv == Init /\ steady = TRUE => AInv
<1> SUFFICES ASSUME Init PROVE AInv
  OBVIOUS
<1>1. announced = NoGame /\ mode = "up"
  BY DEF Init
<1>2. QED
  BY <1>1, InitQInv DEF AInv, DownIsEmpty, ChangesAreOwed, ShownIsThere

\* The projection of the store is the same wherever an operation creates the game
\* it would show anyway.
LEMMA ViewOfTheCreated ==
  ASSUME terminal' = terminal, live' = LiveOrFresh \/ live' = live, ~IsTerminalEmpty \/ live' = live
  PROVE  View' = View
BY DEF View, LiveOrFresh, IsTerminalEmpty

LEMMA StepOwesAnnouncement ==
  ASSUME AInv, NEW f \in Fibers, Step(f), mode # "closing"
  PROVE  /\ \/ announced' = announced
            \/ pc[f] = "publish" /\ announced' = View
         /\ announced # NoGame /\ ~(pc[f] = "publish")
              => \/ View' = View
                 \/ pc'[f] = "publish"
                 \/ pc'[f] \in {"write", "delete"} /\ op'[f] \in Mutators
         /\ pc[f] = "publish" => View' = View /\ announced' = View
         /\ pc[f] \in {"write", "rename", "delete"} /\ op[f] \in Mutators
              => \/ pc'[f] = "publish"
                 \/ pc'[f] = "rename" /\ op'[f] = op[f]
         /\ announced' # NoGame /\ live' = NoGame /\ terminal' = "no" => pc'[f] = "publish"
<1>1. IInv /\ TypeOK /\ PermitHeld /\ LazyReadIsNeeded /\ SaversWrite
  BY DEF AInv, QInv, IInv
<1>2. lock = f /\ Inside(f)
  BY <1>1, StepOfOne
<1>3. \A g \in Fibers : pc[g] = "publish" => g = f
  BY <1>1, <1>2 DEF PermitHeld, Inside, InPlaces
<1>4. announced # NoGame /\ pc[f] # "publish" => live # NoGame \/ terminal # "no"
  BY <1>3 DEF AInv, ShownIsThere
<1>5. Fresh # NoGame
  BY FreshIsGame, ConstantsAssumption
<1>6. \A p \in Places : [pc EXCEPT ![f] = p][f] = p
  BY <1>1 DEF TypeOK
<1>7. CASE Publish(f)
  <2>1. /\ pc[f] = "publish" /\ terminal' = terminal /\ announced' = View
        /\ live' = IF IsTerminalEmpty THEN live ELSE LiveOrFresh
    BY <1>7 DEF Publish
  <2>2. View' = View
    BY <2>1, ViewOfTheCreated
  <2>3. ~(live' = NoGame /\ terminal' = "no")
    BY <2>1, <1>5 DEF LiveOrFresh, IsTerminalEmpty
  <2>4. QED
    BY <2>1, <2>2, <2>3
<1>8. CASE Read(f)
  <2>1. pc[f] = "read" /\ announced' = announced /\ terminal' = terminal
    BY <1>8 DEF Read
  <2>2. announced # NoGame => live' = live
    BY <1>1, <1>4, <1>8 DEF Read, LazyReadIsNeeded
  <2>3. announced # NoGame => View' = View
    BY <2>1, <2>2, ViewOfTheCreated
  <2>4. QED
    BY <1>4, <2>1, <2>2, <2>3
<1>9. CASE DeleteLands(f) \/ WriteTemp(f) \/ Rename(f)
  <2>1. /\ pc[f] # "publish" /\ UNCHANGED memory
        /\ pc[f] \in {"write", "rename", "delete"} /\ op[f] \in Mutators
             => \/ pc' = [pc EXCEPT ![f] = "publish"]
                \/ pc' = [pc EXCEPT ![f] = "rename"] /\ op' = op
    BY <1>1, <1>9
       DEF DeleteLands, WriteTemp, Rename, SaversWrite, Goto, Mutators, SetupOps
  <2>2. View' = View
    BY <2>1, ViewOfTheCreated DEF memory
  <2>3. QED
    BY <1>4, <1>6, <2>1, <2>2 DEF memory, Places, InPlaces, IoPlaces
<1>10. CASE ServeView(f) \/ SkipEnded(f) \/ KeepSetup(f)
  <2>1. /\ pc[f] = "body" /\ announced' = announced /\ terminal' = terminal
        /\ live' = LiveOrFresh \/ live' = live
        /\ ~IsTerminalEmpty \/ live' = live
    BY <1>10 DEF ServeView, SkipEnded, KeepSetup, memory
  <2>2. View' = View
    BY <2>1, ViewOfTheCreated
  <2>3. live # NoGame => live' # NoGame
    BY <2>1 DEF LiveOrFresh
  <2>4. QED
    BY <1>4, <2>1, <2>2, <2>3
<1>11. CASE TakeTurn(f)
  <2>1. /\ pc[f] = "body" /\ op' = op /\ op[f] \in Mutators
        /\ announced' = announced /\ terminal' = terminal
        /\ pc' = [pc EXCEPT ![f] = "publish"] \/ pc' = [pc EXCEPT ![f] = "delete"]
    BY <1>11 DEF TakeTurn, Goto, Mutators
  <2>2. live' \in Game
    BY <1>1, <1>11, LiveOrFreshIsGame, TurnIsGame DEF TakeTurn, TypeOK
  <2>3. QED
    BY <1>6, <2>1, <2>2, ConstantsAssumption DEF Places, InPlaces, IoPlaces
<1>12. CASE ChangeSetup(f)
  <2>1. /\ pc[f] = "body" /\ op' = op /\ op[f] \in Mutators
        /\ announced' = announced /\ terminal' = terminal
        /\ pc' = [pc EXCEPT ![f] = "write"] \/ pc' = [pc EXCEPT ![f] = "delete"]
    BY <1>12 DEF ChangeSetup, Persist, Goto, Mutators
  <2>2. live' \in Game
    <3>1. LiveOrFresh \in Game /\ clock' \in Nat /\ live' = Setup(op[f], LiveOrFresh, clock')
      BY <1>1, <1>12, LiveOrFreshIsGame DEF ChangeSetup, TypeOK
    <3>2. QED
      BY ONLY <3>1, SetupIsGame
  <2>3. QED
    BY <1>6, <2>1, <2>2, ConstantsAssumption DEF Places, InPlaces, IoPlaces
<1>13. CASE SaveBody(f) \/ AutosaveBody(f)
  <2>1. pc[f] = "body" /\ UNCHANGED memory
    BY <1>13 DEF SaveBody, AutosaveBody
  <2>2. View' = View
    BY <2>1, ViewOfTheCreated DEF memory
  <2>3. QED
    BY <1>4, <2>1, <2>2 DEF memory
<1>14. CASE EndGame(f) \/ Resume(f)
  <2>1. pc[f] = "commit" /\ announced' = announced /\ pc' = [pc EXCEPT ![f] = "publish"]
    BY <1>14 DEF EndGame, Resume, Goto
  <2>2. QED
    BY <1>6, <2>1 DEF Places, InPlaces
<1>15. QED
  BY <1>7, <1>8, <1>9, <1>10, <1>11, <1>12, <1>13, <1>14 DEF Step

LEMMA StepKeepsAInv ==
  ASSUME AInv, NEW f \in Fibers, Step(f), steady' => steady
  PROVE  DownIsEmpty' /\ ChangesAreOwed' /\ ShownIsThere'
<1>1. IInv
  BY DEF AInv, QInv
<1>2. Inside(f) /\ mode' = mode /\ \A g \in Fibers \ {f} : ~Inside(g)
  BY <1>1, StepOfOne
<1>3. mode # "down"
  BY <1>2 DEF AInv, DownIsEmpty, Inside, InPlaces, IoPlaces
<1>4. DownIsEmpty'
  BY <1>2, <1>3 DEF DownIsEmpty
<1>5. CASE mode = "closing"
  BY <1>2, <1>4, <1>5 DEF ChangesAreOwed, ShownIsThere
<1>6. CASE mode # "closing"
  <2>1. /\ \/ announced' = announced
           \/ pc[f] = "publish" /\ announced' = View
        /\ announced # NoGame /\ ~(pc[f] = "publish")
             => \/ View' = View
                \/ pc'[f] = "publish"
                \/ pc'[f] \in {"write", "delete"} /\ op'[f] \in Mutators
        /\ pc[f] = "publish" => View' = View /\ announced' = View
        /\ pc[f] \in {"write", "rename", "delete"} /\ op[f] \in Mutators
             => \/ pc'[f] = "publish"
                \/ pc'[f] = "rename" /\ op'[f] = op[f]
        /\ announced' # NoGame /\ live' = NoGame /\ terminal' = "no" => pc'[f] = "publish"
    BY <1>6, StepOwesAnnouncement
  <2>2. ShownIsThere'
    BY <2>1 DEF ShownIsThere
  <2>3. ASSUME steady', announced' # NoGame, announced' # View' PROVE Owed'
    <3>1. pc[f] # "publish" /\ announced' = announced
      BY <2>1, <2>3
    <3>2. CASE View' = View
      <4>1. PICK g \in Fibers :
              pc[g] = "publish" \/ (pc[g] \in {"write", "rename", "delete"} /\ op[g] \in Mutators)
        BY <1>6, <2>3, <3>1, <3>2 DEF AInv, ChangesAreOwed, Owed
      <4>2. g = f
        BY <1>2, <4>1 DEF Inside, InPlaces, IoPlaces
      <4>3. QED
        BY <2>1, <3>1, <4>1, <4>2 DEF Owed
    <3>3. CASE View' # View
      BY <2>1, <2>3, <3>1, <3>3 DEF Owed
    <3>4. QED
      BY <3>2, <3>3
  <2>4. ChangesAreOwed'
    BY <2>3 DEF ChangesAreOwed
  <2>5. QED
    BY <1>4, <2>2, <2>4
<1>7. QED
  BY <1>5, <1>6

LEMMA AInvKept == "abort" \notin Faults /\ AInv /\ [SteadyNext]_steadyVars => AInv'
<1> SUFFICES ASSUME "abort" \notin Faults, AInv, [SteadyNext]_steadyVars PROVE AInv'
  OBVIOUS
<1>0. [Next]_vars
  BY DEF SteadyNext, steadyVars
<1>1. QInv'
  BY <1>0, QInvKept DEF AInv
<1>a. TypeOK /\ DownIsEmpty /\ ChangesAreOwed /\ ShownIsThere /\ LateOnlyAtTheEnd /\ PermitHeld
  BY DEF AInv, QInv, IInv
<1>b. Shutdown \in Fibers /\ Shutdown \notin Requests /\ Fibers = Requests \union {Shutdown}
  BY ConstantsAssumption DEF Fibers
<1> DEFINE Parts == DownIsEmpty /\ ChangesAreOwed /\ ShownIsThere
<1> SUFFICES Parts'
  BY <1>1 DEF AInv
<1>c. steady' => steady \/ Boot
  BY DEF SteadyNext, steadyVars
<1>d. memory' = memory => View' = View
  BY DEF memory, View, LiveOrFresh
<1>e. mode = "down" => \A f \in Fibers : pc[f] = "idle"
  BY <1>a DEF DownIsEmpty
<1>2. ASSUME mode' = mode, memory' = memory, mode # "down", ~Boot,
             \A f \in Fibers : (pc'[f] = pc[f] /\ op'[f] = op[f]) \/ ~Inside(f)
      PROVE  Parts'
  <2>1. DownIsEmpty'
    BY <1>2 DEF DownIsEmpty
  <2>2. ChangesAreOwed'
    BY <1>2, <1>a, <1>c, <1>d
       DEF memory, ChangesAreOwed, Owed, Inside, InPlaces, IoPlaces
  <2>3. ShownIsThere'
    BY <1>2, <1>a DEF memory, ShownIsThere, Inside, InPlaces
  <2>4. QED
    BY <2>1, <2>2, <2>3
<1>3. ASSUME NEW r \in Requests, NEW o \in RequestOps, Request(r, o)
      PROVE Parts'
  <2>1. mode' = mode /\ memory' = memory /\ mode \in {"up", "draining"} /\ ~Inside(r)
    BY <1>3 DEF Request, Inside, InPlaces, IoPlaces
  <2>2. \A g \in Fibers \ {r} : pc'[g] = pc[g] /\ op'[g] = op[g]
    BY <1>3, <1>a DEF TypeOK, Request, Goto
  <2>3. ~Boot
    BY <2>1 DEF Boot
  <2>4. QED
    BY <1>2, <2>1, <2>2, <2>3
<1>4. ASSUME NEW f \in Fibers, Acquire(f)
      PROVE Parts'
  <2>1. mode' = mode /\ memory' = memory /\ pc[f] = "wait" /\ mode # "down" /\ ~Inside(f)
    BY <1>4, <1>e DEF Acquire, Inside, InPlaces, IoPlaces
  <2>2. \A g \in Fibers \ {f} : pc'[g] = pc[g] /\ op'[g] = op[g]
    BY <1>4, <1>a DEF TypeOK, Acquire, Goto
  <2>3. ~Boot
    BY <2>1 DEF Boot
  <2>4. QED
    BY <1>2, <2>1, <2>2, <2>3
<1>5. ASSUME NEW f \in Fibers, Step(f)
      PROVE Parts'
  <2>1. IInv
    BY DEF AInv, QInv
  <2>2. Inside(f)
    BY <1>5, <2>1, StepOfOne
  <2>3. ~Boot
    BY <1>e, <2>2 DEF Boot, Inside, InPlaces, IoPlaces
  <2>4. steady' => steady
    BY <1>c, <2>3
  <2>5. QED
    BY <1>5, <2>4, StepKeepsAInv
<1>6. ASSUME NEW f \in Fibers, IoFails(f)
      PROVE Parts'
  <2>1. /\ mode' = mode /\ memory' = memory /\ pc[f] \in IoPlaces
        /\ \A g \in Fibers \ {f} : pc'[g] = pc[g]
    BY <1>6, <1>a DEF TypeOK, IoFails, Leave, Goto
  <2>2. mode # "down" /\ pc[f] # "publish"
    BY <1>e, <2>1 DEF IoPlaces
  <2>3. steady' = FALSE
    <3>1. vars' # vars
      BY <2>1, <1>6, <1>a DEF vars, TypeOK, IoFails, Leave, Goto, IoPlaces
    <3>2. SteadyNext
      BY <3>1 DEF steadyVars
    <3>3. QED
      BY <1>6, <3>2 DEF SteadyNext, Fails
  <2>4. DownIsEmpty' /\ ChangesAreOwed'
    BY <2>1, <2>2, <2>3 DEF DownIsEmpty, ChangesAreOwed
  <2>5. ShownIsThere'
    BY <1>a, <2>1, <2>2 DEF memory, ShownIsThere
  <2>6. QED
    BY <2>4, <2>5
<1>7. ASSUME NEW r \in Requests, Late(r)
      PROVE Parts'
  <2>1. mode' = mode /\ pc[r] \in LatePlaces
    BY <1>7 DEF Late, LateDelete, LateWrite, LateRename, LatePlaces
  <2>2. mode = "closing"
    BY <1>a, <1>b, <2>1 DEF LateOnlyAtTheEnd
  <2>3. QED
    BY <2>1, <2>2 DEF DownIsEmpty, ChangesAreOwed, ShownIsThere
<1>8. CASE Signal
  <2>1. mode = "up" /\ mode' = "draining" /\ memory' = memory
        /\ \A g \in Requests : pc'[g] = pc[g] /\ op'[g] = op[g]
    BY <1>8, <1>a, <1>b DEF TypeOK, Signal, Goto
  <2>2. pc[Shutdown] = "idle"
    BY <2>1 DEF AInv, QInv, IInv, ShutdownSleeps
  <2>3. ~Boot
    BY <2>1 DEF Boot
  <2>4. DownIsEmpty'
    BY <2>1 DEF DownIsEmpty
  <2>5. ChangesAreOwed'
    BY <1>a, <1>b, <1>c, <1>d, <2>1, <2>2, <2>3 DEF memory, ChangesAreOwed, Owed
  <2>6. ShownIsThere'
    BY <1>a, <1>b, <2>1, <2>2 DEF memory, ShownIsThere
  <2>7. QED
    BY <2>4, <2>5, <2>6
<1>9. CASE CloseServer
  BY <1>9 DEF CloseServer, DownIsEmpty, ChangesAreOwed, ShownIsThere
<1>10. CASE Exit \/ Crash
  <2>1. announced' = NoGame /\ pc' = [f \in Fibers |-> "idle"]
    BY <1>10 DEF Exit, Crash, Stop
  <2>2. QED
    BY <2>1 DEF DownIsEmpty, ChangesAreOwed, ShownIsThere
<1>11. CASE Boot
  <2>1. announced' = NoGame /\ mode' = "up"
    BY <1>11, <1>a DEF Boot, memory, DownIsEmpty
  <2>2. QED
    BY <2>1 DEF DownIsEmpty, ChangesAreOwed, ShownIsThere
<1>12. CASE UNCHANGED vars
  <2>1. UNCHANGED <<memory, mode, pc, op>> 
    BY <1>12 DEF vars, memory
  <2>2. ~Boot
    BY <2>1 DEF Boot
  <2>3. QED
    BY <1>a, <1>c, <1>d, <2>1, <2>2
       DEF memory, DownIsEmpty, ChangesAreOwed, ShownIsThere, Owed
<1>13. QED
  BY <1>0, <1>3, <1>4, <1>5, <1>6, <1>7, <1>8, <1>9, <1>10, <1>11, <1>12 DEF Next, Abort

\* Whenever nobody holds the permit, the state announced last is the current one:
\* every operation that changes what a client would be shown announces it before it
\* gives the permit back, unless a call of the file system has failed or a request
\* has been interrupted in between (publishClientStateUnlocked).
THEOREM EveryChangeIsAnnounced ==
  ASSUME "abort" \notin Faults PROVE SteadySpec => []SteadyIsAnnounced
<1>1. AInv /\ [SteadyNext]_steadyVars => AInv'
  BY AInvKept
<1>2. AInv => SteadyIsAnnounced
  BY ConstantsAssumption
     DEF AInv, QInv, IInv, PermitHeld, Inside, InPlaces, IoPlaces, ChangesAreOwed, Owed,
         SteadyIsAnnounced, AnnouncedIsLive
<1>3. SteadySpec <=> (Init /\ steady = TRUE) /\ [][SteadyNext]_steadyVars
  BY DEF SteadySpec, SteadyNext, steadyVars
<1>4. QED
  BY InitAInv, <1>1, <1>2, <1>3, PTL

-----------------------------------------------------------------------------
(* A graceful shutdown.                                                    *)

\* While the server closes, the game is being written, or has been, and nothing
\* left behind can delete its file.
ClosingSaves ==
  mode = "closing" /\ steady /\ live # NoGame /\ live.player
    => \/ pc[Shutdown] \in {"wait", "body", "write", "rename"}
       \/ /\ pc[Shutdown] = "idle" /\ disk = live
          /\ \A f \in Fibers : pc[f] # "lateDelete"

RInv == QInv /\ ClosingSaves

LEMMA InitRInv == Init => RInv
<1> SUFFICES ASSUME Init PROVE RInv
  OBVIOUS
<1>1. mode = "up"
  BY DEF Init
<1>2. QED
  BY <1>1, InitQInv DEF RInv, ClosingSaves

LEMMA StepKeepsSaving ==
  ASSUME InOrderIO, RInv, NEW f \in Fibers, Step(f), steady' => steady
  PROVE  ClosingSaves'
<1>1. IInv /\ TypeOK /\ WritesTheLiveGame
  BY DEF RInv, QInv, IInv
<1>2. /\ Inside(f) /\ mode' = mode
      /\ \A g \in Fibers \ {f} : ~Inside(g) /\ pc'[g] = pc[g]
  BY <1>1, StepOfOne
<1> SUFFICES ASSUME mode = "closing", steady, live' # NoGame, live'.player
             PROVE  \/ pc'[Shutdown] \in {"wait", "body", "write", "rename"}
                    \/ /\ pc'[Shutdown] = "idle" /\ disk' = live'
                       /\ \A g \in Fibers : pc'[g] # "lateDelete"
  BY <1>2 DEF ClosingSaves
<1>3. f = Shutdown
  BY <1>2, InsideWhileClosing DEF RInv
<1>4. op[f] = "autosave" /\ pc[f] \in {"body", "write", "rename", "delete"}
  BY <1>2, <1>3 DEF RInv, QInv, ShutdownSaves, Inside, InPlaces, IoPlaces
<1>5. live' = live
  <2>1. pc[f] \in {"write", "rename", "delete"} \/ (op[f] = "autosave" /\ pc[f] = "body")
          => live' = live /\ terminal' = terminal
    BY WhoChangesLive
  <2>2. QED
    BY <1>4, <2>1
<1>6. pc[f] # "delete"
  BY <1>3, <1>5 DEF RInv, ClosingSaves
<1>7. CASE AutosaveBody(f)
  <2>1. pc' = [pc EXCEPT ![f] = "write"]
    BY <1>5, <1>7 DEF AutosaveBody, Persist, Goto
  <2>2. QED
    BY <1>1, <1>3, <2>1 DEF TypeOK
<1>8. CASE WriteTemp(f)
  <2>1. pc' = [pc EXCEPT ![f] = "rename"]
    BY <1>8 DEF WriteTemp, Goto
  <2>2. QED
    BY <1>1, <1>3, <2>1 DEF TypeOK
<1>9. CASE Rename(f)
  <2>1. /\ pc[f] = "rename" /\ Settled /\ disk' = hand[f]
        /\ pc' = [pc EXCEPT ![f] = "idle"]
    BY <1>4, <1>9 DEF Rename, Leave, Goto
  <2>2. disk' = live'
    BY <1>1, <1>5, <2>1 DEF WritesTheLiveGame
  <2>3. pc'[f] = "idle" /\ \A g \in Fibers \ {f} : pc'[g] = pc[g]
    BY <1>1, <2>1 DEF TypeOK
  <2>4. \A g \in Fibers : pc[g] # "lateDelete"
    BY <2>1 DEF Settled
  <2>5. QED
    BY <1>3, <2>2, <2>3, <2>4
<1>10. CASE \/ Read(f) \/ DeleteLands(f) \/ ServeView(f) \/ SkipEnded(f) \/ TakeTurn(f)
            \/ ChangeSetup(f) \/ KeepSetup(f) \/ SaveBody(f) \/ EndGame(f) \/ Resume(f)
            \/ Publish(f)
  BY <1>4, <1>6, <1>10
     DEF Read, DeleteLands, ServeView, SkipEnded, TakeTurn, ChangeSetup, KeepSetup,
         SaveBody, EndGame, Resume, Publish, Mutators, SetupOps
<1>11. QED
  BY <1>7, <1>8, <1>9, <1>10 DEF Step

LEMMA RInvKept ==
  InOrderIO /\ "abort" \notin Faults /\ RInv /\ [SteadyNext]_steadyVars => RInv'
<1> SUFFICES ASSUME InOrderIO, "abort" \notin Faults, RInv, [SteadyNext]_steadyVars
             PROVE  RInv'
  OBVIOUS
<1>0. [Next]_vars
  BY DEF SteadyNext, steadyVars
<1>1. QInv'
  BY <1>0, QInvKept DEF RInv
<1>a. /\ TypeOK /\ ClosingSaves /\ LateOnlyAtTheEnd /\ WritesTheLiveGame /\ ShutdownSaves
      /\ ServerClosed
  BY DEF RInv, QInv, IInv
<1>b. Shutdown \in Fibers /\ Shutdown \notin Requests /\ Fibers = Requests \union {Shutdown}
  BY ConstantsAssumption DEF Fibers
<1> SUFFICES ClosingSaves'
  BY <1>1 DEF RInv
<1>c. mode = "closing" => (steady' => steady)
  BY DEF SteadyNext, steadyVars, Boot
<1>2. ASSUME NEW r \in Requests, NEW o \in RequestOps, Request(r, o)
      PROVE ClosingSaves'
  BY <1>2 DEF Request, ClosingSaves
<1>3. ASSUME NEW f \in Fibers, Acquire(f)
      PROVE ClosingSaves'
  <2> SUFFICES ASSUME mode = "closing" PROVE ClosingSaves'
    BY <1>3 DEF Acquire, ClosingSaves
  <2>1. pc[f] = "wait" /\ pc' = [pc EXCEPT ![f] = FirstPlace(op[f])]
    BY <1>3 DEF Acquire, Goto
  <2>2. f = Shutdown
    BY <1>a, <1>b, <2>1 DEF ServerClosed, LatePlaces
  <2>3. FirstPlace(op[f]) = "body"
    BY <1>a, <2>1, <2>2 DEF ShutdownSaves, FirstPlace
  <2>4. pc'[f] = "body"
    BY <1>a, <2>1, <2>3 DEF TypeOK
  <2>5. QED
    BY <2>2, <2>4 DEF ClosingSaves
<1>4. ASSUME NEW f \in Fibers, Step(f)
      PROVE ClosingSaves'
  <2>1. CASE mode = "closing"
    <3>1. steady' => steady
      BY <1>c, <2>1
    <3>2. QED
      BY <1>4, <3>1, StepKeepsSaving
  <2>2. CASE mode # "closing"
    <3>1. mode' = mode
      BY <1>4, StepOfOne DEF RInv, QInv
    <3>2. QED
      BY <2>2, <3>1 DEF ClosingSaves
  <2>3. QED
    BY <2>1, <2>2
<1>5. ASSUME NEW f \in Fibers, IoFails(f)
      PROVE ClosingSaves'
  <2>1. steady' = FALSE
    <3>1. vars' # vars
      BY <1>5, <1>a DEF vars, TypeOK, IoFails, Leave, Goto, IoPlaces
    <3>2. SteadyNext
      BY <3>1 DEF steadyVars
    <3>3. QED
      BY <1>5, <3>2 DEF SteadyNext, Fails
  <2>2. QED
    BY <2>1 DEF ClosingSaves
<1>6. ASSUME NEW r \in Requests, Late(r)
      PROVE ClosingSaves'
  <2>1. /\ pc[r] \in LatePlaces /\ UNCHANGED <<memory, mode>>
        /\ pc'[r] # "lateDelete"
        /\ \A g \in Fibers \ {r} : pc'[g] = pc[g]
        /\ disk' = disk \/ pc[r] = "lateDelete" \/ (pc[r] = "lateRename" /\ disk' = hand[r])
    BY <1>6, <1>a, <1>b DEF TypeOK, Late, LateDelete, LateWrite, LateRename, Goto, LatePlaces
  <2>2. pc'[Shutdown] = pc[Shutdown]
    BY <1>b, <2>1
  <2>3. QED
    BY <1>a, <1>b, <1>c, <2>1, <2>2 DEF memory, ClosingSaves, WritesTheLiveGame
<1>7. CASE Signal
  BY <1>7 DEF Signal, ClosingSaves
<1>8. CASE CloseServer
  BY <1>8, <1>b DEF CloseServer, ClosingSaves
<1>9. CASE Exit \/ Crash
  BY <1>9 DEF Exit, Crash, Stop, ClosingSaves
<1>10. CASE Boot
  BY <1>10 DEF Boot, ClosingSaves
<1>11. CASE UNCHANGED vars
  BY <1>11, <1>a, <1>c DEF vars, ClosingSaves
<1>12. QED
  BY <1>0, <1>2, <1>3, <1>4, <1>5, <1>6, <1>7, <1>8, <1>9, <1>10, <1>11 DEF Next, Abort

\* A graceful shutdown leaves the live game in the save file, whatever requests it
\* overtakes and whatever calls they leave behind: the last write of the repository's
\* finalizer comes after them and nothing comes after it (server.ts).
THEOREM ShutdownKeepsTheGame ==
  ASSUME InOrderIO, "abort" \notin Faults PROVE SteadySpec => SteadyReload
<1>1. RInv /\ [SteadyNext]_steadyVars => RInv'
  BY RInvKept
<1>2. RInv /\ [SteadyNext]_steadyVars
        => [steady /\ Exit /\ live # NoGame /\ live.player => disk' = live]_<<vars, steady>>
  BY DEF RInv, ClosingSaves, Exit, Stop
<1>3. SteadySpec <=> (Init /\ steady = TRUE) /\ [][SteadyNext]_steadyVars
  BY DEF SteadySpec, SteadyNext, steadyVars
<1>4. QED
  BY InitRInv, <1>1, <1>2, <1>3, PTL DEF SteadyReload
=============================================================================
