----------------------------- MODULE CharmClient -----------------------------
(***************************************************************************)
(* The interactive client, packages/cli/charm/main.go: the message loop    *)
(* Update with the model it owns, the commands it starts, which run beside *)
(* it and come back as messages in any order, and the game they talk to.   *)
(*                                                                         *)
(* A command is the list of HTTP calls it still has to make; with none     *)
(* left it is a message on its way to Update.  The server does one call at *)
(* a time (GameRepository).  An open stream delivers a snapshot and then   *)
(* every published state in order: ClientStateStream shows how, revisions  *)
(* and overflow included, so no revision appears here.  A state is known   *)
(* by its place in the history of the game.                                *)
(***************************************************************************)
EXTENDS Integers, Sequences, FiniteSets

CONSTANTS
  QueueLimit,    \* maxQueuedActions
  AutoKinds,     \* automatic movement the player uses
  Endings,       \* how the player ends the game: "save", "quit"
  Faults,        \* what happens to calls: "refused", "lost" (done, no answer)
  FirstSetup,    \* the setup phase of the game before the client starts
  MaxSerial,     \* bound: keys that change the game
  MaxFaults,     \* bound: failed calls and broken streams
  MaxOthers,     \* bound: calls of other clients
  MaxRestarts,   \* bound: restarts of the server
  MaxSteps,      \* maxAutoMoveSteps
  None

ASSUME ClientAssumption ==
  /\ QueueLimit \in Nat \ {0}
  /\ AutoKinds \subseteq {"run", "travel", "landmark"}
  /\ Endings \subseteq {"save", "quit", "C-c"}
  /\ Faults \subseteq {"refused", "lost"}
  /\ FirstSetup \in {"selectRole", "confirm", "complete"}
  /\ MaxSerial \in Nat /\ MaxFaults \in Nat
  /\ MaxOthers \in Nat /\ MaxRestarts \in Nat /\ MaxSteps \in Nat
  /\ None \notin [id: Nat, streamed: BOOLEAN]
  /\ None \notin [id: Nat, streamed: BOOLEAN, cancel: BOOLEAN]

VARIABLES
  game,     \* the server's game: version, setup, prose (the arrival event), over
  acted,    \* history: this client's actions that reached the server, in order
  link,     \* the client's stream: "none", "open", "closed"
  wire,     \* events on the stream, not yet read
  m,        \* the client's model
  cmds,     \* commands under way
  left,     \* the program has ended
  faults, others, restarts   \* counted against their bounds

serverVars == <<game, acted, link, wire>>
counters   == <<faults, others, restarts>>
vars == <<serverVars, m, cmds, left, counters>>

-----------------------------------------------------------------------------
(* The server.                                                             *)

Alive == game.over = "no"

\* What a view or an event says; an ended game has an empty, complete state.
ViewOf(g) ==
  [version |-> g.version,
   setup   |-> IF g.over = "no" THEN g.setup ELSE "complete",
   prose   |-> g.over = "no" /\ g.prose]

EventOf(g, source) == [view |-> ViewOf(g), source |-> source, over |-> g.over]

\* Mutant: only moves are published.
AnnounceMoves(source) ==
  wire' = IF link = "open" /\ source = "action" THEN Append(wire, EventOf(game', source))
          ELSE wire

\* publishClientStateUnlocked
Announce(source) ==
  wire' = IF link = "open" THEN Append(wire, EventOf(game', source)) ELSE wire

Changed(g) == [g EXCEPT !.version = @ + 1]

\* doPlayerAction: published whether or not the setup lets the turn happen.
Act ==
  /\ game' = IF Alive /\ game.setup = "complete" THEN Changed(game) ELSE game
  /\ IF Alive THEN Announce("action") ELSE UNCHANGED wire

\* selectRole and confirmSetup; a repeated choice is a change, a repeated
\* confirmation is not.
SetupAfter(call) ==
  CASE game.setup = "complete" -> "complete"
    [] call = "role" -> "confirm"
    [] call = "no"   -> "selectRole"
    [] call = "yes"  -> IF game.setup = "confirm" THEN "complete" ELSE game.setup

SetUp(call) ==
  IF /\ Alive /\ game.setup # "complete"
     /\ call = "yes" => game.setup = "confirm"
    THEN /\ game' = [Changed(game) EXCEPT !.setup = SetupAfter(call),
                                          !.prose = SetupAfter(call) = "complete"]
         /\ Announce("setup")
    ELSE UNCHANGED <<game, wire>>

\* saveGame and quitGame; an ended game may be ended again.
Finish(call) ==
  /\ game' = IF Alive THEN [Changed(game) EXCEPT !.over = call]
                      ELSE [game EXCEPT !.over = call]
  /\ Announce(call)

\* The server does a call of the command c.
Serve(call) ==
  \/ call = "get" /\ UNCHANGED <<game, wire>>
  \/ call = "act" /\ Act
  \/ call \in {"role", "yes", "no"} /\ SetUp(call)
  \/ call \in {"save", "quit"} /\ Finish(call)

-----------------------------------------------------------------------------
(* The model: what Update computes.                                        *)

Complete(x)  == x.setup \in {"", "complete"}

Ready(x)     == x.setup = "complete" /\ ~x.setupPending
IsPending(x) == x.activeAction # None \/ x.queue # <<>> \/ x.activeAuto # None

\* A snapshot without a world, as a cancelled run returns it: it changes
\* nothing, but its missing setup is normalised to a complete one.
Blank == [version |-> 0, setup |-> "complete", prose |-> FALSE]

\* applyGameplayEvents, for the one event that is not just a line of text.
Heard(x, view, wasComplete) ==
  IF view.prose /\ ~x.heard
    THEN [x EXCEPT !.heard = TRUE,
                   !.pane = IF ~wasComplete /\ Complete(x) THEN "open" ELSE @]
    ELSE x

\* Mutant: the old setup is looked at when the new one is already in place.
AppliedSetupFirst(x, view) ==
  LET y == [x EXCEPT !.shown = view.version, !.setup = view.setup]
  IN  Heard(y, view, Complete(y))

\* applySnapshot: a completed setup is never taken back.
Applied(x, view) ==
  LET kept == x.setup = "complete" /\ view.setup # "complete"
  IN  Heard([x EXCEPT !.shown = IF view.version = 0 THEN @ ELSE view.version,
                      !.setup = IF kept THEN @ ELSE view.setup],
            view, Complete(x))

\* requestAutoCancel
AutoCancelled(x) ==
  IF x.activeAuto = None THEN x ELSE [x EXCEPT !.activeAuto.cancel = TRUE]

-----------------------------------------------------------------------------
(* Commands.                                                               *)

PollCmd(x) ==
  [kind |-> "poll", gen |-> x.gen, serial |-> x.serial,
   todo |-> <<"get">>, view |-> Blank, err |-> FALSE]

\* The key's serial stands for the action's requestID.
ActionCmd(x) ==
  [kind |-> "action", id |-> x.activeAction.id, streamed |-> x.activeAction.streamed,
   todo |-> IF x.activeAction.streamed THEN <<"act">> ELSE <<"act", "get">>,
   view |-> Blank, err |-> FALSE]

SetupCmd(x, calls) ==
  [kind |-> "setup", id |-> x.setupReq, gen |-> x.gen, serial |-> x.serial,
   todo |-> Append(calls, "get"), view |-> Blank, err |-> FALSE]

EndCmd(x) == [kind |-> "end", todo |-> <<x.intent>>, err |-> FALSE]

\* A run of automatic movement.
AutoCmd(x, name) ==
  [kind |-> "auto", name |-> name, id |-> x.activeAuto.id,
   streamed |-> x.activeAuto.streamed, polls |-> ~x.activeAuto.streamed, over |-> FALSE,
   todo |-> IF x.activeAuto.streamed THEN <<"see">> ELSE <<>>,
   view |-> IF name # "run" THEN [Blank EXCEPT !.version = x.shown] ELSE Blank,
   steps |-> 0, err |-> FALSE]

OpenCmd(x)  == [kind |-> "open", gen |-> x.gen, todo |-> <<"open">>, err |-> FALSE]
ReadCmd(x)  == [kind |-> "read", gen |-> x.gen]
TimerCmd(x) == [kind |-> "timer", gen |-> x.gen]
QuitCmd     == [kind |-> "tea.Quit"]

Replace(c, new) == cmds' = (cmds \ {c}) \union new

\* startAction
Started(x, id) ==
  [x EXCEPT !.activeAction = [id |-> id, streamed |-> x.streamActive]]

\* Mutant: what is under way is not waited for.
TerminalCmdsAtOnce(x) == IF x.intent # "none" THEN {EndCmd(x)} ELSE {}

\* startTerminalRequest: only when nothing of the player's is under way.
TerminalCmds(x) ==
  IF x.activeAction = None /\ x.activeAuto = None /\ x.intent # "none"
    THEN {EndCmd(x)} ELSE {}

\* streamRecoveryCmd: one timer, and a poll unless the player has changed
\* something that is still under way.
Recovering(x) ==
  IF x.retryScheduled \/ x.ending THEN x ELSE [x EXCEPT !.retryScheduled = TRUE]

RecoveryCmds(x) ==
  IF x.retryScheduled \/ x.ending THEN {}
  ELSE {TimerCmd(x)}
       \union IF x.setupPending \/ IsPending(x) THEN {} ELSE {PollCmd(x)}

-----------------------------------------------------------------------------
(* Commands at work.                                                       *)

IsCancelled(c) == m.activeAuto # None /\ m.activeAuto.id = c.id /\ m.activeAuto.cancel

\* What the goroutine knows after the call at the head of its list.  A batch of
\* travel that sees its cancellation refreshes instead of moving on.
After(c) ==
  LET call == Head(c.todo)
      rest == Tail(c.todo)
  IN  CASE call = "get" -> [c EXCEPT !.todo = rest, !.view = ViewOf(game)]
        [] call = "act" /\ c.kind = "auto" ->
             [c EXCEPT !.todo = IF IsCancelled(c) /\ rest[1] = "act"
                                THEN <<"get">> ELSE rest,
                       !.steps = @ + 1]
        [] OTHER -> [c EXCEPT !.todo = rest]

Calls(c) == c.kind \in {"poll", "action", "setup", "end", "auto"} /\ c.todo # <<>>

\* The server does the next call and the answer arrives.
Call(c) ==
  /\ Calls(c) /\ Head(c.todo) # "see"
  /\ Serve(Head(c.todo))
  /\ acted' = IF c.kind = "action" /\ Head(c.todo) = "act"
              THEN Append(acted, c.id) ELSE acted
  /\ Replace(c, {After(c)})
  /\ UNCHANGED <<link, m, left, counters>>

\* waitForStreamSnapshot on the movement's own stream.
See(c) ==
  /\ Calls(c) /\ Head(c.todo) = "see"
  /\ Replace(c, {After(c)})
  /\ UNCHANGED <<serverVars, m, left, counters>>

\* An error status, a broken connection or the timeout of ten seconds: the
\* command makes no further call and reports the error.  Travel to a landmark
\* that has not made a step by its stream starts again without one.
Failed(c) ==
  CASE c.kind # "auto" -> [c EXCEPT !.todo = <<>>, !.err = TRUE]
    [] c.kind = "auto" /\ c.name = "landmark" /\ ~c.polls /\ c.steps = 0 ->
         [c EXCEPT !.todo = <<>>, !.polls = TRUE]
    [] OTHER -> [c EXCEPT !.todo = <<>>, !.err = TRUE, !.over = TRUE]

Refused(c) ==
  /\ "refused" \in Faults /\ faults < MaxFaults
  /\ Calls(c)
  /\ Replace(c, {Failed(c)})
  /\ faults' = faults + 1
  /\ UNCHANGED <<serverVars, m, left, others, restarts>>

\* The server has done the call.  (Should the client give up before it has, the
\* permit of the repository still serves this call before the client's next.)
AnswerLost(c) ==
  /\ "lost" \in Faults /\ faults < MaxFaults
  /\ Calls(c) /\ Head(c.todo) \notin {"see", "get"}
  /\ Serve(Head(c.todo))
  /\ acted' = IF c.kind = "action" THEN Append(acted, c.id) ELSE acted
  /\ Replace(c, {Failed(c)})
  /\ faults' = faults + 1
  /\ UNCHANGED <<link, m, left, others, restarts>>

\* The loops of runDirectionalMovement, runTravel and runLandmarkTravel, polled
\* and streamed.  Two moves stand for a batch of any length.
Steps(c) ==
  IF ~c.polls THEN {<<"act", "see">>}
  ELSE {<<"act", "get">>}
       \union IF c.name = "travel" THEN {<<"act", "act", "get">>} ELSE {}

AutoGoesOn(c) ==
  /\ c.kind = "auto" /\ ~c.over /\ c.todo = <<>>
  /\ c.steps < MaxSteps /\ ~IsCancelled(c)
  /\ \E todo \in Steps(c) : Replace(c, {[c EXCEPT !.todo = todo]})
  /\ UNCHANGED <<serverVars, m, left, counters>>

\* Arrived, blocked, interesting, too far or cancelled.  A cancelled polled run
\* may return a blank snapshot.
AutoEnds(c) ==
  /\ c.kind = "auto" /\ ~c.over /\ c.todo = <<>>
  /\ \E view \in {c.view} \union
                 (IF c.name = "run" /\ IsCancelled(c) THEN {Blank} ELSE {}) :
       Replace(c, {[c EXCEPT !.over = TRUE, !.view = view]})
  /\ UNCHANGED <<serverVars, m, left, counters>>

\* Cancelled while it waits for its stream, or before the next move of a batch:
\* the latest snapshot is returned as it is.
AutoBreaksOff(c) ==
  /\ c.kind = "auto" /\ ~c.over /\ c.todo # <<>> /\ IsCancelled(c)
  /\ Head(c.todo) = "see" \/ (c.name = "travel" /\ c.polls /\ Head(c.todo) = "act")
  /\ Replace(c, {[c EXCEPT !.over = TRUE, !.todo = <<>>]})
  /\ UNCHANGED <<serverVars, m, left, counters>>

\* The server answers the GET of the stream with a snapshot.
Connect(c) ==
  /\ c.kind = "open" /\ c.todo # <<>>
  /\ link' = "open"
  /\ wire' = <<EventOf(game, "initial")>>
  /\ Replace(c, {[c EXCEPT !.todo = <<>>]})
  /\ UNCHANGED <<game, acted, m, left, counters>>

ConnectFails(c) ==
  /\ faults < MaxFaults
  /\ c.kind = "open" /\ c.todo # <<>>
  /\ Replace(c, {[c EXCEPT !.todo = <<>>, !.err = TRUE]})
  /\ faults' = faults + 1
  /\ UNCHANGED <<serverVars, m, left, others, restarts>>

-----------------------------------------------------------------------------
(* Update: the player's keys.                                              *)

CanPlay == ~left /\ Ready(m) /\ ~m.ending /\ m.pane # "open"

\* Keys that make a request are counted by the serial they bump.
Numbered(x) == [x EXCEPT !.serial = @ + 1]

\* enqueueAction, for any key or completed prompt that means an action.
ActionKey ==
  /\ CanPlay /\ ~m.asking /\ m.activeAuto = None
  /\ m.serial < MaxSerial
  /\ LET x == Numbered(m)
     IN  \/ /\ m.activeAction = None
            /\ m' = Started(x, x.serial)
            /\ cmds' = cmds \union {ActionCmd(m')}
         \/ /\ m.activeAction # None /\ Len(m.queue) < QueueLimit
            /\ m' = [x EXCEPT !.queue = Append(@, x.serial)]
            /\ UNCHANGED cmds
  /\ UNCHANGED <<serverVars, left, counters>>

\* startRepeatedMovement, startTravel and startLandmarkTravel.
AutoKey(name) ==
  /\ CanPlay /\ ~m.asking /\ ~IsPending(m)
  /\ m.serial < MaxSerial
  /\ LET x == Numbered(m)
     IN  m' = [x EXCEPT !.activeAuto =
                 [id |-> x.serial, streamed |-> m.streamActive, cancel |-> FALSE]]
  /\ cmds' = cmds \union {AutoCmd(m', name)}
  /\ UNCHANGED <<serverVars, left, counters>>

\* Any other key stops automatic movement and does nothing else.
StopKey ==
  /\ CanPlay /\ m.activeAuto # None /\ ~m.asking
  /\ ~m.activeAuto.cancel
  /\ m' = AutoCancelled(m)
  /\ UNCHANGED <<serverVars, cmds, left, counters>>

\* Mutant: keys typed ahead survive the request to end.
RequestTerminalKeepsQueue(intent) ==
  /\ m' = [AutoCancelled(m) EXCEPT !.asking = FALSE, !.ending = TRUE, !.intent = intent]
  /\ cmds' = cmds \union TerminalCmds(m')

\* requestTerminal
RequestTerminal(intent) ==
  /\ m' = [AutoCancelled(m) EXCEPT !.asking = FALSE, !.ending = TRUE,
                                   !.intent = intent, !.queue = <<>>]
  /\ cmds' = cmds \union TerminalCmds(m')

SaveKey ==
  /\ "save" \in Endings
  /\ CanPlay /\ (m.asking => m.activeAuto # None)
  /\ RequestTerminal("save")
  /\ UNCHANGED <<serverVars, left, counters>>

QuitKey ==
  /\ "quit" \in Endings
  /\ CanPlay /\ ~m.asking
  /\ m' = [AutoCancelled(m) EXCEPT !.asking = TRUE]
  /\ UNCHANGED <<serverVars, cmds, left, counters>>

QuitAnswer ==
  /\ CanPlay /\ m.asking
  /\ \/ RequestTerminal("quit")
     \/ m' = [m EXCEPT !.asking = FALSE] /\ UNCHANGED cmds
  /\ UNCHANGED <<serverVars, left, counters>>

\* Control-C leaves without a word to the server.
InterruptKey ==
  /\ "C-c" \in Endings /\ ~left
  /\ cmds' = cmds \union {QuitCmd}
  /\ UNCHANGED <<serverVars, m, left, counters>>

DismissKey ==
  /\ ~left /\ Ready(m) /\ ~m.ending /\ m.pane = "open"
  /\ m' = [m EXCEPT !.pane = "dismissed"]
  /\ UNCHANGED <<serverVars, cmds, left, counters>>

\* handleSetupKey: the phase is changed at once, except by a confirmation.
SetupKey(phase, calls, next) ==
  /\ ~left /\ ~Ready(m) /\ ~m.setupPending
  /\ m.setup = phase /\ m.serial < MaxSerial
  /\ m' = [Numbered(m) EXCEPT !.setup = next, !.setupPending = TRUE,
                              !.setupReq = @ + 1]
  /\ cmds' = cmds \union {SetupCmd(m', calls)}
  /\ UNCHANGED <<serverVars, left, counters>>

RoleKey == SetupKey("selectRole", <<"role">>, "confirm")
NoKey   == SetupKey("confirm", <<"no">>, "selectRole")
YesKey  == SetupKey("confirm", <<"role", "yes">>, "confirm")

-----------------------------------------------------------------------------
(* Update: the commands' messages.                                         *)

\* The message c is c's result; Update takes one message at a time.
Handles(c, x, new) == m' = x /\ Replace(c, new)

Stay == UNCHANGED <<serverVars, left, counters>>

\* Mutant: the answer is applied although a stream has come up meanwhile.
ActionDoneApplies(c) ==
  /\ c.kind = "action" /\ c.todo = <<>>
  /\ m.activeAction # None /\ m.activeAction.id = c.id
  /\ LET x == [m EXCEPT !.activeAction = None]
     IN  Handles(c, IF c.err \/ c.streamed THEN x ELSE Applied(x, c.view), TerminalCmds(x))
  /\ Stay

ActionDone(c) ==
  /\ c.kind = "action" /\ c.todo = <<>>
  /\ LET x == [m EXCEPT !.activeAction = None]
         y == IF ~c.err /\ ~c.streamed /\ ~m.streamActive THEN Applied(x, c.view) ELSE x
     IN  IF m.activeAction = None \/ m.activeAction.id # c.id THEN Handles(c, m, {})
         ELSE IF m.ending THEN Handles(c, y, TerminalCmds(y))
         ELSE IF m.queue # <<>>
           THEN LET z == Started([y EXCEPT !.queue = Tail(@)], Head(m.queue))
                IN  Handles(c, z, {ActionCmd(z)})
         ELSE Handles(c, y, IF c.streamed /\ ~y.streamActive THEN {PollCmd(y)} ELSE {})
  /\ Stay

\* A streaming client takes the setup alone from the answer.
SetupDone(c) ==
  /\ c.kind = "setup" /\ c.todo = <<>>
  /\ LET x == [m EXCEPT !.setupPending = FALSE]
     IN  IF m.ending \/ c.id # m.setupReq THEN Handles(c, m, {})
         ELSE IF c.err THEN Handles(c, x, {})
         ELSE IF m.streamActive
           THEN Handles(c, Heard([x EXCEPT !.setup = c.view.setup], c.view, Complete(m)), {})
         ELSE IF c.gen # m.gen \/ c.serial # m.serial THEN Handles(c, x, {PollCmd(x)})
         ELSE Handles(c, Applied(x, c.view), {})
  /\ Stay

\* Mutant: a failed save does not take up following the game again.
EndDoneForgets(c) ==
  /\ c.kind = "end" /\ c.todo = <<>>
  /\ IF c.err THEN Handles(c, [m EXCEPT !.ending = FALSE, !.intent = "none"], {})
              ELSE Handles(c, m, {QuitCmd})
  /\ Stay

\* saveDoneMsg and quitDoneMsg; a failure gives the game back to the player.
EndDone(c) ==
  /\ c.kind = "end" /\ c.todo = <<>>
  /\ LET x == [m EXCEPT !.ending = FALSE, !.intent = "none"]
     IN  IF ~c.err THEN Handles(c, m, {QuitCmd})
         ELSE IF m.streamActive \/ m.streamConnecting THEN Handles(c, x, {})
         ELSE Handles(c, Recovering(x), RecoveryCmds(x))
  /\ Stay

\* Mutant: movement that ends does not let the save or quit that waits go on.
AutoDoneForgets(c) ==
  /\ c.kind = "auto" /\ c.over
  /\ LET x == [m EXCEPT !.activeAuto = None]
     IN  IF m.activeAuto = None \/ m.activeAuto.id # c.id THEN Handles(c, m, {})
         ELSE Handles(c, x, IF m.streamActive THEN {} ELSE {PollCmd(x)})
  /\ Stay

AutoDone(c) ==
  /\ c.kind = "auto" /\ c.over
  /\ LET x == [m EXCEPT !.activeAuto = None]
     IN  IF m.activeAuto = None \/ m.activeAuto.id # c.id THEN Handles(c, m, {})
         ELSE IF m.ending
           THEN Handles(c, x, TerminalCmds(x))
         ELSE IF m.streamActive THEN Handles(c, x, {})
         ELSE IF c.err \/ c.streamed THEN Handles(c, x, {PollCmd(x)})
         ELSE Handles(c, Applied(x, c.view), {})
  /\ Stay

\* A poll counts only if nothing has happened since it was sent.
PollDone(c) ==
  /\ c.kind = "poll" /\ c.todo = <<>>
  /\ IF \/ c.gen # m.gen \/ m.streamActive \/ m.setupPending
        \/ c.serial # m.serial \/ c.err
       THEN Handles(c, m, {})
       ELSE Handles(c, Applied(m, c.view), {})
  /\ Stay

\* An event of the stream: the end of the game, or a state to apply.
TakeEvent(c, x) ==
  LET e == Head(wire)
  IN  IF e.over # "no"
        THEN /\ Handles(c, [AutoCancelled(x) EXCEPT !.ending = TRUE, !.streamActive = FALSE,
                                                    !.retryScheduled = FALSE], {QuitCmd})
             /\ link' = "none" /\ wire' = <<>>
        ELSE LET y == Applied(x, e.view)
                 z == [y EXCEPT !.setupPending = @ /\ e.source # "setup" /\ ~Complete(y)]
             IN  /\ Handles(c, z, {ReadCmd(z)})
                 /\ wire' = Tail(wire)
                 /\ UNCHANGED link

StreamLost(c) ==
  LET x == [m EXCEPT !.streamActive = FALSE, !.streamConnecting = FALSE]
  IN  /\ Handles(c, Recovering(x), RecoveryCmds(x))
      /\ link' = "none" /\ wire' = <<>>

Opened(c) ==
  /\ c.kind = "open" /\ c.todo = <<>> /\ ~c.err
  /\ TakeEvent(c, [m EXCEPT !.streamActive = TRUE, !.streamConnecting = FALSE,
                            !.retryScheduled = FALSE])
  /\ UNCHANGED <<game, acted, left, counters>>

NotOpened(c) ==
  /\ c.kind = "open" /\ c.err
  /\ StreamLost(c)
  /\ UNCHANGED <<game, acted, left, counters>>

Received(c) ==
  /\ c.kind = "read" /\ wire # <<>>
  /\ TakeEvent(c, m)
  /\ UNCHANGED <<game, acted, left, counters>>

ReadStops(c) ==
  /\ c.kind = "read" /\ wire = <<>> /\ link = "closed"
  /\ StreamLost(c)
  /\ UNCHANGED <<game, acted, left, counters>>

\* streamReconnectMsg
Reconnect(c) ==
  /\ c.kind = "timer"
  /\ LET x == [m EXCEPT !.retryScheduled = FALSE]
         y == [x EXCEPT !.gen = @ + 1, !.streamConnecting = TRUE]
     IN  IF c.gen # m.gen \/ ~m.retryScheduled THEN Handles(c, m, {})
         ELSE IF m.ending THEN Handles(c, x, {})
         ELSE Handles(c, y, {OpenCmd(y)})
  /\ Stay

QuitMsg(c) ==
  /\ c.kind = "tea.Quit"
  /\ left' = TRUE
  /\ cmds' = {}
  /\ UNCHANGED <<serverVars, m, counters>>

-----------------------------------------------------------------------------
(* The rest of the world.                                                  *)

\* The stream breaks; what was under way may be lost with it, except the
\* first event, which the command that opens the stream has read.
Cut ==
  /\ link = "open" /\ faults < MaxFaults
  /\ link' = "closed"
  /\ \E n \in 0..Len(wire) :
       /\ m.streamConnecting => n > 0
       /\ wire' = SubSeq(wire, 1, n)
  /\ faults' = faults + 1
  /\ UNCHANGED <<game, acted, m, cmds, left, others, restarts>>

\* Another client of the same server.
OtherClient(call) ==
  /\ others < MaxOthers
  /\ Serve(call)
  /\ others' = others + 1
  /\ UNCHANGED <<acted, link, m, cmds, left, faults, restarts>>

\* A new server process: the saved game without its arrival event, or, after
\* a quit, a fresh one.
Restart ==
  /\ restarts < MaxRestarts
  /\ restarts' = restarts + 1
  /\ game' = [version |-> game.version + 1, prose |-> FALSE, over |-> "no",
              setup |-> IF game.over = "quit" THEN "selectRole" ELSE game.setup]
  /\ link' = IF link = "none" THEN link ELSE "closed"
  /\ \E n \in 0..Len(wire) :
       /\ m.streamConnecting /\ wire # <<>> => n > 0
       /\ wire' = SubSeq(wire, 1, n)
  /\ UNCHANGED <<acted, m, cmds, left, faults, others>>

-----------------------------------------------------------------------------
(* Specification.                                                          *)

Init ==
  /\ \E prose \in {FALSE, FirstSetup = "complete"} :
       game = [version |-> 1, setup |-> FirstSetup, prose |-> prose, over |-> "no"]
  /\ acted = <<>> /\ link = "none" /\ wire = <<>>
  /\ m = [setup |-> "", setupPending |-> FALSE, setupReq |-> 0, serial |-> 0,
          activeAction |-> None, queue |-> <<>>, activeAuto |-> None,
          asking |-> FALSE, ending |-> FALSE, intent |-> "none",
          gen |-> 1, streamConnecting |-> TRUE, streamActive |-> FALSE,
          retryScheduled |-> FALSE, shown |-> 0, heard |-> FALSE, pane |-> "never"]
  /\ cmds = {OpenCmd(m)}
  /\ left = FALSE /\ faults = 0 /\ others = 0 /\ restarts = 0

Key ==
  \/ ActionKey \/ StopKey \/ SaveKey \/ QuitKey \/ QuitAnswer \/ InterruptKey
  \/ DismissKey \/ RoleKey \/ NoKey \/ YesKey
  \/ \E name \in AutoKinds : AutoKey(name)

Works(c) ==
  \/ Call(c) \/ See(c) \/ AutoGoesOn(c) \/ AutoEnds(c) \/ AutoBreaksOff(c)
  \/ Connect(c)

Fails(c) == Refused(c) \/ AnswerLost(c) \/ ConnectFails(c)

Update(c) ==
  \/ ActionDone(c) \/ SetupDone(c) \/ EndDone(c) \/ AutoDone(c) \/ PollDone(c)
  \/ Opened(c) \/ NotOpened(c) \/ Received(c) \/ ReadStops(c) \/ Reconnect(c)
  \/ QuitMsg(c)

Next ==
  \/ Key
  \/ \E c \in cmds : Works(c) \/ Fails(c) \/ Update(c)
  \/ Cut \/ Restart
  \/ \E call \in {"act", "role", "yes", "save", "quit"} : OtherClient(call)

Spec == Init /\ [][Next]_vars

\* A reader of a quiet stream waits; any other command can go on.
CanGoOn == \E c \in cmds : c.kind = "read" => wire # <<>> \/ link = "closed"

\* Goroutines run, calls are answered or given up, messages are handled and
\* timers fire: while commands can go on, some command does.  (There are
\* finitely many steps between two keys, so each comes to its turn.)
Fairness == <>[]~CanGoOn \/ []<><<\E c \in cmds : Works(c) \/ Update(c)>>_vars

FairSpec == Spec /\ Fairness

-----------------------------------------------------------------------------
(* Properties.                                                             *)

View == [version: Nat, setup: {"selectRole", "confirm", "complete"}, prose: BOOLEAN]

\* Types, the bound of the queue of actions, and that no state is shown that the
\* game has not been in.
TypeOK ==
  /\ game \in [version: Nat \ {0}, setup: {"selectRole", "confirm", "complete"},
               prose: BOOLEAN, over: {"no", "save", "quit"}]
  /\ acted \in Seq(Nat)
  /\ link \in {"none", "open", "closed"}
  /\ wire \in Seq([view: View, over: {"no", "save", "quit"},
                   source: {"initial", "action", "setup", "save", "quit"}])
  /\ m \in [setup: {"", "selectRole", "confirm", "complete"}, setupPending: BOOLEAN,
            setupReq: Nat, serial: Nat,
            activeAction: [id: Nat, streamed: BOOLEAN] \union {None},
            queue: Seq(Nat),
            activeAuto: [id: Nat, streamed: BOOLEAN, cancel: BOOLEAN] \union {None},
            asking: BOOLEAN, ending: BOOLEAN, intent: {"none", "save", "quit"},
            gen: Nat, streamConnecting: BOOLEAN, streamActive: BOOLEAN,
            retryScheduled: BOOLEAN, shown: 0..game.version, heard: BOOLEAN,
            pane: {"never", "open", "dismissed"}]
  /\ Len(m.queue) <= QueueLimit
  /\ left \in BOOLEAN

\* The queue of actions implements InputQueue: whatever answers are lost or
\* late, typed actions reach the server in their order, at most once, one at a
\* time, and none is begun once the end of the game has been asked for
\* (enqueueAction, startNextQueuedAction, requestTerminal).
Typed == INSTANCE InputQueue WITH
  Room <- QueueLimit, newest <- m.serial, waiting <- m.queue,
  serving <- IF m.activeAction = None THEN 0 ELSE m.activeAction.id,
  done <- acted, closed <- m.ending

KeysInOrder == Typed!Spec

\* An action, automatic movement and the save or quit are never under way
\* together: a save waits for the last answer, and movement cancelled for it
\* has stopped before it is sent (startTerminalRequest, autoDoneMsg).
OneAtATime ==
  /\ TypeOK
  /\ Cardinality({c \in cmds : c.kind \in {"action", "auto", "end"}}) <= 1
  /\ m.activeAction = None \/ m.activeAuto = None

Following == {c \in cmds : c.kind \in {"open", "read", "timer"}}

\* A client that goes on playing always has exactly one command that follows the
\* game or will, of the current generation, and its three flags agree with it:
\* neither a failed save nor any order of lost connections and timers leaves it
\* deaf, or with two readers (streamRecoveryCmd, resumeStreamRecoveryCmd).
RecoveryArmed ==
  ~left =>
    /\ Cardinality(Following) = IF m.streamConnecting \/ m.streamActive \/ m.retryScheduled
                                THEN 1 ELSE 0
    /\ m.ending \/ Following # {}
    /\ \A c \in Following : c.gen = m.gen

\* While a stream is followed, no late poll, answer or movement result puts an
\* older state on the screen (the guards on streamActive in Update).
StreamNotOverwritten ==
  [][m.streamActive /\ m'.streamActive => m'.shown >= m.shown]_vars

\* A client that has read everything on its stream shows the game as it is,
\* whoever changed it.
DrainedIsCurrent ==
  m.streamActive /\ ~left /\ link = "open" /\ wire = <<>> => m.shown = game.version

\* Actions and movement are sent only to a game whose setup is complete, also
\* when a setup's answer is lost and read from the stream (handleKey, Update).
PlayAfterSetup ==
  \A c \in cmds : c.kind \in {"action", "auto"} => game.setup = "complete"

\* The opening pane is shown for the game set up here, however its end comes to
\* be known, and not for the old arrival event of a game joined later
\* (applyGameplayEvents).
OpeningIsShown == m.heard => (m.pane = "never" <=> FirstSetup = "complete")

\* The two together: a game begins with its setup, then its opening, then play.
BeginsInOrder == PlayAfterSetup /\ OpeningIsShown

\* Again and again the client has left or is at rest: nothing of the player's is
\* under way, no end is asked for, no setup is waited for, and it follows the
\* game and shows it as it is.
ComesToRest ==
  []<>\/ left
      \/ /\ ~IsPending(m) /\ ~m.ending /\ ~m.setupPending
         /\ m.streamActive /\ m.shown = game.version

=============================================================================
