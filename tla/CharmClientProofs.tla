------------------------- MODULE CharmClientProofs -------------------------
(***************************************************************************)
(* Theorems about CharmClient, for every size of the action queue, every   *)
(* kind of automatic movement and every number of keys, faults, calls of   *)
(* other clients and restarts of the server; the last one is about a       *)
(* client that is alone.                                                   *)
(***************************************************************************)
EXTENDS CharmClient, SequenceTheorems, FiniteSetTheorems, TLAPS

-----------------------------------------------------------------------------
(* Commands.                                                               *)

\* The calls a command of each kind can still have before it.
SetupCalls  == {<<"role", "yes", "get">>, <<"yes", "get">>, <<"role", "get">>,
                <<"no", "get">>, <<"get">>, <<>>}
ActionCalls == {<<"act", "get">>, <<"act">>, <<"get">>, <<>>}
AutoCalls   == {<<"act", "act", "get">>, <<"act", "get">>, <<"act", "see">>,
                <<"get">>, <<"see">>, <<>>}

PollCommands ==
  [kind: {"poll"}, gen: Nat, serial: Nat, todo: {<<"get">>, <<>>}, view: View, err: BOOLEAN]
ActionCommands ==
  [kind: {"action"}, id: Nat \ {0}, streamed: BOOLEAN, todo: ActionCalls, view: View,
   err: BOOLEAN]
SetupCommands ==
  [kind: {"setup"}, id: Nat, gen: Nat, serial: Nat, todo: SetupCalls, view: View, err: BOOLEAN]
EndCommands ==
  [kind: {"end"}, todo: {<<"save">>, <<"quit">>, <<>>}, err: BOOLEAN]
AutoCommands ==
  [kind: {"auto"}, name: {"run", "travel", "landmark"}, id: Nat \ {0}, streamed: BOOLEAN,
   polls: BOOLEAN, over: BOOLEAN, todo: AutoCalls, view: View, steps: Nat, err: BOOLEAN]
OpenCommands ==
  {c \in [kind: {"open"}, gen: Nat, todo: {<<"open">>, <<>>}, err: BOOLEAN] : c.todo # <<>> => ~c.err}
ReadCommands  == [kind: {"read"}, gen: Nat]
TimerCommands == [kind: {"timer"}, gen: Nat]
QuitCommands  == [kind: {"tea.Quit"}]

Commands == UNION {PollCommands, ActionCommands, SetupCommands, EndCommands, AutoCommands,
                   OpenCommands, ReadCommands, TimerCommands, QuitCommands}

\* The first call of a list, and the rest.
LEMMA Lists ==
  /\ \A x : <<x>> # <<>> /\ Head(<<x>>) = x /\ Tail(<<x>>) = <<>>
  /\ \A x, y : <<x, y>> # <<>> /\ Head(<<x, y>>) = x /\ Tail(<<x, y>>) = <<y>>
  /\ \A x, y, z : <<x, y, z>> # <<>> /\ Head(<<x, y, z>>) = x /\ Tail(<<x, y, z>>) = <<y, z>>
  OBVIOUS

LEMMA Appends ==
  /\ \A x, y : Append(<<x>>, y) = <<x, y>>
  /\ \A x, y, z : Append(<<x, y>>, z) = <<x, y, z>>
<1>1. ASSUME NEW x, NEW y PROVE Append(<<x>>, y) = <<x, y>>
  <2>1. <<x>> \in Seq({x, y}) /\ <<x, y>> \in Seq({x, y}) /\ y \in {x, y}
    OBVIOUS
  <2>2. Len(<<x>>) = 1 /\ Len(<<x, y>>) = 2 /\ <<x>>[1] = x /\ <<x, y>>[1] = x /\ <<x, y>>[2] = y
    OBVIOUS
  <2>3. Append(<<x>>, y) \in Seq({x, y}) /\ Len(Append(<<x>>, y)) = 2
    BY <2>1, <2>2, AppendProperties
  <2>4. Append(<<x>>, y)[1] = x /\ Append(<<x>>, y)[2] = y
    BY <2>1, <2>2, AppendProperties
  <2>5. \A i \in 1..2 : i = 1 \/ i = 2
    OBVIOUS
  <2>6. QED
    BY <2>1, <2>2, <2>3, <2>4, <2>5, SeqEqual
<1>2. ASSUME NEW x, NEW y, NEW z PROVE Append(<<x, y>>, z) = <<x, y, z>>
  <2>1. <<x, y>> \in Seq({x, y, z}) /\ <<x, y, z>> \in Seq({x, y, z}) /\ z \in {x, y, z}
    OBVIOUS
  <2>2. /\ Len(<<x, y>>) = 2 /\ Len(<<x, y, z>>) = 3 /\ <<x, y>>[1] = x /\ <<x, y>>[2] = y
        /\ <<x, y, z>>[1] = x /\ <<x, y, z>>[2] = y /\ <<x, y, z>>[3] = z
    OBVIOUS
  <2>3. Append(<<x, y>>, z) \in Seq({x, y, z}) /\ Len(Append(<<x, y>>, z)) = 3
    BY <2>1, <2>2, AppendProperties
  <2>4. /\ Append(<<x, y>>, z)[1] = x /\ Append(<<x, y>>, z)[2] = y
        /\ Append(<<x, y>>, z)[3] = z
    BY <2>1, <2>2, AppendProperties
  <2>5. \A i \in 1..3 : i = 1 \/ i = 2 \/ i = 3
    OBVIOUS
  <2>6. QED
    BY <2>1, <2>2, <2>3, <2>4, <2>5, SeqEqual
<1>3. QED
  BY <1>1, <1>2

LEMMA CommandOfKind ==
  ASSUME NEW c \in Commands
  PROVE  /\ c.kind = "poll" => c \in PollCommands
         /\ c.kind = "action" => c \in ActionCommands
         /\ c.kind = "setup" => c \in SetupCommands
         /\ c.kind = "end" => c \in EndCommands
         /\ c.kind = "auto" => c \in AutoCommands
         /\ c.kind = "open" => c \in OpenCommands
         /\ c.kind = "read" => c \in ReadCommands
         /\ c.kind = "timer" => c \in TimerCommands
         /\ c.kind = "tea.Quit" => c \in QuitCommands
         /\ c.kind \in {"poll", "action", "setup", "end", "auto", "open", "read", "timer", "tea.Quit"}
BY DEF Commands, PollCommands, ActionCommands, SetupCommands, EndCommands, AutoCommands,
       OpenCommands, ReadCommands, TimerCommands, QuitCommands

-----------------------------------------------------------------------------
(* The types of the state, by its parts.                                   *)

Setups  == {"selectRole", "confirm", "complete"}
Overs   == {"no", "save", "quit"}
Games   == [version: Nat \ {0}, setup: Setups, prose: BOOLEAN, over: Overs]
Events  == [view: View, over: Overs, source: {"initial", "action", "setup", "save", "quit"}]
Actions == [id: Nat, streamed: BOOLEAN]
Autos   == [id: Nat, streamed: BOOLEAN, cancel: BOOLEAN]

\* The models of a client that has seen states up to v.
Models(v) ==
  [setup: {"", "selectRole", "confirm", "complete"}, setupPending: BOOLEAN,
   setupReq: Nat, serial: Nat,
   activeAction: Actions \union {None}, queue: Seq(Nat), activeAuto: Autos \union {None},
   asking: BOOLEAN, ending: BOOLEAN, intent: {"none", "save", "quit"},
   gen: Nat, streamConnecting: BOOLEAN, streamActive: BOOLEAN,
   retryScheduled: BOOLEAN, shown: 0..v, heard: BOOLEAN,
   pane: {"never", "open", "dismissed"}]

LEMMA TypeOKByParts ==
  TypeOK <=> /\ game \in Games /\ acted \in Seq(Nat) /\ link \in {"none", "open", "closed"}
             /\ wire \in Seq(Events) /\ m \in Models(game.version)
             /\ Len(m.queue) <= QueueLimit /\ left \in BOOLEAN
BY DEF TypeOK, Games, Events, Models, Setups, Overs, Actions, Autos

\* Nothing is known of a state the game has not been in.
WirePast == \A i \in 1..Len(wire) : wire[i].view.version \in 1..game.version

HasView(c) == c.kind \in {"poll", "action", "setup", "auto"}
ViewsPast == \A c \in cmds : HasView(c) => c.view.version <= game.version

LEMMA ViewIsView ==
  ASSUME NEW g \in Games
  PROVE  ViewOf(g) \in View /\ ViewOf(g).version = g.version /\ g.version \in Nat \ {0}
BY DEF Games, ViewOf, View, Setups, Overs

LEMMA EventIsEvent ==
  ASSUME NEW g \in Games, NEW source \in {"initial", "action", "setup", "save", "quit"}
  PROVE  /\ EventOf(g, source) \in Events /\ EventOf(g, source).view = ViewOf(g)
         /\ EventOf(g, source).over = g.over /\ EventOf(g, source).source = source
BY ViewIsView DEF EventOf, Events, Games

\* A call changes the game at most once, forwards, and every change is announced to
\* an open stream.
Announced ==
  /\ game' \in Games
  /\ game'.version \in {game.version, game.version + 1}
  /\ \/ wire' = wire /\ (game' = game \/ link # "open")
     \/ /\ link = "open"
        /\ \E source \in {"action", "setup", "save", "quit"} :
             wire' = Append(wire, EventOf(game', source))

LEMMA ServeGame ==
  ASSUME game \in Games, NEW call \in {"get", "act", "role", "yes", "no", "save", "quit"},
         Serve(call)
  PROVE  Announced
<1> USE DEF Announced
<1>a. game.version \in Nat \ {0} /\ game.setup \in Setups /\ game.over \in Overs
  BY DEF Games
<1>b. Changed(game) \in Games /\ Changed(game).version = game.version + 1
  BY <1>a DEF Changed, Games
<1>1. CASE call = "get"
  BY <1>1, <1>a DEF Serve
<1>2. CASE call = "act"
  BY <1>2, <1>a DEF Serve, Act, Announce, Changed, Games
<1>3. CASE call \in {"role", "yes", "no"}
  <2>1. SetupAfter(call) \in Setups
    BY <1>3, <1>a DEF SetupAfter, Setups
  <2>2. PICK s \in Setups : s = SetupAfter(call)
    BY <2>1
  <2>3. PICK p \in BOOLEAN : p = (s = "complete")
    OBVIOUS
  <2>4. PICK g : g = [Changed(game) EXCEPT !.setup = s, !.prose = p]
    OBVIOUS
  <2>5. g \in Games /\ g.version = game.version + 1
    <3>1. PICK h : h = Changed(game)
      OBVIOUS
    <3>2. h \in Games /\ h.version = game.version + 1
      BY <3>1, <1>b
    <3>3. g = [h EXCEPT !.setup = s, !.prose = p]
      BY <2>4, <3>1
    <3>4. QED
      BY <3>2, <3>3 DEF Games
  <2>6. SetUp(call)
    BY <1>3 DEF Serve
  <2>7. (game' = g /\ Announce("setup")) \/ (game' = game /\ wire' = wire)
    BY <2>2, <2>3, <2>4, <2>6, Zenon DEF SetUp
  <2>8. QED
    BY <2>5, <2>7, <1>a DEF Announce
<1>4. CASE call \in {"save", "quit"}
  <2>1. Finish(call)
    BY <1>4 DEF Serve
  <2>2. game' \in Games /\ game'.version \in {game.version, game.version + 1}
    <3>1. PICK h \in {game, Changed(game)} : game' = [h EXCEPT !.over = call]
      BY <2>1 DEF Finish
    <3>2. h \in Games /\ h.version \in {game.version, game.version + 1}
      BY <3>1, <1>b
    <3>3. QED
      BY <1>4, <3>1, <3>2 DEF Games, Overs
  <2>3. Announce(call)
    BY <2>1 DEF Finish
  <2>4. QED
    BY <1>4, <2>1, <2>2, <2>3 DEF Announce
<1>5. QED
  BY <1>1, <1>2, <1>3, <1>4

-----------------------------------------------------------------------------
(* Commands at work.                                                       *)

\* What stays of a command when it goes on, and what it may learn.
Continues(c, d) ==
  /\ d \in Commands /\ d.kind = c.kind
  /\ c.kind \in {"action", "auto", "setup"} => d.id = c.id
  /\ c.kind \in {"action", "auto"} => d.streamed = c.streamed
  /\ c.kind \in {"poll", "setup", "open"} => d.gen = c.gen
  /\ HasView(c) => d.view \in {c.view, ViewOf(game), Blank}
  /\ c.kind = "action" => d.todo \in {<<"get">>, <<>>}

LEMMA BlankIsView == Blank \in View /\ Blank.version = 0
BY DEF Blank, View

LEMMA CallLists ==
  /\ \A t \in ActionCalls : t # <<>> => Tail(t) \in {<<"get">>, <<>>} /\ Head(t) \in {"act", "get"}
  /\ \A t \in SetupCalls : t # <<>> => Tail(t) \in SetupCalls /\ Head(t) \in {"role", "yes", "no", "get"}
  /\ \A t \in AutoCalls : t # <<>> => Tail(t) \in AutoCalls /\ Head(t) \in {"act", "get", "see"}
  /\ \A t \in {<<"get">>, <<>>} : t # <<>> => Tail(t) = <<>> /\ Head(t) = "get"
  /\ \A t \in {<<"save">>, <<"quit">>, <<>>} : t # <<>> => Tail(t) = <<>> /\ Head(t) \in {"save", "quit"}
  /\ <<"get">> \in AutoCalls
BY Lists DEF ActionCalls, SetupCalls, AutoCalls

LEMMA AfterContinues ==
  ASSUME game \in Games, NEW c \in Commands, Calls(c)
  PROVE  Continues(c, After(c))
<1>1. ViewOf(game) \in View
  BY ViewIsView
<1>2. c.todo # <<>> /\ c.kind \in {"poll", "action", "setup", "end", "auto"}
  BY DEF Calls
<1>3. PICK rest : rest = Tail(c.todo)
  OBVIOUS
<1>4. PICK v \in View : v = ViewOf(game)
  BY <1>1
<1>5. CASE c.kind = "poll"
  <2>1. c \in PollCommands
    BY <1>5, CommandOfKind
  <2>2. Head(c.todo) = "get" /\ rest = <<>>
    BY <1>2, <1>3, <2>1, CallLists DEF PollCommands
  <2>3. After(c) = [c EXCEPT !.todo = <<>>, !.view = v]
    BY <1>3, <1>4, <2>2 DEF After
  <2>4. [c EXCEPT !.todo = <<>>, !.view = v] \in PollCommands
    BY <2>1 DEF PollCommands
  <2>5. QED
    BY <1>4, <1>5, <2>1, <2>3, <2>4 DEF Continues, PollCommands, Commands, HasView
<1>6. CASE c.kind = "action"
  <2>1. c \in ActionCommands
    BY <1>6, CommandOfKind
  <2>2. Head(c.todo) \in {"act", "get"} /\ rest \in {<<"get">>, <<>>}
    BY <1>2, <1>3, <2>1, CallLists DEF ActionCommands
  <2>3. PICK w \in {c.view, v} : After(c) = [c EXCEPT !.todo = rest, !.view = w]
    <3>1. Head(c.todo) = "get" => After(c) = [c EXCEPT !.todo = rest, !.view = v]
      BY <1>3, <1>4 DEF After
    <3>2. Head(c.todo) = "act" => After(c) = [c EXCEPT !.todo = rest]
      BY <1>3, <1>6 DEF After
    <3>3. [c EXCEPT !.todo = rest] = [c EXCEPT !.todo = rest, !.view = c.view]
      BY <2>1 DEF ActionCommands
    <3>4. QED
      BY <2>2, <3>1, <3>2, <3>3
  <2>4. [c EXCEPT !.todo = rest, !.view = w] \in ActionCommands
    BY <2>1, <2>2, <2>3 DEF ActionCommands, ActionCalls
  <2>5. QED
    BY <1>4, <1>6, <2>1, <2>2, <2>3, <2>4 DEF Continues, ActionCommands, Commands, HasView
<1>7. CASE c.kind = "setup"
  <2>1. c \in SetupCommands
    BY <1>7, CommandOfKind
  <2>2. rest \in SetupCalls
    BY <1>2, <1>3, <2>1, CallLists DEF SetupCommands
  <2>3. PICK w \in {c.view, v} : After(c) = [c EXCEPT !.todo = rest, !.view = w]
    <3>1. Head(c.todo) = "get" => After(c) = [c EXCEPT !.todo = rest, !.view = v]
      BY <1>3, <1>4 DEF After
    <3>2. Head(c.todo) # "get" => After(c) = [c EXCEPT !.todo = rest]
      BY <1>3, <1>7 DEF After
    <3>3. [c EXCEPT !.todo = rest] = [c EXCEPT !.todo = rest, !.view = c.view]
      BY <2>1 DEF SetupCommands
    <3>4. QED
      BY <3>1, <3>2, <3>3
  <2>4. [c EXCEPT !.todo = rest, !.view = w] \in SetupCommands
    BY <2>1, <2>2, <2>3 DEF SetupCommands
  <2>5. QED
    BY <1>4, <1>7, <2>1, <2>3, <2>4 DEF Continues, SetupCommands, Commands, HasView
<1>8. CASE c.kind = "end"
  <2>1. c \in EndCommands
    BY <1>8, CommandOfKind
  <2>2. Head(c.todo) \in {"save", "quit"} /\ rest = <<>>
    BY <1>2, <1>3, <2>1, CallLists DEF EndCommands
  <2>3. After(c) = [c EXCEPT !.todo = rest]
    BY <1>3, <1>8, <2>2 DEF After
  <2>4. [c EXCEPT !.todo = rest] \in EndCommands
    BY <2>1, <2>2 DEF EndCommands
  <2>5. QED
    BY <1>8, <2>1, <2>3, <2>4 DEF Continues, EndCommands, Commands, HasView
<1>9. CASE c.kind = "auto"
  <2>1. c \in AutoCommands
    BY <1>9, CommandOfKind
  <2>2. rest \in AutoCalls /\ <<"get">> \in AutoCalls
    BY <1>2, <1>3, <2>1, CallLists, SMTT(60) DEF AutoCommands
  <2>3. PICK w \in {c.view, v}, t \in AutoCalls, n \in {c.steps, c.steps + 1} :
          After(c) = [c EXCEPT !.todo = t, !.view = w, !.steps = n]
    <3>1. Head(c.todo) = "get" => After(c) = [c EXCEPT !.todo = rest, !.view = v]
      BY <1>3, <1>4 DEF After
    <3>2. Head(c.todo) \notin {"get", "act"} => After(c) = [c EXCEPT !.todo = rest]
      BY <1>3 DEF After
    <3>3. PICK t \in {rest, <<"get">>} :
            Head(c.todo) = "act" => After(c) = [c EXCEPT !.todo = t, !.steps = c.steps + 1]
      BY <1>3, <1>9 DEF After
    <3>4. /\ [c EXCEPT !.todo = rest] = [c EXCEPT !.todo = rest, !.view = c.view, !.steps = c.steps]
          /\ [c EXCEPT !.todo = rest, !.view = v]
               = [c EXCEPT !.todo = rest, !.view = v, !.steps = c.steps]
          /\ [c EXCEPT !.todo = t, !.steps = c.steps + 1]
               = [c EXCEPT !.todo = t, !.view = c.view, !.steps = c.steps + 1]
      BY <2>1 DEF AutoCommands
    <3>5. QED
      BY <2>2, <3>1, <3>2, <3>3, <3>4
  <2>4. [c EXCEPT !.todo = t, !.view = w, !.steps = n] \in AutoCommands
    <3>1. w \in View /\ n \in Nat /\ t \in AutoCalls
      BY <2>1, <2>3 DEF AutoCommands
    <3>2. QED
      BY ONLY <2>1, <3>1 DEF AutoCommands
  <2>5. QED
    BY <1>4, <1>9, <2>1, <2>3, <2>4 DEF Continues, AutoCommands, Commands, HasView
<1>10. QED
  BY <1>2, <1>5, <1>6, <1>7, <1>8, <1>9

LEMMA FailedContinues ==
  ASSUME NEW c \in Commands, Calls(c)
  PROVE  Continues(c, Failed(c))
<1>1. c.kind \in {"poll", "action", "setup", "end", "auto"}
  BY DEF Calls
<1>2. CASE c.kind = "auto"
  <2>1. c \in AutoCommands
    BY <1>2, CommandOfKind
  <2>2. PICK p \in BOOLEAN, e \in BOOLEAN, o \in BOOLEAN :
          Failed(c) = [c EXCEPT !.todo = <<>>, !.polls = p, !.err = e, !.over = o]
    <3>1. /\ [c EXCEPT !.todo = <<>>, !.polls = TRUE]
               = [c EXCEPT !.todo = <<>>, !.polls = TRUE, !.err = c.err, !.over = c.over]
          /\ [c EXCEPT !.todo = <<>>, !.err = TRUE, !.over = TRUE]
               = [c EXCEPT !.todo = <<>>, !.polls = c.polls, !.err = TRUE, !.over = TRUE]
          /\ c.err \in BOOLEAN /\ c.over \in BOOLEAN /\ c.polls \in BOOLEAN
      BY <2>1 DEF AutoCommands
    <3>2. \/ Failed(c) = [c EXCEPT !.todo = <<>>, !.polls = TRUE]
          \/ Failed(c) = [c EXCEPT !.todo = <<>>, !.err = TRUE, !.over = TRUE]
      BY <1>2 DEF Failed
    <3>3. QED
      BY <3>1, <3>2
  <2>3. [c EXCEPT !.todo = <<>>, !.polls = p, !.err = e, !.over = o] \in AutoCommands
    BY <2>1, <2>2 DEF AutoCommands, AutoCalls
  <2>4. QED
    BY <1>2, <2>1, <2>2, <2>3 DEF Continues, AutoCommands, Commands, HasView
<1>3. CASE c.kind # "auto"
  <2>1. PICK d : d = [c EXCEPT !.todo = <<>>, !.err = TRUE]
    OBVIOUS
  <2>2. Failed(c) = d
    BY <1>3, <2>1 DEF Failed
  <2>3. CASE c.kind = "poll"
    <3>1. c \in PollCommands
      BY <2>3, CommandOfKind
    <3>2. d \in PollCommands
      BY <2>1, <3>1 DEF PollCommands
    <3>3. QED
      BY <2>1, <2>2, <2>3, <3>1, <3>2 DEF Continues, PollCommands, Commands, HasView
  <2>4. CASE c.kind = "action"
    <3>1. c \in ActionCommands
      BY <2>4, CommandOfKind
    <3>2. d \in ActionCommands
      BY <2>1, <3>1 DEF ActionCommands, ActionCalls
    <3>3. QED
      BY <2>1, <2>2, <2>4, <3>1, <3>2 DEF Continues, ActionCommands, Commands, HasView
  <2>5. CASE c.kind = "setup"
    <3>1. c \in SetupCommands
      BY <2>5, CommandOfKind
    <3>2. d \in SetupCommands
      BY <2>1, <3>1 DEF SetupCommands, SetupCalls
    <3>3. QED
      BY <2>1, <2>2, <2>5, <3>1, <3>2 DEF Continues, SetupCommands, Commands, HasView
  <2>6. CASE c.kind = "end"
    <3>1. c \in EndCommands
      BY <2>6, CommandOfKind
    <3>2. d \in EndCommands
      BY <2>1, <3>1 DEF EndCommands
    <3>3. QED
      BY <2>1, <2>2, <2>6, <3>1, <3>2 DEF Continues, EndCommands, Commands, HasView
  <2>7. QED
    BY <1>1, <1>3, <2>3, <2>4, <2>5, <2>6
<1>4. QED
  BY <1>2, <1>3

\* The stream is opened by its command, and by nothing else.
Connected(c, d) ==
  /\ c.kind = "open" /\ ~d.err /\ game' = game
  /\ link' = "open" /\ wire' = <<EventOf(game, "initial")>>

Replaces(c, d) == cmds' = (cmds \ {c}) \union {d}

\* A command at work leaves the client alone: it becomes another command, calls the
\* game at most once, and tells it of an action at most once.
LEMMA WorkStep ==
  ASSUME game \in Games, cmds \subseteq Commands, NEW c \in cmds, Works(c) \/ Fails(c)
  PROVE  /\ m' = m /\ left' = left
         /\ \/ acted' = acted
            \/ /\ c.kind = "action" /\ c.todo # <<>> /\ Head(c.todo) = "act"
               /\ acted' = Append(acted, c.id)
         /\ \E d : /\ Continues(c, d) /\ Replaces(c, d)
                   /\ \/ link' = link /\ Announced /\ (c.kind = "open" => d.err)
                      \/ Connected(c, d)
<1>1. c \in Commands /\ (UNCHANGED <<game, wire>> => Announced)
  BY DEF Announced, Games
<1>2. CASE Call(c)
  <2>1. /\ Calls(c) /\ Serve(Head(c.todo)) /\ Head(c.todo) # "see"
        /\ UNCHANGED <<link, m, left>> /\ Replaces(c, After(c))
        /\ acted' = IF c.kind = "action" /\ Head(c.todo) = "act" THEN Append(acted, c.id) ELSE acted
    BY <1>2 DEF Call, Replace, Replaces
  <2>2. Continues(c, After(c)) /\ c.kind # "open" /\ c.todo # <<>>
    BY <1>1, <2>1, AfterContinues DEF Calls
  <2>3. Head(c.todo) \in {"get", "act", "role", "yes", "no", "save", "quit"}
    BY <2>1 DEF Serve
  <2>4. Announced
    BY <2>1, <2>3, ServeGame
  <2>5. QED
    BY <2>1, <2>2, <2>4
<1>3. CASE See(c)
  <2>1. Calls(c) /\ UNCHANGED <<serverVars, m, left>> /\ Replaces(c, After(c))
    BY <1>3 DEF See, Replace, Replaces
  <2>2. Continues(c, After(c)) /\ c.kind # "open"
    BY <1>1, <2>1, AfterContinues DEF Calls
  <2>3. QED
    BY <1>1, <2>1, <2>2 DEF serverVars
<1>4. CASE Refused(c)
  <2>1. Calls(c) /\ UNCHANGED <<serverVars, m, left>> /\ Replaces(c, Failed(c))
    BY <1>4 DEF Refused, Replace, Replaces
  <2>2. Continues(c, Failed(c)) /\ c.kind # "open"
    BY <1>1, <2>1, FailedContinues DEF Calls
  <2>3. QED
    BY <1>1, <2>1, <2>2 DEF serverVars
<1>5. CASE AnswerLost(c)
  <2>1. /\ Calls(c) /\ Serve(Head(c.todo)) /\ Head(c.todo) \notin {"see", "get"}
        /\ UNCHANGED <<link, m, left>> /\ Replaces(c, Failed(c))
        /\ acted' = IF c.kind = "action" THEN Append(acted, c.id) ELSE acted
    BY <1>5 DEF AnswerLost, Replace, Replaces
  <2>2. Continues(c, Failed(c)) /\ c.kind # "open" /\ c.todo # <<>>
    BY <1>1, <2>1, FailedContinues DEF Calls
  <2>3. Head(c.todo) \in {"get", "act", "role", "yes", "no", "save", "quit"}
    BY <2>1 DEF Serve
  <2>4. Announced
    BY <2>1, <2>3, ServeGame
  <2>5. c.kind = "action" => Head(c.todo) = "act"
    BY <1>1, <2>1, <2>2, CommandOfKind, CallLists DEF ActionCommands
  <2>6. QED
    BY <2>1, <2>2, <2>4, <2>5
<1>6. CASE AutoGoesOn(c) \/ AutoEnds(c) \/ AutoBreaksOff(c)
  <2>1. c \in AutoCommands /\ c.kind = "auto" /\ UNCHANGED <<serverVars, m, left>>
    BY <1>1, <1>6, CommandOfKind DEF AutoGoesOn, AutoEnds, AutoBreaksOff
  <2>2. PICK t \in AutoCalls, o \in BOOLEAN, v \in {c.view, Blank} :
          Replaces(c, [c EXCEPT !.todo = t, !.over = o, !.view = v])
    <3>1. CASE AutoGoesOn(c)
      <4>1. PICK t \in Steps(c) : Replaces(c, [c EXCEPT !.todo = t])
        BY <3>1 DEF AutoGoesOn, Replace, Replaces
      <4>2. t \in AutoCalls
        BY DEF Steps, AutoCalls
      <4>3. [c EXCEPT !.todo = t] = [c EXCEPT !.todo = t, !.over = c.over, !.view = c.view]
            /\ c.over \in BOOLEAN
        BY <2>1 DEF AutoCommands
      <4>4. QED
        BY <4>1, <4>2, <4>3
    <3>2. CASE AutoEnds(c)
      <4>1. PICK v \in {c.view, Blank} : Replaces(c, [c EXCEPT !.over = TRUE, !.view = v])
        BY <3>2 DEF AutoEnds, Replace, Replaces
      <4>2. [c EXCEPT !.over = TRUE, !.view = v]
              = [c EXCEPT !.todo = c.todo, !.over = TRUE, !.view = v] /\ c.todo \in AutoCalls
        BY <2>1 DEF AutoCommands
      <4>3. QED
        BY <4>1, <4>2
    <3>3. CASE AutoBreaksOff(c)
      <4>1. Replaces(c, [c EXCEPT !.over = TRUE, !.todo = <<>>])
        BY <3>3 DEF AutoBreaksOff, Replace, Replaces
      <4>2. [c EXCEPT !.over = TRUE, !.todo = <<>>]
              = [c EXCEPT !.todo = <<>>, !.over = TRUE, !.view = c.view] /\ <<>> \in AutoCalls
        BY <2>1 DEF AutoCommands, AutoCalls
      <4>3. QED
        BY <4>1, <4>2
    <3>4. QED
      BY <1>6, <3>1, <3>2, <3>3
  <2>3. PICK d : d = [c EXCEPT !.todo = t, !.over = o, !.view = v]
    OBVIOUS
  <2>4. d \in AutoCommands
    BY <2>1, <2>2, <2>3, BlankIsView DEF AutoCommands
  <2>5. Continues(c, d)
    BY <2>1, <2>2, <2>3, <2>4 DEF Continues, AutoCommands, Commands, HasView
  <2>6. QED
    BY <1>1, <2>1, <2>2, <2>3, <2>5 DEF serverVars
<1>7. CASE Connect(c)
  <2>1. /\ c \in OpenCommands /\ c.kind = "open" /\ c.todo # <<>>
        /\ UNCHANGED <<game, acted, m, left>>
        /\ link' = "open" /\ wire' = <<EventOf(game, "initial")>>
        /\ Replaces(c, [c EXCEPT !.todo = <<>>])
    BY <1>1, <1>7, CommandOfKind DEF Connect, Replace, Replaces
  <2>2. PICK d : d = [c EXCEPT !.todo = <<>>]
    OBVIOUS
  <2>3. d \in OpenCommands /\ d.err = FALSE /\ d.kind = c.kind /\ d.gen = c.gen
    BY <2>1, <2>2 DEF OpenCommands
  <2>4. Continues(c, d) /\ Connected(c, d)
    BY <2>1, <2>3 DEF Continues, Commands, HasView, Connected
  <2>5. QED
    BY <2>1, <2>2, <2>4
<1>8. CASE ConnectFails(c)
  <2>1. /\ c \in OpenCommands /\ c.kind = "open" /\ UNCHANGED <<serverVars, m, left>>
        /\ Replaces(c, [c EXCEPT !.todo = <<>>, !.err = TRUE])
    BY <1>1, <1>8, CommandOfKind DEF ConnectFails, Replace, Replaces
  <2>2. PICK d : d = [c EXCEPT !.todo = <<>>, !.err = TRUE]
    OBVIOUS
  <2>3. d \in OpenCommands /\ d.err = TRUE /\ d.kind = c.kind /\ d.gen = c.gen
    BY <2>1, <2>2 DEF OpenCommands
  <2>4. Continues(c, d)
    BY <2>1, <2>3 DEF Continues, Commands, HasView
  <2>5. QED
    BY <1>1, <2>1, <2>2, <2>3, <2>4 DEF serverVars
<1>9. QED
  BY <1>2, <1>3, <1>4, <1>5, <1>6, <1>7, <1>8 DEF Works, Fails

-----------------------------------------------------------------------------
(* What Update computes.                                                   *)

\* The fields that say what the player has under way, and those that say how the
\* client follows the game.
SamePlay(x, y) ==
  /\ y.serial = x.serial /\ y.activeAction = x.activeAction /\ y.queue = x.queue
  /\ y.activeAuto = x.activeAuto /\ y.ending = x.ending /\ y.intent = x.intent

SameFollow(x, y) ==
  /\ y.gen = x.gen /\ y.streamConnecting = x.streamConnecting
  /\ y.streamActive = x.streamActive /\ y.retryScheduled = x.retryScheduled

SameScreen(x, y) == y.shown = x.shown /\ y.setup = x.setup /\ y.heard = x.heard /\ y.pane = x.pane

LEMMA HeardModel ==
  ASSUME NEW v \in Nat, NEW x \in Models(v), NEW view \in View, NEW b
  PROVE  LET y == Heard(x, view, b)
         IN  /\ y \in Models(v) /\ SamePlay(x, y) /\ SameFollow(x, y)
             /\ y.setupPending = x.setupPending
             /\ y.shown = x.shown /\ y.setup = x.setup
             /\ y.heard = (x.heard \/ view.prose)
             /\ y.pane = IF view.prose /\ ~x.heard /\ ~b /\ Complete(x) THEN "open" ELSE x.pane
<1>1. PICK p \in {"never", "open", "dismissed"} : p = IF ~b /\ Complete(x) THEN "open" ELSE x.pane
  BY DEF Models
<1>2. PICK y : y = [x EXCEPT !.heard = TRUE, !.pane = p]
  OBVIOUS
<1>3. Heard(x, view, b) = IF view.prose /\ ~x.heard THEN y ELSE x
  BY <1>1, <1>2 DEF Heard
<1>4. y \in Models(v)
  BY <1>2 DEF Models
<1>5. SamePlay(x, y) /\ SameFollow(x, y) /\ y.shown = x.shown /\ y.setup = x.setup
      /\ y.setupPending = x.setupPending
  BY <1>2 DEF SamePlay, SameFollow, Models
<1>6. y.heard = TRUE /\ y.pane = p
  BY <1>2 DEF Models
<1>7. CASE view.prose /\ ~x.heard
  BY <1>1, <1>3, <1>4, <1>5, <1>6, <1>7
<1>8. CASE ~(view.prose /\ ~x.heard)
  <2>1. x.heard = (x.heard \/ view.prose)
    <3>1. x.heard \in BOOLEAN /\ view.prose \in BOOLEAN
      BY DEF Models, View
    <3>2. QED
      BY <1>8, <3>1
  <2>2. QED
    BY <1>3, <1>8, <2>1 DEF SamePlay, SameFollow
<1>9. QED
  BY <1>7, <1>8

LEMMA AppliedModel ==
  ASSUME NEW v \in Nat, NEW x \in Models(v), NEW view \in View, view.version <= v
  PROVE  LET y == Applied(x, view)
         IN  /\ y \in Models(v) /\ SamePlay(x, y) /\ SameFollow(x, y)
             /\ y.setupPending = x.setupPending
             /\ y.shown = IF view.version = 0 THEN x.shown ELSE view.version
             /\ y.setup = IF x.setup = "complete" THEN "complete" ELSE view.setup
             /\ y.heard = (x.heard \/ view.prose)
             /\ y.pane = IF view.prose /\ ~x.heard /\ ~Complete(x) /\ view.setup = "complete"
                         THEN "open" ELSE x.pane
<1>a. x.shown \in 0..v /\ view.version \in 0..v
  <2>1. x.shown \in 0..v
    BY DEF Models
  <2>2. view.version \in Nat
    BY DEF View
  <2>3. QED
    BY <2>1, <2>2
<1>1. PICK n \in 0..v : n = IF view.version = 0 THEN x.shown ELSE view.version
  BY <1>a
<1>2. PICK p \in Setups : p = IF x.setup = "complete" THEN "complete" ELSE view.setup
  BY DEF View, Setups
<1>4. PICK z : z = [x EXCEPT !.shown = n, !.setup = p]
  OBVIOUS
<1>5. Applied(x, view) = Heard(z, view, Complete(x))
  <2>1. p = IF x.setup = "complete" /\ view.setup # "complete" THEN x.setup ELSE view.setup
    BY <1>2
  <2>2. QED
    BY <1>1, <1>4, <2>1 DEF Applied
<1>6. z \in Models(v)
  BY <1>4, n \in 0..v, p \in Setups DEF Models, Setups
<1>7. /\ SamePlay(x, z) /\ SameFollow(x, z) /\ z.shown = n /\ z.setup = p
      /\ z.heard = x.heard /\ z.pane = x.pane /\ z.setupPending = x.setupPending
  BY <1>4 DEF SamePlay, SameFollow, Models
<1>8. Complete(z) /\ ~Complete(x) <=> view.setup = "complete" /\ ~Complete(x)
  BY <1>2, <1>7 DEF Complete, View, Setups
<1>9. PICK y : y = Heard(z, view, Complete(x))
  OBVIOUS
<1>10. /\ y \in Models(v) /\ SamePlay(z, y) /\ SameFollow(z, y)
       /\ y.setupPending = z.setupPending /\ y.shown = z.shown /\ y.setup = z.setup
       /\ y.heard = (z.heard \/ view.prose)
       /\ y.pane = IF view.prose /\ ~z.heard /\ ~Complete(x) /\ Complete(z) THEN "open" ELSE z.pane
  BY <1>6, <1>9, HeardModel
<1>11. SamePlay(x, y) /\ SameFollow(x, y) /\ y.setupPending = x.setupPending
  BY <1>7, <1>10 DEF SamePlay, SameFollow
<1>12. y.pane = IF view.prose /\ ~x.heard /\ ~Complete(x) /\ view.setup = "complete"
                THEN "open" ELSE x.pane
  BY <1>7, <1>8, <1>10
<1>13. y.shown = n /\ y.setup = p /\ y.heard = (x.heard \/ view.prose)
  BY <1>7, <1>10
<1>14. QED
  BY <1>1, <1>2, <1>5, <1>9, <1>10, <1>11, <1>12, <1>13

LEMMA CancelledModel ==
  ASSUME NEW v \in Nat, NEW x \in Models(v)
  PROVE  LET y == AutoCancelled(x)
         IN  /\ y \in Models(v) /\ SameFollow(x, y) /\ SameScreen(x, y)
             /\ y.serial = x.serial /\ y.activeAction = x.activeAction /\ y.queue = x.queue
             /\ y.ending = x.ending /\ y.intent = x.intent /\ y.setupPending = x.setupPending
             /\ y.activeAuto = None <=> x.activeAuto = None
             /\ x.activeAuto # None => y.activeAuto.id = x.activeAuto.id
<1>1. CASE x.activeAuto = None
  BY <1>1 DEF AutoCancelled, SameFollow, SameScreen
<1>2. CASE x.activeAuto # None
  <2>1. x.activeAuto \in Autos
    BY <1>2 DEF Models
  <2>2. PICK a : a = [x.activeAuto EXCEPT !.cancel = TRUE]
    OBVIOUS
  <2>3. a \in Autos /\ a.id = x.activeAuto.id
    BY <2>1, <2>2 DEF Autos
  <2>4. a # None
    BY <2>3, ClientAssumption DEF Autos
  <2>5. AutoCancelled(x) = [x EXCEPT !.activeAuto = a]
    BY <1>2, <2>2 DEF AutoCancelled
  <2>6. PICK y : y = [x EXCEPT !.activeAuto = a]
    OBVIOUS
  <2>7. y \in Models(v)
    BY <2>3, <2>6 DEF Models
  <2>8. /\ SameFollow(x, y) /\ SameScreen(x, y)
        /\ y.serial = x.serial /\ y.activeAction = x.activeAction /\ y.queue = x.queue
        /\ y.ending = x.ending /\ y.intent = x.intent /\ y.setupPending = x.setupPending
        /\ y.activeAuto = a
    BY <2>6 DEF Models, SameFollow, SameScreen
  <2>9. QED
    BY <1>2, <2>3, <2>4, <2>5, <2>6, <2>7, <2>8
<1>3. QED
  BY <1>1, <1>2

\* The commands that Update starts.
LEMMA NewCommands ==
  ASSUME NEW v \in Nat, NEW x \in Models(v)
  PROVE  /\ PollCmd(x) \in PollCommands /\ PollCmd(x).view = Blank /\ PollCmd(x).gen = x.gen
         /\ OpenCmd(x) \in OpenCommands /\ OpenCmd(x).todo # <<>> /\ OpenCmd(x).gen = x.gen
         /\ ReadCmd(x) \in ReadCommands /\ ReadCmd(x).gen = x.gen
         /\ TimerCmd(x) \in TimerCommands /\ TimerCmd(x).gen = x.gen
         /\ QuitCmd \in QuitCommands
         /\ x.intent # "none" => EndCmd(x) \in EndCommands
<1>1. x.gen \in Nat /\ x.serial \in Nat /\ x.intent \in {"none", "save", "quit"}
  BY DEF Models
<1>2. PollCmd(x) \in PollCommands /\ PollCmd(x).view = Blank /\ PollCmd(x).gen = x.gen
  BY <1>1, BlankIsView DEF PollCmd, PollCommands
<1>3. OpenCmd(x) \in OpenCommands /\ OpenCmd(x).todo # <<>> /\ OpenCmd(x).gen = x.gen
  BY <1>1, Lists DEF OpenCmd, OpenCommands
<1>4. ReadCmd(x) \in ReadCommands /\ ReadCmd(x).gen = x.gen
  BY <1>1 DEF ReadCmd, ReadCommands
<1>5. TimerCmd(x) \in TimerCommands /\ TimerCmd(x).gen = x.gen
  BY <1>1 DEF TimerCmd, TimerCommands
<1>6. QuitCmd \in QuitCommands
  BY DEF QuitCmd, QuitCommands
<1>7. x.intent # "none" => EndCmd(x) \in EndCommands
  BY <1>1 DEF EndCmd, EndCommands
<1>8. QED
  BY <1>2, <1>3, <1>4, <1>5, <1>6, <1>7

LEMMA NewActionCommand ==
  ASSUME NEW v \in Nat, NEW x \in Models(v), x.activeAction # None, x.activeAction.id # 0
  PROVE  /\ ActionCmd(x) \in ActionCommands /\ ActionCmd(x).view = Blank
         /\ ActionCmd(x).id = x.activeAction.id
<1>1. x.activeAction \in Actions
  BY DEF Models
<1>2. PICK t \in ActionCalls :
        t = IF x.activeAction.streamed THEN <<"act">> ELSE <<"act", "get">>
  BY DEF ActionCalls
<1>3. ActionCmd(x) = [kind |-> "action", id |-> x.activeAction.id,
                      streamed |-> x.activeAction.streamed, todo |-> t, view |-> Blank,
                      err |-> FALSE]
  BY <1>2 DEF ActionCmd
<1>4. QED
  BY <1>1, <1>3, BlankIsView DEF Actions, ActionCommands

LEMMA NewAutoCommand ==
  ASSUME NEW v \in Nat, NEW x \in Models(v), x.activeAuto # None, x.activeAuto.id # 0,
         NEW name \in {"run", "travel", "landmark"}
  PROVE  /\ AutoCmd(x, name) \in AutoCommands /\ AutoCmd(x, name).view.version <= v
         /\ AutoCmd(x, name).id = x.activeAuto.id
<1>1. x.activeAuto \in Autos /\ x.shown \in 0..v
  BY DEF Models
<1>2. PICK t \in AutoCalls : t = IF x.activeAuto.streamed THEN <<"see">> ELSE <<>>
  BY DEF AutoCalls
<1>3. PICK w : w = IF name # "run" THEN [Blank EXCEPT !.version = x.shown] ELSE Blank
  OBVIOUS
<1>4. w \in View /\ w.version <= v
  <2>1. w = Blank \/ w = [version |-> x.shown, setup |-> "complete", prose |-> FALSE]
    BY <1>3 DEF Blank
  <2>2. x.shown \in Nat /\ x.shown <= v
    BY <1>1
  <2>3. CASE w = Blank
    BY <2>3, BlankIsView
  <2>4. CASE w = [version |-> x.shown, setup |-> "complete", prose |-> FALSE]
    BY <2>2, <2>4 DEF View
  <2>5. QED
    BY <2>1, <2>3, <2>4
<1>5. AutoCmd(x, name)
        = [kind |-> "auto", name |-> name, id |-> x.activeAuto.id,
           streamed |-> x.activeAuto.streamed, polls |-> ~x.activeAuto.streamed, over |-> FALSE,
           todo |-> t, view |-> w, steps |-> 0, err |-> FALSE]
  BY <1>2, <1>3 DEF AutoCmd
<1>6. /\ (~x.activeAuto.streamed) \in BOOLEAN /\ x.activeAuto.streamed \in BOOLEAN
      /\ x.activeAuto.id \in Nat \ {0}
  <2>1. x.activeAuto.streamed \in BOOLEAN /\ x.activeAuto.id \in Nat
    BY <1>1 DEF Autos
  <2>2. (~x.activeAuto.streamed) \in BOOLEAN
    OBVIOUS
  <2>3. QED
    BY <2>1, <2>2
<1>7. QED
  BY <1>2, <1>4, <1>5, <1>6 DEF AutoCommands

-----------------------------------------------------------------------------
(* The inductive invariants.                                               *)

\* The types; and every state that a view or an event tells of has been.
Types ==
  /\ game \in Games /\ acted \in Seq(Nat) /\ link \in {"none", "open", "closed"}
  /\ wire \in Seq(Events) /\ m \in Models(game.version) /\ left \in BOOLEAN
  /\ cmds \subseteq Commands /\ ViewsPast /\ WirePast
  /\ m.queue \in Seq(Nat \ {0})

Follow(C) == {c \in C : c.kind \in {"open", "read", "timer"}}

\* The command that a client with the model x has for following the game.
FollowedBy(x, c) ==
  /\ c.gen = x.gen
  /\ \/ c.kind = "open" /\ x.streamConnecting /\ ~x.streamActive /\ ~x.retryScheduled
     \/ c.kind = "read" /\ ~x.streamConnecting /\ x.streamActive /\ ~x.retryScheduled
     \/ c.kind = "timer" /\ ~x.streamConnecting /\ ~x.streamActive /\ x.retryScheduled

NotFollowed(x) == ~x.streamConnecting /\ ~x.streamActive /\ ~x.retryScheduled /\ x.ending

\* Exactly one command follows the game, the one the flags say, or the end has been
\* asked for and none does.  A stream that has been opened has its first event.
FInv ==
  /\ left => cmds = {}
  /\ ~left => \/ \E c \in cmds : Follow(cmds) = {c} /\ FollowedBy(m, c)
              \/ Follow(cmds) = {} /\ NotFollowed(m)
  /\ \A c \in cmds : c.kind = "open" /\ c.todo = <<>> /\ ~c.err => wire # <<>>

Work(C) == {c \in C : c.kind \in {"action", "auto", "end"}}

\* What is under way is the one thing the model says it is; a save or quit is under
\* way only once it has been asked for and nothing else is.
WInv ==
  /\ \A c, d \in Work(cmds) : c = d
  /\ \A c \in Work(cmds) :
       /\ c.kind = "action" => m.activeAction # None /\ m.activeAction.id = c.id
       /\ c.kind = "auto" => m.activeAuto # None /\ m.activeAuto.id = c.id
       /\ c.kind = "end" => /\ m.activeAction = None /\ m.activeAuto = None
                            /\ m.ending /\ m.intent # "none"
  /\ m.activeAction = None \/ m.activeAuto = None
  /\ ~m.ending => m.intent = "none"
  /\ Len(m.queue) <= QueueLimit

\* Keys wait only behind an action, and none once the end is asked for; they wait in
\* the order of their numbers, after the one under way and those carried out.
OInv ==
  /\ m.intent # "none" => m.queue = <<>>
  /\ ~m.ending /\ m.activeAction = None => m.queue = <<>>
  /\ m.activeAction # None => m.activeAction.id \in 1..m.serial
  /\ \A i \in 1..Len(m.queue) :
       /\ m.queue[i] <= m.serial
       /\ m.activeAction # None => m.activeAction.id < m.queue[i]
       /\ \A j \in 1..Len(m.queue) : i < j => m.queue[i] < m.queue[j]
       /\ \A k \in 1..Len(acted) : acted[k] < m.queue[i]
  /\ \A k \in 1..Len(acted) :
       /\ acted[k] <= m.serial
       /\ m.activeAction # None => acted[k] <= m.activeAction.id
       /\ \A c \in Work(cmds) : c.kind = "action" /\ c.todo # <<>> /\ Head(c.todo) = "act"
                                  => acted[k] < c.id

\* The stream tells of states in their order, the last of them the newest; while it is
\* followed, none is older than the one shown.
DInv ==
  /\ \A i, j \in 1..Len(wire) : i < j => wire[i].view.version <= wire[j].view.version
  /\ m.streamActive => \A i \in 1..Len(wire) : m.shown <= wire[i].view.version
  /\ link = "open" =>
       IF wire = <<>> THEN m.streamActive => m.shown = game.version
                      ELSE wire[Len(wire)].view.version = game.version

-----------------------------------------------------------------------------
(* The stream.                                                             *)

\* All that a step does to the game, the stream and the state shown: a call, the opening
\* of the stream, an event taken from it, or its loss.
Called    == /\ Announced /\ link' = link
             /\ m'.streamActive => m.streamActive /\ m'.shown = m.shown
Connects  == /\ game' = game /\ link' = "open" /\ wire' = <<EventOf(game, "initial")>>
             /\ ~m'.streamActive
Takes     == /\ wire # <<>> /\ game' = game /\ link' = link /\ wire' = Tail(wire)
             /\ m'.streamActive => m'.shown = Head(wire).view.version
Loses     == /\ game' \in Games /\ game'.version >= game.version
             /\ link' \in {"none", "closed"}
             /\ \E n \in 0..Len(wire) : wire' = SubSeq(wire, 1, n)
             /\ m'.streamActive => m.streamActive /\ m'.shown = m.shown

StreamStep == Called \/ Connects \/ Takes \/ Loses

LEMMA StreamKept ==
  ASSUME Types, StreamStep
  PROVE  /\ game' \in Games /\ game'.version >= game.version
         /\ link' \in {"none", "open", "closed"} /\ wire' \in Seq(Events) /\ WirePast'
         /\ DInv => DInv' /\ (m.streamActive /\ m'.streamActive => m'.shown >= m.shown)
<1>a. /\ game \in Games /\ link \in {"none", "open", "closed"} /\ wire \in Seq(Events) /\ WirePast
      /\ game.version \in Nat /\ m.shown \in Nat /\ m.shown <= game.version
  <2>1. /\ game \in Games /\ link \in {"none", "open", "closed"} /\ wire \in Seq(Events) /\ WirePast
        /\ m \in Models(game.version)
    BY DEF Types
  <2>2. game.version \in Nat
    BY <2>1 DEF Games
  <2>3. m.shown \in 0..game.version
    BY <2>1 DEF Models
  <2>4. QED
    BY <2>1, <2>2, <2>3
<1>b. ASSUME game' \in Games
      PROVE  game'.version \in Nat \ {0}
  BY <1>b DEF Games
<1>1. CASE Called
  <2>1. /\ game' \in Games /\ game'.version \in {game.version, game.version + 1}
        /\ link' = link
    BY <1>1 DEF Called, Announced
  <2>2. game'.version \in Nat \ {0} /\ game'.version >= game.version
    BY <1>a, <1>b, <2>1
  <2>3. CASE wire' = wire /\ (game' = game \/ link # "open")
    <3>1. WirePast'
      BY <1>a, <2>2, <2>3 DEF WirePast
    <3>2. ASSUME DInv PROVE DInv'
      BY <1>1, <2>1, <2>3, <3>2 DEF DInv, Called
    <3>3. QED
      BY <1>1, <1>a, <2>1, <2>2, <2>3, <3>1, <3>2 DEF Called
  <2>4. CASE link = "open" /\ \E source \in {"action", "setup", "save", "quit"} :
                                wire' = Append(wire, EventOf(game', source))
    <3>1. PICK e \in Events : e.view.version = game'.version /\ wire' = Append(wire, e)
      BY <2>1, <2>4, EventIsEvent, ViewIsView
    <3>2. /\ wire' \in Seq(Events) /\ Len(wire') = Len(wire) + 1 /\ wire'[Len(wire) + 1] = e
          /\ \A i \in 1..Len(wire) : wire'[i] = wire[i]
      BY <1>a, <3>1
    <3>3. WirePast'
      <4>1. \A i \in 1..Len(wire') : i \in 1..Len(wire) \/ i = Len(wire) + 1
        BY <3>2
      <4>2. QED
        BY <1>a, <2>2, <3>1, <3>2, <4>1 DEF WirePast
    <3>4. ASSUME DInv PROVE DInv'
      <4>1. /\ Len(wire) \in Nat /\ wire' # <<>>
            /\ \A i \in 1..Len(wire) : wire[i].view.version \in Nat /\ wire[i].view.version <= game.version
        BY <1>a, <3>2 DEF WirePast
      <4>2. \A i \in 1..Len(wire') : i \in 1..Len(wire) \/ i = Len(wire) + 1
        BY <3>2
      <4>3. \A i \in 1..Len(wire) : wire'[i].view.version <= game'.version
        BY <1>a, <2>2, <3>2, <4>1
      <4>4. \A i, j \in 1..Len(wire') : i < j => wire'[i].view.version <= wire'[j].view.version
        <5>1. SUFFICES ASSUME NEW i \in 1..Len(wire'), NEW j \in 1..Len(wire'), i < j
                       PROVE  wire'[i].view.version <= wire'[j].view.version
          OBVIOUS
        <5>2. i \in 1..Len(wire)
          BY <3>2, <4>1, <5>1
        <5>3. CASE j = Len(wire) + 1
          BY <3>1, <3>2, <4>3, <5>2, <5>3
        <5>4. CASE j \in 1..Len(wire)
          BY <3>2, <3>4, <5>1, <5>2, <5>4 DEF DInv
        <5>5. QED
          BY <4>2, <5>3, <5>4
      <4>5. m'.streamActive => \A i \in 1..Len(wire') : m'.shown <= wire'[i].view.version
        <5>1. SUFFICES ASSUME m'.streamActive, NEW i \in 1..Len(wire')
                       PROVE  m'.shown <= wire'[i].view.version
          OBVIOUS
        <5>2. m'.shown = m.shown /\ m.streamActive /\ m.shown <= game.version
          BY <1>1, <1>a, <5>1 DEF Called
        <5>3. CASE i = Len(wire) + 1
          BY <1>a, <2>2, <3>1, <3>2, <5>2, <5>3
        <5>4. CASE i \in 1..Len(wire)
          BY <3>2, <3>4, <5>2, <5>4 DEF DInv
        <5>5. QED
          BY <4>2, <5>3, <5>4
      <4>6. link' = "open" => IF wire' = <<>> THEN m'.streamActive => m'.shown = game'.version
                              ELSE wire'[Len(wire')].view.version = game'.version
        BY <3>1, <3>2, <4>1
      <4>7. QED
        BY <4>4, <4>5, <4>6 DEF DInv
    <3>5. QED
      BY <1>1, <1>a, <2>1, <2>2, <3>2, <3>3, <3>4 DEF Called
  <2>5. QED
    BY <1>1, <2>3, <2>4 DEF Called, Announced
<1>2. CASE Connects
  <2>1. PICK e \in Events : e.view.version = game.version /\ wire' = <<e>>
    BY <1>2, <1>a, EventIsEvent, ViewIsView DEF Connects
  <2>2. /\ wire' \in Seq(Events) /\ Len(wire') = 1 /\ wire'[1] = e /\ wire' # <<>>
        /\ \A i \in 1..Len(wire') : i = 1
    BY <2>1
  <2>3. game' = game /\ link' = "open" /\ ~m'.streamActive /\ game.version \in Nat \ {0}
    BY <1>2, <1>a DEF Connects, Games
  <2>4. WirePast'
    BY <2>1, <2>2, <2>3 DEF WirePast
  <2>5. DInv'
    BY <2>1, <2>2, <2>3 DEF DInv
  <2>6. QED
    BY <1>a, <2>2, <2>3, <2>4, <2>5
<1>3. CASE Takes
  <2>1. /\ wire # <<>> /\ game' = game /\ link' = link /\ wire' = Tail(wire)
        /\ m'.streamActive => m'.shown = Head(wire).view.version
    BY <1>3 DEF Takes
  <2>2. /\ wire' \in Seq(Events) /\ Len(wire') = Len(wire) - 1 /\ Len(wire) \in Nat \ {0}
        /\ \A i \in 1..Len(wire') : i + 1 \in 1..Len(wire) /\ wire'[i] = wire[i + 1]
        /\ Head(wire) = wire[1]
    BY <1>a, <2>1
  <2>3. WirePast'
    BY <1>a, <2>1, <2>2 DEF WirePast
  <2>4. \A i \in 1..Len(wire) : wire[i].view.version \in Nat
    BY <1>a DEF WirePast
  <2>5. ASSUME DInv PROVE DInv' /\ (m.streamActive /\ m'.streamActive => m'.shown >= m.shown)
    <3>1. ASSUME NEW i \in 1..Len(wire'), NEW j \in 1..Len(wire'), i < j
          PROVE  wire'[i].view.version <= wire'[j].view.version
      <4>1. i + 1 \in 1..Len(wire) /\ j + 1 \in 1..Len(wire) /\ i + 1 < j + 1
        BY <2>2, <3>1
      <4>2. wire[i + 1].view.version <= wire[j + 1].view.version
        BY <2>5, <4>1 DEF DInv
      <4>3. QED
        BY <2>2, <4>2
    <3>2. m'.streamActive => \A i \in 1..Len(wire') : m'.shown <= wire'[i].view.version
      BY <2>1, <2>2, <2>5 DEF DInv
    <3>3. link' = "open" => IF wire' = <<>> THEN m'.streamActive => m'.shown = game'.version
                            ELSE wire'[Len(wire')].view.version = game'.version
      <4>1. SUFFICES ASSUME link' = "open"
                     PROVE  IF wire' = <<>> THEN m'.streamActive => m'.shown = game'.version
                            ELSE wire'[Len(wire')].view.version = game'.version
        OBVIOUS
      <4>2. wire[Len(wire)].view.version = game.version
        BY <2>1, <2>5, <4>1 DEF DInv
      <4>3. CASE wire' = <<>>
        <5>1. Len(wire) = 1
          BY <2>2, <4>3
        <5>2. QED
          BY <2>1, <2>2, <4>2, <4>3, <5>1
      <4>4. CASE wire' # <<>>
        <5>1. Len(wire') \in 1..Len(wire')
          BY <2>2, <4>4
        <5>2. QED
          BY <2>1, <2>2, <4>2, <4>4, <5>1
      <4>5. QED
        BY <4>3, <4>4
    <3>4. m.streamActive /\ m'.streamActive => m'.shown >= m.shown
      BY <1>a, <2>1, <2>2, <2>4, <2>5 DEF DInv
    <3>5. QED
      BY <3>1, <3>2, <3>3, <3>4 DEF DInv
  <2>6. QED
    BY <1>a, <2>1, <2>2, <2>3, <2>5
<1>4. CASE Loses
  <2>1. PICK n \in 0..Len(wire) : wire' = SubSeq(wire, 1, n)
    BY <1>4 DEF Loses
  <2>2. /\ wire' \in Seq(Events) /\ Len(wire') = n
        /\ \A i \in 1..Len(wire') : i \in 1..Len(wire) /\ wire'[i] = wire[i]
    <3>1. Len(wire) \in Nat /\ n \in Nat /\ n <= Len(wire)
      BY <1>a
    <3>2. QED
      BY <1>a, <2>1, <3>1
  <2>3. /\ game' \in Games /\ game'.version >= game.version /\ link' \in {"none", "closed"}
        /\ m'.streamActive => m.streamActive /\ m'.shown = m.shown
    BY <1>4 DEF Loses
  <2>4. WirePast'
    <3>1. game'.version \in Nat
      BY <1>b, <2>3
    <3>2. QED
      BY <1>a, <2>2, <2>3, <3>1 DEF WirePast
  <2>5. ASSUME DInv PROVE DInv'
    BY <2>2, <2>3, <2>5 DEF DInv
  <2>6. QED
    BY <1>a, <2>2, <2>3, <2>4, <2>5
<1>5. QED
  BY <1>1, <1>2, <1>3, <1>4 DEF StreamStep

-----------------------------------------------------------------------------
(* What the player has under way.                                          *)

SameAuto(x, y) == /\ y.activeAuto = None <=> x.activeAuto = None
                  /\ x.activeAuto # None => y.activeAuto.id = x.activeAuto.id
SameEnd(x, y)  == y.ending = x.ending /\ y.intent = x.intent

\* All that a step does to it: nothing, or a key that means something else;
Idles ==
  /\ acted' = acted /\ Work(cmds') \subseteq Work(cmds)
  /\ m'.serial \in {m.serial, m.serial + 1}
  /\ m'.activeAction = m.activeAction /\ m'.queue = m.queue /\ SameAuto(m, m') /\ SameEnd(m, m')

\* a command at work;
Carries(c, d) ==
  /\ SamePlay(m, m') /\ c \in Work(cmds) /\ Continues(c, d)
  /\ Work(cmds') \subseteq (Work(cmds) \ {c}) \union {d}
  /\ \/ acted' = acted
     \/ /\ c.kind = "action" /\ c.todo # <<>> /\ Head(c.todo) = "act"
        /\ acted' = Append(acted, c.id)

\* a key that means an action, begun or made to wait;
Begins(d) ==
  /\ m.setup = "complete" /\ ~m.ending /\ m.activeAction = None /\ m.activeAuto = None
  /\ acted' = acted /\ Work(cmds') \subseteq Work(cmds) \union {d}
  /\ d.kind = "action" /\ d.id = m'.serial
  /\ m'.serial = m.serial + 1
  /\ m'.activeAction # None /\ m'.activeAction.id = m'.serial
  /\ m'.queue = m.queue /\ m'.activeAuto = m.activeAuto /\ SameEnd(m, m')

Waits ==
  /\ ~m.ending /\ m.activeAction # None /\ Len(m.queue) < QueueLimit
  /\ acted' = acted /\ Work(cmds') = Work(cmds)
  /\ m'.serial = m.serial + 1
  /\ m'.queue = Append(m.queue, m'.serial)
  /\ m'.activeAction = m.activeAction /\ m'.activeAuto = m.activeAuto /\ SameEnd(m, m')

\* automatic movement that begins;
Runs(d) ==
  /\ m.setup = "complete" /\ ~m.ending /\ m.activeAction = None /\ m.activeAuto = None
  /\ acted' = acted /\ Work(cmds') \subseteq Work(cmds) \union {d}
  /\ d.kind = "auto" /\ d.id = m'.serial
  /\ m'.serial = m.serial + 1
  /\ m'.activeAuto # None /\ m'.activeAuto.id = m'.serial
  /\ m'.queue = m.queue /\ m'.activeAction = None /\ SameEnd(m, m')

\* the end asked for, or come;
Closes ==
  /\ m.setup = "complete" /\ ~m.ending /\ m'.ending /\ m'.intent # "none" /\ m'.queue = <<>>
  /\ acted' = acted /\ Work(cmds') \subseteq Work(cmds) \union TerminalCmds(m')
  /\ m'.serial = m.serial /\ m'.activeAction = m.activeAction /\ SameAuto(m, m')

Ends ==
  /\ wire # <<>> /\ Head(wire).over # "no"
  /\ m'.ending /\ m'.intent = m.intent /\ m'.queue = m.queue
  /\ acted' = acted /\ Work(cmds') \subseteq Work(cmds)
  /\ m'.serial = m.serial /\ m'.activeAction = m.activeAction /\ SameAuto(m, m')

\* the answer of an action, of automatic movement, and of a save or quit that failed.
Finishes(c) ==
  /\ c \in Work(cmds) /\ c.kind = "action" /\ m.activeAction # None /\ m.activeAction.id = c.id
  /\ acted' = acted /\ m'.serial = m.serial /\ m'.activeAuto = m.activeAuto /\ SameEnd(m, m')
  /\ \/ /\ m.ending /\ m'.activeAction = None /\ m'.queue = m.queue
        /\ Work(cmds') \subseteq (Work(cmds) \ {c}) \union TerminalCmds(m')
     \/ /\ ~m.ending /\ m.queue # <<>> /\ m'.queue = Tail(m.queue)
        /\ m'.activeAction # None /\ m'.activeAction.id = Head(m.queue)
        /\ \E d : /\ d.kind = "action" /\ d.id = Head(m.queue)
                  /\ Work(cmds') \subseteq (Work(cmds) \ {c}) \union {d}
     \/ /\ ~m.ending /\ m.queue = <<>> /\ m'.queue = <<>> /\ m'.activeAction = None
        /\ Work(cmds') \subseteq Work(cmds) \ {c}

Arrives(c) ==
  /\ c \in Work(cmds) /\ c.kind = "auto" /\ m.activeAuto # None /\ m.activeAuto.id = c.id
  /\ acted' = acted /\ m'.serial = m.serial /\ m'.activeAuto = None
  /\ m'.activeAction = m.activeAction /\ m'.queue = m.queue /\ SameEnd(m, m')
  /\ Work(cmds') \subseteq (Work(cmds) \ {c}) \union IF m.ending THEN TerminalCmds(m') ELSE {}

Reopens(c) ==
  /\ c \in Work(cmds) /\ c.kind = "end"
  /\ acted' = acted /\ m'.serial = m.serial /\ m'.activeAuto = m.activeAuto
  /\ m'.activeAction = m.activeAction /\ m'.queue = m.queue
  /\ ~m'.ending /\ m'.intent = "none"
  /\ Work(cmds') \subseteq Work(cmds) \ {c}

PlayStep ==
  \/ Idles \/ Waits \/ Closes \/ Ends
  \/ \E d : Begins(d) \/ Runs(d)
  \/ \E c : Finishes(c) \/ Arrives(c) \/ Reopens(c)
  \/ \E c, d : Carries(c, d)

-----------------------------------------------------------------------------
(* Update's messages, one by one.                                          *)

LEMMA ReplacedParts ==
  ASSUME NEW c, NEW new, Replace(c, new)
  PROVE  /\ Work(cmds') = (Work(cmds) \ {c}) \union Work(new)
         /\ Follow(cmds') = (Follow(cmds) \ {c}) \union Follow(new)
         /\ c.kind \notin {"open", "read", "timer"} => Follow(cmds') = Follow(cmds) \union Follow(new)
BY DEF Replace, Work, Follow

LEMMA ViewOfCommand ==
  ASSUME NEW c \in Commands, HasView(c)
  PROVE  c.view \in View /\ c.view.version \in Nat
<1>1. c.view \in View
  BY CommandOfKind DEF HasView, PollCommands, ActionCommands, SetupCommands, AutoCommands
<1>2. QED
  BY <1>1 DEF View

Known(C) == \A d \in C : HasView(d) => d.view.version <= game.version

LEMMA CommandsKept ==
  ASSUME Types, NEW new \in SUBSET Commands, cmds' \subseteq cmds \union new,
         game' \in Games, game'.version >= game.version,
         Known(new) \/ Known(new)'
  PROVE  cmds' \subseteq Commands /\ ViewsPast'
<1>1. game.version \in Nat /\ game'.version \in Nat
  BY DEF Types, Games
<1>2. cmds' \subseteq Commands
  BY DEF Types
<1>3. ASSUME NEW d \in cmds', HasView(d) PROVE d.view.version <= game'.version
  <2>1. d.view.version \in Nat
    BY <1>2, <1>3, ViewOfCommand
  <2>2. d.view.version <= game.version \/ d.view.version <= game'.version
    BY <1>3 DEF Types, ViewsPast, Known
  <2>3. QED
    BY <1>1, <2>1, <2>2
<1>4. QED
  BY <1>2, <1>3 DEF ViewsPast

LEMMA StayTypes ==
  ASSUME Types, NEW c \in cmds, NEW x \in Models(game.version), NEW new \in SUBSET Commands,
         Stay, Handles(c, x, new), x.queue \in Seq(Nat \ {0}), Known(new),
         x.streamActive => m.streamActive /\ x.shown = m.shown
  PROVE  Types' /\ StreamStep
<1>1. /\ UNCHANGED <<game, acted, link, wire, left>> /\ m' = x /\ cmds' = (cmds \ {c}) \union new
  BY DEF Stay, Handles, Replace, serverVars
<1>2. game' \in Games /\ game'.version >= game.version
  BY <1>1 DEF Types, Games
<1>3. cmds' \subseteq Commands /\ ViewsPast'
  BY <1>1, <1>2, CommandsKept
<1>4. StreamStep
  BY <1>1, <1>2 DEF StreamStep, Called, Announced, Games
<1>5. WirePast' /\ wire' \in Seq(Events)
  BY <1>4, StreamKept
<1>6. QED
  BY <1>1, <1>2, <1>3, <1>4, <1>5 DEF Types

LEMMA FollowKept ==
  ASSUME FInv, Follow(cmds') = Follow(cmds), SameFollow(m, m'), m.ending => m'.ending,
         left' = left, left => cmds' = {}, wire # <<>> => wire' # <<>>
  PROVE  FInv'
<1>1. ASSUME ~left
      PROVE  \/ \E c \in cmds' : Follow(cmds') = {c} /\ FollowedBy(m', c)
             \/ Follow(cmds') = {} /\ NotFollowed(m')
  <2>1. CASE \E c \in cmds : Follow(cmds) = {c} /\ FollowedBy(m, c)
    <3>1. PICK c \in cmds : Follow(cmds) = {c} /\ FollowedBy(m, c)
      BY <2>1
    <3>2. c \in cmds'
      BY <3>1 DEF Follow
    <3>3. FollowedBy(m', c)
      BY <3>1 DEF FollowedBy, SameFollow
    <3>4. QED
      BY <3>1, <3>2, <3>3
  <2>2. CASE Follow(cmds) = {} /\ NotFollowed(m)
    BY <2>2 DEF NotFollowed, SameFollow
  <2>3. QED
    BY <1>1, <2>1, <2>2 DEF FInv
<1>2. \A c \in cmds' : c.kind = "open" => c \in cmds
  BY DEF Follow
<1>3. QED
  BY <1>1, <1>2 DEF FInv

\* The messages that have nothing to do with the stream.
LEMMA StayFollow ==
  ASSUME FInv, NEW c \in cmds, NEW x, NEW new, Stay, Handles(c, x, new),
         c.kind \notin {"open", "read", "timer"}, Follow(new) = {},
         SameFollow(m, x), m.ending => x.ending
  PROVE  FInv'
<1>1. m' = x /\ left' = left /\ wire' = wire /\ ~left
  BY DEF Stay, Handles, serverVars, FInv
<1>2. Follow(cmds') = Follow(cmds)
  BY ReplacedParts DEF Handles
<1>3. QED
  BY <1>1, <1>2, FollowKept

\* A step keeps the first two invariants, and does what was said to the rest.
Keeps == Types' /\ FInv' /\ StreamStep /\ PlayStep

LEMMA StayIdles ==
  ASSUME Types, FInv, NEW c \in cmds, NEW x \in Models(game.version), NEW new \in SUBSET Commands,
         Stay, Handles(c, x, new), c.kind \notin {"open", "read", "timer"},
         Follow(new) = {}, Work(new) = {}, Known(new),
         SamePlay(m, x), SameFollow(m, x), x.streamActive => x.shown = m.shown
  PROVE  Keeps
<1>1. x.queue \in Seq(Nat \ {0}) /\ x.ending = m.ending /\ x.streamActive = m.streamActive
  BY DEF SamePlay, SameFollow, Types
<1>2. Types' /\ StreamStep
  BY <1>1, StayTypes
<1>3. FInv'
  BY <1>1, StayFollow
<1>4. Idles
  <2>1. Work(cmds') \subseteq Work(cmds) /\ m' = x /\ acted' = acted
    BY ReplacedParts DEF Handles, Stay, serverVars
  <2>2. x.serial \in {m.serial, m.serial + 1}
    BY DEF SamePlay
  <2>3. SameAuto(m, x) /\ SameEnd(m, x)
    BY DEF SamePlay, SameAuto, SameEnd
  <2>4. QED
    BY <2>1, <2>2, <2>3 DEF Idles, SamePlay
<1>5. QED
  BY <1>2, <1>3, <1>4 DEF Keeps, PlayStep

LEMMA ModelNow ==
  ASSUME Types
  PROVE  game.version \in Nat /\ m \in Models(game.version) /\ SamePlay(m, m) /\ SameFollow(m, m)
BY DEF Types, Games, SamePlay, SameFollow

\* A poll is known by what it is, not by its place: none follows, none is the player's.
LEMMA PollParts ==
  ASSUME NEW x
  PROVE  Follow({PollCmd(x)}) = {} /\ Work({PollCmd(x)}) = {} /\ Follow({}) = {} /\ Work({}) = {}
BY DEF Follow, Work, PollCmd

LEMMA PollIsKnown ==
  ASSUME Types, NEW x \in Models(game.version)
  PROVE  {PollCmd(x)} \in SUBSET Commands /\ Known({PollCmd(x)})
         /\ {} \in SUBSET Commands /\ Known({})
<1>1. game.version \in Nat
  BY ModelNow
<1>2. PollCmd(x) \in PollCommands /\ PollCmd(x).view = Blank
  BY <1>1, NewCommands
<1>3. PollCmd(x) \in Commands
  BY <1>2 DEF Commands
<1>4. PollCmd(x).view.version <= game.version
  BY <1>1, <1>2, BlankIsView
<1>5. QED
  BY <1>3, <1>4 DEF Known

LEMMA PollDoneStep ==
  ASSUME Types, FInv, NEW c \in cmds, PollDone(c)
  PROVE  Keeps
<1>1. /\ c.kind = "poll" /\ Stay
      /\ \/ Handles(c, m, {})
         \/ Handles(c, Applied(m, c.view), {}) /\ ~m.streamActive
  BY DEF PollDone
<1>2. game.version \in Nat /\ m \in Models(game.version) /\ SamePlay(m, m) /\ SameFollow(m, m)
  BY ModelNow
<1>3. Follow({}) = {} /\ Work({}) = {} /\ Known({}) /\ {} \in SUBSET Commands
  BY DEF Follow, Work, Known
<1>4. CASE Handles(c, m, {})
  BY <1>1, <1>2, <1>3, <1>4, StayIdles
<1>5. CASE Handles(c, Applied(m, c.view), {}) /\ ~m.streamActive
  <2>1. c.view \in View /\ c.view.version <= game.version
    BY <1>1, ViewOfCommand DEF Types, ViewsPast, HasView
  <2>2. PICK y : y = Applied(m, c.view)
    OBVIOUS
  <2>3. y \in Models(game.version) /\ SamePlay(m, y) /\ SameFollow(m, y)
    BY <1>2, <2>1, <2>2, AppliedModel
  <2>4. ~y.streamActive
    BY <1>5, <2>3 DEF SameFollow
  <2>5. QED
    BY <1>1, <1>3, <1>5, <2>2, <2>3, <2>4, StayIdles
<1>6. QED
  BY <1>1, <1>4, <1>5

LEMMA SetupDoneStep ==
  ASSUME Types, FInv, NEW c \in cmds, SetupDone(c)
  PROVE  Keeps
<1>1. PICK x : x = [m EXCEPT !.setupPending = FALSE]
  OBVIOUS
<1>2. PICK z : z = [x EXCEPT !.setup = c.view.setup]
  OBVIOUS
<1>3. /\ c.kind = "setup" /\ Stay
      /\ \/ Handles(c, m, {}) \/ Handles(c, x, {}) \/ Handles(c, x, {PollCmd(x)})
         \/ Handles(c, Heard(z, c.view, Complete(m)), {})
         \/ Handles(c, Applied(x, c.view), {}) /\ ~m.streamActive
  BY <1>1, <1>2 DEF SetupDone
<1>4. game.version \in Nat /\ m \in Models(game.version) /\ SamePlay(m, m) /\ SameFollow(m, m)
  BY ModelNow
<1>5. x \in Models(game.version) /\ SamePlay(m, x) /\ SameFollow(m, x) /\ x.shown = m.shown
  BY <1>1, <1>4 DEF Models, SamePlay, SameFollow
<1>6. c.view \in View /\ c.view.version <= game.version
  BY <1>3, ViewOfCommand DEF Types, ViewsPast, HasView
<1>7. z \in Models(game.version) /\ SamePlay(m, z) /\ SameFollow(m, z) /\ z.shown = m.shown
  <2>1. c.view.setup \in {"", "selectRole", "confirm", "complete"}
    BY <1>6 DEF View
  <2>2. z \in Models(game.version)
    BY <1>2, <1>5, <2>1 DEF Models
  <2>3. SamePlay(m, z) /\ SameFollow(m, z) /\ z.shown = m.shown
    BY <1>2, <1>5 DEF Models, SamePlay, SameFollow
  <2>4. QED
    BY <2>2, <2>3
<1>8. /\ Follow({}) = {} /\ Work({}) = {} /\ Known({}) /\ {} \in SUBSET Commands
      /\ Follow({PollCmd(x)}) = {} /\ Work({PollCmd(x)}) = {} /\ Known({PollCmd(x)})
      /\ {PollCmd(x)} \in SUBSET Commands
  BY <1>5, PollParts, PollIsKnown
<1>9. CASE Handles(c, m, {})
  BY <1>3, <1>4, <1>8, <1>9, StayIdles
<1>10. CASE Handles(c, x, {})
  BY <1>3, <1>5, <1>8, <1>10, StayIdles
<1>11. CASE Handles(c, x, {PollCmd(x)})
  BY <1>3, <1>5, <1>8, <1>11, StayIdles
<1>12. CASE Handles(c, Heard(z, c.view, Complete(m)), {})
  <2>1. PICK y : y = Heard(z, c.view, Complete(m))
    OBVIOUS
  <2>2. y \in Models(game.version) /\ SamePlay(z, y) /\ SameFollow(z, y) /\ y.shown = z.shown
    BY <1>4, <1>6, <1>7, <2>1, HeardModel
  <2>3. SamePlay(m, y) /\ SameFollow(m, y) /\ y.shown = m.shown
    BY <1>7, <2>2 DEF SamePlay, SameFollow
  <2>4. QED
    BY <1>3, <1>8, <1>12, <2>1, <2>2, <2>3, StayIdles
<1>13. CASE Handles(c, Applied(x, c.view), {}) /\ ~m.streamActive
  <2>1. PICK y : y = Applied(x, c.view)
    OBVIOUS
  <2>2. y \in Models(game.version) /\ SamePlay(x, y) /\ SameFollow(x, y)
    BY <1>4, <1>5, <1>6, <2>1, AppliedModel
  <2>3. SamePlay(m, y) /\ SameFollow(m, y) /\ ~y.streamActive
    BY <1>5, <1>13, <2>2 DEF SamePlay, SameFollow
  <2>4. QED
    BY <1>3, <1>8, <1>13, <2>1, <2>2, <2>3, StayIdles
<1>14. QED
  BY <1>3, <1>9, <1>10, <1>11, <1>12, <1>13

\* The models of an answered action and of movement that has ended.
LEMMA AnsweredModel ==
  ASSUME NEW v \in Nat, NEW x \in Models(v)
  PROVE  LET y == [x EXCEPT !.activeAction = None]
             z == [x EXCEPT !.activeAuto = None]
         IN  /\ y \in Models(v) /\ SameFollow(x, y) /\ SameScreen(x, y) /\ SameEnd(x, y)
             /\ y.serial = x.serial /\ y.queue = x.queue /\ y.activeAuto = x.activeAuto
             /\ y.activeAction = None
             /\ z \in Models(v) /\ SameFollow(x, z) /\ SameScreen(x, z) /\ SameEnd(x, z)
             /\ z.serial = x.serial /\ z.queue = x.queue /\ z.activeAction = x.activeAction
             /\ z.activeAuto = None
BY DEF Models, SameFollow, SameScreen, SameEnd

LEMMA TerminalParts ==
  ASSUME NEW v \in Nat, NEW x \in Models(v)
  PROVE  /\ TerminalCmds(x) \in SUBSET Commands /\ Follow(TerminalCmds(x)) = {}
         /\ \A d \in TerminalCmds(x) : d.kind = "end" /\ ~HasView(d)
<1>1. CASE x.intent # "none"
  <2>1. EndCmd(x) \in EndCommands
    BY <1>1, NewCommands
  <2>2. EndCmd(x) \in Commands /\ EndCmd(x).kind = "end" /\ ~HasView(EndCmd(x))
    BY <2>1 DEF Commands, EndCommands, HasView
  <2>3. TerminalCmds(x) \subseteq {EndCmd(x)}
    BY DEF TerminalCmds
  <2>4. QED
    BY <2>2, <2>3 DEF Follow
<1>2. CASE x.intent = "none"
  BY <1>2 DEF TerminalCmds, Follow
<1>3. QED
  BY <1>1, <1>2

\* A number that has waited is one.
LEMMA HeadOfQueue ==
  ASSUME NEW q \in Seq(Nat \ {0}), q # <<>>
  PROVE  Head(q) \in Nat \ {0} /\ Tail(q) \in Seq(Nat \ {0}) /\ Tail(q) \in Seq(Nat)
<1>1. Head(q) \in Nat \ {0} /\ Tail(q) \in Seq(Nat \ {0}) /\ q \in Seq(Nat)
  OBVIOUS
<1>2. QED
  BY <1>1

LEMMA ActionDoneStep ==
  ASSUME Types, FInv, NEW c \in cmds, ActionDone(c)
  PROVE  Keeps
<1>a. game.version \in Nat /\ m \in Models(game.version) /\ SamePlay(m, m) /\ SameFollow(m, m)
  BY ModelNow
<1>b. c.kind = "action" /\ c \in Work(cmds) /\ Stay
  BY DEF ActionDone, Work
<1>c. /\ Follow({}) = {} /\ Work({}) = {} /\ Known({}) /\ {} \in SUBSET Commands
      /\ m.queue \in Seq(Nat \ {0})
  BY DEF Follow, Work, Known, Types
<1>1. CASE m.activeAction = None \/ m.activeAction.id # c.id
  <2>1. Handles(c, m, {})
    BY <1>1 DEF ActionDone
  <2>2. QED
    BY <1>a, <1>b, <1>c, <2>1, StayIdles
<1>2. CASE ~(m.activeAction = None \/ m.activeAction.id # c.id)
  <2>1. PICK x : x = [m EXCEPT !.activeAction = None]
    OBVIOUS
  <2>2. PICK y : y = IF ~c.err /\ ~c.streamed /\ ~m.streamActive THEN Applied(x, c.view) ELSE x
    OBVIOUS
  <2>3. /\ x \in Models(game.version) /\ SameFollow(m, x) /\ SameScreen(m, x) /\ SameEnd(m, x)
        /\ x.serial = m.serial /\ x.queue = m.queue /\ x.activeAuto = m.activeAuto
        /\ x.activeAction = None
    BY <1>a, <2>1, AnsweredModel
  <2>4. c.view \in View /\ c.view.version <= game.version
    BY <1>b, ViewOfCommand DEF Types, ViewsPast, HasView
  <2>5. /\ y \in Models(game.version) /\ SamePlay(x, y) /\ SameFollow(x, y)
        /\ y.streamActive => y.shown = x.shown
    <3>1. CASE ~c.err /\ ~c.streamed /\ ~m.streamActive
      <4>1. y = Applied(x, c.view)
        BY <2>2, <3>1
      <4>2. y \in Models(game.version) /\ SamePlay(x, y) /\ SameFollow(x, y)
        BY <1>a, <2>3, <2>4, <4>1, AppliedModel
      <4>3. ~y.streamActive
        BY <2>3, <3>1, <4>2 DEF SameFollow
      <4>4. QED
        BY <4>2, <4>3
    <3>2. CASE ~(~c.err /\ ~c.streamed /\ ~m.streamActive)
      BY <2>2, <2>3, <3>2 DEF SamePlay, SameFollow
    <3>3. QED
      BY <3>1, <3>2
  <2>6. /\ y.serial = m.serial /\ y.queue = m.queue /\ y.activeAuto = m.activeAuto
        /\ y.activeAction = None /\ SameEnd(m, y) /\ SameFollow(m, y)
        /\ y.streamActive => m.streamActive /\ y.shown = m.shown
    BY <2>3, <2>5 DEF SamePlay, SameFollow, SameEnd, SameScreen
  <2>7. CASE m.ending
    <3>1. Handles(c, y, TerminalCmds(y))
      BY <1>2, <2>1, <2>2, <2>7 DEF ActionDone
    <3>2. /\ TerminalCmds(y) \in SUBSET Commands /\ Follow(TerminalCmds(y)) = {}
          /\ Known(TerminalCmds(y))
      BY <1>a, <2>5, TerminalParts DEF Known
    <3>3. Types' /\ StreamStep
      BY <1>b, <1>c, <2>5, <2>6, <3>1, <3>2, StayTypes
    <3>4. FInv'
      BY <1>b, <2>6, <3>1, <3>2, StayFollow DEF SameEnd
    <3>5. Finishes(c)
      <4>1. /\ m' = y /\ acted' = acted
            /\ Work(cmds') \subseteq (Work(cmds) \ {c}) \union TerminalCmds(m')
        BY <1>b, <3>1, ReplacedParts DEF Handles, Stay, serverVars, Work
      <4>2. QED
        BY <1>b, <1>2, <2>6, <2>7, <4>1 DEF Finishes, SameEnd
    <3>6. QED
      BY <3>3, <3>4, <3>5 DEF Keeps, PlayStep
  <2>8. CASE ~m.ending /\ m.queue # <<>>
    <3>1. PICK z : z = Started([y EXCEPT !.queue = Tail(@)], Head(m.queue))
      OBVIOUS
    <3>2. Handles(c, z, {ActionCmd(z)})
      BY <1>2, <2>1, <2>2, <2>8, <3>1 DEF ActionDone
    <3>3. Head(m.queue) \in Nat \ {0} /\ Tail(m.queue) \in Seq(Nat \ {0}) /\ Tail(m.queue) \in Seq(Nat)
      BY <1>c, <2>8, HeadOfQueue
    <3>4. PICK a \in Actions : a = [id |-> Head(m.queue), streamed |-> y.streamActive]
      BY <2>5, <3>3 DEF Actions, Models
    <3>5. a # None /\ a.id = Head(m.queue)
      BY <3>4, ClientAssumption DEF Actions
    <3>6. z = [y EXCEPT !.queue = Tail(m.queue), !.activeAction = a]
      <4>1. PICK w : w = [y EXCEPT !.queue = Tail(@)]
        OBVIOUS
      <4>2. w = [y EXCEPT !.queue = Tail(m.queue)] /\ w.streamActive = y.streamActive
        BY <2>5, <2>6, <4>1 DEF Models
      <4>3. z = [w EXCEPT !.activeAction = a]
        BY <3>1, <3>4, <4>1, <4>2 DEF Started
      <4>4. QED
        BY <2>5, <4>2, <4>3 DEF Models
    <3>7. z \in Models(game.version)
      BY <2>5, <3>3, <3>4, <3>6 DEF Models
    <3>8. /\ z.serial = y.serial /\ z.queue = Tail(m.queue) /\ z.activeAuto = y.activeAuto
          /\ z.activeAction = a /\ SameEnd(y, z) /\ SameFollow(y, z) /\ z.shown = y.shown
      BY <2>5, <3>6 DEF Models, SameEnd, SameFollow
    <3>9. /\ ActionCmd(z) \in ActionCommands /\ ActionCmd(z).view = Blank
          /\ ActionCmd(z).id = Head(m.queue)
      BY <1>a, <3>3, <3>5, <3>7, <3>8, NewActionCommand
    <3>10. /\ {ActionCmd(z)} \in SUBSET Commands /\ Follow({ActionCmd(z)}) = {}
           /\ Known({ActionCmd(z)}) /\ ActionCmd(z).kind = "action"
      BY <1>a, <3>9, BlankIsView DEF Commands, ActionCommands, Follow, Known
    <3>11. /\ z.queue \in Seq(Nat \ {0})
           /\ z.streamActive => m.streamActive /\ z.shown = m.shown
           /\ SameFollow(m, z) /\ SameEnd(m, z)
      <4>1. z.queue \in Seq(Nat \ {0})
        BY <3>3, <3>8
      <4>2. SameFollow(m, z) /\ SameEnd(m, z)
        BY <2>6, <3>8 DEF SameFollow, SameEnd
      <4>3. z.streamActive => m.streamActive /\ z.shown = m.shown
        BY <2>6, <3>8, <4>2 DEF SameFollow
      <4>4. QED
        BY <4>1, <4>2, <4>3
    <3>12. Types' /\ StreamStep
      BY <1>b, <3>2, <3>7, <3>10, <3>11, StayTypes
    <3>13. FInv'
      BY <1>b, <2>8, <3>2, <3>10, <3>11, StayFollow
    <3>14. Finishes(c)
      <4>1. /\ m' = z /\ acted' = acted
            /\ Work(cmds') \subseteq (Work(cmds) \ {c}) \union {ActionCmd(z)}
        BY <1>b, <3>2, ReplacedParts DEF Handles, Stay, serverVars, Work
      <4>2. m.activeAction # None /\ m.activeAction.id = c.id
        BY <1>2
      <4>3. /\ m'.serial = m.serial /\ m'.activeAuto = m.activeAuto /\ SameEnd(m, m')
            /\ m'.queue = Tail(m.queue) /\ m'.activeAction # None
            /\ m'.activeAction.id = Head(m.queue)
        BY <2>6, <3>5, <3>8, <3>11, <4>1
      <4>4. QED
        BY <1>b, <2>8, <3>9, <3>10, <4>1, <4>2, <4>3 DEF Finishes
    <3>15. QED
      BY <3>12, <3>13, <3>14 DEF Keeps, PlayStep
  <2>9. CASE ~m.ending /\ m.queue = <<>>
    <3>1. PICK new \in {{}, {PollCmd(y)}} : Handles(c, y, new)
      BY <1>2, <2>1, <2>2, <2>9 DEF ActionDone
    <3>2. new \in SUBSET Commands /\ Known(new) /\ Follow(new) = {} /\ Work(new) = {}
      BY <1>c, <2>5, PollIsKnown, PollParts
    <3>3. Types' /\ StreamStep
      BY <1>b, <1>c, <2>5, <2>6, <3>1, <3>2, StayTypes
    <3>4. FInv'
      BY <1>b, <2>6, <2>9, <3>1, <3>2, StayFollow
    <3>5. Finishes(c)
      <4>1. m' = y /\ acted' = acted /\ Work(cmds') \subseteq Work(cmds) \ {c}
        BY <1>b, <3>1, <3>2, ReplacedParts DEF Handles, Stay, serverVars
      <4>2. QED
        BY <1>b, <1>2, <2>6, <2>9, <4>1 DEF Finishes, SameEnd
    <3>6. QED
      BY <3>3, <3>4, <3>5 DEF Keeps, PlayStep
  <2>10. QED
    BY <2>7, <2>8, <2>9
<1>3. QED
  BY <1>1, <1>2

LEMMA AutoDoneStep ==
  ASSUME Types, FInv, NEW c \in cmds, AutoDone(c)
  PROVE  Keeps
<1>a. game.version \in Nat /\ m \in Models(game.version) /\ SamePlay(m, m) /\ SameFollow(m, m)
  BY ModelNow
<1>b. c.kind = "auto" /\ c \in Work(cmds) /\ Stay
  BY DEF AutoDone, Work
<1>c. /\ Follow({}) = {} /\ Work({}) = {} /\ Known({}) /\ {} \in SUBSET Commands
      /\ m.queue \in Seq(Nat \ {0})
  BY DEF Follow, Work, Known, Types
<1>1. CASE m.activeAuto = None \/ m.activeAuto.id # c.id
  <2>1. Handles(c, m, {})
    BY <1>1 DEF AutoDone
  <2>2. QED
    BY <1>a, <1>b, <1>c, <2>1, StayIdles
<1>2. CASE ~(m.activeAuto = None \/ m.activeAuto.id # c.id)
  <2>1. PICK x : x = [m EXCEPT !.activeAuto = None]
    OBVIOUS
  <2>2. /\ x \in Models(game.version) /\ SameFollow(m, x) /\ SameScreen(m, x) /\ SameEnd(m, x)
        /\ x.serial = m.serial /\ x.queue = m.queue /\ x.activeAction = m.activeAction
        /\ x.activeAuto = None
    BY <1>a, <2>1, AnsweredModel
  <2>3. c.view \in View /\ c.view.version <= game.version
    BY <1>b, ViewOfCommand DEF Types, ViewsPast, HasView
  <2>4. \/ m.ending /\ Handles(c, x, TerminalCmds(x))
        \/ ~m.ending /\ Handles(c, x, {})
        \/ ~m.ending /\ Handles(c, x, {PollCmd(x)})
        \/ ~m.ending /\ ~m.streamActive /\ Handles(c, Applied(x, c.view), {})
    BY <1>2, <2>1 DEF AutoDone
  <2>5. PICK y \in Models(game.version), new \in {TerminalCmds(x), {}, {PollCmd(x)}} :
          /\ Handles(c, y, new) /\ SamePlay(x, y) /\ SameFollow(x, y)
          /\ y.streamActive => y.shown = x.shown
          /\ IF m.ending THEN new = TerminalCmds(x) ELSE new \in {{}, {PollCmd(x)}}
    <3>1. CASE ~m.ending /\ ~m.streamActive /\ Handles(c, Applied(x, c.view), {})
      <4>1. PICK y : y = Applied(x, c.view)
        OBVIOUS
      <4>2. y \in Models(game.version) /\ SamePlay(x, y) /\ SameFollow(x, y)
        BY <1>a, <2>2, <2>3, <4>1, AppliedModel
      <4>3. ~y.streamActive
        BY <2>2, <3>1, <4>2 DEF SameFollow
      <4>4. QED
        BY <3>1, <4>1, <4>2, <4>3
    <3>2. SamePlay(x, x) /\ SameFollow(x, x)
      BY DEF SamePlay, SameFollow
    <3>3. QED
      BY <2>2, <2>4, <3>1, <3>2
  <2>6. /\ new \in SUBSET Commands /\ Follow(new) = {} /\ Known(new)
        /\ ~m.ending => Work(new) = {}
        /\ m.ending => new = TerminalCmds(x)
    <3>1. /\ TerminalCmds(x) \in SUBSET Commands /\ Follow(TerminalCmds(x)) = {}
          /\ Known(TerminalCmds(x))
      BY <1>a, <2>2, TerminalParts DEF Known
    <3>2. /\ Follow({PollCmd(x)}) = {} /\ Work({PollCmd(x)}) = {} /\ Known({PollCmd(x)})
          /\ {PollCmd(x)} \in SUBSET Commands
      BY <2>2, PollParts, PollIsKnown
    <3>3. QED
      BY <1>c, <2>5, <3>1, <3>2
  <2>7. /\ y.serial = m.serial /\ y.queue = m.queue /\ y.activeAction = m.activeAction
        /\ y.activeAuto = None /\ SameEnd(m, y) /\ SameFollow(m, y)
        /\ y.streamActive => m.streamActive /\ y.shown = m.shown
    BY <2>2, <2>5 DEF SamePlay, SameFollow, SameEnd, SameScreen
  <2>8. Types' /\ StreamStep
    BY <1>b, <1>c, <2>5, <2>6, <2>7, StayTypes
  <2>9. FInv'
    BY <1>b, <2>5, <2>6, <2>7, StayFollow DEF SameEnd
  <2>10. Arrives(c)
    <3>1. m' = y /\ acted' = acted /\ Work(cmds') = (Work(cmds) \ {c}) \union Work(new)
      BY <1>b, <2>5, ReplacedParts DEF Handles, Stay, serverVars
    <3>2. Work(cmds') \subseteq (Work(cmds) \ {c}) \union IF m.ending THEN TerminalCmds(m') ELSE {}
      <4>1. CASE m.ending
        <5>1. TerminalCmds(m') = TerminalCmds(x)
          BY <2>4, <2>5, <3>1, <4>1 DEF Handles
        <5>2. QED
          BY <2>6, <3>1, <4>1, <5>1 DEF Work
      <4>2. CASE ~m.ending
        BY <2>6, <3>1, <4>2
      <4>3. QED
        BY <4>1, <4>2
    <3>3. QED
      BY <1>b, <1>2, <2>7, <3>1, <3>2 DEF Arrives
  <2>11. QED
    BY <2>8, <2>9, <2>10 DEF Keeps, PlayStep
<1>3. QED
  BY <1>1, <1>2

\* The end asked for has failed: the model, and the model that recovers the stream.
LEMMA ReopenedModel ==
  ASSUME NEW v \in Nat, NEW x \in Models(v)
  PROVE  LET y == [x EXCEPT !.ending = FALSE, !.intent = "none"]
         IN  /\ y \in Models(v) /\ SameFollow(x, y) /\ SameScreen(x, y)
             /\ y.serial = x.serial /\ y.activeAction = x.activeAction /\ y.queue = x.queue
             /\ y.activeAuto = x.activeAuto /\ ~y.ending /\ y.intent = "none"
BY DEF Models, SameFollow, SameScreen

LEMMA RecoveringModel ==
  ASSUME NEW v \in Nat, NEW x \in Models(v), v = game.version, Types
  PROVE  /\ Recovering(x) \in Models(v) /\ SamePlay(x, Recovering(x)) /\ SameScreen(x, Recovering(x))
         /\ Recovering(x).gen = x.gen /\ Recovering(x).streamConnecting = x.streamConnecting
         /\ Recovering(x).streamActive = x.streamActive
         /\ x.ending => Recovering(x) = x
         /\ ~x.ending => Recovering(x).retryScheduled
         /\ RecoveryCmds(x) \in SUBSET Commands /\ Known(RecoveryCmds(x)) /\ Work(RecoveryCmds(x)) = {}
         /\ Follow(RecoveryCmds(x)) = IF x.retryScheduled \/ x.ending THEN {} ELSE {TimerCmd(x)}
         /\ TimerCmd(x).kind = "timer" /\ TimerCmd(x).gen = x.gen
<1>1. CASE x.retryScheduled \/ x.ending
  <2>1. Recovering(x) = x /\ RecoveryCmds(x) = {}
    BY <1>1 DEF Recovering, RecoveryCmds
  <2>2. TimerCmd(x).kind = "timer" /\ TimerCmd(x).gen = x.gen
    BY DEF TimerCmd
  <2>3. Known({}) /\ Work({}) = {} /\ Follow({}) = {}
    BY DEF Known, Work, Follow
  <2>4. SamePlay(x, x) /\ SameScreen(x, x)
    BY DEF SamePlay, SameScreen
  <2>5. QED
    BY <1>1, <2>1, <2>2, <2>3, <2>4
<1>2. CASE ~(x.retryScheduled \/ x.ending)
  <2>1. PICK y : y = [x EXCEPT !.retryScheduled = TRUE]
    OBVIOUS
  <2>2. Recovering(x) = y
    BY <1>2, <2>1 DEF Recovering
  <2>3. /\ y \in Models(v) /\ SamePlay(x, y) /\ SameScreen(x, y) /\ y.gen = x.gen
        /\ y.streamConnecting = x.streamConnecting /\ y.streamActive = x.streamActive
        /\ y.retryScheduled
    BY <2>1 DEF Models, SamePlay, SameScreen
  <2>4. RecoveryCmds(x) \in {{TimerCmd(x)}, {TimerCmd(x), PollCmd(x)}}
    BY <1>2 DEF RecoveryCmds
  <2>5. TimerCmd(x) \in TimerCommands /\ TimerCmd(x).kind = "timer" /\ TimerCmd(x).gen = x.gen
    BY NewCommands DEF TimerCommands
  <2>6. /\ {PollCmd(x)} \in SUBSET Commands /\ Known({PollCmd(x)})
        /\ PollCmd(x).kind = "poll"
    BY PollIsKnown DEF PollCmd
  <2>7. {TimerCmd(x)} \in SUBSET Commands /\ Known({TimerCmd(x)})
    BY <2>5 DEF Commands, Known, HasView
  <2>8. RecoveryCmds(x) \in SUBSET Commands /\ Known(RecoveryCmds(x))
    BY <2>4, <2>6, <2>7 DEF Known
  <2>9. Work(RecoveryCmds(x)) = {} /\ Follow(RecoveryCmds(x)) = {TimerCmd(x)}
    BY <2>4, <2>5, <2>6 DEF Work, Follow
  <2>10. QED
    BY <1>2, <2>2, <2>3, <2>5, <2>8, <2>9
<1>3. QED
  BY <1>1, <1>2

LEMMA EndDoneStep ==
  ASSUME Types, FInv, NEW c \in cmds, EndDone(c)
  PROVE  Keeps
<1>a. game.version \in Nat /\ m \in Models(game.version) /\ SamePlay(m, m) /\ SameFollow(m, m)
  BY ModelNow
<1>b. c.kind = "end" /\ c \in Work(cmds) /\ Stay
  BY DEF EndDone, Work
<1>c. /\ Follow({}) = {} /\ Work({}) = {} /\ Known({}) /\ {} \in SUBSET Commands
      /\ m.queue \in Seq(Nat \ {0})
  BY DEF Follow, Work, Known, Types
<1>1. CASE ~c.err
  <2>1. Handles(c, m, {QuitCmd})
    BY <1>1 DEF EndDone
  <2>2. {QuitCmd} \in SUBSET Commands /\ Follow({QuitCmd}) = {} /\ Work({QuitCmd}) = {}
        /\ Known({QuitCmd})
    BY DEF QuitCmd, Commands, QuitCommands, Follow, Work, Known, HasView
  <2>3. QED
    BY <1>a, <1>b, <2>1, <2>2, StayIdles
<1>2. CASE c.err
  <2>1. PICK x : x = [m EXCEPT !.ending = FALSE, !.intent = "none"]
    OBVIOUS
  <2>2. /\ x \in Models(game.version) /\ SameFollow(m, x) /\ SameScreen(m, x)
        /\ x.serial = m.serial /\ x.activeAction = m.activeAction /\ x.queue = m.queue
        /\ x.activeAuto = m.activeAuto /\ ~x.ending /\ x.intent = "none"
    BY <1>a, <2>1, ReopenedModel
  <2>3. PICK y \in Models(game.version), new \in SUBSET Commands :
          /\ Handles(c, y, new) /\ SamePlay(x, y) /\ SameScreen(x, y)
          /\ y.streamActive = x.streamActive /\ Known(new) /\ Work(new) = {}
          /\ \/ (m.streamActive \/ m.streamConnecting) /\ y = x /\ new = {}
             \/ ~m.streamActive /\ ~m.streamConnecting /\ y = Recovering(x) /\ new = RecoveryCmds(x)
    <3>1. CASE m.streamActive \/ m.streamConnecting
      <4>1. Handles(c, x, {})
        BY <1>2, <2>1, <3>1 DEF EndDone
      <4>2. SamePlay(x, x) /\ SameScreen(x, x)
        BY DEF SamePlay, SameScreen
      <4>3. QED
        BY <1>c, <2>2, <3>1, <4>1, <4>2
    <3>2. CASE ~(m.streamActive \/ m.streamConnecting)
      <4>1. Handles(c, Recovering(x), RecoveryCmds(x))
        BY <1>2, <2>1, <3>2 DEF EndDone
      <4>2. /\ Recovering(x) \in Models(game.version) /\ SamePlay(x, Recovering(x))
            /\ SameScreen(x, Recovering(x)) /\ Recovering(x).streamActive = x.streamActive
            /\ RecoveryCmds(x) \in SUBSET Commands /\ Known(RecoveryCmds(x)) /\ Work(RecoveryCmds(x)) = {}
        BY <1>a, <2>2, RecoveringModel
      <4>3. QED
        BY <3>2, <4>1, <4>2
    <3>3. QED
      BY <3>1, <3>2
  <2>4. /\ y.serial = m.serial /\ y.activeAction = m.activeAction /\ y.queue = m.queue
        /\ y.activeAuto = m.activeAuto /\ ~y.ending /\ y.intent = "none"
        /\ y.streamActive => m.streamActive /\ y.shown = m.shown
    BY <2>2, <2>3 DEF SamePlay, SameFollow, SameScreen
  <2>5. Types' /\ StreamStep
    BY <1>b, <1>c, <2>3, <2>4, StayTypes
  <2>6. Reopens(c)
    <3>1. m' = y /\ acted' = acted /\ Work(cmds') \subseteq Work(cmds) \ {c}
      BY <1>b, <2>3, ReplacedParts DEF Handles, Stay, serverVars
    <3>2. QED
      BY <1>b, <2>4, <3>1 DEF Reopens
  <2>7. FInv'
    <3>1. /\ m' = y /\ wire' = wire /\ left' = left /\ ~left
          /\ Follow(cmds') = Follow(cmds) \union Follow(new)
      BY <1>b, <2>3, ReplacedParts DEF Handles, Stay, serverVars, FInv
    <3>2. CASE (m.streamActive \/ m.streamConnecting) /\ y = x /\ new = {}
      <4>1. PICK f \in cmds : Follow(cmds) = {f} /\ FollowedBy(m, f)
        BY <3>1, <3>2 DEF FInv, NotFollowed
      <4>2. Follow(cmds') = {f} /\ f \in cmds'
        BY <1>c, <3>1, <3>2, <4>1 DEF Follow
      <4>3. FollowedBy(m', f)
        BY <2>2, <3>1, <3>2, <4>1 DEF FollowedBy, SameFollow
      <4>4. \A d \in cmds' : d.kind = "open" => d \in cmds
        BY <4>1, <4>2 DEF Follow
      <4>5. QED
        BY <3>1, <4>2, <4>3, <4>4 DEF FInv
    <3>3. CASE ~m.streamActive /\ ~m.streamConnecting /\ y = Recovering(x) /\ new = RecoveryCmds(x)
      <4>1. /\ y.gen = m.gen /\ ~y.streamConnecting /\ ~y.streamActive /\ y.retryScheduled
            /\ Follow(new) = IF m.retryScheduled THEN {} ELSE {TimerCmd(x)}
            /\ TimerCmd(x).kind = "timer" /\ TimerCmd(x).gen = m.gen
        BY <1>a, <2>2, <3>3, RecoveringModel DEF SameFollow
      <4>2. PICK f \in cmds' : Follow(cmds') = {f} /\ f.kind = "timer" /\ f.gen = m.gen
        <5>1. CASE m.retryScheduled
          <6>1. PICK f \in cmds : Follow(cmds) = {f} /\ FollowedBy(m, f)
            BY <3>1, <5>1 DEF FInv, NotFollowed
          <6>2. Follow(cmds') = {f} /\ f.kind = "timer" /\ f.gen = m.gen
            BY <3>1, <3>3, <4>1, <5>1, <6>1 DEF FollowedBy
          <6>3. QED
            BY <6>2 DEF Follow
        <5>2. CASE ~m.retryScheduled
          <6>1. Follow(cmds) = {}
            BY <3>1, <3>3, <5>2 DEF FInv, FollowedBy
          <6>2. Follow(cmds') = {TimerCmd(x)}
            BY <3>1, <4>1, <5>2, <6>1
          <6>3. QED
            BY <4>1, <6>2 DEF Follow
        <5>3. QED
          BY <5>1, <5>2
      <4>3. FollowedBy(m', f)
        BY <3>1, <4>1, <4>2 DEF FollowedBy
      <4>4. \A d \in cmds' : d.kind # "open"
        BY <4>2 DEF Follow
      <4>5. QED
        BY <3>1, <4>2, <4>3, <4>4 DEF FInv
    <3>4. QED
      BY <2>3, <3>2, <3>3
  <2>8. QED
    BY <2>5, <2>6, <2>7 DEF Keeps, PlayStep
<1>3. QED
  BY <1>1, <1>2

\* An event taken by the command that follows the game, from the model it leaves.
LEMMA TakeEventStep ==
  ASSUME Types, FInv, NEW c \in cmds, NEW x \in Models(game.version),
         Follow(cmds) = {c}, wire # <<>>, SamePlay(m, x), SameScreen(m, x),
         x.gen = m.gen, x.streamActive, ~x.streamConnecting, ~x.retryScheduled,
         TakeEvent(c, x), UNCHANGED <<game, acted, left>>
  PROVE  Keeps
<1>a. /\ game.version \in Nat /\ game \in Games /\ wire \in Seq(Events) /\ WirePast
      /\ x.queue \in Seq(Nat \ {0}) /\ ~left
  BY ModelNow DEF Types, SamePlay, FInv
<1>b. PICK e \in Events : e = Head(wire) /\ e.view.version \in 1..game.version
  BY <1>a DEF WirePast
<1>c. e.view \in View /\ e.view.version <= game.version /\ e.view.version \in Nat \ {0}
  BY <1>a, <1>b DEF Events
<1>d. c.kind \in {"open", "read", "timer"}
  BY DEF Follow
<1>1. CASE e.over # "no"
  <2>1. PICK w : w = AutoCancelled(x)
    OBVIOUS
  <2>2. /\ w \in Models(game.version) /\ SameFollow(x, w) /\ SameScreen(x, w)
        /\ w.serial = x.serial /\ w.activeAction = x.activeAction /\ w.queue = x.queue
        /\ w.ending = x.ending /\ w.intent = x.intent
        /\ w.activeAuto = None <=> x.activeAuto = None
        /\ x.activeAuto # None => w.activeAuto.id = x.activeAuto.id
    BY <1>a, <2>1, CancelledModel
  <2>3. PICK y : y = [w EXCEPT !.ending = TRUE, !.streamActive = FALSE, !.retryScheduled = FALSE]
    OBVIOUS
  <2>4. /\ y \in Models(game.version) /\ y.ending /\ ~y.streamActive /\ ~y.retryScheduled
        /\ y.streamConnecting = w.streamConnecting
        /\ y.serial = w.serial /\ y.activeAction = w.activeAction /\ y.queue = w.queue
        /\ y.intent = w.intent /\ y.activeAuto = w.activeAuto
    BY <2>2, <2>3, ZenonT(60) DEF Models
  <2>5. m' = y /\ cmds' = (cmds \ {c}) \union {QuitCmd} /\ Replace(c, {QuitCmd})
        /\ link' = "none" /\ wire' = <<>>
    BY <1>1, <1>b, <2>1, <2>3 DEF TakeEvent, Handles, Replace
  <2>6. {QuitCmd} \in SUBSET Commands /\ Follow({QuitCmd}) = {} /\ Work({QuitCmd}) = {}
        /\ Known({QuitCmd})
    BY DEF QuitCmd, Commands, QuitCommands, Follow, Work, Known, HasView
  <2>7. StreamStep
    <3>1. 0 \in 0..Len(wire) /\ SubSeq(wire, 1, 0) = <<>>
      BY <1>a
    <3>2. game.version >= game.version
      BY <1>a
    <3>3. QED
      BY <1>a, <2>4, <2>5, <3>1, <3>2 DEF StreamStep, Loses
  <2>8. Types'
    <3>1. /\ game' \in Games /\ game'.version >= game.version /\ wire' \in Seq(Events) /\ WirePast'
      BY <2>7, StreamKept
    <3>2. cmds' \subseteq Commands /\ ViewsPast'
      BY <2>5, <2>6, <3>1, CommandsKept
    <3>3. y.queue \in Seq(Nat \ {0})
      BY <1>a, <2>2, <2>4
    <3>4. QED
      BY <2>4, <2>5, <3>1, <3>2, <3>3 DEF Types
  <2>9. FInv'
    <3>1. Follow(cmds') = {}
      BY <2>5, <2>6, ReplacedParts
    <3>2. NotFollowed(m')
      BY <2>2, <2>4, <2>5 DEF NotFollowed, SameFollow
    <3>3. \A d \in cmds' : d.kind # "open"
      BY <3>1 DEF Follow
    <3>4. QED
      BY <1>a, <3>1, <3>2, <3>3 DEF FInv
  <2>10. Ends
    <3>1. Work(cmds') \subseteq Work(cmds)
      BY <2>5, <2>6, ReplacedParts
    <3>2. m'.serial = m.serial /\ m'.activeAction = m.activeAction /\ m'.queue = m.queue
          /\ m'.intent = m.intent /\ SameAuto(m, m')
      BY <2>2, <2>4, <2>5 DEF SamePlay, SameAuto
    <3>3. QED
      BY <1>1, <1>b, <2>4, <2>5, <3>1, <3>2 DEF Ends
  <2>11. QED
    BY <2>7, <2>8, <2>9, <2>10 DEF Keeps, PlayStep
<1>2. CASE e.over = "no"
  <2>1. PICK y : y = Applied(x, e.view)
    OBVIOUS
  <2>2. /\ y \in Models(game.version) /\ SamePlay(x, y) /\ SameFollow(x, y)
        /\ y.shown = e.view.version
    BY <1>a, <1>c, <2>1, AppliedModel
  <2>3. PICK b : b = (y.setupPending /\ e.source # "setup" /\ ~Complete(y))
    OBVIOUS
  <2>4. b \in BOOLEAN
    BY <2>3
  <2>5. PICK z : z = [y EXCEPT !.setupPending = b]
    OBVIOUS
  <2>6. m' = z /\ Replace(c, {ReadCmd(z)}) /\ cmds' = (cmds \ {c}) \union {ReadCmd(z)}
        /\ link' = link /\ wire' = Tail(wire)
    BY <1>2, <1>b, <2>1, <2>3, <2>5 DEF TakeEvent, Handles, Replace
  <2>7. /\ z \in Models(game.version) /\ SamePlay(y, z) /\ SameFollow(y, z) /\ z.shown = y.shown
    BY <2>2, <2>4, <2>5 DEF Models, SamePlay, SameFollow
  <2>8. ReadCmd(z) \in ReadCommands /\ ReadCmd(z).gen = z.gen /\ ReadCmd(z).kind = "read"
    BY <1>a, <2>7, NewCommands DEF ReadCommands
  <2>9. /\ {ReadCmd(z)} \in SUBSET Commands /\ Follow({ReadCmd(z)}) = {ReadCmd(z)}
        /\ Work({ReadCmd(z)}) = {} /\ Known({ReadCmd(z)})
    BY <2>8 DEF Commands, Follow, Work, Known, HasView
  <2>10. StreamStep
    BY <1>b, <2>2, <2>6, <2>7 DEF StreamStep, Takes
  <2>11. Types'
    <3>1. /\ game' \in Games /\ game'.version >= game.version /\ wire' \in Seq(Events) /\ WirePast'
          /\ link' \in {"none", "open", "closed"}
      BY <2>10, StreamKept
    <3>2. cmds' \subseteq Commands /\ ViewsPast'
      BY <2>6, <2>9, <3>1, CommandsKept
    <3>3. z.queue \in Seq(Nat \ {0})
      BY <1>a, <2>2, <2>7 DEF SamePlay
    <3>4. QED
      BY <2>6, <2>7, <3>1, <3>2, <3>3 DEF Types
  <2>12. FInv'
    <3>1. Follow(cmds') = {ReadCmd(z)} /\ ReadCmd(z) \in cmds'
      BY <2>6, <2>9, ReplacedParts, ZenonT(60)
    <3>2. FollowedBy(m', ReadCmd(z))
      BY <2>2, <2>6, <2>7, <2>8 DEF FollowedBy, SameFollow
    <3>3. \A d \in cmds' : d.kind # "open"
      BY <2>8, <3>1 DEF Follow
    <3>4. QED
      BY <1>a, <3>1, <3>2, <3>3 DEF FInv
  <2>13. Idles
    <3>1. Work(cmds') \subseteq Work(cmds)
      <4>1. Work(cmds') = (Work(cmds) \ {c}) \union Work({ReadCmd(z)})
        BY <2>6, ReplacedParts
      <4>2. QED
        BY <2>9, <4>1
    <3>2. SamePlay(m, m')
      BY <2>2, <2>6, <2>7 DEF SamePlay
    <3>3. QED
      BY <3>1, <3>2 DEF Idles, SamePlay, SameAuto, SameEnd
  <2>14. QED
    BY <2>10, <2>11, <2>12, <2>13 DEF Keeps, PlayStep
<1>3. QED
  BY <1>1, <1>2

\* A command that follows the game is the only one.
LEMMA FollowerIsAlone ==
  ASSUME FInv, NEW c \in cmds, c.kind \in {"open", "read", "timer"}
  PROVE  Follow(cmds) = {c} /\ FollowedBy(m, c) /\ ~left
BY DEF FInv, Follow

LEMMA OpenedStep ==
  ASSUME Types, FInv, NEW c \in cmds, Opened(c)
  PROVE  Keeps
<1>1. PICK x : x = [m EXCEPT !.streamActive = TRUE, !.streamConnecting = FALSE,
                             !.retryScheduled = FALSE]
  OBVIOUS
<1>2. /\ x \in Models(game.version) /\ SamePlay(m, x) /\ SameScreen(m, x)
      /\ x.gen = m.gen /\ x.streamActive /\ ~x.streamConnecting /\ ~x.retryScheduled
  BY <1>1, ModelNow DEF Models, SamePlay, SameScreen
<1>3. c.kind = "open" /\ TakeEvent(c, x) /\ UNCHANGED <<game, acted, left>> /\ wire # <<>>
  BY <1>1 DEF Opened, FInv
<1>4. QED
  BY <1>2, <1>3, FollowerIsAlone, TakeEventStep

LEMMA ReceivedStep ==
  ASSUME Types, FInv, NEW c \in cmds, Received(c)
  PROVE  Keeps
<1>1. c.kind = "read" /\ TakeEvent(c, m) /\ UNCHANGED <<game, acted, left>> /\ wire # <<>>
  BY DEF Received
<1>2. Follow(cmds) = {c} /\ FollowedBy(m, c)
  BY <1>1, FollowerIsAlone
<1>3. m.streamActive /\ ~m.streamConnecting /\ ~m.retryScheduled
  BY <1>1, <1>2 DEF FollowedBy
<1>4. SameScreen(m, m)
  BY DEF SameScreen
<1>5. QED
  BY <1>1, <1>2, <1>3, <1>4, ModelNow, TakeEventStep

LEMMA StreamLostStep ==
  ASSUME Types, FInv, NEW c \in cmds, c.kind \in {"open", "read"}, StreamLost(c),
         UNCHANGED <<game, acted, left>>
  PROVE  Keeps
<1>a. game.version \in Nat /\ m \in Models(game.version) /\ game \in Games /\ wire \in Seq(Events)
  BY ModelNow DEF Types
<1>b. Follow(cmds) = {c} /\ FollowedBy(m, c) /\ ~left
  BY FollowerIsAlone
<1>1. PICK x : x = [m EXCEPT !.streamActive = FALSE, !.streamConnecting = FALSE]
  OBVIOUS
<1>2. /\ x \in Models(game.version) /\ SamePlay(m, x) /\ SameScreen(m, x)
      /\ x.gen = m.gen /\ ~x.streamActive /\ ~x.streamConnecting
      /\ x.retryScheduled = m.retryScheduled
  BY <1>a, <1>1 DEF Models, SamePlay, SameScreen
<1>3. ~m.retryScheduled
  BY <1>b DEF FollowedBy
<1>4. PICK y \in Models(game.version), new \in SUBSET Commands :
        /\ y = Recovering(x) /\ new = RecoveryCmds(x)
        /\ SamePlay(x, y) /\ y.gen = x.gen
        /\ y.streamConnecting = x.streamConnecting /\ y.streamActive = x.streamActive
        /\ x.ending => y = x
        /\ ~x.ending => y.retryScheduled
        /\ Known(new) /\ Work(new) = {}
        /\ Follow(new) = IF x.retryScheduled \/ x.ending THEN {} ELSE {TimerCmd(x)}
        /\ TimerCmd(x).kind = "timer" /\ TimerCmd(x).gen = x.gen
  BY <1>a, <1>2, RecoveringModel
<1>5. m' = y /\ Replace(c, new) /\ cmds' = (cmds \ {c}) \union new /\ link' = "none" /\ wire' = <<>>
  BY <1>1, <1>4 DEF StreamLost, Handles, Replace
<1>6. ~y.streamActive /\ ~y.streamConnecting /\ SamePlay(m, y) /\ y.gen = m.gen
  BY <1>2, <1>4 DEF SamePlay
<1>7. StreamStep
  <2>1. 0 \in 0..Len(wire) /\ SubSeq(wire, 1, 0) = <<>> /\ game.version >= game.version
    BY <1>a
  <2>2. QED
    BY <1>a, <1>5, <1>6, <2>1 DEF StreamStep, Loses
<1>8. Types'
  <2>1. /\ game' \in Games /\ game'.version >= game.version /\ wire' \in Seq(Events) /\ WirePast'
    BY <1>7, StreamKept DEF Types
  <2>2. cmds' \subseteq Commands /\ ViewsPast'
    BY <1>4, <1>5, <2>1, CommandsKept
  <2>3. y.queue \in Seq(Nat \ {0})
    BY <1>6 DEF SamePlay, Types
  <2>4. QED
    BY <1>4, <1>5, <2>1, <2>2, <2>3 DEF Types
<1>9. FInv'
  <2>1. Follow(cmds') = Follow(new)
    <3>1. Follow(cmds') = (Follow(cmds) \ {c}) \union Follow(new)
      BY <1>5, ReplacedParts
    <3>2. QED
      BY <1>b, <3>1
  <2>2. CASE x.ending
    <3>1. Follow(cmds') = {} /\ NotFollowed(m')
      BY <1>2, <1>3, <1>4, <1>5, <1>6, <2>1, <2>2 DEF NotFollowed
    <3>2. \A d \in cmds' : d.kind # "open"
      BY <3>1 DEF Follow
    <3>3. QED
      BY <1>b, <3>1, <3>2 DEF FInv
  <2>3. CASE ~x.ending
    <3>1. Follow(cmds') = {TimerCmd(x)}
      BY <1>2, <1>3, <1>4, <2>1, <2>3
    <3>2. TimerCmd(x) \in cmds' /\ FollowedBy(m', TimerCmd(x))
      BY <1>2, <1>4, <1>5, <1>6, <2>3, <3>1 DEF FollowedBy, Follow
    <3>3. \A d \in cmds' : d.kind # "open"
      BY <1>4, <3>1 DEF Follow
    <3>4. QED
      BY <1>b, <3>1, <3>2, <3>3 DEF FInv
  <2>4. QED
    BY <2>2, <2>3
<1>10. Idles
  <2>1. Work(cmds') \subseteq Work(cmds)
    BY <1>4, <1>5, ReplacedParts
  <2>2. SamePlay(m, m')
    BY <1>5, <1>6
  <2>3. QED
    BY <2>1, <2>2 DEF Idles, SamePlay, SameAuto, SameEnd
<1>11. QED
  BY <1>7, <1>8, <1>9, <1>10 DEF Keeps, PlayStep

LEMMA ReconnectStep ==
  ASSUME Types, FInv, NEW c \in cmds, Reconnect(c)
  PROVE  Keeps
<1>a. game.version \in Nat /\ m \in Models(game.version) /\ SamePlay(m, m)
      /\ m.queue \in Seq(Nat \ {0})
  BY ModelNow DEF Types
<1>b. c.kind = "timer" /\ Stay
  BY DEF Reconnect
<1>c. Follow(cmds) = {c} /\ FollowedBy(m, c) /\ ~left
  BY <1>b, FollowerIsAlone
<1>d. c.gen = m.gen /\ ~m.streamConnecting /\ ~m.streamActive /\ m.retryScheduled
  BY <1>b, <1>c DEF FollowedBy
<1>1. PICK x : x = [m EXCEPT !.retryScheduled = FALSE]
  OBVIOUS
<1>2. /\ x \in Models(game.version) /\ SamePlay(m, x) /\ x.gen = m.gen
      /\ x.streamConnecting = m.streamConnecting /\ x.streamActive = m.streamActive
      /\ ~x.retryScheduled
  BY <1>a, <1>1 DEF Models, SamePlay
<1>3. PICK y : y = [x EXCEPT !.gen = @ + 1, !.streamConnecting = TRUE]
  OBVIOUS
<1>4. /\ y \in Models(game.version) /\ SamePlay(x, y)
      /\ y.streamConnecting /\ y.streamActive = x.streamActive
      /\ y.retryScheduled = x.retryScheduled
  <2>1. PICK n \in Nat : n = x.gen + 1
    <3>1. x.gen \in Nat
      BY <1>2 DEF Models
    <3>2. QED
      BY <3>1
  <2>2. y = [x EXCEPT !.gen = n, !.streamConnecting = TRUE]
    BY <1>2, <1>3, <2>1 DEF Models
  <2>3. QED
    BY <1>2, <2>2 DEF Models, SamePlay
<1>5. PICK z \in {x, y}, new \in SUBSET Commands :
        /\ Handles(c, z, new) /\ Known(new) /\ Work(new) = {}
        /\ \/ m.ending /\ z = x /\ Follow(new) = {}
           \/ /\ z = y /\ OpenCmd(y) \in new /\ Follow(new) = {OpenCmd(y)}
              /\ OpenCmd(y).kind = "open" /\ OpenCmd(y).gen = y.gen /\ OpenCmd(y).todo # <<>>
  <2>1. \/ m.ending /\ Handles(c, x, {})
        \/ ~m.ending /\ Handles(c, y, {OpenCmd(y)})
    BY <1>d, <1>1, <1>3 DEF Reconnect
  <2>2. Known({}) /\ Work({}) = {} /\ Follow({}) = {}
    BY DEF Known, Work, Follow
  <2>3. OpenCmd(y) \in OpenCommands /\ OpenCmd(y).todo # <<>> /\ OpenCmd(y).gen = y.gen
        /\ OpenCmd(y).kind = "open"
    BY <1>a, <1>4, NewCommands DEF OpenCommands
  <2>4. {OpenCmd(y)} \in SUBSET Commands /\ Known({OpenCmd(y)}) /\ Work({OpenCmd(y)}) = {}
        /\ Follow({OpenCmd(y)}) = {OpenCmd(y)}
    BY <2>3 DEF Commands, Known, HasView, Work, Follow
  <2>5. QED
    BY <2>1, <2>2, <2>3, <2>4
<1>6. /\ z \in Models(game.version) /\ SamePlay(m, z) /\ ~z.streamActive
      /\ z.queue \in Seq(Nat \ {0})
  BY <1>a, <1>d, <1>2, <1>4, <1>5 DEF SamePlay
<1>7. Types' /\ StreamStep
  BY <1>b, <1>5, <1>6, StayTypes
<1>8. m' = z /\ Replace(c, new) /\ left' = left /\ acted' = acted
  BY <1>b, <1>5 DEF Handles, Stay, serverVars
<1>9. FInv'
  <2>1. Follow(cmds') = Follow(new)
    BY <1>c, <1>8, ReplacedParts
  <2>2. CASE m.ending /\ z = x /\ Follow(new) = {}
    <3>1. NotFollowed(m')
      BY <1>d, <1>2, <1>8, <2>2 DEF NotFollowed, SamePlay
    <3>2. \A d \in cmds' : d.kind # "open"
      BY <2>1, <2>2 DEF Follow
    <3>3. QED
      BY <1>c, <1>8, <2>1, <2>2, <3>1, <3>2 DEF FInv
  <2>3. CASE /\ z = y /\ OpenCmd(y) \in new /\ Follow(new) = {OpenCmd(y)}
             /\ OpenCmd(y).kind = "open" /\ OpenCmd(y).gen = y.gen /\ OpenCmd(y).todo # <<>>
    <3>1. FollowedBy(m', OpenCmd(y))
      BY <1>d, <1>2, <1>4, <1>8, <2>3 DEF FollowedBy
    <3>2. OpenCmd(y) \in cmds'
      BY <1>8, <2>3 DEF Replace
    <3>3. \A d \in cmds' : d.kind = "open" => d = OpenCmd(y)
      BY <2>1, <2>3 DEF Follow
    <3>4. QED
      BY <1>c, <1>8, <2>1, <2>3, <3>1, <3>2, <3>3 DEF FInv
  <2>4. QED
    BY <1>5, <2>2, <2>3
<1>10. Idles
  <2>1. Work(cmds') \subseteq Work(cmds)
    BY <1>5, <1>8, ReplacedParts
  <2>2. SamePlay(m, m')
    BY <1>6, <1>8
  <2>3. QED
    BY <1>8, <2>1, <2>2 DEF Idles, SamePlay, SameAuto, SameEnd
<1>11. QED
  BY <1>7, <1>9, <1>10 DEF Keeps, PlayStep

LEMMA QuitMsgStep ==
  ASSUME Types, FInv, NEW c \in cmds, QuitMsg(c)
  PROVE  Keeps
<1>1. left' = TRUE /\ cmds' = {} /\ UNCHANGED <<game, acted, link, wire, m>>
  BY DEF QuitMsg, serverVars
<1>2. StreamStep
  BY <1>1 DEF StreamStep, Called, Announced, Types, Games
<1>3. Types'
  <2>1. wire' \in Seq(Events) /\ WirePast' /\ game' \in Games
    BY <1>2, StreamKept
  <2>2. QED
    BY <1>1, <2>1 DEF Types, ViewsPast
<1>4. FInv'
  BY <1>1 DEF FInv
<1>5. Idles
  BY <1>1 DEF Idles, Work, SameAuto, SameEnd
<1>6. QED
  BY <1>2, <1>3, <1>4, <1>5 DEF Keeps, PlayStep

LEMMA UpdateStep ==
  ASSUME Types, FInv, NEW c \in cmds, Update(c)
  PROVE  Keeps
<1>1. CASE NotOpened(c)
  <2>1. c.kind = "open" /\ StreamLost(c) /\ UNCHANGED <<game, acted, left>>
    BY <1>1 DEF NotOpened
  <2>2. QED
    BY <2>1, StreamLostStep
<1>2. CASE ReadStops(c)
  <2>1. c.kind = "read" /\ StreamLost(c) /\ UNCHANGED <<game, acted, left>>
    BY <1>2 DEF ReadStops
  <2>2. QED
    BY <2>1, StreamLostStep
<1>3. QED
  BY <1>1, <1>2, ActionDoneStep, SetupDoneStep, EndDoneStep, AutoDoneStep, PollDoneStep,
     OpenedStep, ReceivedStep, ReconnectStep, QuitMsgStep DEF Update

-----------------------------------------------------------------------------
(* The player's keys.                                                      *)

LEMMA KeyKeeps ==
  ASSUME Types, FInv, ~left, NEW x \in Models(game.version), NEW new \in SUBSET Commands,
         UNCHANGED <<serverVars, left>>, m' = x, cmds' = cmds \union new,
         Follow(new) = {}, Known(new), x.queue \in Seq(Nat \ {0}),
         SameFollow(m, x), x.shown = m.shown, m.ending => x.ending
  PROVE  Types' /\ FInv' /\ StreamStep
<1>1. UNCHANGED <<game, acted, link, wire, left>>
  BY DEF serverVars
<1>2. game' \in Games /\ game'.version >= game.version
  BY <1>1 DEF Types, Games
<1>3. StreamStep
  BY <1>1, <1>2 DEF StreamStep, Called, Announced, SameFollow, Games
<1>4. WirePast' /\ wire' \in Seq(Events)
  BY <1>3, StreamKept
<1>5. cmds' \subseteq Commands /\ ViewsPast'
  BY <1>2, CommandsKept
<1>6. Types'
  BY <1>1, <1>2, <1>4, <1>5 DEF Types
<1>7. Follow(cmds') = Follow(cmds)
  BY DEF Follow
<1>8. FInv'
  BY <1>1, <1>7, FollowKept
<1>9. QED
  BY <1>3, <1>6, <1>8

LEMMA NumberedModel ==
  ASSUME NEW v \in Nat, NEW x \in Models(v)
  PROVE  /\ Numbered(x) \in Models(v) /\ Numbered(x).serial = x.serial + 1
         /\ SameFollow(x, Numbered(x)) /\ SameScreen(x, Numbered(x)) /\ SameEnd(x, Numbered(x))
         /\ Numbered(x).activeAction = x.activeAction /\ Numbered(x).activeAuto = x.activeAuto
         /\ Numbered(x).queue = x.queue /\ Numbered(x).setupPending = x.setupPending
         /\ Numbered(x).setupReq = x.setupReq
         /\ x.serial + 1 \in Nat \ {0}
<1>1. x.serial \in Nat
  BY DEF Models
<1>2. PICK n \in Nat \ {0} : n = x.serial + 1
  BY <1>1
<1>3. Numbered(x) = [x EXCEPT !.serial = n]
  BY <1>2 DEF Numbered
<1>4. PICK y : y = [x EXCEPT !.serial = n]
  OBVIOUS
<1>5. y \in Models(v)
  BY <1>4 DEF Models
<1>6. /\ y.serial = n /\ SameFollow(x, y) /\ SameScreen(x, y) /\ SameEnd(x, y)
      /\ y.activeAction = x.activeAction /\ y.activeAuto = x.activeAuto /\ y.queue = x.queue
      /\ y.setupPending = x.setupPending /\ y.setupReq = x.setupReq
  BY <1>4 DEF Models, SameFollow, SameScreen, SameEnd
<1>7. QED
  BY <1>2, <1>3, <1>4, <1>5, <1>6

LEMMA ActionKeyStep ==
  ASSUME Types, FInv, ActionKey
  PROVE  Keeps
<1>a. /\ game.version \in Nat /\ m \in Models(game.version) /\ m.queue \in Seq(Nat \ {0})
  BY ModelNow DEF Types
<1>b. /\ ~left /\ ~m.ending /\ m.activeAuto = None /\ m.setup = "complete"
      /\ UNCHANGED <<serverVars, left>> /\ acted' = acted
  BY DEF ActionKey, CanPlay, Ready, serverVars
<1>1. PICK x : x = Numbered(m)
  OBVIOUS
<1>2. /\ x \in Models(game.version) /\ x.serial = m.serial + 1 /\ x.serial \in Nat \ {0}
      /\ SameFollow(m, x) /\ SameScreen(m, x) /\ SameEnd(m, x)
      /\ x.activeAction = m.activeAction /\ x.activeAuto = m.activeAuto /\ x.queue = m.queue
  BY <1>a, <1>1, NumberedModel
<1>3. CASE m.activeAction = None /\ m' = Started(x, x.serial) /\ cmds' = cmds \union {ActionCmd(m')}
  <2>1. PICK a \in Actions : a = [id |-> x.serial, streamed |-> x.streamActive]
    BY <1>2 DEF Actions, Models
  <2>2. a # None /\ a.id = x.serial
    BY <2>1, ClientAssumption DEF Actions
  <2>3. PICK z : z = [x EXCEPT !.activeAction = a]
    OBVIOUS
  <2>4. m' = z
    BY <1>3, <2>1, <2>3 DEF Started
  <2>5. /\ z \in Models(game.version) /\ z.activeAction = a /\ SameFollow(x, z) /\ SameScreen(x, z)
        /\ SameEnd(x, z) /\ z.serial = x.serial /\ z.queue = x.queue /\ z.activeAuto = x.activeAuto
    BY <1>2, <2>3 DEF Models, SameFollow, SameScreen, SameEnd
  <2>6. ActionCmd(z) \in ActionCommands /\ ActionCmd(z).view = Blank /\ ActionCmd(z).id = x.serial
    BY <1>a, <1>2, <2>2, <2>5, NewActionCommand
  <2>7. /\ {ActionCmd(z)} \in SUBSET Commands /\ Follow({ActionCmd(z)}) = {}
        /\ Known({ActionCmd(z)}) /\ ActionCmd(z).kind = "action"
    BY <1>a, <2>6, BlankIsView DEF Commands, ActionCommands, Follow, Known
  <2>8. SameFollow(m, z) /\ z.shown = m.shown /\ SameEnd(m, z) /\ z.queue \in Seq(Nat \ {0})
    BY <1>a, <1>2, <2>5 DEF SameFollow, SameScreen, SameEnd
  <2>9. Types' /\ FInv' /\ StreamStep
    BY <1>b, <1>3, <2>4, <2>5, <2>7, <2>8, KeyKeeps DEF SameEnd
  <2>10. Begins(ActionCmd(z))
    <3>1. Work(cmds') \subseteq Work(cmds) \union {ActionCmd(z)}
      BY <1>3, <2>4 DEF Work
    <3>2. QED
      BY <1>b, <1>2, <1>3, <2>2, <2>4, <2>5, <2>6, <2>7, <2>8, <3>1 DEF Begins
  <2>11. QED
    BY <2>9, <2>10 DEF Keeps, PlayStep
<1>4. CASE /\ m.activeAction # None /\ Len(m.queue) < QueueLimit
           /\ m' = [x EXCEPT !.queue = Append(@, x.serial)] /\ UNCHANGED cmds
  <2>1. PICK q \in Seq(Nat \ {0}) : q = Append(m.queue, x.serial)
    <3>1. Append(m.queue, x.serial) \in Seq(Nat \ {0})
      BY <1>a, <1>2, AppendProperties
    <3>2. QED
      BY <3>1
  <2>2. q \in Seq(Nat)
    BY <2>1
  <2>3. PICK z : z = [x EXCEPT !.queue = q]
    OBVIOUS
  <2>4. m' = z
    BY <1>2, <1>4, <2>1, <2>3 DEF Models
  <2>5. /\ z \in Models(game.version) /\ z.queue = q /\ SameFollow(x, z) /\ SameScreen(x, z)
        /\ SameEnd(x, z) /\ z.serial = x.serial /\ z.activeAction = x.activeAction
        /\ z.activeAuto = x.activeAuto
    BY <1>2, <2>2, <2>3 DEF Models, SameFollow, SameScreen, SameEnd
  <2>6. SameFollow(m, z) /\ z.shown = m.shown /\ SameEnd(m, z)
    BY <1>2, <2>5 DEF SameFollow, SameScreen, SameEnd
  <2>7. {} \in SUBSET Commands /\ Follow({}) = {} /\ Known({}) /\ cmds' = cmds \union {}
    BY <1>4 DEF Follow, Known
  <2>8. Types' /\ FInv' /\ StreamStep
    BY <1>b, <2>1, <2>4, <2>5, <2>6, <2>7, KeyKeeps DEF SameEnd
  <2>9. Waits
    BY <1>b, <1>2, <1>4, <2>1, <2>4, <2>5, <2>6 DEF Waits
  <2>10. QED
    BY <2>8, <2>9 DEF Keeps, PlayStep
<1>5. QED
  BY <1>1, <1>3, <1>4 DEF ActionKey

LEMMA AutoKeyStep ==
  ASSUME Types, FInv, NEW name \in AutoKinds, AutoKey(name)
  PROVE  Keeps
<1>a. /\ game.version \in Nat /\ m \in Models(game.version) /\ m.queue \in Seq(Nat \ {0})
      /\ name \in {"run", "travel", "landmark"}
  BY ModelNow, ClientAssumption DEF Types
<1>b. /\ ~left /\ ~m.ending /\ m.activeAction = None /\ m.activeAuto = None
      /\ m.setup = "complete" /\ UNCHANGED <<serverVars, left>> /\ acted' = acted
  BY DEF AutoKey, CanPlay, Ready, IsPending, serverVars
<1>1. PICK x : x = Numbered(m)
  OBVIOUS
<1>2. /\ x \in Models(game.version) /\ x.serial = m.serial + 1 /\ x.serial \in Nat \ {0}
      /\ SameFollow(m, x) /\ SameScreen(m, x) /\ SameEnd(m, x)
      /\ x.activeAction = m.activeAction /\ x.activeAuto = m.activeAuto /\ x.queue = m.queue
  BY <1>a, <1>1, NumberedModel
<1>3. PICK a \in Autos : a = [id |-> x.serial, streamed |-> m.streamActive, cancel |-> FALSE]
  BY <1>a, <1>2 DEF Autos, Models
<1>4. a # None /\ a.id = x.serial
  BY <1>3, ClientAssumption DEF Autos
<1>5. PICK z : z = [x EXCEPT !.activeAuto = a]
  OBVIOUS
<1>6. m' = z /\ cmds' = cmds \union {AutoCmd(z, name)}
  BY <1>1, <1>3, <1>5 DEF AutoKey
<1>7. /\ z \in Models(game.version) /\ z.activeAuto = a /\ SameFollow(x, z) /\ SameScreen(x, z)
      /\ SameEnd(x, z) /\ z.serial = x.serial /\ z.queue = x.queue
      /\ z.activeAction = x.activeAction
  BY <1>2, <1>5 DEF Models, SameFollow, SameScreen, SameEnd
<1>8. /\ AutoCmd(z, name) \in AutoCommands /\ AutoCmd(z, name).view.version <= game.version
      /\ AutoCmd(z, name).id = x.serial
  BY <1>a, <1>2, <1>4, <1>7, NewAutoCommand
<1>9. /\ {AutoCmd(z, name)} \in SUBSET Commands /\ Follow({AutoCmd(z, name)}) = {}
      /\ Known({AutoCmd(z, name)}) /\ AutoCmd(z, name).kind = "auto"
  BY <1>8 DEF Commands, AutoCommands, Follow, Known
<1>10. SameFollow(m, z) /\ z.shown = m.shown /\ SameEnd(m, z) /\ z.queue \in Seq(Nat \ {0})
  BY <1>a, <1>2, <1>7 DEF SameFollow, SameScreen, SameEnd
<1>11. Types' /\ FInv' /\ StreamStep
  BY <1>b, <1>6, <1>7, <1>9, <1>10, KeyKeeps DEF SameEnd
<1>12. Runs(AutoCmd(z, name))
  <2>1. Work(cmds') \subseteq Work(cmds) \union {AutoCmd(z, name)}
    BY <1>6 DEF Work
  <2>2. QED
    BY <1>b, <1>2, <1>4, <1>6, <1>7, <1>8, <1>9, <1>10, <2>1 DEF Runs
<1>13. QED
  BY <1>11, <1>12 DEF Keeps, PlayStep

LEMMA RequestTerminalStep ==
  ASSUME Types, FInv, NEW intent \in {"save", "quit"}, CanPlay, RequestTerminal(intent),
         UNCHANGED <<serverVars, left>>
  PROVE  Keeps
<1>a. /\ game.version \in Nat /\ m \in Models(game.version)
      /\ ~left /\ ~m.ending /\ m.setup = "complete" /\ acted' = acted
  BY ModelNow DEF CanPlay, Ready, serverVars
<1>1. PICK w : w = AutoCancelled(m)
  OBVIOUS
<1>2. /\ w \in Models(game.version) /\ SameFollow(m, w) /\ SameScreen(m, w)
      /\ w.serial = m.serial /\ w.activeAction = m.activeAction
      /\ w.activeAuto = None <=> m.activeAuto = None
      /\ m.activeAuto # None => w.activeAuto.id = m.activeAuto.id
  BY <1>a, <1>1, CancelledModel
<1>3. PICK z : z = [w EXCEPT !.asking = FALSE, !.ending = TRUE, !.intent = intent, !.queue = <<>>]
  OBVIOUS
<1>4. m' = z /\ cmds' = cmds \union TerminalCmds(z)
  BY <1>1, <1>3 DEF RequestTerminal
<1>5. <<>> \in Seq(Nat) /\ <<>> \in Seq(Nat \ {0})
  OBVIOUS
<1>6. /\ z \in Models(game.version) /\ SameFollow(w, z) /\ SameScreen(w, z)
      /\ z.serial = w.serial /\ z.activeAction = w.activeAction /\ z.activeAuto = w.activeAuto
      /\ z.ending /\ z.intent = intent /\ z.queue = <<>>
  BY <1>2, <1>3, <1>5 DEF Models, SameFollow, SameScreen
<1>7. /\ TerminalCmds(z) \in SUBSET Commands /\ Follow(TerminalCmds(z)) = {} /\ Known(TerminalCmds(z))
  BY <1>a, <1>6, TerminalParts DEF Known
<1>8. SameFollow(m, z) /\ z.shown = m.shown /\ SameAuto(m, z)
  BY <1>2, <1>6 DEF SameFollow, SameScreen, SameAuto
<1>9. Types' /\ FInv' /\ StreamStep
  BY <1>a, <1>4, <1>5, <1>6, <1>7, <1>8, KeyKeeps
<1>10. Closes
  <2>1. Work(cmds') \subseteq Work(cmds) \union TerminalCmds(m')
    BY <1>4 DEF Work
  <2>2. QED
    BY <1>a, <1>2, <1>4, <1>6, <1>8, <2>1 DEF Closes
<1>11. QED
  BY <1>9, <1>10 DEF Keeps, PlayStep

\* Keys that start nothing.
LEMMA QuietKeyStep ==
  ASSUME Types, FInv, ~left, NEW x \in Models(game.version), NEW new \in SUBSET Commands,
         UNCHANGED <<serverVars, left>>, m' = x, cmds' = cmds \union new,
         Follow(new) = {}, Work(new) = {}, Known(new),
         SameFollow(m, x), x.shown = m.shown, SameAuto(m, x), SameEnd(m, x),
         x.activeAction = m.activeAction, x.queue = m.queue, x.serial \in {m.serial, m.serial + 1}
  PROVE  Keeps
<1>1. x.queue \in Seq(Nat \ {0}) /\ (m.ending => x.ending)
  BY DEF Types, SameEnd
<1>2. Types' /\ FInv' /\ StreamStep
  BY <1>1, KeyKeeps
<1>3. Work(cmds') = Work(cmds) \union Work(new)
  BY DEF Work
<1>4. Work(cmds') \subseteq Work(cmds) /\ acted' = acted
  BY <1>3 DEF serverVars
<1>5. Idles
  BY <1>4 DEF Idles
<1>6. QED
  BY <1>2, <1>5 DEF Keeps, PlayStep

LEMMA SetupKeyStep ==
  ASSUME Types, FInv, NEW phase, NEW next \in Setups,
         NEW calls \in {<<"role">>, <<"no">>, <<"role", "yes">>}, SetupKey(phase, calls, next)
  PROVE  Keeps
<1>a. /\ game.version \in Nat /\ m \in Models(game.version)
      /\ ~left /\ UNCHANGED <<serverVars, left>>
  BY ModelNow DEF SetupKey
<1>1. PICK x : x = Numbered(m)
  OBVIOUS
<1>2. /\ x \in Models(game.version) /\ x.serial = m.serial + 1 /\ x.serial \in Nat \ {0}
      /\ SameFollow(m, x) /\ SameScreen(m, x) /\ SameEnd(m, x)
      /\ x.activeAction = m.activeAction /\ x.activeAuto = m.activeAuto /\ x.queue = m.queue
  BY <1>a, <1>1, NumberedModel
<1>3. PICK r \in Nat : r = x.setupReq + 1
  <2>1. x.setupReq \in Nat
    BY <1>2 DEF Models
  <2>2. QED
    BY <2>1
<1>4. PICK z : z = [x EXCEPT !.setup = next, !.setupPending = TRUE, !.setupReq = r]
  OBVIOUS
<1>5. m' = z /\ cmds' = cmds \union {SetupCmd(z, calls)}
  <2>1. z = [x EXCEPT !.setup = next, !.setupPending = TRUE, !.setupReq = @ + 1]
    BY <1>2, <1>3, <1>4 DEF Models
  <2>2. QED
    BY <1>1, <2>1 DEF SetupKey
<1>6. /\ z \in Models(game.version) /\ SameFollow(x, z) /\ z.shown = x.shown /\ SameEnd(x, z)
      /\ z.serial = x.serial /\ z.activeAction = x.activeAction /\ z.activeAuto = x.activeAuto
      /\ z.queue = x.queue /\ z.setupReq = r
  BY <1>2, <1>4 DEF Models, SameFollow, SameEnd, Setups
<1>7. SetupCmd(z, calls) \in SetupCommands /\ SetupCmd(z, calls).view = Blank
  <2>1. PICK t \in SetupCalls : t = Append(calls, "get")
    <3>1. Append(calls, "get") \in {<<"role", "get">>, <<"no", "get">>, <<"role", "yes", "get">>}
      BY Appends
    <3>2. QED
      BY <3>1 DEF SetupCalls
  <2>2. SetupCmd(z, calls) = [kind |-> "setup", id |-> r, gen |-> z.gen, serial |-> z.serial,
                              todo |-> t, view |-> Blank, err |-> FALSE]
    BY <1>6, <2>1 DEF SetupCmd
  <2>3. z.gen \in Nat /\ z.serial \in Nat
    BY <1>6 DEF Models
  <2>4. QED
    BY <2>2, <2>3, BlankIsView DEF SetupCommands
<1>8. /\ {SetupCmd(z, calls)} \in SUBSET Commands /\ Follow({SetupCmd(z, calls)}) = {}
      /\ Work({SetupCmd(z, calls)}) = {} /\ Known({SetupCmd(z, calls)})
  BY <1>a, <1>7, BlankIsView DEF Commands, SetupCommands, Follow, Work, Known
<1>9. /\ SameFollow(m, z) /\ z.shown = m.shown /\ SameEnd(m, z) /\ SameAuto(m, z)
      /\ z.activeAction = m.activeAction /\ z.queue = m.queue /\ z.serial = m.serial + 1
  BY <1>2, <1>6 DEF SameFollow, SameScreen, SameEnd, SameAuto
<1>10. QED
  BY <1>a, <1>5, <1>6, <1>8, <1>9, QuietKeyStep

\* A model in which nothing but the prompt, the pane or a cancellation differs.
LEMMA QuietModels ==
  ASSUME NEW v \in Nat, NEW x \in Models(v), NEW p \in {"never", "open", "dismissed"}, NEW a \in BOOLEAN
  PROVE  LET y == [x EXCEPT !.pane = p]
             z == [x EXCEPT !.asking = a]
         IN  /\ y \in Models(v) /\ SameFollow(x, y) /\ y.shown = x.shown /\ SamePlay(x, y)
             /\ z \in Models(v) /\ SameFollow(x, z) /\ z.shown = x.shown /\ SamePlay(x, z)
BY DEF Models, SameFollow, SamePlay

LEMMA KeyStep ==
  ASSUME Types, FInv, Key
  PROVE  Keeps
<1>a. game.version \in Nat /\ m \in Models(game.version)
  BY ModelNow
<1>b. Follow({}) = {} /\ Work({}) = {} /\ Known({}) /\ {} \in SUBSET Commands
  BY DEF Follow, Work, Known
<1>c. ASSUME NEW x \in Models(game.version), ~left, m' = x, UNCHANGED <<serverVars, cmds, left>>,
             SameFollow(m, x), x.shown = m.shown, SameAuto(m, x), SameEnd(m, x),
             x.activeAction = m.activeAction, x.queue = m.queue, x.serial = m.serial
      PROVE  Keeps
  <2>1. cmds' = cmds \union {} /\ UNCHANGED <<serverVars, left>>
    BY <1>c
  <2>2. QED
    BY <1>b, <1>c, <2>1, QuietKeyStep
<1>d. PICK w : w = AutoCancelled(m)
  OBVIOUS
<1>e. /\ w \in Models(game.version) /\ SameFollow(m, w) /\ w.shown = m.shown
      /\ w.serial = m.serial /\ w.activeAction = m.activeAction /\ w.queue = m.queue
      /\ SameEnd(m, w) /\ SameAuto(m, w)
  <2>1. /\ w \in Models(game.version) /\ SameFollow(m, w) /\ SameScreen(m, w)
        /\ w.serial = m.serial /\ w.activeAction = m.activeAction /\ w.queue = m.queue
        /\ w.ending = m.ending /\ w.intent = m.intent
        /\ w.activeAuto = None <=> m.activeAuto = None
        /\ m.activeAuto # None => w.activeAuto.id = m.activeAuto.id
    BY <1>a, <1>d, CancelledModel
  <2>2. QED
    BY <2>1 DEF SameScreen, SameEnd, SameAuto
<1>1. CASE StopKey
  <2>1. ~left /\ m' = w /\ UNCHANGED <<serverVars, cmds, left>>
    BY <1>1, <1>d DEF StopKey, CanPlay
  <2>2. QED
    BY <1>c, <1>e, <2>1
<1>2. CASE QuitKey
  <2>1. PICK z : z = [w EXCEPT !.asking = TRUE]
    OBVIOUS
  <2>2. ~left /\ m' = z /\ UNCHANGED <<serverVars, cmds, left>>
    BY <1>2, <1>d, <2>1 DEF QuitKey, CanPlay
  <2>3. z \in Models(game.version) /\ SameFollow(w, z) /\ z.shown = w.shown /\ SamePlay(w, z)
    BY <1>a, <1>e, <2>1, QuietModels
  <2>4. /\ SameFollow(m, z) /\ z.shown = m.shown /\ SameEnd(m, z) /\ SameAuto(m, z)
        /\ z.activeAction = m.activeAction /\ z.queue = m.queue /\ z.serial = m.serial
    BY <1>e, <2>3 DEF SameFollow, SamePlay, SameEnd, SameAuto
  <2>5. QED
    BY <1>c, <2>2, <2>3, <2>4
<1>3. CASE QuitAnswer
  <2>1. CASE RequestTerminal("quit")
    <3>1. CanPlay /\ UNCHANGED <<serverVars, left>>
      BY <1>3 DEF QuitAnswer
    <3>2. QED
      BY <2>1, <3>1, RequestTerminalStep
  <2>2. CASE m' = [m EXCEPT !.asking = FALSE] /\ UNCHANGED cmds
    <3>1. PICK z : z = [m EXCEPT !.asking = FALSE]
      OBVIOUS
    <3>2. ~left /\ m' = z /\ UNCHANGED <<serverVars, cmds, left>>
      BY <1>3, <2>2, <3>1 DEF QuitAnswer, CanPlay
    <3>3. z \in Models(game.version) /\ SameFollow(m, z) /\ z.shown = m.shown /\ SamePlay(m, z)
      BY <1>a, <3>1, QuietModels
    <3>4. SameEnd(m, z) /\ SameAuto(m, z)
      BY <3>3 DEF SamePlay, SameEnd, SameAuto
    <3>5. QED
      BY <1>c, <3>2, <3>3, <3>4 DEF SamePlay
  <2>3. QED
    BY <1>3, <2>1, <2>2 DEF QuitAnswer
<1>4. CASE SaveKey
  <2>1. CanPlay /\ RequestTerminal("save") /\ UNCHANGED <<serverVars, left>>
    BY <1>4 DEF SaveKey
  <2>2. QED
    BY <2>1, RequestTerminalStep
<1>5. CASE InterruptKey
  <2>1. ~left /\ cmds' = cmds \union {QuitCmd} /\ m' = m /\ UNCHANGED <<serverVars, left>>
    BY <1>5 DEF InterruptKey
  <2>2. {QuitCmd} \in SUBSET Commands /\ Follow({QuitCmd}) = {} /\ Work({QuitCmd}) = {}
        /\ Known({QuitCmd})
    BY DEF QuitCmd, Commands, QuitCommands, Follow, Work, Known, HasView
  <2>3. SameFollow(m, m) /\ SameEnd(m, m) /\ SameAuto(m, m)
    BY DEF SameFollow, SameEnd, SameAuto
  <2>4. QED
    BY <1>a, <2>1, <2>2, <2>3, QuietKeyStep
<1>6. CASE DismissKey
  <2>1. PICK z : z = [m EXCEPT !.pane = "dismissed"]
    OBVIOUS
  <2>2. ~left /\ m' = z /\ UNCHANGED <<serverVars, cmds, left>>
    BY <1>6, <2>1 DEF DismissKey
  <2>3. z \in Models(game.version) /\ SameFollow(m, z) /\ z.shown = m.shown /\ SamePlay(m, z)
    BY <1>a, <2>1, QuietModels
  <2>4. SameEnd(m, z) /\ SameAuto(m, z)
    BY <2>3 DEF SamePlay, SameEnd, SameAuto
  <2>5. QED
    BY <1>c, <2>2, <2>3, <2>4 DEF SamePlay
<1>7. CASE RoleKey \/ NoKey \/ YesKey
  <2>1. \E phase, next \in Setups, calls \in {<<"role">>, <<"no">>, <<"role", "yes">>} :
          SetupKey(phase, calls, next)
    BY <1>7 DEF RoleKey, NoKey, YesKey, Setups
  <2>2. QED
    BY <2>1, SetupKeyStep
<1>8. QED
  BY <1>1, <1>2, <1>3, <1>4, <1>5, <1>6, <1>7, ActionKeyStep, AutoKeyStep DEF Key

-----------------------------------------------------------------------------
(* Commands at work, and the rest of the world.                            *)

LEMMA ModelsGrow ==
  ASSUME NEW v \in Nat, NEW w \in Nat, v <= w
  PROVE  Models(v) \subseteq Models(w)
<1>1. 0..v \subseteq 0..w
  OBVIOUS
<1>2. PICK S, T : S = 0..v /\ T = 0..w
  OBVIOUS
<1>3. S \subseteq T
  BY <1>1, <1>2
<1>4. QED
  BY <1>2, <1>3 DEF Models

\* What leaves the model alone and changes no command.
LEMMA WorldKeeps ==
  ASSUME Types, FInv, m' = m, cmds' = cmds, left' = left, acted' = acted, StreamStep,
         \A c \in cmds : c.kind = "open" /\ c.todo = <<>> /\ ~c.err => wire' # <<>>
  PROVE  Keeps
<1>1. /\ game' \in Games /\ game'.version >= game.version
      /\ link' \in {"none", "open", "closed"} /\ wire' \in Seq(Events) /\ WirePast'
  BY StreamKept
<1>2. {} \in SUBSET Commands /\ Known({}) /\ cmds' \subseteq cmds \union {}
  BY DEF Known
<1>3. cmds' \subseteq Commands /\ ViewsPast'
  BY <1>1, <1>2, CommandsKept
<1>4. m' \in Models(game'.version)
  <2>1. game.version \in Nat /\ game'.version \in Nat /\ m \in Models(game.version)
    BY <1>1, ModelNow DEF Games
  <2>2. QED
    BY <1>1, <2>1, ModelsGrow
<1>5. Types'
  BY <1>1, <1>3, <1>4 DEF Types
<1>6. FInv'
  BY DEF FInv
<1>7. Idles
  BY <1>4 DEF Idles, SameAuto, SameEnd
<1>8. QED
  BY <1>5, <1>6, <1>7 DEF Keeps, PlayStep

LEMMA OtherClientStep ==
  ASSUME Types, FInv, NEW call \in {"act", "role", "yes", "save", "quit"}, OtherClient(call)
  PROVE  Keeps
<1>1. /\ Serve(call) /\ m' = m /\ cmds' = cmds /\ left' = left /\ acted' = acted /\ link' = link
  BY DEF OtherClient
<1>2. game \in Games /\ wire \in Seq(Events)
  BY DEF Types
<1>3. Announced
  BY <1>1, <1>2, ServeGame
<1>4. StreamStep
  BY <1>1, <1>3 DEF StreamStep, Called
<1>5. wire # <<>> => wire' # <<>>
  <2>1. \A e : Append(wire, e) # <<>>
    BY <1>2
  <2>2. QED
    BY <1>3, <2>1 DEF Announced
<1>6. QED
  BY <1>1, <1>4, <1>5, WorldKeeps DEF FInv

\* The first events of a stream that breaks off.
LEMMA FirstEvents ==
  ASSUME NEW w \in Seq(Events), NEW n \in 0..Len(w), n > 0
  PROVE  SubSeq(w, 1, n) # <<>>
<1>1. n \in Nat /\ Len(SubSeq(w, 1, n)) = n
  OBVIOUS
<1>2. QED
  BY <1>1

LEMMA BreakStep ==
  ASSUME Types, FInv, Cut \/ Restart
  PROVE  Keeps
<1>1. /\ m' = m /\ cmds' = cmds /\ left' = left /\ acted' = acted
  BY DEF Cut, Restart
<1>2. /\ game \in Games /\ wire \in Seq(Events) /\ game.version \in Nat \ {0}
      /\ game.setup \in Setups /\ game.over \in Overs /\ link \in {"none", "open", "closed"}
  BY DEF Types, Games
<1>3. PICK n \in 0..Len(wire) :
        wire' = SubSeq(wire, 1, n) /\ (m.streamConnecting /\ wire # <<>> => n > 0)
  BY DEF Cut, Restart
<1>4. game' \in Games /\ game'.version >= game.version
  <2>1. CASE Cut
    BY <1>2, <2>1 DEF Cut
  <2>2. CASE Restart
    <3>1. PICK s \in Setups : s = IF game.over = "quit" THEN "selectRole" ELSE game.setup
      BY <1>2 DEF Setups
    <3>2. PICK k \in Nat \ {0} : k = game.version + 1
      BY <1>2
    <3>3. game' = [version |-> k, prose |-> FALSE, over |-> "no", setup |-> s]
      BY <2>2, <3>1, <3>2 DEF Restart
    <3>4. QED
      BY <1>2, <3>2, <3>3 DEF Games, Overs
  <2>3. QED
    BY <2>1, <2>2
<1>5. link' \in {"none", "closed"}
  BY <1>2 DEF Cut, Restart
<1>6. StreamStep
  BY <1>1, <1>3, <1>4, <1>5 DEF StreamStep, Loses
<1>7. ASSUME NEW c \in cmds, c.kind = "open" /\ c.todo = <<>> /\ ~c.err
      PROVE  wire' # <<>>
  <2>1. wire # <<>>
    BY <1>7 DEF FInv
  <2>2. m.streamConnecting
    BY <1>7, FollowerIsAlone DEF FollowedBy
  <2>3. QED
    BY <1>2, <1>3, <2>1, <2>2, FirstEvents
<1>8. QED
  BY <1>1, <1>6, <1>7, WorldKeeps

LEMMA CommandStep ==
  ASSUME Types, FInv, NEW c \in cmds, Works(c) \/ Fails(c)
  PROVE  Keeps
<1>a. /\ game \in Games /\ game.version \in Nat \ {0} /\ m \in Models(game.version)
      /\ wire \in Seq(Events) /\ c \in Commands /\ ~left
  BY DEF Types, Games, FInv
<1>b. c.kind \in {"poll", "action", "setup", "end", "auto", "open"}
  BY DEF Works, Fails, Call, See, AutoGoesOn, AutoEnds, AutoBreaksOff, Connect, Refused,
         AnswerLost, ConnectFails, Calls
<1>1. m' = m /\ left' = left
  BY <1>a, WorkStep DEF Types
<1>2. \/ acted' = acted
      \/ /\ c.kind = "action" /\ c.todo # <<>> /\ Head(c.todo) = "act"
         /\ acted' = Append(acted, c.id)
  BY <1>a, WorkStep DEF Types
<1>3. PICK d : /\ Continues(c, d) /\ Replaces(c, d)
               /\ \/ link' = link /\ Announced /\ (c.kind = "open" => d.err)
                  \/ Connected(c, d)
  BY <1>a, WorkStep DEF Types
<1>4. d \in Commands /\ d.kind = c.kind /\ Replace(c, {d}) /\ cmds' = (cmds \ {c}) \union {d}
  BY <1>3 DEF Continues, Replaces, Replace
<1>5. StreamStep
  <2>1. CASE link' = link /\ Announced
    BY <1>1, <2>1 DEF StreamStep, Called
  <2>2. CASE Connected(c, d)
    <3>1. ~m.streamActive
      BY <2>2, FollowerIsAlone DEF Connected, FollowedBy
    <3>2. QED
      BY <1>1, <2>2, <3>1 DEF StreamStep, Connects, Connected
  <2>3. QED
    BY <1>3, <2>1, <2>2
<1>6. /\ game' \in Games /\ game'.version >= game.version
      /\ link' \in {"none", "open", "closed"} /\ wire' \in Seq(Events) /\ WirePast'
  BY <1>5, StreamKept
<1>7. Types'
  <2>1. Known({d})
    <3>1. SUFFICES ASSUME HasView(d) PROVE d.view.version <= game.version
      BY DEF Known
    <3>2. HasView(c)
      BY <1>4, <3>1 DEF HasView
    <3>3. c.view.version <= game.version
      BY <3>2 DEF Types, ViewsPast
    <3>4. ViewOf(game).version <= game.version /\ Blank.version <= game.version
      BY <1>a, ViewIsView, BlankIsView
    <3>5. QED
      BY <1>3, <3>2, <3>3, <3>4 DEF Continues
  <2>2. cmds' \subseteq Commands /\ ViewsPast'
    BY <1>4, <1>6, <2>1, CommandsKept
  <2>3. acted' \in Seq(Nat)
    <3>1. acted \in Seq(Nat)
      BY DEF Types
    <3>2. c.kind = "action" => c.id \in Nat
      BY <1>a, CommandOfKind DEF ActionCommands
    <3>3. c.kind = "action" => Append(acted, c.id) \in Seq(Nat)
      BY <3>1, <3>2, AppendProperties
    <3>4. QED
      BY <1>2, <3>1, <3>3
  <2>4. m' \in Models(game'.version)
    <3>1. game'.version \in Nat
      BY <1>6 DEF Games
    <3>2. QED
      BY <1>1, <1>6, <1>a, <3>1, ModelsGrow
  <2>5. QED
    BY <1>1, <1>6, <2>2, <2>3, <2>4 DEF Types
<1>8. FInv'
  <2>1. CASE c.kind # "open"
    <3>1. c.kind \notin {"open", "read", "timer"} /\ d.kind \notin {"open", "read", "timer"}
      BY <1>4, <1>b, <2>1
    <3>2. Follow({d}) = {}
      BY <3>1 DEF Follow
    <3>3. Follow(cmds') = Follow(cmds)
      BY <1>4, <3>1, <3>2, ReplacedParts
    <3>4. wire # <<>> => wire' # <<>>
      <4>1. \A e : Append(wire, e) # <<>>
        BY <1>a
      <4>2. Announced
        BY <1>3, <2>1 DEF Connected
      <4>3. QED
        BY <4>1, <4>2 DEF Announced
    <3>5. SameFollow(m, m')
      BY <1>1 DEF SameFollow
    <3>6. QED
      BY <1>1, <1>a, <3>3, <3>4, <3>5, FollowKept
  <2>2. CASE c.kind = "open"
    <3>1. Follow(cmds) = {c} /\ FollowedBy(m, c)
      BY <2>2, FollowerIsAlone
    <3>2. Follow({d}) = {d}
      BY <1>4, <2>2 DEF Follow
    <3>3. Follow(cmds') = {d} /\ d \in cmds'
      <4>1. Follow(cmds') = (Follow(cmds) \ {c}) \union Follow({d})
        BY <1>4, ReplacedParts
      <4>2. QED
        BY <1>4, <3>1, <3>2, <4>1
    <3>4. FollowedBy(m', d)
      BY <1>1, <1>3, <1>4, <2>2, <3>1 DEF FollowedBy, Continues
    <3>5. ~d.err => wire' # <<>>
      BY <1>3, <2>2, Lists DEF Connected
    <3>6. \A e \in cmds' : e.kind = "open" => e = d
      BY <3>3 DEF Follow
    <3>7. QED
      BY <1>1, <1>a, <3>3, <3>4, <3>5, <3>6 DEF FInv
  <2>3. QED
    BY <2>1, <2>2
<1>9. PlayStep
  <2>1. SamePlay(m, m')
    BY <1>1 DEF SamePlay
  <2>2. CASE c \in Work(cmds)
    <3>1. Work(cmds') \subseteq (Work(cmds) \ {c}) \union {d}
      BY <1>4 DEF Work
    <3>2. Carries(c, d)
      BY <1>2, <1>3, <2>1, <2>2, <3>1 DEF Carries
    <3>3. QED
      BY <3>2 DEF PlayStep
  <2>3. CASE c \notin Work(cmds)
    <3>1. c.kind \notin {"action", "auto", "end"} /\ d.kind \notin {"action", "auto", "end"}
      BY <1>4, <2>3 DEF Work
    <3>2. Work(cmds') \subseteq Work(cmds)
      BY <1>4, <3>1 DEF Work
    <3>3. Idles
      BY <1>1, <1>2, <3>1, <3>2 DEF Idles, SameAuto, SameEnd
    <3>4. QED
      BY <3>3 DEF PlayStep
  <2>4. QED
    BY <2>2, <2>3
<1>10. QED
  BY <1>5, <1>7, <1>8, <1>9 DEF Keeps

LEMMA StepKeeps ==
  ASSUME Types, FInv, [Next]_vars
  PROVE  Keeps
<1>1. CASE UNCHANGED vars
  <2>1. /\ UNCHANGED <<game, acted, link, wire, m, cmds, left>>
    BY <1>1 DEF vars, serverVars
  <2>2. StreamStep
    BY <2>1 DEF StreamStep, Called, Announced, Types, Games
  <2>3. QED
    BY <2>1, <2>2, WorldKeeps DEF FInv
<1>2. CASE Next
  BY <1>2, KeyStep, CommandStep, UpdateStep, BreakStep, OtherClientStep DEF Next
<1>3. QED
  BY <1>1, <1>2

LEMMA Starts ==
  ASSUME Init
  PROVE  Types /\ FInv /\ WInv /\ OInv /\ DInv
<1>1. /\ acted = <<>> /\ link = "none" /\ wire = <<>> /\ cmds = {OpenCmd(m)} /\ left = FALSE
      /\ m.queue = <<>> /\ m.activeAction = None /\ m.activeAuto = None /\ ~m.ending
      /\ m.intent = "none" /\ m.gen = 1 /\ m.streamConnecting /\ ~m.streamActive
      /\ ~m.retryScheduled
  BY DEF Init
<1>2. game \in Games /\ game.version = 1
  <2>1. PICK prose \in {FALSE, FirstSetup = "complete"} :
          game = [version |-> 1, setup |-> FirstSetup, prose |-> prose, over |-> "no"]
    BY DEF Init
  <2>2. PICK p \in BOOLEAN : p = prose
    OBVIOUS
  <2>3. QED
    BY <2>1, <2>2, ClientAssumption DEF Games, Setups, Overs
<1>3. m \in Models(game.version)
  <2>1. <<>> \in Seq(Nat) /\ 0 \in 0..1 /\ None \in Actions \union {None} /\ None \in Autos \union {None}
    OBVIOUS
  <2>2. QED
    BY <1>2, <2>1 DEF Init, Models
<1>4. /\ OpenCmd(m) \in Commands /\ OpenCmd(m).kind = "open" /\ OpenCmd(m).gen = 1
      /\ OpenCmd(m).todo # <<>>
  <2>1. OpenCmd(m) \in OpenCommands /\ OpenCmd(m).todo # <<>> /\ OpenCmd(m).gen = m.gen
    BY <1>2, <1>3, NewCommands
  <2>2. QED
    BY <1>1, <2>1 DEF Commands, OpenCommands
<1>5. Types
  <2>1. ViewsPast
    BY <1>1, <1>4 DEF ViewsPast, HasView
  <2>2. <<>> \in Seq(Nat) /\ <<>> \in Seq(Nat \ {0}) /\ <<>> \in Seq(Events) /\ Len(<<>>) = 0
    OBVIOUS
  <2>3. WirePast
    BY <1>1, <2>2 DEF WirePast
  <2>4. QED
    BY <1>1, <1>2, <1>3, <1>4, <2>1, <2>2, <2>3 DEF Types
<1>6. FInv
  <2>1. Follow(cmds) = {OpenCmd(m)}
    BY <1>1, <1>4 DEF Follow
  <2>2. FollowedBy(m, OpenCmd(m))
    BY <1>1, <1>4 DEF FollowedBy
  <2>3. QED
    BY <1>1, <1>4, <2>1, <2>2 DEF FInv
<1>7. Work(cmds) = {}
  BY <1>1, <1>4 DEF Work
<1>8. WInv
  <2>1. Len(m.queue) <= QueueLimit
    <3>1. Len(m.queue) = 0 /\ QueueLimit \in Nat
      BY <1>1, ClientAssumption
    <3>2. QED
      BY <3>1
  <2>2. QED
    BY <1>1, <1>7, <2>1 DEF WInv
<1>9. OInv
  BY <1>1 DEF OInv
<1>10. DInv
  BY <1>1 DEF DInv
<1>11. QED
  BY <1>5, <1>6, <1>8, <1>9, <1>10

-----------------------------------------------------------------------------
(* One thing at a time.                                                    *)

LEMMA NoWork ==
  ASSUME WInv, m.activeAction = None, m.activeAuto = None, ~m.ending
  PROVE  Work(cmds) = {}
BY DEF WInv, Work

LEMMA TerminalAlone ==
  ASSUME NEW x
  PROVE  /\ \A c, d \in TerminalCmds(x) : c = d
         /\ \A c \in TerminalCmds(x) : /\ c.kind = "end" /\ x.activeAction = None
                                       /\ x.activeAuto = None /\ x.intent # "none"
<1>1. EndCmd(x).kind = "end"
  BY DEF EndCmd
<1>2. TerminalCmds(x) # {} => x.activeAction = None /\ x.activeAuto = None /\ x.intent # "none"
  BY DEF TerminalCmds
<1>3. TerminalCmds(x) \subseteq {EndCmd(x)}
  BY DEF TerminalCmds
<1>4. QED
  BY <1>1, <1>2, <1>3

\* A number that waits behind others, and the first of them.
LEMMA QueueGrows ==
  ASSUME NEW S, NEW q \in Seq(S), NEW e \in S
  PROVE  /\ Len(Append(q, e)) = Len(q) + 1 /\ Len(q) \in Nat
         /\ \A i \in 1..Len(q) : Append(q, e)[i] = q[i]
         /\ Append(q, e)[Len(q) + 1] = e
         /\ \A i \in 1..Len(q) + 1 : i \in 1..Len(q) \/ i = Len(q) + 1
<1>1. Len(q) \in Nat
  OBVIOUS
<1>2. \A i \in 1..Len(q) + 1 : i \in 1..Len(q) \/ i = Len(q) + 1
  BY <1>1
<1>3. QED
  BY <1>1, <1>2, AppendProperties

LEMMA QueueShrinks ==
  ASSUME NEW S, NEW q \in Seq(S), q # <<>>
  PROVE  /\ Len(Tail(q)) = Len(q) - 1 /\ Len(q) \in Nat \ {0} /\ Head(q) = q[1]
         /\ \A i \in 1..Len(Tail(q)) : i + 1 \in 1..Len(q) /\ Tail(q)[i] = q[i + 1]
         /\ 1 \in 1..Len(q)
OBVIOUS

LEMMA WKept ==
  ASSUME Types, WInv, PlayStep
  PROVE  WInv'
<1>a. /\ m.queue \in Seq(Nat \ {0}) /\ QueueLimit \in Nat \ {0} /\ Len(m.queue) <= QueueLimit
      /\ Len(m.queue) \in Nat /\ m.ending \in BOOLEAN
  <2>1. m.queue \in Seq(Nat \ {0}) /\ m \in Models(game.version) /\ Len(m.queue) <= QueueLimit
    BY DEF Types, WInv
  <2>2. m.ending \in BOOLEAN
    BY <2>1 DEF Models
  <2>3. Len(m.queue) \in Nat
    BY <2>1
  <2>4. QED
    BY <2>1, <2>2, <2>3, ClientAssumption
<1>1. CASE Idles
  <2>1. Len(m'.queue) <= QueueLimit
    BY <1>1, <1>a DEF Idles
  <2>2. QED
    BY <1>1, <2>1 DEF Idles, WInv, SameAuto, SameEnd
<1>2. CASE Waits
  <2>1. m'.serial \in Nat \ {0} /\ m'.queue = Append(m.queue, m'.serial) /\ Len(m.queue) < QueueLimit
    <3>1. m.serial \in Nat
      BY DEF Types, Models
    <3>2. QED
      BY <1>2, <3>1 DEF Waits
  <2>2. Len(m'.queue) <= QueueLimit
    BY <1>a, <2>1, QueueGrows
  <2>3. QED
    BY <1>2, <2>2 DEF Waits, WInv, SameEnd
<1>3. CASE Closes
  <2>1. Len(m'.queue) <= QueueLimit
    <3>1. Len(m'.queue) = 0
      BY <1>3 DEF Closes
    <3>2. QED
      BY <1>a, <3>1
  <2>2. /\ ~m.ending /\ m'.ending /\ m'.intent # "none"
        /\ m'.activeAction = m.activeAction /\ SameAuto(m, m')
    BY <1>3 DEF Closes
  <2>3. CASE m.activeAction = None /\ m.activeAuto = None
    <3>1. Work(cmds') \subseteq TerminalCmds(m')
      BY <1>3, <2>2, <2>3, NoWork DEF Closes
    <3>2. m'.activeAction = None /\ m'.activeAuto = None
      BY <2>2, <2>3 DEF SameAuto
    <3>3. QED
      BY <2>1, <2>2, <3>1, <3>2, TerminalAlone DEF WInv
  <2>4. CASE ~(m.activeAction = None /\ m.activeAuto = None)
    <3>1. TerminalCmds(m') = {}
      BY <2>2, <2>4, TerminalAlone DEF SameAuto
    <3>2. Work(cmds') \subseteq Work(cmds)
      BY <1>3, <3>1 DEF Closes
    <3>3. QED
      BY <2>1, <2>2, <3>2 DEF WInv, SameAuto
  <2>5. QED
    BY <2>3, <2>4
<1>4. CASE Ends
  <2>1. Len(m'.queue) <= QueueLimit
    BY <1>4, <1>a DEF Ends
  <2>2. QED
    BY <1>4, <2>1 DEF Ends, WInv, SameAuto
<1>5. ASSUME NEW d, Begins(d) PROVE WInv'
  <2>1. Len(m'.queue) <= QueueLimit /\ Work(cmds) = {}
    BY <1>5, <1>a, NoWork DEF Begins
  <2>2. QED
    BY <1>5, <2>1 DEF Begins, WInv, SameEnd
<1>6. ASSUME NEW d, Runs(d) PROVE WInv'
  <2>1. Len(m'.queue) <= QueueLimit /\ Work(cmds) = {}
    BY <1>6, <1>a, NoWork DEF Runs
  <2>2. QED
    BY <1>6, <2>1 DEF Runs, WInv, SameEnd
<1>7. ASSUME NEW c, Finishes(c) PROVE WInv'
  <2>1. /\ Work(cmds) \ {c} = {} /\ m.activeAuto = None /\ m'.activeAuto = None
        /\ m'.ending = m.ending /\ m'.intent = m.intent
    BY <1>7 DEF Finishes, WInv, SameEnd
  <2>2. CASE m.ending
    <3>1. Work(cmds') \subseteq TerminalCmds(m') /\ m'.queue = m.queue /\ m'.activeAction = None
      BY <1>7, <2>1, <2>2 DEF Finishes
    <3>2. QED
      BY <1>a, <2>1, <2>2, <3>1, TerminalAlone DEF WInv
  <2>3. CASE ~m.ending /\ m.queue # <<>>
    <3>1. PICK d : /\ d.kind = "action" /\ d.id = Head(m.queue)
                   /\ Work(cmds') \subseteq {d}
      BY <1>7, <2>1, <2>3 DEF Finishes
    <3>2. m'.queue = Tail(m.queue) /\ m'.activeAction # None /\ m'.activeAction.id = Head(m.queue)
      BY <1>7, <2>3 DEF Finishes
    <3>3. Len(m'.queue) <= QueueLimit
      BY <1>a, <2>3, <3>2, QueueShrinks
    <3>4. m.intent = "none"
      BY <2>3 DEF WInv
    <3>5. QED
      BY <2>1, <2>3, <3>1, <3>2, <3>3, <3>4 DEF WInv
  <2>4. CASE ~m.ending /\ m.queue = <<>>
    <3>1. Work(cmds') \subseteq {} /\ m'.queue = m.queue /\ m'.activeAction = None
      BY <1>7, <2>1, <2>4 DEF Finishes
    <3>2. QED
      BY <1>a, <2>1, <2>4, <3>1 DEF WInv
  <2>5. QED
    BY <2>2, <2>3, <2>4
<1>8. ASSUME NEW c, Arrives(c) PROVE WInv'
  <2>1. /\ Work(cmds) \ {c} = {} /\ m.activeAction = None /\ m'.activeAction = None
        /\ m'.activeAuto = None /\ m'.ending = m.ending /\ m'.intent = m.intent
        /\ m'.queue = m.queue
    BY <1>8 DEF Arrives, WInv, SameEnd
  <2>2. CASE m.ending
    <3>1. Work(cmds') \subseteq TerminalCmds(m')
      BY <1>8, <2>1, <2>2 DEF Arrives
    <3>2. QED
      BY <1>a, <2>1, <2>2, <3>1, TerminalAlone DEF WInv
  <2>3. CASE ~m.ending
    <3>1. Work(cmds') \subseteq {}
      BY <1>8, <2>1, <2>3 DEF Arrives
    <3>2. QED
      BY <1>a, <2>1, <2>3, <3>1 DEF WInv
  <2>4. QED
    BY <2>2, <2>3
<1>9. ASSUME NEW c, Reopens(c) PROVE WInv'
  <2>1. Work(cmds') = {}
    BY <1>9 DEF Reopens, WInv
  <2>2. /\ m'.queue = m.queue /\ m'.activeAction = m.activeAction /\ m'.activeAuto = m.activeAuto
        /\ m'.intent = "none"
    BY <1>9 DEF Reopens
  <2>3. QED
    BY <1>a, <2>1, <2>2 DEF WInv
<1>10. ASSUME NEW c, NEW d, Carries(c, d) PROVE WInv'
  <2>1. Work(cmds) \ {c} = {} /\ c \in Work(cmds)
    BY <1>10 DEF Carries, WInv
  <2>2. Work(cmds') \subseteq {d} /\ SamePlay(m, m')
    BY <1>10, <2>1 DEF Carries
  <2>3. d.kind = c.kind /\ (c.kind \in {"action", "auto"} => d.id = c.id)
    BY <1>10 DEF Carries, Continues
  <2>4. QED
    BY <1>a, <2>1, <2>2, <2>3 DEF WInv, SamePlay
<1>11. QED
  BY <1>1, <1>2, <1>3, <1>4, <1>5, <1>6, <1>7, <1>8, <1>9, <1>10 DEF PlayStep

-----------------------------------------------------------------------------
(* Keys in their order.                                                    *)

\* The numbers in a state of the right types.
LEMMA Numbers ==
  ASSUME Types
  PROVE  /\ m.serial \in Nat /\ m.queue \in Seq(Nat \ {0}) /\ Len(m.queue) \in Nat
         /\ \A i \in 1..Len(m.queue) : m.queue[i] \in Nat \ {0}
         /\ acted \in Seq(Nat) /\ Len(acted) \in Nat
         /\ \A k \in 1..Len(acted) : acted[k] \in Nat
         /\ m.activeAction # None => m.activeAction.id \in Nat
         /\ m.ending \in BOOLEAN
<1>1. m \in Models(game.version) /\ m.queue \in Seq(Nat \ {0}) /\ acted \in Seq(Nat)
  BY DEF Types
<1>2. m.serial \in Nat /\ m.ending \in BOOLEAN /\ (m.activeAction # None => m.activeAction.id \in Nat)
  BY <1>1 DEF Models, Actions
<1>3. Len(m.queue) \in Nat /\ Len(acted) \in Nat
  BY <1>1
<1>4. \A i \in 1..Len(m.queue) : m.queue[i] \in Nat \ {0}
  BY <1>1, ElementOfSeq
<1>5. \A k \in 1..Len(acted) : acted[k] \in Nat
  BY <1>1, ElementOfSeq
<1>6. QED
  BY <1>1, <1>2, <1>3, <1>4, <1>5

LEMMA OKept ==
  ASSUME Types, WInv, OInv, PlayStep
  PROVE  OInv'
<1>a. /\ m.serial \in Nat /\ m.queue \in Seq(Nat \ {0}) /\ Len(m.queue) \in Nat
      /\ \A i \in 1..Len(m.queue) : m.queue[i] \in Nat \ {0}
      /\ acted \in Seq(Nat) /\ Len(acted) \in Nat
      /\ \A k \in 1..Len(acted) : acted[k] \in Nat
      /\ m.activeAction # None => m.activeAction.id \in Nat
      /\ m.ending \in BOOLEAN
  BY Numbers
<1>1. CASE Idles
  <2>1. m'.serial \in Nat /\ m'.serial >= m.serial
    BY <1>1, <1>a DEF Idles
  <2>2. QED
    BY <1>1, <1>a, <2>1 DEF Idles, OInv, SameEnd
<1>2. CASE Waits
  <2>1. /\ m.activeAction # None /\ m'.activeAction = m.activeAction /\ acted' = acted
        /\ Work(cmds') = Work(cmds) /\ m'.intent = m.intent /\ m'.ending = m.ending
        /\ ~m.ending /\ m'.serial = m.serial + 1 /\ m'.serial \in Nat \ {0}
        /\ m'.queue = Append(m.queue, m'.serial)
    BY <1>2, <1>a DEF Waits, SameEnd
  <2>2. /\ Len(m'.queue) = Len(m.queue) + 1
        /\ \A i \in 1..Len(m.queue) : m'.queue[i] = m.queue[i]
        /\ m'.queue[Len(m.queue) + 1] = m'.serial
        /\ \A i \in 1..Len(m'.queue) : i \in 1..Len(m.queue) \/ i = Len(m.queue) + 1
    BY <1>a, <2>1, QueueGrows, SMTT(60)
  <2>3. m'.intent = "none"
    BY <2>1 DEF WInv
  <2>4. m'.activeAction.id \in 1..m'.serial /\ m'.activeAction.id < m'.serial
    BY <1>a, <2>1 DEF OInv
  <2>5. \A i \in 1..Len(m'.queue) :
          /\ m'.queue[i] <= m'.serial /\ m'.activeAction.id < m'.queue[i]
          /\ \A k \in 1..Len(acted) : acted[k] < m'.queue[i]
    <3>1. SUFFICES ASSUME NEW i \in 1..Len(m'.queue)
                   PROVE  /\ m'.queue[i] <= m'.serial /\ m'.activeAction.id < m'.queue[i]
                          /\ \A k \in 1..Len(acted) : acted[k] < m'.queue[i]
      OBVIOUS
    <3>2. CASE i \in 1..Len(m.queue)
      <4>1. m'.queue[i] = m.queue[i] /\ m.queue[i] \in Nat
        BY <1>a, <2>2, <3>2
      <4>2. m.queue[i] <= m.serial /\ m.activeAction.id < m.queue[i]
        BY <2>1, <3>2 DEF OInv
      <4>3. \A k \in 1..Len(acted) : acted[k] < m.queue[i]
        BY <3>2 DEF OInv
      <4>4. QED
        BY <1>a, <2>1, <4>1, <4>2, <4>3, SMTT(60)
    <3>3. CASE i = Len(m.queue) + 1
      <4>1. \A k \in 1..Len(acted) : acted[k] <= m.serial
        BY DEF OInv
      <4>2. QED
        BY <1>a, <2>1, <2>2, <2>4, <3>3, <4>1
    <3>4. QED
      BY <2>2, <3>2, <3>3
  <2>6. \A i, j \in 1..Len(m'.queue) : i < j => m'.queue[i] < m'.queue[j]
    <3>1. SUFFICES ASSUME NEW i \in 1..Len(m'.queue), NEW j \in 1..Len(m'.queue), i < j
                   PROVE  m'.queue[i] < m'.queue[j]
      OBVIOUS
    <3>2. i \in 1..Len(m.queue)
      BY <1>a, <2>2, <3>1
    <3>3. CASE j \in 1..Len(m.queue)
      BY <2>2, <3>1, <3>2, <3>3 DEF OInv
    <3>4. CASE j = Len(m.queue) + 1
      BY <1>a, <2>1, <2>2, <3>2, <3>4, SMTT(60) DEF OInv
    <3>5. QED
      BY <2>2, <3>3, <3>4
  <2>7. \A k \in 1..Len(acted') :
          /\ acted'[k] <= m'.serial /\ acted'[k] <= m'.activeAction.id
          /\ \A c \in Work(cmds') : c.kind = "action" /\ c.todo # <<>> /\ Head(c.todo) = "act"
                                      => acted'[k] < c.id
    BY <1>a, <2>1, SMTT(60) DEF OInv
  <2>8. QED
    BY <2>1, <2>3, <2>4, <2>5, <2>6, <2>7 DEF OInv
<1>3. CASE Closes
  <2>1. /\ m'.queue = <<>> /\ acted' = acted /\ m'.serial = m.serial
        /\ m'.activeAction = m.activeAction
        /\ \A c \in Work(cmds') : c.kind = "action" => c \in Work(cmds)
    BY <1>3, TerminalAlone DEF Closes
  <2>2. \A k \in 1..Len(acted') :
          /\ acted'[k] <= m'.serial /\ (m'.activeAction # None => acted'[k] <= m'.activeAction.id)
          /\ \A c \in Work(cmds') : c.kind = "action" /\ c.todo # <<>> /\ Head(c.todo) = "act"
                                      => acted'[k] < c.id
    BY <2>1 DEF OInv
  <2>3. QED
    BY <2>1, <2>2 DEF OInv
<1>4. CASE Ends
  BY <1>4 DEF Ends, OInv
<1>5. ASSUME NEW d, Begins(d) PROVE OInv'
  <2>1. /\ m.queue = <<>> /\ m'.queue = <<>> /\ acted' = acted /\ m'.serial = m.serial + 1
        /\ m'.activeAction # None /\ m'.activeAction.id = m'.serial /\ d.id = m'.serial
        /\ m'.serial \in 1..m'.serial
    BY <1>5, <1>a DEF Begins, OInv
  <2>2. Work(cmds') \subseteq {d}
    BY <1>5, NoWork DEF Begins
  <2>3. \A k \in 1..Len(acted) : acted[k] < m'.serial
    BY <1>a, <2>1 DEF OInv
  <2>4. \A k \in 1..Len(acted') :
          /\ acted'[k] <= m'.serial /\ acted'[k] <= m'.activeAction.id
          /\ \A c \in Work(cmds') : acted'[k] < c.id
    BY <1>a, <2>1, <2>2, <2>3
  <2>5. QED
    BY <2>1, <2>4 DEF OInv
<1>6. ASSUME NEW d, Runs(d) PROVE OInv'
  <2>1. /\ m.queue = <<>> /\ m'.queue = <<>> /\ acted' = acted /\ m'.serial = m.serial + 1
        /\ m'.activeAction = None /\ d.kind = "auto"
    BY <1>6, <1>a DEF Runs, OInv
  <2>2. Work(cmds') \subseteq {d}
    BY <1>6, NoWork DEF Runs
  <2>3. \A k \in 1..Len(acted) : acted[k] <= m'.serial
    BY <1>a, <2>1 DEF OInv
  <2>4. QED
    BY <2>1, <2>2, <2>3 DEF OInv
<1>7. ASSUME NEW c, Finishes(c) PROVE OInv'
  <2>1. /\ Work(cmds) \ {c} = {} /\ acted' = acted /\ m'.serial = m.serial
        /\ m'.intent = m.intent /\ m'.ending = m.ending
    BY <1>7 DEF Finishes, WInv, SameEnd
  <2>2. \A k \in 1..Len(acted) : acted[k] <= m.serial
    BY DEF OInv
  <2>3. CASE m.ending
    <3>1. Work(cmds') \subseteq TerminalCmds(m') /\ m'.queue = m.queue /\ m'.activeAction = None
      BY <1>7, <2>1, <2>3 DEF Finishes
    <3>2. \A e \in Work(cmds') : e.kind = "end"
      BY <3>1, TerminalAlone
    <3>3. QED
      BY <2>1, <2>2, <2>3, <3>1, <3>2 DEF OInv
  <2>4. CASE ~m.ending /\ m.queue # <<>>
    <3>1. PICK d : d.kind = "action" /\ d.id = Head(m.queue) /\ Work(cmds') \subseteq {d}
      BY <1>7, <2>1, <2>4 DEF Finishes
    <3>2. m'.queue = Tail(m.queue) /\ m'.activeAction # None /\ m'.activeAction.id = Head(m.queue)
      BY <1>7, <2>4 DEF Finishes
    <3>3. /\ Len(m'.queue) = Len(m.queue) - 1 /\ Len(m.queue) \in Nat \ {0}
          /\ Head(m.queue) = m.queue[1] /\ 1 \in 1..Len(m.queue)
          /\ \A i \in 1..Len(m'.queue) : i + 1 \in 1..Len(m.queue) /\ m'.queue[i] = m.queue[i + 1]
      BY <1>a, <2>4, <3>2, QueueShrinks
    <3>4. m'.activeAction.id \in 1..m'.serial
      BY <1>a, <2>1, <3>2, <3>3 DEF OInv
    <3>5. \A k \in 1..Len(acted) : acted[k] < m'.activeAction.id /\ acted[k] < d.id
      BY <3>1, <3>2, <3>3 DEF OInv
    <3>6. \A i \in 1..Len(m'.queue) :
            /\ m'.queue[i] <= m'.serial /\ m'.activeAction.id < m'.queue[i]
            /\ \A k \in 1..Len(acted) : acted[k] < m'.queue[i]
      <4>1. SUFFICES ASSUME NEW i \in 1..Len(m'.queue)
                     PROVE  /\ m'.queue[i] <= m'.serial /\ m'.activeAction.id < m'.queue[i]
                            /\ \A k \in 1..Len(acted) : acted[k] < m'.queue[i]
        OBVIOUS
      <4>2. i + 1 \in 1..Len(m.queue) /\ m'.queue[i] = m.queue[i + 1] /\ 1 < i + 1
        BY <3>3
      <4>3. PICK j \in 1..Len(m.queue) : j = i + 1
        BY <4>2
      <4>4. m.queue[1] < m.queue[j] /\ m.queue[j] <= m.serial
            /\ \A k \in 1..Len(acted) : acted[k] < m.queue[j]
        BY <3>3, <4>2, <4>3 DEF OInv
      <4>5. QED
        BY <2>1, <3>2, <3>3, <4>2, <4>3, <4>4
    <3>7. \A i, j \in 1..Len(m'.queue) : i < j => m'.queue[i] < m'.queue[j]
      <4>1. SUFFICES ASSUME NEW i \in 1..Len(m'.queue), NEW j \in 1..Len(m'.queue), i < j
                     PROVE  m'.queue[i] < m'.queue[j]
        OBVIOUS
      <4>2. PICK a \in 1..Len(m.queue), b \in 1..Len(m.queue) :
              a < b /\ m'.queue[i] = m.queue[a] /\ m'.queue[j] = m.queue[b]
        BY <3>3, <4>1
      <4>3. QED
        BY <4>2 DEF OInv
    <3>8. m.intent = "none"
      BY <2>4 DEF WInv
    <3>9. \A k \in 1..Len(acted') :
            /\ acted'[k] <= m'.serial /\ acted'[k] <= m'.activeAction.id
            /\ \A e \in Work(cmds') : acted'[k] < e.id
      BY <1>a, <2>1, <2>2, <3>1, <3>4, <3>5
    <3>10. QED
      BY <2>1, <2>4, <3>2, <3>4, <3>6, <3>7, <3>8, <3>9 DEF OInv
  <2>5. CASE ~m.ending /\ m.queue = <<>>
    <3>1. Work(cmds') = {} /\ m'.queue = <<>> /\ m'.activeAction = None
      BY <1>7, <2>1, <2>5 DEF Finishes
    <3>2. QED
      BY <2>1, <2>2, <3>1 DEF OInv
  <2>6. QED
    BY <2>3, <2>4, <2>5
<1>8. ASSUME NEW c, Arrives(c) PROVE OInv'
  <2>1. /\ Work(cmds) \ {c} = {} /\ acted' = acted /\ m'.serial = m.serial
        /\ m'.activeAction = m.activeAction /\ m'.queue = m.queue
        /\ m'.intent = m.intent /\ m'.ending = m.ending
    BY <1>8 DEF Arrives, WInv, SameEnd
  <2>2. \A e \in Work(cmds') : e.kind = "end"
    BY <1>8, <2>1, TerminalAlone DEF Arrives
  <2>3. QED
    BY <2>1, <2>2 DEF OInv
<1>9. ASSUME NEW c, Reopens(c) PROVE OInv'
  <2>1. /\ Work(cmds') = {} /\ acted' = acted /\ m'.serial = m.serial
        /\ m'.activeAction = m.activeAction /\ m'.queue = m.queue /\ m'.intent = "none"
    BY <1>9 DEF Reopens, WInv
  <2>2. m.queue = <<>>
    BY <1>9 DEF Reopens, WInv, OInv
  <2>3. QED
    BY <2>1, <2>2 DEF OInv
<1>10. ASSUME NEW c, NEW d, Carries(c, d) PROVE OInv'
  <2>1. Work(cmds) \ {c} = {} /\ c \in Work(cmds) /\ SamePlay(m, m') /\ Work(cmds') \subseteq {d}
    BY <1>10 DEF Carries, WInv
  <2>2. /\ d.kind = c.kind
        /\ c.kind = "action" => d.id = c.id /\ d.todo \in {<<"get">>, <<>>}
    BY <1>10 DEF Carries, Continues
  <2>3. \A e \in Work(cmds') : ~(e.kind = "action" /\ e.todo # <<>> /\ Head(e.todo) = "act")
    BY <2>1, <2>2, Lists
  <2>4. CASE acted' = acted
    BY <2>1, <2>3, <2>4 DEF OInv, SamePlay
  <2>5. CASE /\ c.kind = "action" /\ c.todo # <<>> /\ Head(c.todo) = "act"
             /\ acted' = Append(acted, c.id)
    <3>1. m.activeAction # None /\ m.activeAction.id = c.id /\ c.id \in 1..m.serial
      BY <2>1, <2>5 DEF WInv, OInv
    <3>2. /\ Len(acted') = Len(acted) + 1 /\ acted'[Len(acted) + 1] = c.id
          /\ \A k \in 1..Len(acted) : acted'[k] = acted[k]
          /\ \A k \in 1..Len(acted') : k \in 1..Len(acted) \/ k = Len(acted) + 1
      BY <1>a, <2>5, <3>1, QueueGrows
    <3>3. \A k \in 1..Len(acted') :
            /\ acted'[k] <= m.serial /\ acted'[k] <= m.activeAction.id
            /\ \A i \in 1..Len(m.queue) : acted'[k] < m.queue[i]
      <4>1. SUFFICES ASSUME NEW k \in 1..Len(acted')
                     PROVE  /\ acted'[k] <= m.serial /\ acted'[k] <= m.activeAction.id
                            /\ \A i \in 1..Len(m.queue) : acted'[k] < m.queue[i]
        OBVIOUS
      <4>2. CASE k \in 1..Len(acted)
        BY <3>1, <3>2, <4>2 DEF OInv
      <4>3. CASE k = Len(acted) + 1
        BY <1>a, <3>1, <3>2, <4>3 DEF OInv
      <4>4. QED
        BY <3>2, <4>2, <4>3
    <3>4. QED
      BY <2>1, <2>3, <3>1, <3>3 DEF OInv, SamePlay
  <2>6. QED
    BY <1>10, <2>4, <2>5 DEF Carries
<1>11. QED
  BY <1>1, <1>2, <1>3, <1>4, <1>5, <1>6, <1>7, <1>8, <1>9, <1>10 DEF PlayStep

-----------------------------------------------------------------------------
(* The theorems.                                                           *)

IInv == Types /\ FInv /\ WInv /\ OInv /\ DInv

LEMMA Inductive ==
  ASSUME IInv, [Next]_vars
  PROVE  IInv' /\ StreamStep /\ PlayStep
<1>1. Types' /\ FInv' /\ StreamStep /\ PlayStep
  BY StepKeeps DEF IInv, Keeps
<1>2. WInv'
  BY <1>1, WKept DEF IInv
<1>3. OInv'
  BY <1>1, OKept DEF IInv
<1>4. DInv'
  BY <1>1, StreamKept DEF IInv
<1>5. QED
  BY <1>1, <1>2, <1>3, <1>4 DEF IInv

LEMMA Invariant == Spec => []IInv
<1>1. Init => IInv
  BY Starts DEF IInv
<1>2. IInv /\ [Next]_vars => IInv'
  BY Inductive
<1>3. QED
  BY <1>1, <1>2, PTL DEF Spec

\* An action, automatic movement and the save or quit are never under way together: a
\* save waits for the last answer, and cancelled movement has stopped before it is sent
\* (startTerminalRequest, autoDoneMsg).
THEOREM OneThingAtATime == Spec => []OneAtATime
<1>1. IInv => OneAtATime
  <2>1. SUFFICES ASSUME IInv PROVE OneAtATime
    OBVIOUS
  <2>2. TypeOK
    BY <2>1, TypeOKByParts DEF IInv, Types, WInv
  <2>3. Cardinality(Work(cmds)) <= 1
    <3>1. CASE Work(cmds) = {}
      BY <3>1, FS_EmptySet
    <3>2. CASE Work(cmds) # {}
      <4>1. PICK c : Work(cmds) = {c}
        BY <2>1, <3>2 DEF IInv, WInv
      <4>2. QED
        BY <4>1, FS_Singleton
    <3>3. QED
      BY <3>1, <3>2
  <2>4. m.activeAction = None \/ m.activeAuto = None
    BY <2>1 DEF IInv, WInv
  <2>5. QED
    BY <2>2, <2>3, <2>4 DEF OneAtATime, Work
<1>2. QED
  BY <1>1, Invariant, PTL

\* A client that goes on playing always has exactly one command that follows the game or
\* will, of the current generation, and its flags agree with it (streamRecoveryCmd,
\* resumeStreamRecoveryCmd).
THEOREM RecoveryIsArmed == Spec => []RecoveryArmed
<1>1. IInv => RecoveryArmed
  <2>1. SUFFICES ASSUME IInv, ~left
                 PROVE  /\ Cardinality(Following) = IF \/ m.streamConnecting \/ m.streamActive
                                                       \/ m.retryScheduled THEN 1 ELSE 0
                        /\ m.ending \/ Following # {}
                        /\ \A c \in Following : c.gen = m.gen
    BY DEF RecoveryArmed
  <2>2. Following = Follow(cmds)
    BY DEF Following, Follow
  <2>3. CASE \E c \in cmds : Follow(cmds) = {c} /\ FollowedBy(m, c)
    <3>1. PICK c \in cmds : Follow(cmds) = {c} /\ FollowedBy(m, c)
      BY <2>3
    <3>2. Cardinality(Following) = 1
      BY <2>2, <3>1, FS_Singleton
    <3>3. m.streamConnecting \/ m.streamActive \/ m.retryScheduled
      BY <3>1 DEF FollowedBy
    <3>4. \A d \in Following : d.gen = m.gen
      BY <2>2, <3>1 DEF FollowedBy
    <3>5. QED
      BY <2>2, <3>1, <3>2, <3>3, <3>4
  <2>4. CASE Follow(cmds) = {} /\ NotFollowed(m)
    BY <2>2, <2>4, FS_EmptySet DEF NotFollowed
  <2>5. QED
    BY <2>1, <2>3, <2>4 DEF IInv, FInv
<1>2. QED
  BY <1>1, Invariant, PTL

\* A client that has read everything on its stream shows the game as it is, whoever
\* changed it, and a stream that breaks is known to be broken.
THEOREM DrainedShowsTheGame == Spec => []DrainedIsCurrent
<1>1. IInv => DrainedIsCurrent
  BY DEF IInv, DInv, DrainedIsCurrent
<1>2. QED
  BY <1>1, Invariant, PTL

\* While a stream is followed, no late poll, answer or movement result puts an older
\* state on the screen (the guards on streamActive in Update).
THEOREM NothingOlderIsShown == Spec => StreamNotOverwritten
<1>1. IInv /\ [Next]_vars => (m.streamActive /\ m'.streamActive => m'.shown >= m.shown)
  <2>1. SUFFICES ASSUME IInv, [Next]_vars, m.streamActive /\ m'.streamActive
                 PROVE  m'.shown >= m.shown
    OBVIOUS
  <2>2. StreamStep /\ Types /\ DInv
    BY <2>1, Inductive DEF IInv
  <2>3. QED
    BY <2>1, <2>2, StreamKept
<1>2. QED
  BY <1>1, Invariant, PTL DEF Spec, StreamNotOverwritten

\* A step of the client is a step of the queue that its player may expect, or none.
LEMMA PlayIsTyped ==
  ASSUME Types, Types', WInv, OInv, PlayStep
  PROVE  [Typed!Next]_(Typed!vars)
<1>a. /\ m.serial \in Nat /\ m.queue \in Seq(Nat \ {0}) /\ Len(m.queue) \in Nat
      /\ acted \in Seq(Nat)
      /\ m.activeAction # None => m.activeAction.id \in 1..m.serial
      /\ m.ending \in BOOLEAN /\ m'.ending \in BOOLEAN
  BY Numbers DEF OInv, Types, Models
<1>b. PICK serving : serving = IF m.activeAction = None THEN 0 ELSE m.activeAction.id
  OBVIOUS
<1>c. serving # 0 <=> m.activeAction # None
  BY <1>a, <1>b
<1>1. CASE Idles
  BY <1>1, <1>a DEF Idles, SameEnd, Typed!Next, Typed!Other, Typed!vars
<1>2. CASE Waits
  BY <1>2, <1>a, <1>b, <1>c DEF Waits, SameEnd, Typed!Next, Typed!Accept
<1>3. CASE Closes
  BY <1>3, <1>a DEF Closes, Typed!Next, Typed!Close
<1>4. CASE Ends
  <2>1. CASE m.ending
    <3>1. m'.ending = m.ending
      BY <1>4, <1>a, <2>1 DEF Ends
    <3>2. QED
      BY <1>4, <3>1 DEF Ends, Typed!vars
  <2>2. CASE ~m.ending
    BY <1>4, <1>a, <2>2 DEF Ends, Typed!Next, Typed!Close
  <2>3. QED
    BY <2>1, <2>2
<1>5. ASSUME NEW d, Begins(d) PROVE Typed!Next
  <2>1. m.queue = <<>>
    BY <1>5 DEF Begins, OInv
  <2>2. QED
    BY <1>5, <1>a, <2>1 DEF Begins, SameEnd, Typed!Next, Typed!Accept
<1>6. ASSUME NEW d, Runs(d) PROVE Typed!Next
  BY <1>6, <1>a DEF Runs, SameEnd, Typed!Next, Typed!Other
<1>7. ASSUME NEW c, Finishes(c) PROVE Typed!Next
  BY <1>7, <1>a DEF Finishes, SameEnd, Typed!Next, Typed!Finish
<1>8. ASSUME NEW c, Arrives(c) PROVE UNCHANGED Typed!vars
  BY <1>8 DEF Arrives, SameEnd, Typed!vars
<1>9. ASSUME NEW c, Reopens(c) PROVE Typed!Next
  <2>1. m.ending /\ m.activeAction = None /\ m.queue = <<>>
    BY <1>9 DEF Reopens, WInv, OInv
  <2>2. QED
    BY <1>9, <1>a, <2>1 DEF Reopens, Typed!Next, Typed!Reopen
<1>10. ASSUME NEW c, NEW d, Carries(c, d) PROVE [Typed!Next]_(Typed!vars)
  <2>1. CASE acted' = acted
    BY <1>10, <2>1 DEF Carries, SamePlay, Typed!vars
  <2>2. CASE /\ c.kind = "action" /\ c.todo # <<>> /\ Head(c.todo) = "act"
             /\ acted' = Append(acted, c.id)
    <3>1. m.activeAction # None /\ m.activeAction.id = c.id /\ SamePlay(m, m')
          /\ \A k \in 1..Len(acted) : acted[k] < c.id
      BY <1>10, <2>2 DEF Carries, WInv, OInv
    <3>2. DOMAIN acted = 1..Len(acted)
      BY <1>a
    <3>3. Typed!Carry
      BY <1>a, <2>2, <3>1, <3>2 DEF SamePlay, Typed!Carry
    <3>4. QED
      BY <3>3 DEF Typed!Next
  <2>3. QED
    BY <1>10, <2>1, <2>2 DEF Carries
<1>11. QED
  BY <1>1, <1>2, <1>3, <1>4, <1>5, <1>6, <1>7, <1>8, <1>9, <1>10 DEF PlayStep

\* The client's queue of actions implements InputQueue: whatever answers are lost or late,
\* typed actions reach the server in their order, at most once, one at a time, and none is
\* begun once the end has been asked for (enqueueAction, startNextQueuedAction,
\* requestTerminal).
THEOREM KeysReachTheGameInOrder == Spec => KeysInOrder
<1>1. Init => Typed!Init
  <2>1. SUFFICES ASSUME Init PROVE Typed!Init
    OBVIOUS
  <2>2. /\ m.serial = 0 /\ m.queue = <<>> /\ m.activeAction = None /\ acted = <<>>
        /\ m.ending = FALSE
    BY <2>1 DEF Init
  <2>3. QED
    BY <2>2 DEF Typed!Init
<1>2. IInv /\ [Next]_vars => [Typed!Next]_(Typed!vars)
  <2>1. SUFFICES ASSUME IInv, [Next]_vars PROVE [Typed!Next]_(Typed!vars)
    OBVIOUS
  <2>2. Types /\ Types' /\ WInv /\ OInv /\ PlayStep
    BY <2>1, Inductive DEF IInv
  <2>3. QED
    BY <2>2, PlayIsTyped
<1>3. QED
  BY <1>1, <1>2, Invariant, PTL DEF Spec, KeysInOrder, Typed!Spec

-----------------------------------------------------------------------------
(* A game begins with its setup, then its opening, then play. This holds   *)
(* for a client that is alone with a server that stays up: another client  *)
(* can complete the setup, and a new process may have another game.        *)

\* What a step does to the setup on the screen: nothing, a view that is applied,
SameSetup(x, y) == y.setup = x.setup /\ y.heard = x.heard /\ y.pane = x.pane

Shows(x, y, v) ==
  /\ y.setup = v.setup \/ (x.setup = "complete" /\ y.setup = "complete")
  /\ y.heard = (x.heard \/ v.prose)
  /\ y.pane = IF v.prose /\ ~x.heard /\ ~Complete(x) /\ v.setup = "complete" THEN "open" ELSE x.pane

\* a choice, or the opening that is put away.
Chooses(x, y) ==
  /\ x.setup \in {"selectRole", "confirm"} /\ y.setup \in {"selectRole", "confirm"}
  /\ y.heard = x.heard /\ y.pane = x.pane

Dismisses(x, y) ==
  /\ x.pane = "open" /\ y.pane = "dismissed" /\ y.setup = x.setup /\ y.heard = x.heard

\* An answer that is there to be read.
Answered(c) == c.kind \in {"poll", "setup"} /\ c.todo = <<>> /\ ~c.err

\* The views that Update may apply.
Arrived(v) ==
  \/ wire # <<>> /\ Head(wire).over = "no" /\ v = Head(wire).view
  \/ \E c \in cmds : HasView(c) /\ (Answered(c) \/ c \in Work(cmds)) /\ v = c.view

ScreenStep ==
  \/ SameSetup(m, m') \/ Chooses(m, m') \/ Dismisses(m, m')
  \/ \E v \in View : Arrived(v) /\ Shows(m, m', v)

LEMMA CommandView ==
  ASSUME Types, NEW c \in cmds, HasView(c)
  PROVE  c.view \in View /\ c.view.version <= game.version
BY ViewOfCommand DEF Types, ViewsPast

\* A model that has applied a view, with whatever else has changed.
LEMMA AppliedShows ==
  ASSUME Types, NEW x \in Models(game.version), NEW v \in View, v.version <= game.version,
         SameSetup(m, x), Arrived(v), NEW y, SameSetup(Applied(x, v), y), m' = y
  PROVE  ScreenStep
<1>1. PICK z : z = Applied(x, v)
  OBVIOUS
<1>2. game.version \in Nat
  BY ModelNow
<1>3. /\ z.setup = IF x.setup = "complete" THEN "complete" ELSE v.setup
      /\ z.heard = (x.heard \/ v.prose)
      /\ z.pane = IF v.prose /\ ~x.heard /\ ~Complete(x) /\ v.setup = "complete"
                  THEN "open" ELSE x.pane
  BY <1>1, <1>2, AppliedModel
<1>4. x.setup = m.setup /\ x.heard = m.heard /\ x.pane = m.pane
  BY DEF SameSetup
<1>5. y.setup = z.setup /\ y.heard = z.heard /\ y.pane = z.pane
  BY <1>1 DEF SameSetup
<1>6. y.heard = (m.heard \/ v.prose)
  BY <1>3, <1>4, <1>5
<1>7. Complete(x) <=> Complete(m)
  BY <1>4 DEF Complete
<1>8. Shows(m, y, v)
  BY <1>3, <1>4, <1>5, <1>6, <1>7 DEF Shows
<1>9. QED
  BY <1>8 DEF ScreenStep

\* A message that leaves the setup alone, and one whose view is applied.
LEMMA HandlesSame ==
  ASSUME NEW c, NEW x, NEW new, Handles(c, x, new), SameSetup(m, x)
  PROVE  ScreenStep
BY DEF Handles, ScreenStep

LEMMA HandlesApplied ==
  ASSUME Types, NEW c \in cmds, HasView(c), Answered(c) \/ c \in Work(cmds),
         NEW x \in Models(game.version), SameSetup(m, x),
         NEW new, Handles(c, Applied(x, c.view), new)
  PROVE  ScreenStep
<1>1. c.view \in View /\ c.view.version <= game.version
  BY CommandView
<1>2. Arrived(c.view)
  BY DEF Arrived
<1>3. SameSetup(Applied(x, c.view), Applied(x, c.view))
  BY DEF SameSetup
<1>4. m' = Applied(x, c.view)
  BY DEF Handles
<1>5. QED
  BY <1>1, <1>2, <1>3, <1>4, AppliedShows

LEMMA PollDoneShows ==
  ASSUME Types, NEW c \in cmds, PollDone(c)
  PROVE  ScreenStep
<1>1. game.version \in Nat /\ m \in Models(game.version) /\ SameSetup(m, m)
  BY ModelNow DEF SameSetup
<1>2. CASE Handles(c, m, {})
  BY <1>1, <1>2, HandlesSame
<1>3. CASE Handles(c, Applied(m, c.view), {}) /\ c.kind = "poll" /\ c.todo = <<>> /\ ~c.err
  <2>1. HasView(c) /\ Answered(c)
    BY <1>3 DEF HasView, Answered
  <2>2. QED
    BY <1>1, <1>3, <2>1, HandlesApplied
<1>4. QED
  BY <1>2, <1>3 DEF PollDone

LEMMA SetupDoneShows ==
  ASSUME Types, NEW c \in cmds, SetupDone(c)
  PROVE  ScreenStep
<1>1. PICK x : x = [m EXCEPT !.setupPending = FALSE]
  OBVIOUS
<1>2. PICK z : z = [x EXCEPT !.setup = c.view.setup]
  OBVIOUS
<1>3. \/ Handles(c, m, {}) \/ Handles(c, x, {}) \/ Handles(c, x, {PollCmd(x)})
      \/ /\ c.kind = "setup" /\ c.todo = <<>> /\ ~c.err
         /\ \/ Handles(c, Heard(z, c.view, Complete(m)), {})
            \/ Handles(c, Applied(x, c.view), {})
  BY <1>1, <1>2 DEF SetupDone
<1>4. game.version \in Nat /\ m \in Models(game.version) /\ SameSetup(m, m)
  BY ModelNow DEF SameSetup
<1>5. x \in Models(game.version) /\ SameSetup(m, x)
  BY <1>1, <1>4 DEF Models, SameSetup
<1>6. CASE Handles(c, m, {}) \/ Handles(c, x, {}) \/ Handles(c, x, {PollCmd(x)})
  BY <1>4, <1>5, <1>6, HandlesSame
<1>7. CASE c.kind = "setup" /\ c.todo = <<>> /\ ~c.err /\ Handles(c, Applied(x, c.view), {})
  <2>1. HasView(c) /\ Answered(c)
    BY <1>7 DEF HasView, Answered
  <2>2. QED
    BY <1>5, <1>7, <2>1, HandlesApplied
<1>8. CASE /\ c.kind = "setup" /\ c.todo = <<>> /\ ~c.err
           /\ Handles(c, Heard(z, c.view, Complete(m)), {})
  <2>1. HasView(c) /\ Answered(c)
    BY <1>8 DEF HasView, Answered
  <2>2. c.view \in View /\ Arrived(c.view)
    BY <2>1, CommandView DEF Arrived
  <2>3. c.view.setup \in Setups
    BY <2>2 DEF View, Setups
  <2>4. /\ z \in Models(game.version) /\ z.setup = c.view.setup
        /\ z.heard = x.heard /\ z.pane = x.pane
    BY <1>2, <1>5, <2>3 DEF Models, Setups
  <2>5. PICK y : y = Heard(z, c.view, Complete(m))
    OBVIOUS
  <2>6. /\ y.setup = z.setup /\ y.heard = (z.heard \/ c.view.prose)
        /\ y.pane = IF c.view.prose /\ ~z.heard /\ ~Complete(m) /\ Complete(z) THEN "open" ELSE z.pane
    BY <1>4, <2>2, <2>4, <2>5, HeardModel
  <2>7. Complete(z) <=> c.view.setup = "complete"
    BY <2>3, <2>4 DEF Complete, Setups
  <2>8. x.heard = m.heard /\ x.pane = m.pane
    BY <1>5 DEF SameSetup
  <2>9. y.heard = (m.heard \/ c.view.prose)
    BY <2>4, <2>6, <2>8
  <2>10. Shows(m, y, c.view)
    BY <2>4, <2>6, <2>7, <2>8, <2>9 DEF Shows
  <2>11. m' = y
    BY <1>8, <2>5 DEF Handles
  <2>12. QED
    BY <2>2, <2>10, <2>11 DEF ScreenStep
<1>9. QED
  BY <1>3, <1>6, <1>7, <1>8

LEMMA ActionDoneShows ==
  ASSUME Types, NEW c \in cmds, ActionDone(c)
  PROVE  ScreenStep
<1>1. PICK x : x = [m EXCEPT !.activeAction = None]
  OBVIOUS
<1>2. PICK y : y = IF ~c.err /\ ~c.streamed /\ ~m.streamActive THEN Applied(x, c.view) ELSE x
  OBVIOUS
<1>3. PICK z : z = Started([y EXCEPT !.queue = Tail(@)], Head(m.queue))
  OBVIOUS
<1>4. m' = m \/ m' = y \/ m' = z
  BY <1>1, <1>2, <1>3 DEF ActionDone, Handles
<1>5. game.version \in Nat /\ m \in Models(game.version) /\ SameSetup(m, m)
  BY ModelNow DEF SameSetup
<1>6. x \in Models(game.version) /\ SameSetup(m, x)
  BY <1>1, <1>5 DEF Models, SameSetup
<1>7. c \in Work(cmds) /\ HasView(c)
  BY DEF ActionDone, Work, HasView
<1>8. c.view \in View /\ c.view.version <= game.version /\ Arrived(c.view)
  BY <1>7, CommandView DEF Arrived
<1>9. y \in Models(game.version)
  BY <1>2, <1>5, <1>6, <1>8, AppliedModel
<1>10. SameSetup(y, y) /\ SameSetup(y, z)
  BY <1>3, <1>9 DEF Started, Models, SameSetup
<1>11. CASE m' = m
  BY <1>5, <1>11 DEF ScreenStep
<1>12. CASE (m' = y \/ m' = z) /\ y = x
  BY <1>6, <1>10, <1>12 DEF ScreenStep, SameSetup
<1>13. CASE (m' = y \/ m' = z) /\ y = Applied(x, c.view)
  BY <1>6, <1>8, <1>10, <1>13, AppliedShows
<1>14. QED
  BY <1>2, <1>4, <1>11, <1>12, <1>13

LEMMA AutoDoneShows ==
  ASSUME Types, NEW c \in cmds, AutoDone(c)
  PROVE  ScreenStep
<1>1. PICK x : x = [m EXCEPT !.activeAuto = None]
  OBVIOUS
<1>2. \/ Handles(c, m, {}) \/ \E new : Handles(c, x, new)
      \/ Handles(c, Applied(x, c.view), {})
  BY <1>1 DEF AutoDone
<1>3. game.version \in Nat /\ m \in Models(game.version) /\ SameSetup(m, m)
  BY ModelNow DEF SameSetup
<1>4. x \in Models(game.version) /\ SameSetup(m, x)
  BY <1>1, <1>3 DEF Models, SameSetup
<1>5. c \in Work(cmds) /\ HasView(c)
  BY DEF AutoDone, Work, HasView
<1>6. QED
  BY <1>2, <1>3, <1>4, <1>5, HandlesSame, HandlesApplied

LEMMA EventShows ==
  ASSUME Types, NEW c \in cmds, NEW x \in Models(game.version), SameSetup(m, x),
         wire # <<>>, TakeEvent(c, x)
  PROVE  ScreenStep
<1>a. /\ game.version \in Nat /\ game \in Games /\ wire \in Seq(Events) /\ WirePast
  BY ModelNow DEF Types
<1>b. PICK e \in Events : e = Head(wire) /\ e.view.version \in 1..game.version
  BY <1>a DEF WirePast
<1>c. e.view \in View /\ e.view.version <= game.version
  BY <1>a, <1>b DEF Events
<1>1. CASE e.over # "no"
  <2>1. PICK w : w = AutoCancelled(x)
    OBVIOUS
  <2>2. w \in Models(game.version) /\ SameScreen(x, w)
    BY <1>a, <2>1, CancelledModel
  <2>3. PICK y : y = [w EXCEPT !.ending = TRUE, !.streamActive = FALSE, !.retryScheduled = FALSE]
    OBVIOUS
  <2>4. m' = y
    BY <1>1, <1>b, <2>1, <2>3 DEF TakeEvent, Handles
  <2>5. SameSetup(w, y) /\ SameSetup(x, w)
    BY <2>2, <2>3 DEF Models, SameSetup, SameScreen
  <2>6. SameSetup(m, m')
    BY <2>4, <2>5 DEF SameSetup
  <2>7. QED
    BY <2>6 DEF ScreenStep
<1>2. CASE e.over = "no"
  <2>1. PICK y : y = Applied(x, e.view)
    OBVIOUS
  <2>2. y \in Models(game.version)
    BY <1>a, <1>c, <2>1, AppliedModel
  <2>3. PICK z : z = [y EXCEPT !.setupPending = @ /\ e.source # "setup" /\ ~Complete(y)]
    OBVIOUS
  <2>4. m' = z
    BY <1>2, <1>b, <2>1, <2>3 DEF TakeEvent, Handles
  <2>5. SameSetup(y, z)
    BY <2>2, <2>3 DEF Models, SameSetup
  <2>6. Arrived(e.view)
    BY <1>2, <1>b DEF Arrived
  <2>7. QED
    BY <1>c, <2>1, <2>4, <2>5, <2>6, AppliedShows
<1>3. QED
  BY <1>1, <1>2

LEMMA StreamLostSame ==
  ASSUME Types, NEW c, StreamLost(c)
  PROVE  ScreenStep
<1>1. PICK x : x = [m EXCEPT !.streamActive = FALSE, !.streamConnecting = FALSE]
  OBVIOUS
<1>2. m' = Recovering(x)
  BY <1>1 DEF StreamLost, Handles
<1>3. game.version \in Nat /\ m \in Models(game.version)
  BY ModelNow
<1>4. x \in Models(game.version) /\ SameSetup(m, x)
  BY <1>1, <1>3 DEF Models, SameSetup
<1>5. SameScreen(x, Recovering(x))
  BY <1>3, <1>4, RecoveringModel
<1>6. SameSetup(m, m')
  BY <1>2, <1>4, <1>5 DEF SameSetup, SameScreen
<1>7. QED
  BY <1>6 DEF ScreenStep

LEMMA EndDoneSame ==
  ASSUME Types, NEW c, EndDone(c)
  PROVE  ScreenStep
<1>1. PICK x : x = [m EXCEPT !.ending = FALSE, !.intent = "none"]
  OBVIOUS
<1>2. m' = m \/ m' = x \/ m' = Recovering(x)
  BY <1>1 DEF EndDone, Handles
<1>3. game.version \in Nat /\ m \in Models(game.version) /\ SameSetup(m, m)
  BY ModelNow DEF SameSetup
<1>4. x \in Models(game.version) /\ SameSetup(m, x)
  BY <1>1, <1>3 DEF Models, SameSetup
<1>5. SameScreen(x, Recovering(x))
  BY <1>3, <1>4, RecoveringModel
<1>6. SameSetup(m, m')
  BY <1>2, <1>3, <1>4, <1>5 DEF SameSetup, SameScreen
<1>7. QED
  BY <1>6 DEF ScreenStep

LEMMA ReconnectSame ==
  ASSUME Types, NEW c, Reconnect(c)
  PROVE  ScreenStep
<1>1. PICK x : x = [m EXCEPT !.retryScheduled = FALSE]
  OBVIOUS
<1>2. PICK y : y = [x EXCEPT !.gen = @ + 1, !.streamConnecting = TRUE]
  OBVIOUS
<1>3. m' = m \/ m' = x \/ m' = y
  BY <1>1, <1>2 DEF Reconnect, Handles
<1>4. m \in Models(game.version)
  BY ModelNow
<1>5. x \in Models(game.version) /\ SameSetup(m, x) /\ SameSetup(m, m)
  BY <1>1, <1>4 DEF Models, SameSetup
<1>6. PICK n : n = x.gen + 1
  OBVIOUS
<1>7. y = [x EXCEPT !.gen = n, !.streamConnecting = TRUE]
  BY <1>2, <1>5, <1>6 DEF Models
<1>8. SameSetup(x, y)
  BY <1>5, <1>7 DEF Models, SameSetup
<1>9. SameSetup(m, m')
  BY <1>3, <1>5, <1>8 DEF SameSetup
<1>10. QED
  BY <1>9 DEF ScreenStep

LEMMA UpdateShows ==
  ASSUME Types, FInv, NEW c \in cmds, Update(c)
  PROVE  ScreenStep
<1>1. game.version \in Nat /\ m \in Models(game.version) /\ SameSetup(m, m)
  BY ModelNow DEF SameSetup
<1>2. CASE Opened(c)
  <2>1. PICK x : x = [m EXCEPT !.streamActive = TRUE, !.streamConnecting = FALSE,
                               !.retryScheduled = FALSE]
    OBVIOUS
  <2>2. x \in Models(game.version) /\ SameSetup(m, x)
    BY <1>1, <2>1 DEF Models, SameSetup
  <2>3. TakeEvent(c, x) /\ wire # <<>>
    BY <1>2, <2>1 DEF Opened, FInv
  <2>4. QED
    BY <2>2, <2>3, EventShows
<1>3. CASE Received(c)
  <2>1. TakeEvent(c, m) /\ wire # <<>>
    BY <1>3 DEF Received
  <2>2. QED
    BY <1>1, <2>1, EventShows
<1>4. CASE NotOpened(c) \/ ReadStops(c)
  BY <1>4, StreamLostSame DEF NotOpened, ReadStops
<1>5. CASE QuitMsg(c)
  BY <1>1, <1>5 DEF QuitMsg, ScreenStep
<1>6. QED
  BY <1>2, <1>3, <1>4, <1>5, ActionDoneShows, SetupDoneShows, EndDoneSame, AutoDoneShows,
     PollDoneShows, ReconnectSame DEF Update

LEMMA TerminalSame ==
  ASSUME Types, NEW intent, RequestTerminal(intent)
  PROVE  ScreenStep
<1>1. PICK w : w = AutoCancelled(m)
  OBVIOUS
<1>2. w \in Models(game.version) /\ SameScreen(m, w)
  BY <1>1, ModelNow, CancelledModel
<1>3. PICK z : z = [w EXCEPT !.asking = FALSE, !.ending = TRUE, !.intent = intent, !.queue = <<>>]
  OBVIOUS
<1>4. m' = z
  BY <1>1, <1>3 DEF RequestTerminal
<1>5. SameSetup(m, z)
  BY <1>2, <1>3 DEF Models, SameSetup, SameScreen
<1>6. QED
  BY <1>4, <1>5 DEF ScreenStep

LEMMA SetupKeyChooses ==
  ASSUME Types, NEW phase \in {"selectRole", "confirm"}, NEW next \in {"selectRole", "confirm"},
         NEW calls, SetupKey(phase, calls, next)
  PROVE  ScreenStep
<1>1. PICK x : x = Numbered(m)
  OBVIOUS
<1>2. x \in Models(game.version) /\ SameScreen(m, x)
  BY <1>1, ModelNow, NumberedModel
<1>3. PICK r : r = x.setupReq + 1
  OBVIOUS
<1>4. PICK z : z = [x EXCEPT !.setup = next, !.setupPending = TRUE, !.setupReq = r]
  OBVIOUS
<1>5. m' = z
  <2>1. z = [x EXCEPT !.setup = next, !.setupPending = TRUE, !.setupReq = @ + 1]
    BY <1>2, <1>3, <1>4 DEF Models
  <2>2. QED
    BY <1>1, <2>1 DEF SetupKey
<1>6. z.setup = next /\ z.heard = x.heard /\ z.pane = x.pane
  BY <1>2, <1>4 DEF Models
<1>7. m.setup = phase
  BY DEF SetupKey
<1>8. Chooses(m, z)
  BY <1>2, <1>6, <1>7 DEF Chooses, SameScreen
<1>9. QED
  BY <1>5, <1>8 DEF ScreenStep

LEMMA KeyShows ==
  ASSUME Types, Key
  PROVE  ScreenStep
<1>a. game.version \in Nat /\ m \in Models(game.version)
  BY ModelNow
<1>b. SameSetup(m, m') => ScreenStep
  BY DEF ScreenStep
<1>1. CASE ActionKey
  <2>1. PICK x : x = Numbered(m)
    OBVIOUS
  <2>2. x \in Models(game.version) /\ SameScreen(m, x)
    BY <1>a, <2>1, NumberedModel
  <2>3. PICK q : q = Append(x.queue, x.serial)
    OBVIOUS
  <2>4. m' = Started(x, x.serial) \/ m' = [x EXCEPT !.queue = q]
    <3>1. [x EXCEPT !.queue = q] = [x EXCEPT !.queue = Append(@, x.serial)]
      BY <2>2, <2>3 DEF Models
    <3>2. QED
      BY <1>1, <2>1, <3>1 DEF ActionKey
  <2>5. SameSetup(x, Started(x, x.serial)) /\ SameSetup(x, [x EXCEPT !.queue = q])
    BY <2>2 DEF Started, Models, SameSetup
  <2>6. QED
    BY <1>b, <2>2, <2>4, <2>5 DEF SameSetup, SameScreen
<1>2. CASE \E name \in AutoKinds : AutoKey(name)
  <2>1. PICK x : x = Numbered(m)
    OBVIOUS
  <2>2. x \in Models(game.version) /\ SameScreen(m, x)
    BY <1>a, <2>1, NumberedModel
  <2>3. PICK a : a = [id |-> x.serial, streamed |-> m.streamActive, cancel |-> FALSE]
    OBVIOUS
  <2>4. m' = [x EXCEPT !.activeAuto = a]
    BY <1>2, <2>1, <2>3 DEF AutoKey
  <2>5. SameSetup(x, [x EXCEPT !.activeAuto = a])
    BY <2>2 DEF Models, SameSetup
  <2>6. QED
    BY <1>b, <2>2, <2>4, <2>5 DEF SameSetup, SameScreen
<1>3. CASE StopKey
  <2>1. m' = AutoCancelled(m)
    BY <1>3 DEF StopKey
  <2>2. SameScreen(m, AutoCancelled(m))
    BY <1>a, CancelledModel
  <2>3. QED
    BY <1>b, <2>1, <2>2 DEF SameSetup, SameScreen
<1>4. CASE SaveKey
  BY <1>4, TerminalSame DEF SaveKey
<1>5. CASE QuitKey
  <2>1. PICK w : w = AutoCancelled(m)
    OBVIOUS
  <2>2. m' = [w EXCEPT !.asking = TRUE]
    BY <1>5, <2>1 DEF QuitKey
  <2>3. w \in Models(game.version) /\ SameScreen(m, w)
    BY <1>a, <2>1, CancelledModel
  <2>4. SameSetup(w, [w EXCEPT !.asking = TRUE])
    BY <2>3 DEF Models, SameSetup
  <2>5. QED
    BY <1>b, <2>2, <2>3, <2>4 DEF SameSetup, SameScreen
<1>6. CASE QuitAnswer
  <2>1. RequestTerminal("quit") \/ m' = [m EXCEPT !.asking = FALSE]
    BY <1>6 DEF QuitAnswer
  <2>2. SameSetup(m, [m EXCEPT !.asking = FALSE])
    BY <1>a DEF Models, SameSetup
  <2>3. QED
    BY <1>b, <2>1, <2>2, TerminalSame
<1>7. CASE InterruptKey
  BY <1>b, <1>7 DEF InterruptKey, SameSetup
<1>8. CASE DismissKey
  <2>1. m' = [m EXCEPT !.pane = "dismissed"] /\ m.pane = "open"
    BY <1>8 DEF DismissKey
  <2>2. Dismisses(m, m')
    BY <1>a, <2>1 DEF Models, Dismisses
  <2>3. QED
    BY <2>2 DEF ScreenStep
<1>9. CASE RoleKey \/ NoKey \/ YesKey
  BY <1>9, SetupKeyChooses DEF RoleKey, NoKey, YesKey
<1>10. QED
  BY <1>1, <1>2, <1>3, <1>4, <1>5, <1>6, <1>7, <1>8, <1>9 DEF Key

LEMMA ScreenMoves ==
  ASSUME Types, FInv, [Next]_vars
  PROVE  ScreenStep
<1>1. m' = m => ScreenStep
  BY DEF ScreenStep, SameSetup
<1>2. CASE UNCHANGED vars \/ Cut \/ Restart
           \/ \E call \in {"act", "role", "yes", "save", "quit"} : OtherClient(call)
  BY <1>1, <1>2 DEF vars, Cut, Restart, OtherClient
<1>3. CASE \E c \in cmds : Works(c) \/ Fails(c)
  <2>1. PICK c \in cmds : Works(c) \/ Fails(c)
    BY <1>3
  <2>2. m' = m
    BY <2>1, WorkStep DEF Types
  <2>3. QED
    BY <1>1, <2>2
<1>4. QED
  BY <1>2, <1>3, KeyShows, UpdateShows DEF Next

-----------------------------------------------------------------------------
(* The commands, and what they know.                                       *)

\* A command that starts has no answer yet; and a choice is sent only by a client
\* that has been shown the setup.
Fresh(d) ==
  /\ HasView(d) => d.view.setup = "complete" /\ ~d.view.prose /\ ~Answered(d)
  /\ d.kind = "setup" => m.setup \in {"selectRole", "confirm"}

\* A command that goes on.
GoesOn(c, d) ==
  /\ d.kind = c.kind
  /\ HasView(c) => d.view \in {c.view, ViewOf(game), Blank}
  /\ Answered(d) => d.view = ViewOf(game)

CommandsMove == \A d \in cmds' : d \in cmds \/ Fresh(d) \/ \E c \in cmds : GoesOn(c, d)

LEMMA FreshCommands ==
  /\ \A x : Fresh(PollCmd(x)) /\ Fresh(ActionCmd(x)) /\ Fresh(EndCmd(x)) /\ Fresh(OpenCmd(x))
            /\ Fresh(ReadCmd(x)) /\ Fresh(TimerCmd(x))
  /\ \A x, name : Fresh(AutoCmd(x, name))
  /\ Fresh(QuitCmd)
  /\ \A x, calls : SetupCmd(x, calls).kind = "setup" /\ SetupCmd(x, calls).view = Blank
                   /\ SetupCmd(x, calls).todo = Append(calls, "get")
<1>1. Blank.setup = "complete" /\ ~Blank.prose
  BY DEF Blank
<1>2. ASSUME NEW x PROVE Fresh(PollCmd(x))
  <2>1. PollCmd(x).kind = "poll" /\ PollCmd(x).view = Blank /\ PollCmd(x).todo = <<"get">>
    BY DEF PollCmd
  <2>2. QED
    BY <1>1, <2>1, Lists DEF Fresh, Answered
<1>3. ASSUME NEW x PROVE Fresh(ActionCmd(x))
  <2>1. ActionCmd(x).kind = "action" /\ ActionCmd(x).view = Blank
    BY DEF ActionCmd
  <2>2. QED
    BY <1>1, <2>1 DEF Fresh, Answered
<1>4. ASSUME NEW x, NEW name PROVE Fresh(AutoCmd(x, name))
  <2>1. AutoCmd(x, name).kind = "auto" /\ AutoCmd(x, name).view \in {Blank, [Blank EXCEPT !.version = x.shown]}
    BY DEF AutoCmd
  <2>2. [Blank EXCEPT !.version = x.shown].setup = "complete" /\ ~[Blank EXCEPT !.version = x.shown].prose
    BY DEF Blank
  <2>3. QED
    BY <1>1, <2>1, <2>2 DEF Fresh, Answered
<1>5. /\ \A x : Fresh(EndCmd(x)) /\ Fresh(OpenCmd(x)) /\ Fresh(ReadCmd(x)) /\ Fresh(TimerCmd(x))
      /\ Fresh(QuitCmd)
  BY DEF Fresh, HasView, EndCmd, OpenCmd, ReadCmd, TimerCmd, QuitCmd
<1>6. \A x, calls : SetupCmd(x, calls).kind = "setup" /\ SetupCmd(x, calls).view = Blank
                    /\ SetupCmd(x, calls).todo = Append(calls, "get")
  BY DEF SetupCmd
<1>7. QED
  BY <1>2, <1>3, <1>4, <1>5, <1>6

LEMMA HandlesFresh ==
  ASSUME NEW c, NEW x, NEW new, Handles(c, x, new), \A d \in new : Fresh(d)
  PROVE  CommandsMove
BY DEF Handles, Replace, CommandsMove

LEMMA SeveralFresh ==
  ASSUME NEW x
  PROVE  /\ \A d \in TerminalCmds(x) : Fresh(d)
         /\ \A d \in RecoveryCmds(x) : Fresh(d)
BY FreshCommands DEF TerminalCmds, RecoveryCmds

LEMMA UpdateMoves ==
  ASSUME NEW c \in cmds, Update(c)
  PROVE  CommandsMove
<1>1. CASE ActionDone(c)
  <2>1. \E x, y, z : Handles(c, y, {}) \/ Handles(c, x, TerminalCmds(x)) \/ Handles(c, z, {ActionCmd(z)})
                     \/ Handles(c, x, {PollCmd(y)})
    BY <1>1 DEF ActionDone
  <2>2. QED
    BY <2>1, FreshCommands, SeveralFresh, HandlesFresh
<1>2. CASE SetupDone(c)
  <2>1. \E x, y : Handles(c, y, {}) \/ Handles(c, x, {PollCmd(y)})
    BY <1>2 DEF SetupDone
  <2>2. QED
    BY <2>1, FreshCommands, HandlesFresh
<1>3. CASE EndDone(c)
  <2>1. \E x, y : Handles(c, y, {}) \/ Handles(c, x, RecoveryCmds(y)) \/ Handles(c, x, {QuitCmd})
    BY <1>3 DEF EndDone
  <2>2. QED
    BY <2>1, FreshCommands, SeveralFresh, HandlesFresh
<1>4. CASE AutoDone(c)
  <2>1. \E x, y : Handles(c, y, {}) \/ Handles(c, x, TerminalCmds(y)) \/ Handles(c, x, {PollCmd(y)})
    BY <1>4 DEF AutoDone
  <2>2. QED
    BY <2>1, FreshCommands, SeveralFresh, HandlesFresh
<1>5. CASE PollDone(c)
  <2>1. \E y : Handles(c, y, {})
    BY <1>5 DEF PollDone
  <2>2. QED
    BY <2>1, HandlesFresh
<1>6. CASE Opened(c) \/ Received(c)
  <2>1. \E x : TakeEvent(c, x)
    BY <1>6 DEF Opened, Received
  <2>2. \E x, y : Handles(c, x, {ReadCmd(y)}) \/ Handles(c, x, {QuitCmd})
    BY <2>1 DEF TakeEvent
  <2>3. QED
    BY <2>2, FreshCommands, HandlesFresh
<1>7. CASE NotOpened(c) \/ ReadStops(c)
  <2>1. \E x, y : Handles(c, x, RecoveryCmds(y))
    BY <1>7 DEF NotOpened, ReadStops, StreamLost
  <2>2. QED
    BY <2>1, SeveralFresh, HandlesFresh
<1>8. CASE Reconnect(c)
  <2>1. \E x, y : Handles(c, x, {}) \/ Handles(c, x, {OpenCmd(y)})
    BY <1>8 DEF Reconnect
  <2>2. QED
    BY <2>1, FreshCommands, HandlesFresh
<1>9. CASE QuitMsg(c)
  BY <1>9 DEF QuitMsg, CommandsMove
<1>10. QED
  BY <1>1, <1>2, <1>3, <1>4, <1>5, <1>6, <1>7, <1>8, <1>9 DEF Update

LEMMA KeyMoves ==
  ASSUME Key
  PROVE  CommandsMove
<1>1. ASSUME NEW d, cmds' = cmds \union {d}, Fresh(d) PROVE CommandsMove
  BY <1>1 DEF CommandsMove
<1>2. CASE ActionKey
  BY <1>1, <1>2, FreshCommands DEF ActionKey, CommandsMove
<1>3. CASE \E name \in AutoKinds : AutoKey(name)
  <2>1. PICK name : cmds' = cmds \union {AutoCmd(m', name)}
    BY <1>3 DEF AutoKey
  <2>2. QED
    BY <1>1, <2>1, FreshCommands
<1>4. CASE StopKey \/ QuitKey \/ DismissKey
  BY <1>4 DEF StopKey, QuitKey, DismissKey, CommandsMove
<1>5. CASE SaveKey \/ QuitAnswer
  <2>1. cmds' = cmds \/ cmds' = cmds \union TerminalCmds(m')
    BY <1>5 DEF SaveKey, QuitAnswer, RequestTerminal
  <2>2. QED
    BY <2>1, SeveralFresh DEF CommandsMove
<1>6. CASE InterruptKey
  <2>1. cmds' = cmds \union {QuitCmd}
    BY <1>6 DEF InterruptKey
  <2>2. QED
    BY <1>1, <2>1, FreshCommands
<1>7. CASE RoleKey \/ NoKey \/ YesKey
  <2>1. PICK calls \in {<<"role">>, <<"no">>, <<"role", "yes">>} : cmds' = cmds \union {SetupCmd(m', calls)}
    BY <1>7 DEF RoleKey, NoKey, YesKey, SetupKey
  <2>2. m.setup \in {"selectRole", "confirm"}
    BY <1>7 DEF RoleKey, NoKey, YesKey, SetupKey
  <2>3. Append(calls, "get") # <<>>
    BY Appends, Lists
  <2>4. Fresh(SetupCmd(m', calls))
    BY <2>2, <2>3, FreshCommands DEF Fresh, Answered, Blank
  <2>5. QED
    BY <1>1, <2>1, <2>4
<1>8. QED
  BY <1>2, <1>3, <1>4, <1>5, <1>6, <1>7 DEF Key

LEMMA AnswerIsNew ==
  ASSUME game \in Games, NEW c \in Commands, Calls(c), c.kind \in {"poll", "setup"}
  PROVE  /\ GoesOn(c, After(c)) /\ GoesOn(c, Failed(c))
<1>1. HasView(c) /\ ViewOf(game) \in View /\ c.todo # <<>>
  BY ViewIsView DEF HasView, Calls
<1>2. GoesOn(c, Failed(c))
  <2>1. PICK d : d = [c EXCEPT !.todo = <<>>, !.err = TRUE]
    OBVIOUS
  <2>2. Failed(c) = d
    BY <2>1 DEF Failed
  <2>3. d.kind = c.kind /\ d.view = c.view /\ d.err
    BY <2>1, CommandOfKind DEF PollCommands, SetupCommands
  <2>4. QED
    BY <2>2, <2>3 DEF GoesOn, Answered
<1>3. PICK rest : rest = Tail(c.todo)
  OBVIOUS
<1>4. CASE Head(c.todo) = "get"
  <2>1. PICK d : d = [c EXCEPT !.todo = rest, !.view = ViewOf(game)]
    OBVIOUS
  <2>2. After(c) = d
    BY <1>3, <1>4, <2>1 DEF After
  <2>3. d.kind = c.kind /\ d.view = ViewOf(game)
    BY <2>1, CommandOfKind DEF PollCommands, SetupCommands
  <2>4. QED
    BY <1>2, <2>2, <2>3 DEF GoesOn
<1>5. CASE Head(c.todo) # "get"
  <2>1. c \in SetupCommands /\ c.todo \in SetupCalls
    <3>1. c \in SetupCommands \/ c \in PollCommands
      BY CommandOfKind
    <3>2. c \in PollCommands => c.todo \in {<<"get">>, <<>>}
      BY DEF PollCommands
    <3>3. QED
      BY <1>1, <1>5, <3>1, <3>2, Lists DEF SetupCommands
  <2>2. rest # <<>>
    <3>1. \A t \in SetupCalls : t # <<>> /\ Head(t) # "get" => Tail(t) # <<>>
      <4>1. /\ Tail(<<"role", "yes", "get">>) = <<"yes", "get">> /\ Tail(<<"yes", "get">>) = <<"get">>
            /\ Tail(<<"role", "get">>) = <<"get">> /\ Tail(<<"no", "get">>) = <<"get">>
            /\ Head(<<"get">>) = "get"
        BY Lists
      <4>2. <<"yes", "get">> # <<>> /\ <<"get">> # <<>>
        BY Lists
      <4>3. QED
        BY <4>1, <4>2 DEF SetupCalls
    <3>2. QED
      BY <1>1, <1>3, <1>5, <2>1, <3>1
  <2>3. PICK d : d = [c EXCEPT !.todo = rest]
    OBVIOUS
  <2>4. c.kind = "setup"
    BY <2>1 DEF SetupCommands
  <2>5. After(c) = d
    BY <1>3, <1>5, <2>3, <2>4 DEF After
  <2>6. d.kind = c.kind /\ d.view = c.view /\ d.todo = rest
    BY <2>1, <2>3 DEF SetupCommands
  <2>7. QED
    BY <1>2, <2>2, <2>5, <2>6 DEF GoesOn, Answered
<1>6. QED
  BY <1>2, <1>4, <1>5

LEMMA WorkMoves ==
  ASSUME Types, NEW c \in cmds, Works(c) \/ Fails(c)
  PROVE  CommandsMove
<1>1. game \in Games /\ c \in Commands
  BY DEF Types
<1>2. ASSUME NEW d, Replaces(c, d), GoesOn(c, d) PROVE CommandsMove
  BY <1>2 DEF Replaces, CommandsMove
<1>3. CASE c.kind \in {"poll", "setup"}
  <2>1. Call(c) \/ See(c) \/ Refused(c) \/ AnswerLost(c)
    BY <1>3 DEF Works, Fails, AutoGoesOn, AutoEnds, AutoBreaksOff, Connect, ConnectFails
  <2>2. Calls(c) /\ (Replaces(c, After(c)) \/ Replaces(c, Failed(c)))
    BY <2>1 DEF Call, See, Refused, AnswerLost, Replace, Replaces
  <2>3. QED
    BY <1>1, <1>2, <1>3, <2>2, AnswerIsNew
<1>4. CASE c.kind \notin {"poll", "setup"}
  <2>1. PICK d : Continues(c, d) /\ Replaces(c, d)
    BY <1>1, WorkStep DEF Types
  <2>2. GoesOn(c, d)
    BY <1>4, <2>1 DEF Continues, GoesOn, Answered
  <2>3. QED
    BY <1>2, <2>1, <2>2
<1>5. QED
  BY <1>3, <1>4

LEMMA StepMoves ==
  ASSUME Types, [Next]_vars
  PROVE  CommandsMove
<1>1. CASE UNCHANGED vars \/ Cut \/ Restart
           \/ \E call \in {"act", "role", "yes", "save", "quit"} : OtherClient(call)
  BY <1>1 DEF vars, Cut, Restart, OtherClient, CommandsMove
<1>2. QED
  BY <1>1, KeyMoves, WorkMoves, UpdateMoves DEF Next

-----------------------------------------------------------------------------
(* The game, which this client has for itself.                             *)

Alone == MaxOthers = 0 /\ MaxRestarts = 0 /\ others = 0 /\ restarts = 0

GameMoves ==
  /\ game.setup = "complete" => game'.setup = "complete"
  /\ game.setup = "complete" /\ game.prose => game'.prose
  /\ game.setup # "complete" => (game'.setup = "complete" => game'.prose)
  /\ (game.prose => game.setup = "complete") => (game'.prose => game'.setup = "complete")
  /\ game'.setup = game.setup \/ \E c \in cmds : c.kind = "setup"
  /\ game'.over = game.over \/ Work(cmds) # {}

LEMMA ServeMoves ==
  ASSUME Types, NEW c \in cmds, Calls(c), Head(c.todo) # "see", Serve(Head(c.todo))
  PROVE  GameMoves
<1>1. /\ game \in Games /\ c \in Commands /\ game.version \in Nat
      /\ c.kind \in {"poll", "action", "setup", "end", "auto"} /\ c.todo # <<>>
  BY DEF Types, Calls, Games
<1>2. PICK k \in Nat \ {0} : k = game.version + 1
  BY <1>1
<1>3. PICK g : g = [game EXCEPT !.version = k]
  OBVIOUS
<1>4. Changed(game) = g
  BY <1>1, <1>2, <1>3 DEF Changed, Games
<1>5. g.setup = game.setup /\ g.prose = game.prose /\ g.over = game.over /\ g \in Games
  BY <1>1, <1>3 DEF Games
<1>6. CASE game' = game \/ game' = g
  BY <1>5, <1>6 DEF GameMoves
<1>7. CASE Head(c.todo) \in {"role", "yes", "no"} /\ game' # game
  <2>1. c.kind = "setup"
    BY <1>1, <1>7, CommandOfKind, CallLists
       DEF PollCommands, ActionCommands, EndCommands, AutoCommands
  <2>2. PICK call \in {"role", "yes", "no"} : call = Head(c.todo)
    BY <1>7
  <2>3. SetUp(call) /\ call \notin {"get", "act", "save", "quit"}
    BY <2>2 DEF Serve
  <2>4. PICK s : s = SetupAfter(call)
    OBVIOUS
  <2>5. PICK p : p = (s = "complete")
    OBVIOUS
  <2>6. game' = [g EXCEPT !.setup = s, !.prose = p] /\ game.setup # "complete"
    BY <1>4, <1>7, <2>3, <2>4, <2>5 DEF SetUp
  <2>7. game'.setup = s /\ game'.over = game.over
    BY <1>5, <2>6 DEF Games
  <2>8. game'.prose = p
    BY <1>5, <2>6 DEF Games
  <2>9. game'.prose <=> game'.setup = "complete"
    BY <2>5, <2>7, <2>8
  <2>10. QED
    BY <2>1, <2>6, <2>7, <2>9 DEF GameMoves
<1>8. CASE Head(c.todo) \in {"save", "quit"}
  <2>1. c \in Work(cmds)
    BY <1>1, <1>8, CommandOfKind, CallLists
       DEF PollCommands, ActionCommands, SetupCommands, AutoCommands, Work
  <2>2. PICK call \in {"save", "quit"} : call = Head(c.todo)
    BY <1>8
  <2>3. Finish(call)
    BY <2>2 DEF Serve, SetUp
  <2>4. game' = [g EXCEPT !.over = call] \/ game' = [game EXCEPT !.over = call]
    BY <1>4, <2>3 DEF Finish
  <2>5. game'.setup = game.setup /\ game'.prose = game.prose
    BY <1>1, <1>5, <2>4 DEF Games
  <2>6. QED
    BY <2>1, <2>5 DEF GameMoves
<1>9. CASE Head(c.todo) \in {"get", "act"}
  <2>1. UNCHANGED <<game, wire>> \/ Act
    BY <1>9 DEF Serve
  <2>2. game' = game \/ game' = g
    BY <1>4, <2>1 DEF Act
  <2>3. QED
    BY <1>6, <2>2
<1>10. QED
  BY <1>6, <1>7, <1>8, <1>9 DEF Serve

LEMMA StepGame ==
  ASSUME Types, Alone, [Next]_vars
  PROVE  GameMoves /\ Alone'
<1>1. game' = game => GameMoves
  BY DEF GameMoves
<1>2. CASE UNCHANGED vars \/ Cut \/ Key
  BY <1>1, <1>2 DEF Alone, vars, serverVars, counters, Cut, Key, ActionKey, StopKey, SaveKey, QuitKey,
     QuitAnswer, InterruptKey, DismissKey, RoleKey, NoKey, YesKey, SetupKey, AutoKey
<1>3. ~Restart /\ \A call : ~OtherClient(call)
  BY DEF Alone, Restart, OtherClient
<1>4. ASSUME NEW c \in cmds, Works(c) \/ Fails(c)
      PROVE  GameMoves /\ Alone'
  <2>1. CASE Call(c)
    BY <2>1, ServeMoves DEF Call, counters, Alone
  <2>2. CASE AnswerLost(c)
    BY <2>2, ServeMoves DEF AnswerLost, Alone
  <2>3. CASE See(c) \/ AutoGoesOn(c) \/ AutoEnds(c) \/ AutoBreaksOff(c) \/ Refused(c)
             \/ Connect(c) \/ ConnectFails(c)
    BY <1>1, <2>3 DEF See, AutoGoesOn, AutoEnds, AutoBreaksOff, Refused, Connect, ConnectFails,
       serverVars, counters, Alone
  <2>4. QED
    BY <1>4, <2>1, <2>2, <2>3 DEF Works, Fails
<1>5. ASSUME NEW c \in cmds, Update(c)
      PROVE  GameMoves /\ Alone'
  BY <1>1, <1>5 DEF Update, ActionDone, SetupDone, EndDone, AutoDone, PollDone, Opened, NotOpened,
     Received, ReadStops, Reconnect, QuitMsg, Stay, serverVars, counters, Alone
<1>6. QED
  BY <1>2, <1>3, <1>4, <1>5 DEF Next

-----------------------------------------------------------------------------
(* A game that is set up here, and one that was set up before.             *)

\* The arrival event comes with the completed setup; and, until it has been shown, no
\* setup is complete without it.
TellsTruly(v, g) == v.prose => v.setup = "complete" /\ g.setup = "complete"
Opening(v)       == v.setup = "complete" => v.prose

\* The arrival is still to be shown: nothing of play has begun, and whatever view shows
\* the setup complete shows the arrival with it.
Untold ==
  /\ m.setup # "complete" /\ Work(cmds) = {} /\ game.over = "no"
  /\ \A i \in 1..Len(wire) : wire[i].over = "no" /\ Opening(wire[i].view)
  /\ \A c \in cmds : Answered(c) => Opening(c.view)

NewGame ==
  /\ game.prose <=> game.setup = "complete"
  /\ \A i \in 1..Len(wire) : TellsTruly(wire[i].view, game)
  /\ \A c \in cmds : HasView(c) => TellsTruly(c.view, game)
  /\ m.heard => game.setup = "complete" /\ m.pane # "never"
  /\ m.setup = "" => game.setup # "complete" /\ \A c \in cmds : c.kind # "setup"
  /\ ~m.heard => Untold

OldGame ==
  /\ game.setup = "complete" /\ m.setup \in {"", "complete"} /\ m.pane = "never"
  /\ \A i \in 1..Len(wire) : wire[i].view.setup = "complete"
  /\ \A c \in cmds : HasView(c) => c.view.setup = "complete"

BInv == Alone /\ IF FirstSetup = "complete" THEN OldGame ELSE NewGame

\* What is on the stream was there, or tells of the game as it has become.
LEMMA WireMoves ==
  ASSUME Types, StreamStep
  PROVE  \A i \in 1..Len(wire') :
           \/ \E j \in 1..Len(wire) : wire'[i] = wire[j]
           \/ wire'[i].over = game'.over /\ wire'[i].view = ViewOf(game')
<1>1. wire \in Seq(Events) /\ game \in Games
  BY DEF Types
<1>2. \A s : EventOf(game', s).over = game'.over /\ EventOf(game', s).view = ViewOf(game')
  BY DEF EventOf
<1>3. ASSUME NEW s, wire' = Append(wire, EventOf(game', s)), game' \in Games,
             s \in {"initial", "action", "setup", "save", "quit"}, NEW i \in 1..Len(wire')
      PROVE  \/ \E j \in 1..Len(wire) : wire'[i] = wire[j]
             \/ wire'[i].over = game'.over /\ wire'[i].view = ViewOf(game')
  <2>1. PICK e \in Events : e = EventOf(game', s)
    BY <1>3, EventIsEvent
  <2>2. i \in 1..Len(wire) \/ wire'[i] = e
    BY <1>1, <1>3, <2>1
  <2>3. i \in 1..Len(wire) => wire'[i] = wire[i]
    BY <1>1, <1>3, <2>1
  <2>4. QED
    BY <1>2, <2>1, <2>2, <2>3
<1>4. CASE Called
  <2>1. game' \in Games /\ (wire' = wire \/ \E s \in {"action", "setup", "save", "quit"} :
                                              wire' = Append(wire, EventOf(game', s)))
    BY <1>4 DEF Called, Announced
  <2>2. QED
    BY <1>3, <2>1
<1>5. CASE Connects
  <2>1. PICK e : e = EventOf(game, "initial")
    OBVIOUS
  <2>2. wire' = <<e>> /\ game' = game
    BY <1>5, <2>1 DEF Connects
  <2>3. e.over = game'.over /\ e.view = ViewOf(game')
    BY <2>1, <2>2 DEF EventOf, ViewOf
  <2>4. \A i \in 1..Len(wire') : wire'[i] = e
    BY <2>2
  <2>5. QED
    BY <2>3, <2>4
<1>6. CASE Takes
  <2>1. wire' = Tail(wire) /\ wire # <<>>
    BY <1>6 DEF Takes
  <2>2. \A i \in 1..Len(wire') : i + 1 \in 1..Len(wire) /\ wire'[i] = wire[i + 1]
    BY <1>1, <2>1
  <2>3. QED
    BY <2>2
<1>7. CASE Loses
  <2>1. PICK n \in 0..Len(wire) : wire' = SubSeq(wire, 1, n)
    BY <1>7 DEF Loses
  <2>2. \A i \in 1..Len(wire') : i \in 1..Len(wire) /\ wire'[i] = wire[i]
    BY <1>1, <2>1
  <2>3. QED
    BY <2>2
<1>8. QED
  BY <1>4, <1>5, <1>6, <1>7 DEF StreamStep

LEMMA ArrivedView ==
  ASSUME Types, NEW v, Arrived(v)
  PROVE  \/ 1 \in 1..Len(wire) /\ v = wire[1].view
         \/ \E c \in cmds : HasView(c) /\ v = c.view /\ (Answered(c) \/ c \in Work(cmds))
<1>1. wire \in Seq(Events)
  BY DEF Types
<1>2. wire # <<>> => 1 \in 1..Len(wire) /\ Head(wire) = wire[1]
  BY <1>1
<1>3. QED
  BY <1>2 DEF Arrived

LEMMA OldKept ==
  ASSUME Types, OldGame, StreamStep, ScreenStep, CommandsMove, GameMoves
  PROVE  OldGame'
<1>1. game'.setup = "complete"
  BY DEF OldGame, GameMoves
<1>2. ViewOf(game).setup = "complete" /\ ViewOf(game').setup = "complete" /\ Blank.setup = "complete"
  BY <1>1 DEF ViewOf, Blank, OldGame
<1>3. ASSUME NEW v, Arrived(v) PROVE v.setup = "complete"
  <2>1. \/ 1 \in 1..Len(wire) /\ v = wire[1].view
        \/ \E c \in cmds : HasView(c) /\ v = c.view
    BY <1>3, ArrivedView
  <2>2. CASE 1 \in 1..Len(wire) /\ v = wire[1].view
    BY <2>2 DEF OldGame
  <2>3. CASE \E c \in cmds : HasView(c) /\ v = c.view
    BY <2>3 DEF OldGame
  <2>4. QED
    BY <2>1, <2>2, <2>3
<1>4. m'.setup \in {"", "complete"} /\ m'.pane = "never"
  <2>1. CASE SameSetup(m, m') \/ Chooses(m, m') \/ Dismisses(m, m')
    BY <2>1 DEF OldGame, SameSetup, Chooses, Dismisses
  <2>2. ASSUME NEW v \in View, Arrived(v), Shows(m, m', v)
        PROVE  m'.setup \in {"", "complete"} /\ m'.pane = "never"
    BY <1>3, <2>2 DEF OldGame, Shows, Complete
  <2>3. QED
    BY <2>1, <2>2 DEF ScreenStep
<1>5. \A i \in 1..Len(wire') : wire'[i].view.setup = "complete"
  BY <1>2, WireMoves DEF OldGame
<1>6. \A d \in cmds' : HasView(d) => d.view.setup = "complete"
  BY <1>2 DEF OldGame, CommandsMove, Fresh, GoesOn, HasView
<1>7. QED
  BY <1>1, <1>4, <1>5, <1>6 DEF OldGame

\* Nothing of play begins while the arrival is still to be shown.
LEMMA NothingBegins ==
  ASSUME Types, Untold, PlayStep
  PROVE  Work(cmds') = {}
<1>1. wire # <<>> => Head(wire).over = "no"
  <2>1. wire \in Seq(Events)
    BY DEF Types
  <2>2. wire # <<>> => 1 \in 1..Len(wire) /\ Head(wire) = wire[1]
    BY <2>1
  <2>3. QED
    BY <2>2 DEF Untold
<1>2. ~Closes /\ ~Ends /\ \A d : ~Begins(d) /\ ~Runs(d)
  BY <1>1 DEF Untold, Closes, Ends, Begins, Runs
<1>3. \A c : ~Finishes(c) /\ ~Arrives(c) /\ ~Reopens(c) /\ \A d : ~Carries(c, d)
  BY DEF Untold, Finishes, Arrives, Reopens, Carries
<1>4. Work(cmds') \subseteq Work(cmds)
  BY <1>2, <1>3 DEF PlayStep, Idles, Waits
<1>5. QED
  BY <1>4 DEF Untold

LEMMA NewKept ==
  ASSUME Types, Types', NewGame, StreamStep, PlayStep, ScreenStep, CommandsMove, GameMoves
  PROVE  NewGame'
<1>a. /\ game.prose \in BOOLEAN /\ game'.prose \in BOOLEAN
      /\ m.heard \in BOOLEAN /\ m'.heard \in BOOLEAN
  BY DEF Types, Games, Models
<1>b. /\ ViewOf(game).prose = (game.over = "no" /\ game.prose)
      /\ ViewOf(game).setup = IF game.over = "no" THEN game.setup ELSE "complete"
      /\ ViewOf(game').prose = (game'.over = "no" /\ game'.prose)
      /\ ViewOf(game').setup = IF game'.over = "no" THEN game'.setup ELSE "complete"
      /\ Blank.setup = "complete" /\ ~Blank.prose
  BY DEF ViewOf, Blank
<1>c. game.setup = "complete" => game'.setup = "complete"
  BY DEF GameMoves
<1>1. game'.prose <=> game'.setup = "complete"
  BY <1>a DEF NewGame, GameMoves
<1>2. \A v : TellsTruly(v, game) => TellsTruly(v, game')
  BY <1>c DEF TellsTruly
<1>3. /\ TellsTruly(ViewOf(game), game') /\ TellsTruly(ViewOf(game'), game')
      /\ TellsTruly(Blank, game')
  BY <1>a, <1>b, <1>c, <1>1 DEF TellsTruly, NewGame
<1>4. \A i \in 1..Len(wire') : TellsTruly(wire'[i].view, game')
  BY <1>2, <1>3, WireMoves DEF NewGame
<1>5. \A d \in cmds' : HasView(d) => TellsTruly(d.view, game')
  BY <1>2, <1>3 DEF NewGame, CommandsMove, Fresh, GoesOn, HasView, TellsTruly
<1>6. \A v : Arrived(v) => TellsTruly(v, game)
  BY ArrivedView DEF NewGame
<1>7. m.heard => m'.heard
  BY <1>a DEF ScreenStep, SameSetup, Chooses, Dismisses, Shows
<1>8. m'.heard => game'.setup = "complete" /\ m'.pane # "never"
  <2>1. CASE SameSetup(m, m') \/ Chooses(m, m') \/ Dismisses(m, m')
    BY <1>c, <2>1 DEF NewGame, SameSetup, Chooses, Dismisses
  <2>2. ASSUME NEW v \in View, Arrived(v), Shows(m, m', v), m'.heard
        PROVE  game'.setup = "complete" /\ m'.pane # "never"
    <3>1. CASE m.heard
      <4>1. m'.pane = m.pane
        BY <2>2, <3>1 DEF Shows
      <4>2. QED
        BY <1>c, <3>1, <4>1 DEF NewGame
    <3>2. CASE ~m.heard
      <4>1. v.prose
        BY <1>a, <2>2, <3>2 DEF Shows, View
      <4>2. v.setup = "complete" /\ game.setup = "complete"
        BY <1>6, <2>2, <4>1 DEF TellsTruly
      <4>3. ~Complete(m)
        BY <3>2, <4>2 DEF NewGame, Untold, Complete
      <4>4. QED
        BY <1>c, <2>2, <3>2, <4>1, <4>2, <4>3 DEF Shows
    <3>3. QED
      BY <3>1, <3>2
  <2>3. QED
    BY <2>1, <2>2 DEF ScreenStep
<1>9. m'.setup = "" => game'.setup # "complete" /\ \A d \in cmds' : d.kind # "setup"
  <2>1. SUFFICES ASSUME m'.setup = ""
                 PROVE  game'.setup # "complete" /\ \A d \in cmds' : d.kind # "setup"
    OBVIOUS
  <2>2. m.setup = ""
    BY <2>1 DEF ScreenStep, SameSetup, Chooses, Dismisses, Shows, View
  <2>3. game.setup # "complete" /\ \A c \in cmds : c.kind # "setup"
    BY <2>2 DEF NewGame
  <2>4. QED
    BY <2>2, <2>3 DEF GameMoves, CommandsMove, Fresh, GoesOn
<1>10. ASSUME ~m'.heard
       PROVE  Untold'
  <2>1. ~m.heard /\ Untold
    BY <1>7, <1>10 DEF NewGame
  <2>2. Work(cmds') = {} /\ game'.over = "no"
    BY <2>1, NothingBegins DEF Untold, GameMoves
  <2>3. m'.setup # "complete"
    <3>1. CASE SameSetup(m, m') \/ Chooses(m, m') \/ Dismisses(m, m')
      BY <2>1, <3>1 DEF Untold, SameSetup, Chooses, Dismisses
    <3>2. ASSUME NEW v \in View, Arrived(v), Shows(m, m', v)
          PROVE  m'.setup # "complete"
      <4>1. Opening(v)
        BY <2>1, <3>2, ArrivedView DEF Untold
      <4>2. ~v.prose
        BY <1>a, <1>10, <3>2 DEF Shows, View
      <4>3. QED
        BY <2>1, <3>2, <4>1, <4>2 DEF Untold, Shows, Opening
    <3>3. QED
      BY <3>1, <3>2 DEF ScreenStep
  <2>4. Opening(ViewOf(game)) /\ Opening(ViewOf(game'))
    BY <1>b, <1>1, <2>1, <2>2 DEF NewGame, Untold, Opening
  <2>5. \A i \in 1..Len(wire') : wire'[i].over = "no" /\ Opening(wire'[i].view)
    BY <2>1, <2>2, <2>4, WireMoves DEF Untold
  <2>6. \A d \in cmds' : Answered(d) => Opening(d.view)
    BY <2>1, <2>4 DEF Untold, CommandsMove, Fresh, GoesOn, HasView, Answered
  <2>7. QED
    BY <2>2, <2>3, <2>5, <2>6 DEF Untold, Opening, Answered
<1>11. QED
  BY <1>1, <1>4, <1>5, <1>8, <1>9, <1>10 DEF NewGame

LEMMA BeginsKept ==
  ASSUME IInv, BInv, [Next]_vars
  PROVE  BInv'
<1>1. Types /\ Types' /\ FInv /\ StreamStep /\ PlayStep
  BY Inductive DEF IInv
<1>2. ScreenStep /\ CommandsMove /\ GameMoves /\ Alone'
  BY <1>1, ScreenMoves, StepMoves, StepGame DEF BInv
<1>3. CASE FirstSetup = "complete"
  BY <1>1, <1>2, <1>3, OldKept DEF BInv
<1>4. CASE FirstSetup # "complete"
  BY <1>1, <1>2, <1>4, NewKept DEF BInv
<1>5. QED
  BY <1>3, <1>4

\* A client that has its server to itself begins a game in order: no action and no movement
\* before the setup is complete, and the opening is shown for a game that is set up here,
\* and not for one that is joined later (handleKey, Update, applyGameplayEvents).
THEOREM PlayBeginsInOrder ==
  ASSUME MaxOthers = 0, MaxRestarts = 0
  PROVE  Spec => []BeginsInOrder
<1>1. Init => BInv
  <2>1. SUFFICES ASSUME Init PROVE BInv
    OBVIOUS
  <2>2. /\ game.setup = FirstSetup /\ game.over = "no"
        /\ FirstSetup # "complete" => ~game.prose
        /\ wire = <<>> /\ cmds = {OpenCmd(m)} /\ others = 0 /\ restarts = 0
    <3>1. PICK p \in {FALSE, FirstSetup = "complete"} :
            game = [version |-> 1, setup |-> FirstSetup, prose |-> p, over |-> "no"]
      BY <2>1 DEF Init
    <3>2. game.setup = FirstSetup /\ game.over = "no"
      BY <3>1
    <3>3. FirstSetup # "complete" => ~p
      BY <3>1
    <3>4. game.prose = p
      BY <3>1, Zenon
    <3>5. FirstSetup # "complete" => ~game.prose
      BY <3>3, <3>4
    <3>6. wire = <<>> /\ cmds = {OpenCmd(m)} /\ others = 0 /\ restarts = 0
      BY <2>1 DEF Init
    <3>7. QED
      BY <3>2, <3>5, <3>6
  <2>3. m.setup = "" /\ ~m.heard /\ m.pane = "never"
    BY <2>1 DEF Init
  <2>4. OpenCmd(m).kind = "open"
    BY DEF OpenCmd
  <2>5. Work(cmds) = {} /\ \A c \in cmds : ~HasView(c) /\ ~Answered(c) /\ c.kind # "setup"
    BY <2>2, <2>4 DEF Work, HasView, Answered
  <2>6. 1..Len(wire) = {}
    BY <2>2
  <2>7. FirstSetup = "complete" => OldGame
    BY <2>2, <2>3, <2>5, <2>6 DEF OldGame
  <2>8. FirstSetup # "complete" => NewGame
    BY <2>2, <2>3, <2>5, <2>6 DEF NewGame, Untold
  <2>9. QED
    BY <2>2, <2>7, <2>8 DEF BInv, Alone
<1>2. IInv /\ BInv /\ [Next]_vars => BInv'
  BY BeginsKept
<1>3. BInv => BeginsInOrder
  <2>1. SUFFICES ASSUME BInv PROVE PlayAfterSetup /\ OpeningIsShown
    BY DEF BeginsInOrder
  <2>2. CASE FirstSetup = "complete"
    BY <2>1, <2>2 DEF BInv, OldGame, PlayAfterSetup, OpeningIsShown
  <2>3. CASE FirstSetup # "complete"
    <3>1. NewGame
      BY <2>1, <2>3 DEF BInv
    <3>2. PlayAfterSetup
      <4>1. SUFFICES ASSUME NEW c \in cmds, c.kind \in {"action", "auto"}
                     PROVE  game.setup = "complete"
        BY DEF PlayAfterSetup
      <4>2. Work(cmds) # {}
        BY <4>1 DEF Work
      <4>3. QED
        BY <3>1, <4>2 DEF NewGame, Untold
    <3>3. OpeningIsShown
      BY <2>3, <3>1 DEF NewGame, OpeningIsShown
    <3>4. QED
      BY <3>2, <3>3
  <2>4. QED
    BY <2>2, <2>3
<1>4. QED
  BY <1>1, <1>2, <1>3, Invariant, PTL DEF Spec
=============================================================================
