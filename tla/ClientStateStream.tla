------------------------- MODULE ClientStateStream -------------------------
(***************************************************************************)
(* How a state change reaches a client: GameUpdateHub.ts and the stream    *)
(* handler of Api.ts on the server, one HTTP connection, and the part of   *)
(* packages/cli/charm/main.go that follows the stream, falls back to       *)
(* polling and reconnects.                                                 *)
(*                                                                         *)
(* The game is the sequence of the states it has been in, playing or over, *)
(* across restarts.  A mutation holds the repository's permit from storing *)
(* its state until publishing it, or gives it back without publishing (a   *)
(* failed save, an interrupted request: see GameRepository).  The client   *)
(* is one that watches; what its own keys do is not in this module.        *)
(***************************************************************************)
EXTENDS Integers, Sequences

CONSTANTS
  Replay,         \* events the hub keeps for new subscribers
  Capacity,       \* unread events the hub keeps for a subscriber
  Wire,           \* events between the server's writer and the client's Update
  Pending,        \* a poll the server has not answered
  MaxVersion,     \* bound: states the game goes through
  MaxGeneration   \* bound: connections the client opens

ASSUME StreamAssumption ==
  /\ Replay \in Nat \ {0} /\ Capacity \in Nat \ {0} /\ Wire \in Nat \ {0}
  /\ Pending \notin Nat
  /\ MaxVersion \in Nat \ {0} /\ MaxGeneration \in Nat \ {0}

VARIABLES
  states,      \* the states of the game in order
  changing,    \* is a mutation between its store and its publication?
  revision,    \* revisionRef of this server process
  recent,      \* the hub's replay buffer
  announced,   \* history: the state every new or drained stream must reach
  link,        \* the connection: "none", "snapshot", "subscribed", "closed"
  queue,       \* the subscriber's unread events
  wire,        \* written by the server, not yet handled by Update
  shown,       \* the state the client shows, 0 for none
  last,        \* lastStreamRevision
  follow,      \* streamConnecting, streamActive, streamRetryScheduled
  generation,  \* streamGeneration
  polls,       \* loadState commands under way
  left         \* tea.Quit

serverVars == <<states, changing, revision, recent, announced>>
linkVars   == <<link, queue, wire>>
clientVars == <<shown, last, follow, generation, polls, left>>
vars == <<serverVars, linkVars, clientVars>>

Kinds   == {"playing", "over"}
Version == Len(states)
IsOver  == states[Version] = "over"
Event   == [revision: Nat, version: Nat, terminal: BOOLEAN]

-----------------------------------------------------------------------------
(* The server.                                                             *)

\* The last n elements of a sequence: a sliding buffer drops the oldest.
Suffix(s, n) ==
  IF Len(s) > n THEN SubSeq(s, Len(s) - n + 1, Len(s)) ELSE s

\* makeClientStateEvent: the present state under the present revision.
SnapshotEvent == [revision |-> revision, version |-> Version, terminal |-> IsOver]

\* An operation of the repository stores a new state.
Change(kind) ==
  /\ ~changing
  /\ Version < MaxVersion
  /\ states' = Append(states, kind)
  /\ changing' = TRUE
  /\ UNCHANGED <<revision, recent, announced, linkVars, clientVars>>

\* publishClientState: the revision and the event in one step, to every queue.
Publish ==
  /\ changing
  /\ changing' = FALSE
  /\ revision' = revision + 1
  /\ LET event == [SnapshotEvent EXCEPT !.revision = revision']
     IN  /\ recent' = Suffix(Append(recent, event), Replay)
         /\ queue' = IF link = "subscribed"
                     THEN Suffix(Append(queue, event), Capacity)
                     ELSE queue
  /\ announced' = Version
  /\ UNCHANGED <<states, link, wire, clientVars>>

\* The operation fails or is interrupted after its store.
Abandon ==
  /\ changing
  /\ changing' = FALSE
  /\ UNCHANGED <<states, revision, recent, announced, linkVars, clientVars>>

\* getClientStateStreamSnapshot, under the permit, answers the client's GET.
Snapshot ==
  /\ follow = "connecting" /\ link = "none"
  /\ ~changing
  /\ link' = "snapshot"
  /\ wire' = <<SnapshotEvent>>
  /\ UNCHANGED <<serverVars, queue, clientVars>>

\* Mutant: a hub without a replay buffer.
SubscribeWithoutReplay ==
  /\ link = "snapshot"
  /\ link' = "subscribed"
  /\ queue' = <<>>
  /\ UNCHANGED <<serverVars, wire, clientVars>>

\* Stream.concat subscribes only when the snapshot has gone out.
Subscribe ==
  /\ link = "snapshot"
  /\ link' = "subscribed"
  /\ queue' = recent
  /\ UNCHANGED <<serverVars, wire, clientVars>>

Send ==
  /\ link = "subscribed" /\ queue # <<>> /\ Len(wire) < Wire
  /\ wire' = Append(wire, Head(queue))
  /\ queue' = Tail(queue)
  /\ UNCHANGED <<serverVars, link, clientVars>>

\* The connection breaks; what was under way may be lost with it.  The client
\* is given one more connection at least, so that the bound never strands it.
Cut ==
  /\ link \in {"snapshot", "subscribed"}
  /\ generation < MaxGeneration
  /\ link' = "closed"
  /\ queue' = <<>>
  /\ \E n \in 0..Len(wire) : wire' = SubSeq(wire, 1, n)
  /\ UNCHANGED <<serverVars, clientVars>>

\* Another server process: a restored or a fresh game, revisions from 0.
Restart ==
  /\ Version < MaxVersion
  /\ link = "none" \/ generation < MaxGeneration
  /\ states' = Append(states, "playing")
  /\ changing' = FALSE
  /\ revision' = 0
  /\ recent' = <<>>
  /\ announced' = Version + 1
  /\ link' = IF link = "none" THEN "none" ELSE "closed"
  /\ queue' = <<>>
  /\ \E n \in 0..Len(wire) : wire' = SubSeq(wire, 1, n)
  /\ UNCHANGED clientVars

\* getClientState for a poll, under the permit.
AnswerPoll ==
  /\ ~changing
  /\ \E p \in polls :
       /\ p.answer = Pending
       /\ polls' = (polls \ {p}) \union {[p EXCEPT !.answer = Version]}
  /\ UNCHANGED <<serverVars, linkVars, shown, last, follow, generation, left>>

-----------------------------------------------------------------------------
(* The client's Update.                                                    *)

\* Mutant: every event is accepted.
AcceptsAll(event, after) == TRUE

\* shouldAcceptClientStateStreamRevision.
Accepts(event, after) == event.revision > after

\* A non-terminal event is applied; a terminal one ends the program.
Apply(event) ==
  /\ last' = event.revision
  /\ IF event.terminal
       THEN /\ left' = TRUE
            /\ link' = "none" /\ queue' = <<>> /\ wire' = <<>>
            /\ UNCHANGED shown
       ELSE /\ shown' = event.version
            /\ wire' = Tail(wire)
            /\ UNCHANGED <<link, queue, left>>

\* Mutant: revisions are compared across connections.
InitialKeepsLast ==
  /\ ~left /\ follow = "connecting" /\ wire # <<>>
  /\ follow' = "active"
  /\ IF Head(wire).revision > last
       THEN Apply(Head(wire))
       ELSE wire' = Tail(wire) /\ UNCHANGED <<link, queue, shown, last, left>>
  /\ UNCHANGED <<serverVars, generation, polls>>

\* The first event of a connection resets lastStreamRevision to -1.
Initial ==
  /\ ~left /\ follow = "connecting" /\ wire # <<>>
  /\ Apply(Head(wire))
  /\ follow' = "active"
  /\ UNCHANGED <<serverVars, generation, polls>>

Receive ==
  /\ ~left /\ follow = "active" /\ wire # <<>>
  /\ IF Accepts(Head(wire), last)
       THEN Apply(Head(wire))
       ELSE wire' = Tail(wire) /\ UNCHANGED <<link, queue, shown, last, left>>
  /\ UNCHANGED <<serverVars, follow, generation, polls>>

\* streamRecoveryCmd: one reconnect timer, and one poll meanwhile.
Recover ==
  /\ follow' = "retry"
  /\ link' = "none" /\ queue' = <<>> /\ wire' = <<>>
  /\ polls' = polls \union {[generation |-> generation, answer |-> Pending]}
  /\ UNCHANGED <<shown, last, generation, left>>

\* The stream ends, or its reader fails.
StreamStops ==
  /\ ~left /\ follow = "active"
  /\ link = "closed" /\ wire = <<>>
  /\ Recover
  /\ UNCHANGED serverVars

\* No answer, no first event in time, or a connection closed before it.
OpenFails ==
  /\ ~left /\ follow = "connecting"
  /\ generation < MaxGeneration
  /\ Recover
  /\ UNCHANGED serverVars

Reconnect ==
  /\ ~left /\ follow = "retry"
  /\ generation < MaxGeneration
  /\ follow' = "connecting"
  /\ generation' = generation + 1
  /\ UNCHANGED <<serverVars, linkVars, shown, last, polls, left>>

\* Mutant: the generation of the poll is not looked at.
PolledAnyGeneration(p) ==
  /\ ~left
  /\ polls' = polls \ {p}
  /\ shown' = IF follow # "active" THEN p.answer ELSE shown
  /\ UNCHANGED <<serverVars, linkVars, last, follow, generation, left>>

\* stateLoadedMsg: applied only without a stream, and only if no connection
\* has been opened since the poll was sent.
Polled(p) ==
  /\ ~left
  /\ polls' = polls \ {p}
  /\ shown' = IF p.generation = generation /\ follow # "active"
              THEN p.answer ELSE shown
  /\ UNCHANGED <<serverVars, linkVars, last, follow, generation, left>>

PollArrives == \E p \in polls : p.answer # Pending /\ Polled(p)

\* An error or the HTTP client's timeout.
PollFails ==
  /\ ~left
  /\ \E p \in polls : polls' = polls \ {p}
  /\ UNCHANGED <<serverVars, linkVars, shown, last, follow, generation, left>>

-----------------------------------------------------------------------------
(* Specification.                                                          *)

Init ==
  /\ states = <<"playing">> /\ changing = FALSE /\ revision = 0
  /\ recent = <<>> /\ announced = 1
  /\ link = "none" /\ queue = <<>> /\ wire = <<>>
  /\ shown = 0 /\ last = -1 /\ follow = "connecting" /\ generation = 1
  /\ polls = {} /\ left = FALSE

ServerNext ==
  \/ \E kind \in Kinds : Change(kind)
  \/ Publish \/ Abandon \/ Snapshot \/ Subscribe \/ Send \/ AnswerPoll

ClientNext ==
  \/ Initial \/ Receive \/ StreamStops \/ OpenFails \/ Reconnect
  \/ PollArrives \/ PollFails

Next == ServerNext \/ ClientNext \/ Cut \/ Restart

Spec == Init /\ [][Next]_vars

\* Fibers and commands run, the timer fires, a request is answered.  Cuts,
\* failures and restarts come to an end with their bounds.
Fairness ==
  /\ WF_vars(Publish \/ Abandon)
  /\ WF_vars(Snapshot) /\ WF_vars(Subscribe) /\ WF_vars(Send)
  /\ WF_vars(Initial) /\ WF_vars(Receive) /\ WF_vars(StreamStops)
  /\ WF_vars(OpenFails) /\ WF_vars(Reconnect)

FairSpec == Spec /\ Fairness

-----------------------------------------------------------------------------
(* Properties.                                                             *)

TypeOK ==
  /\ states \in Seq(Kinds) /\ states # <<>>
  /\ changing \in BOOLEAN
  /\ revision \in Nat
  /\ recent \in Seq(Event) /\ Len(recent) <= Replay
  /\ announced \in 1..Version
  /\ link \in {"none", "snapshot", "subscribed", "closed"}
  /\ queue \in Seq(Event) /\ (Len(queue) <= Capacity \/ Len(queue) <= Replay)
  /\ wire \in Seq(Event) /\ Len(wire) <= Wire
  /\ shown \in 0..Version
  /\ last \in Int
  /\ follow \in {"connecting", "active", "retry"}
  /\ generation \in 1..MaxGeneration
  /\ polls \subseteq [generation: 1..generation, answer: (1..Version) \union {Pending}]
  /\ left \in BOOLEAN

\* The client is a mirror: whatever is lost, replayed, repeated or late, it
\* shows ever later states, and it quits only for an ending it has not yet left
\* behind (the revision check, its reset, and the generation of the polls).
Mirror == INSTANCE StateMirror
MirrorSpec == Mirror!Spec

\* A stream with nothing left to deliver has delivered the newest event: the
\* replay closes the gap between the snapshot and the subscription, and a full
\* queue loses old events only.
DrainedIsCurrent ==
  /\ TypeOK
  /\ ~left /\ follow = "active" /\ link = "subscribed" /\ queue = <<>> /\ wire = <<>>
       => last = revision /\ shown >= announced

\* A client that is not told the game is over comes to show every published
\* state or a later one, for good.
EventuallyShown == <>[](left \/ shown >= announced)
=============================================================================
