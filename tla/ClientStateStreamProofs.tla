---------------------- MODULE ClientStateStreamProofs ----------------------
(***************************************************************************)
(* Theorems about ClientStateStream, for every size of the replay buffer,  *)
(* the subscriber's queue and the connection, and any number of states and *)
(* reconnects.                                                             *)
(***************************************************************************)
EXTENDS ClientStateStream, SequenceTheorems, TLAPS

Elements(s) == {s[i] : i \in 1..Len(s)}

-----------------------------------------------------------------------------
(* Buffers as sets of events.                                              *)

LEMMA ElementsOfEmpty == Elements(<<>>) = {}
BY DEF Elements

LEMMA ElementsInSet == ASSUME NEW S, NEW s \in Seq(S) PROVE Elements(s) \subseteq S
BY DEF Elements

LEMMA ElementsOfOne == ASSUME NEW e PROVE Elements(<<e>>) = {e}
BY DEF Elements

LEMMA ElementsOfAppend ==
  ASSUME NEW S, NEW s \in Seq(S), NEW e \in S
  PROVE  Elements(Append(s, e)) = Elements(s) \union {e}
<1>1. /\ Len(Append(s, e)) = Len(s) + 1 /\ Len(s) \in Nat
      /\ \A i \in 1..Len(s) : Append(s, e)[i] = s[i]
      /\ Append(s, e)[Len(s) + 1] = e
  OBVIOUS
<1>2. 1..(Len(s) + 1) = 1..Len(s) \union {Len(s) + 1}
  BY <1>1
<1>3. QED
  BY <1>1, <1>2, Zenon DEF Elements

LEMMA ElementsOfHeadAndTail ==
  ASSUME NEW S, NEW s \in Seq(S), s # <<>>
  PROVE  /\ Head(s) = s[1] /\ s[1] \in S /\ Tail(s) \in Seq(S)
         /\ Len(Tail(s)) = Len(s) - 1 /\ Len(s) \in Nat \ {0}
         /\ Elements(s) = {s[1]} \union Elements(Tail(s))
<1>1. /\ Len(s) \in Nat \ {0} /\ Len(Tail(s)) = Len(s) - 1 /\ Tail(s) \in Seq(S)
      /\ \A i \in 1..(Len(s) - 1) : Tail(s)[i] = s[i + 1]
      /\ s[1] \in S /\ Head(s) = s[1]
  OBVIOUS
<1>2. ASSUME NEW i \in 1..Len(s) PROVE i = 1 \/ s[i] \in Elements(Tail(s))
  <2>1. i # 1 => i - 1 \in 1..(Len(s) - 1) /\ Tail(s)[i - 1] = s[i]
    BY <1>1
  <2>2. QED
    BY <2>1, <1>1 DEF Elements
<1>3. ASSUME NEW i \in 1..(Len(s) - 1) PROVE Tail(s)[i] \in Elements(s)
  BY <1>1 DEF Elements
<1>4. s[1] \in Elements(s)
  BY <1>1 DEF Elements
<1>5. QED
  BY <1>1, <1>2, <1>3, <1>4 DEF Elements

\* A connection that breaks keeps a first part of what was written to it.
LEMMA PrefixKeepsElements ==
  ASSUME NEW S, NEW s \in Seq(S), NEW n \in 0..Len(s)
  PROVE  /\ SubSeq(s, 1, n) \in Seq(S) /\ Len(SubSeq(s, 1, n)) = n
         /\ Elements(SubSeq(s, 1, n)) \subseteq Elements(s)
         /\ SubSeq(s, 1, n) # <<>> => s # <<>> /\ SubSeq(s, 1, n)[1] = s[1]
<1>1. /\ SubSeq(s, 1, n) \in Seq(S) /\ Len(SubSeq(s, 1, n)) = n
      /\ \A i \in 1..n : SubSeq(s, 1, n)[i] = s[i]
      /\ Len(s) \in Nat
  OBVIOUS
<1>2. QED
  BY <1>1 DEF Elements

\* A sliding buffer takes a new event, keeps its bound and invents nothing.
LEMMA SuffixOfAppend ==
  ASSUME NEW S, NEW s \in Seq(S), NEW e \in S, NEW n \in Nat \ {0}
  PROVE  LET t == Suffix(Append(s, e), n)
         IN  /\ t \in Seq(S) /\ Len(t) \in 1..n
             /\ t[Len(t)] = e /\ e \in Elements(t)
             /\ Elements(t) \subseteq Elements(s) \union {e}
<1> DEFINE a == Append(s, e)
           t == Suffix(a, n)
           k == IF Len(a) > n THEN Len(a) - n ELSE 0
<1>1. /\ a \in Seq(S) /\ Len(a) = Len(s) + 1 /\ Len(s) \in Nat
      /\ \A i \in 1..Len(a) : a[i] \in S
      /\ a[Len(a)] = e
  OBVIOUS
<1>2. k \in Nat /\ Len(a) - k \in 1..n
  BY <1>1
<1>3. t = IF k > 0 THEN SubSeq(a, k + 1, Len(a)) ELSE a
  BY <1>1 DEF Suffix
<1> HIDE DEF a, k, t
<1>a. /\ t \in Seq(S) /\ Len(t) = Len(a) - k
      /\ \A i \in 1..Len(t) : t[i] = a[i + k]
  <2>1. CASE k > 0
    <3>1. \A i \in (k + 1)..Len(a) : a[i] \in S
      BY <1>1, <1>2
    <3>2. k + 1 \in Int /\ Len(a) \in Int /\ k + 1 <= Len(a)
      BY <1>1, <1>2
    <3>3. /\ t \in Seq(S) /\ Len(t) = Len(a) - (k + 1) + 1
          /\ \A i \in 1..(Len(a) - (k + 1) + 1) : t[i] = a[(k + 1) + i - 1]
      BY <2>1, <1>3, <3>1, <3>2, SubSeqProperties, SMTT(30)
    <3>4. QED
      BY <1>1, <1>2, <3>3
  <2>2. CASE ~(k > 0)
    BY <2>2, <1>1, <1>2, <1>3
  <2>3. QED
    BY <2>1, <2>2
<1>4. t[Len(t)] = e /\ Len(t) \in 1..n
  BY <1>1, <1>2, <1>a
<1>5. Elements(t) \subseteq Elements(a)
  BY <1>1, <1>2, <1>a DEF Elements
<1>6. Elements(a) = Elements(s) \union {e}
  BY ElementsOfAppend DEF a
<1>7. e \in Elements(t)
  BY <1>4 DEF Elements
<1>8. QED
  BY <1>a, <1>4, <1>5, <1>6, <1>7 DEF a, t

-----------------------------------------------------------------------------
(* The inductive invariant.                                                *)

\* Everything the server has sent towards the client, or will replay to it.
InFlight == Elements(wire) \union Elements(queue)

\* The connection of this server process is the client's.
Linked == link \in {"snapshot", "subscribed"}

\* A connection that is not there carries nothing, and only a subscriber has a
\* queue of unread events.
LinkHolds ==
  /\ link = "none" => wire = <<>>
  /\ link # "subscribed" => queue = <<>>
  /\ follow = "retry" => link = "none"
  /\ left => follow = "active" /\ link = "none"

\* An event tells of a state the game has been in.
IsTrue(e) ==
  /\ e.version \in 1..Version
  /\ e.terminal => states[e.version] = "over"

\* Within a process, a later revision is of a state not older.
InOrder(e, f) == e.revision < f.revision => e.version <= f.version

\* What the client has seen of the connection it follows.
Seen == [revision |-> last, version |-> shown, terminal |-> FALSE]

\* An event of this process is no newer than the process; one of its newest
\* revision tells of the state announced last, or of a later one.
IsOfProcess(e) ==
  /\ e.revision <= revision
  /\ e.revision = revision => e.version >= announced

EventsAreTrue == \A e \in InFlight \union Elements(recent) : IsTrue(e)

EventsInOrder ==
  /\ \A e, f \in InFlight : InOrder(e, f)
  /\ \A e, f \in Elements(recent) : InOrder(e, f)
  /\ Linked => \A e \in InFlight, f \in Elements(recent) :
                 InOrder(e, f) /\ InOrder(f, e)

EventsOfProcess ==
  /\ \A e \in Elements(recent) : IsOfProcess(e)
  /\ Linked => \A e \in InFlight : IsOfProcess(e)

\* The client's place in the stream it follows.
SeenInOrder ==
  follow = "active" /\ ~left =>
    /\ last \in Nat
    /\ \A e \in InFlight : InOrder(Seen, e)
    /\ Linked => /\ IsOfProcess(Seen)
                 /\ \A e \in Elements(recent) : InOrder(Seen, e)

\* A connection begins with a snapshot not older than what is shown.
SnapshotIsFirst ==
  follow = "connecting" =>
    /\ Linked => wire # <<>>
    /\ wire # <<>> => wire[1].version >= shown

\* Nothing newer than the replay buffer's end has been published, and nothing
\* at all if it is empty.
ReplayIsCurrent ==
  IF recent = <<>> THEN revision = 0
                   ELSE recent[Len(recent)].revision = revision

\* A subscriber has seen the newest event or is going to.
NewestOnItsWay ==
  link = "subscribed" =>
    \/ follow = "active" /\ last = revision
    \/ \E e \in InFlight : e.revision = revision

\* A poll of the present generation is the only one, was sent when the stream
\* was lost, and answers with a state not older than the one shown.
PollsAreLate ==
  /\ \A p \in polls : p.generation = generation => follow = "retry"
  /\ \A p, q \in polls :
       p.generation = generation /\ q.generation = generation => p = q
  /\ \A p \in polls :
       p.generation = generation /\ p.answer # Pending => p.answer >= shown

IInv ==
  /\ TypeOK
  /\ LinkHolds
  /\ EventsAreTrue
  /\ EventsInOrder
  /\ EventsOfProcess
  /\ SeenInOrder
  /\ SnapshotIsFirst
  /\ ReplayIsCurrent
  /\ NewestOnItsWay
  /\ PollsAreLate

-----------------------------------------------------------------------------
(* Type correctness.                                                       *)

LEMMA InitType == Init => TypeOK
<1> SUFFICES ASSUME Init PROVE TypeOK
  OBVIOUS
<1> USE StreamAssumption DEF Init
<1>1. states \in Seq(Kinds) /\ states # <<>> /\ Version = 1
  BY DEF Kinds, Version
<1>2. /\ recent \in Seq(Event) /\ Len(recent) = 0
      /\ queue \in Seq(Event) /\ Len(queue) = 0
      /\ wire \in Seq(Event) /\ Len(wire) = 0
  OBVIOUS
<1>3. Len(recent) <= Replay /\ Len(queue) <= Replay /\ Len(wire) <= Wire
  BY <1>2
<1>4. announced \in 1..Version /\ shown \in 0..Version
  BY <1>1
<1>5. /\ generation \in 1..MaxGeneration /\ revision \in Nat /\ last \in Int
      /\ polls = {}
  OBVIOUS
<1>a. changing \in BOOLEAN /\ left \in BOOLEAN
  OBVIOUS
<1>6. /\ link \in {"none", "snapshot", "subscribed", "closed"}
      /\ follow \in {"connecting", "active", "retry"}
  OBVIOUS
<1> HIDE DEF Init
<1>7. QED
  BY <1>1, <1>2, <1>3, <1>4, <1>5, <1>a, <1>6 DEF TypeOK

\* The game has a newest state, and another one after a change.
LEMMA VersionIsNat == ASSUME TypeOK PROVE Version \in Nat \ {0}
BY DEF TypeOK, Version

LEMMA VersionGrows ==
  ASSUME TypeOK, NEW kind \in Kinds, states' = Append(states, kind)
  PROVE  /\ states' \in Seq(Kinds) /\ states' # <<>> /\ Version' = Version + 1
         /\ \A v \in 1..Version : states'[v] = states[v]
BY SMTT(60) DEF TypeOK, Version

Polls(g, v) == [generation: 1..g, answer: (1..v) \union {Pending}]

\* Time does not make an earlier poll improper.
LEMMA PollsStayPolls ==
  ASSUME NEW g \in Nat, NEW v \in Nat, NEW h \in Nat, NEW w \in Nat, g <= h, v <= w
  PROVE  Polls(g, v) \subseteq Polls(h, w)
BY DEF Polls

\* What the snapshot of a connection says is an event.
LEMMA SnapshotIsEvent ==
  ASSUME TypeOK PROVE SnapshotEvent \in Event
BY VersionIsNat DEF TypeOK, SnapshotEvent, Event, IsOver

LEMMA RecoverType ==
  ASSUME TypeOK, Recover, UNCHANGED serverVars PROVE TypeOK'
<1> USE StreamAssumption DEF TypeOK, Recover, serverVars
<1>1. [generation |-> generation, answer |-> Pending]
        \in [generation: 1..generation, answer: (1..Version) \union {Pending}]
  OBVIOUS
<1>2. Version' = Version
  BY DEF Version
<1>3. QED
  BY <1>1, <1>2

LEMMA ApplyType ==
  ASSUME TypeOK, wire # <<>>, Apply(Head(wire)), IsTrue(Head(wire)),
         UNCHANGED <<serverVars, generation, polls>>,
         follow' \in {"connecting", "active", "retry"}
  PROVE  TypeOK'
<1> USE StreamAssumption DEF TypeOK, serverVars
<1>1. Head(wire) \in Event /\ Tail(wire) \in Seq(Event) /\ Len(Tail(wire)) <= Wire
  BY ElementsOfHeadAndTail
<1>2. Head(wire).revision \in Nat /\ Head(wire).version \in 1..Version
  BY <1>1 DEF Event, IsTrue
<1>3. Version' = Version
  BY DEF Version
<1>a. <<>> \in Seq(Event) /\ Len(<<>>) = 0
  OBVIOUS
<1>4. CASE Head(wire).terminal
  <2>1. /\ last' = Head(wire).revision /\ left' = TRUE /\ link' = "none"
        /\ queue' = <<>> /\ wire' = <<>> /\ shown' = shown
    BY <1>4 DEF Apply
  <2>2. Len(queue') <= Capacity /\ Len(wire') <= Wire
    BY <1>a, <2>1
  <2>3. QED
    BY <1>2, <1>3, <1>a, <2>1, <2>2
<1>5. CASE ~Head(wire).terminal
  <2>1. /\ last' = Head(wire).revision /\ shown' = Head(wire).version
        /\ wire' = Tail(wire) /\ UNCHANGED <<link, queue, left>>
    BY <1>5 DEF Apply
  <2>2. Head(wire).version \in 0..Version
    BY <1>2, VersionIsNat
  <2>3. QED
    BY <1>1, <1>2, <1>3, <2>1, <2>2
<1>6. QED
  BY <1>4, <1>5

LEMMA TypePreserved == TypeOK /\ EventsAreTrue /\ [Next]_vars => TypeOK'
<1> SUFFICES ASSUME TypeOK, EventsAreTrue, [Next]_vars PROVE TypeOK'
  OBVIOUS
<1> USE StreamAssumption DEF serverVars, linkVars, clientVars
<1>0. Version \in Nat \ {0} /\ (UNCHANGED states => Version' = Version)
  BY VersionIsNat DEF Version
<1>1. ASSUME NEW kind \in Kinds, Change(kind) PROVE TypeOK'
  <2>1. /\ states' \in Seq(Kinds) /\ states' # <<>> /\ Version' = Version + 1
    BY <1>1, VersionGrows DEF Change
  <2>2. polls' \subseteq Polls(generation', Version')
    BY <1>0, <1>1, <2>1, PollsStayPolls DEF TypeOK, Polls, Change
  <2>3. QED
    BY <1>0, <1>1, <2>1, <2>2 DEF TypeOK, Polls, Change
<1>2. CASE Publish
  <2> DEFINE event == [SnapshotEvent EXCEPT !.revision = revision']
  <2>1. event \in Event
    <3>1. revision' \in Nat
      BY <1>2 DEF TypeOK, Publish
    <3>2. QED
      BY <3>1, SnapshotIsEvent DEF Event
  <2>2. /\ recent' = Suffix(Append(recent, event), Replay)
        /\ queue' = IF link = "subscribed" THEN Suffix(Append(queue, event), Capacity)
                                           ELSE queue
        /\ changing' = FALSE /\ revision' = revision + 1 /\ announced' = Version
        /\ UNCHANGED <<states, link, wire, clientVars>>
    BY <1>2 DEF Publish
  <2> HIDE DEF event
  <2>3. recent' \in Seq(Event) /\ Len(recent') <= Replay
    <3>1. recent \in Seq(Event)
      BY DEF TypeOK
    <3>2. recent' \in Seq(Event) /\ Len(recent') \in 1..Replay
      BY <2>1, <2>2, <3>1, SuffixOfAppend
    <3>3. QED
      BY <3>2
  <2>4. queue' \in Seq(Event) /\ (Len(queue') <= Capacity \/ Len(queue') <= Replay)
    <3>1. queue \in Seq(Event) /\ (Len(queue) <= Capacity \/ Len(queue) <= Replay)
      BY DEF TypeOK
    <3>2. CASE link = "subscribed"
      <4>1. queue' \in Seq(Event) /\ Len(queue') \in 1..Capacity
        BY <2>1, <2>2, <3>1, <3>2, SuffixOfAppend
      <4>2. QED
        BY <4>1
    <3>3. QED
      BY <2>2, <3>1, <3>2
  <2>5. revision' \in Nat /\ announced' \in 1..Version /\ Len(wire') <= Wire
    BY <1>0, <2>2 DEF TypeOK
  <2>6. QED
    BY <1>0, <2>2, <2>3, <2>4, <2>5 DEF TypeOK
<1>3. CASE Abandon
  BY <1>0, <1>3 DEF TypeOK, Abandon
<1>4. CASE Snapshot
  BY <1>0, <1>4, SnapshotIsEvent DEF TypeOK, Snapshot
<1>5. CASE Subscribe
  BY <1>0, <1>5 DEF TypeOK, Subscribe
<1>6. CASE Send
  <2>1. Head(queue) \in Event /\ Tail(queue) \in Seq(Event)
        /\ Len(Tail(queue)) = Len(queue) - 1 /\ Len(queue) \in Nat
    BY <1>6, ElementsOfHeadAndTail DEF Send, TypeOK
  <2>2. QED
    BY <1>0, <1>6, <2>1, SMTT(60) DEF TypeOK, Send
<1>7. CASE Cut
  BY <1>0, <1>7, PrefixKeepsElements DEF TypeOK, Cut
<1>8. CASE Restart
  <2>1. states' \in Seq(Kinds) /\ states' # <<>> /\ Version' = Version + 1
    BY <1>8, VersionGrows DEF Restart, Kinds
  <2>2. polls' \subseteq Polls(generation', Version')
    BY <1>0, <1>8, <2>1, PollsStayPolls, SMTT(60) DEF TypeOK, Polls, Restart
  <2>3. wire' \in Seq(Event) /\ Len(wire') <= Wire
    BY <1>8, PrefixKeepsElements DEF TypeOK, Restart
  <2>4. /\ recent' \in Seq(Event) /\ Len(recent') <= Replay
        /\ queue' \in Seq(Event) /\ Len(queue') <= Replay
    BY <1>8 DEF Restart
  <2>5. announced' \in 1..Version' /\ shown' \in 0..Version'
    BY <1>0, <1>8, <2>1 DEF TypeOK, Restart
  <2>6. QED
    BY <1>8, <2>1, <2>2, <2>3, <2>4, <2>5 DEF TypeOK, Polls, Restart
<1>9. CASE AnswerPoll
  <2>1. PICK p \in polls : polls' = (polls \ {p}) \union {[p EXCEPT !.answer = Version]}
    BY <1>9 DEF AnswerPoll
  <2>2. [p EXCEPT !.answer = Version] \in Polls(generation, Version)
    <3>1. p \in Polls(generation, Version) /\ Version \in (1..Version) \union {Pending}
      BY <1>0, <2>1, SMTT(60) DEF TypeOK, Polls
    <3>2. QED
      BY <3>1 DEF Polls
  <2>3. polls' \subseteq Polls(generation', Version')
    BY <1>0, <1>9, <2>1, <2>2 DEF TypeOK, Polls, AnswerPoll
  <2>4. QED
    BY <1>0, <1>9, <2>3 DEF TypeOK, Polls, AnswerPoll
<1>10. CASE Initial \/ Receive
  <2>1. wire # <<>> /\ Head(wire) \in Elements(wire) /\ Tail(wire) \in Seq(Event)
        /\ Len(Tail(wire)) <= Wire
    BY <1>10, ElementsOfHeadAndTail DEF Initial, Receive, TypeOK
  <2>2. IsTrue(Head(wire))
    BY <2>1 DEF EventsAreTrue, InFlight
  <2>3. CASE Apply(Head(wire))
    <3>1. /\ UNCHANGED <<serverVars, generation, polls>>
          /\ follow' \in {"connecting", "active", "retry"}
      BY <1>10 DEF Initial, Receive, TypeOK
    <3>2. QED
      BY <2>1, <2>2, <2>3, <3>1, ApplyType
  <2>4. CASE ~Apply(Head(wire))
    BY <1>0, <1>10, <2>1, <2>4 DEF Initial, Receive, TypeOK
  <2>5. QED
    BY <2>3, <2>4
<1>11. CASE StreamStops \/ OpenFails
  BY <1>11, RecoverType DEF StreamStops, OpenFails
<1>12. CASE Reconnect
  BY <1>0, <1>12 DEF TypeOK, Reconnect
<1>13. ASSUME NEW p \in polls, p.answer # Pending, Polled(p) PROVE TypeOK'
  BY <1>0, <1>13 DEF TypeOK, Polled
<1>14. CASE PollFails
  BY <1>0, <1>14 DEF TypeOK, PollFails
<1>15. CASE UNCHANGED vars
  BY <1>0, <1>15 DEF TypeOK, vars
<1>16. QED
  BY <1>1, <1>2, <1>3, <1>4, <1>5, <1>6, <1>7, <1>8, <1>9, <1>10, <1>11, <1>12,
     <1>13, <1>14, <1>15
     DEF Next, ServerNext, ClientNext, PollArrives

-----------------------------------------------------------------------------
(* Every step keeps the rest of the invariant.                             *)

Flow ==
  /\ LinkHolds /\ EventsAreTrue /\ EventsInOrder /\ EventsOfProcess /\ SeenInOrder
  /\ SnapshotIsFirst /\ ReplayIsCurrent /\ NewestOnItsWay /\ PollsAreLate

\* Buffers hold events, and what is compared are numbers.
LEMMA BuffersHoldEvents ==
  ASSUME TypeOK
  PROVE  /\ InFlight \subseteq Event /\ Elements(recent) \subseteq Event
         /\ \A e \in Event : e.revision \in Nat /\ e.version \in Nat
         /\ revision \in Nat /\ shown \in 0..Version /\ announced \in 1..Version
         /\ Version \in Nat \ {0}
<1>1. Elements(wire) \subseteq Event /\ Elements(queue) \subseteq Event
      /\ Elements(recent) \subseteq Event
  BY ElementsInSet DEF TypeOK
<1>2. QED
  BY <1>1, VersionIsNat DEF TypeOK, InFlight, Event

LEMMA ChangeKeeps ==
  ASSUME IInv, NEW kind \in Kinds, Change(kind) PROVE Flow'
<1>1. /\ Version' = Version + 1 /\ \A v \in 1..Version : states'[v] = states[v]
      /\ UNCHANGED <<revision, recent, announced, link, queue, wire, shown, last, follow,
                     generation, polls, left>>
  BY VersionGrows DEF IInv, Change, linkVars, clientVars
<1>2. InFlight' = InFlight /\ Elements(recent)' = Elements(recent)
      /\ Seen' = Seen
  BY <1>1 DEF InFlight, Seen
<1>3. EventsAreTrue'
  BY <1>1, <1>2, BuffersHoldEvents DEF IInv, EventsAreTrue, IsTrue
<1>4. /\ LinkHolds' /\ EventsInOrder' /\ EventsOfProcess' /\ SeenInOrder'
      /\ SnapshotIsFirst' /\ ReplayIsCurrent' /\ NewestOnItsWay' /\ PollsAreLate'
  BY <1>1, <1>2
     DEF IInv, LinkHolds, Linked, EventsInOrder, EventsOfProcess, SeenInOrder,
         SnapshotIsFirst, ReplayIsCurrent, NewestOnItsWay, PollsAreLate, InOrder,
         IsOfProcess
<1>5. QED
  BY <1>3, <1>4 DEF Flow

\* The new event is newer than everything of its process.
LEMMA PublishKeeps == ASSUME IInv, Publish PROVE Flow'
<1>0. PICK event : event = [SnapshotEvent EXCEPT !.revision = revision']
  OBVIOUS
<1>1. /\ recent' = Suffix(Append(recent, event), Replay)
      /\ queue' = IF link = "subscribed" THEN Suffix(Append(queue, event), Capacity)
                                         ELSE queue
      /\ revision' = revision + 1 /\ announced' = Version
      /\ UNCHANGED <<states, link, wire, shown, last, follow, generation, polls, left>>
  BY <1>0 DEF Publish, clientVars
<1>2. Version' = Version /\ Seen' = Seen
  BY <1>1 DEF Version, Seen
<1>3. /\ event \in Event /\ event.revision = revision + 1 /\ event.version = Version
      /\ event.terminal => states[Version] = "over"
  <2>1. /\ event \in Event /\ event.revision = revision + 1
        /\ event.version = Version /\ event.terminal = IsOver
    BY <1>0, <1>1, SnapshotIsEvent, BuffersHoldEvents DEF IInv, Event, SnapshotEvent
  <2>2. QED
    BY <2>1 DEF IsOver
<1>4. /\ Len(recent') \in Nat \ {0} /\ recent'[Len(recent')] = event
      /\ Elements(recent') \subseteq Elements(recent) \union {event}
  <2>1. recent \in Seq(Event) /\ Replay \in Nat \ {0}
    BY StreamAssumption DEF IInv, TypeOK
  <2>2. /\ Len(recent') \in 1..Replay /\ recent'[Len(recent')] = event
        /\ Elements(recent') \subseteq Elements(recent) \union {event}
    BY <2>1, <1>1, <1>3, SuffixOfAppend
  <2>3. QED
    BY <2>1, <2>2
<1>5. /\ InFlight' \subseteq InFlight \union {event}
      /\ link # "subscribed" => InFlight' = InFlight /\ queue' = queue
      /\ link = "subscribed" => event \in InFlight'
  <2>1. queue \in Seq(Event) /\ Capacity \in Nat \ {0}
    BY StreamAssumption DEF IInv, TypeOK
  <2>2. link = "subscribed" =>
          event \in Elements(queue') /\ Elements(queue') \subseteq Elements(queue) \union {event}
    BY <2>1, <1>1, <1>3, SuffixOfAppend
  <2>3. QED
    BY <1>1, <2>2 DEF InFlight
<1>6. IsTrue(event)' /\ IsOfProcess(event)'
  BY <1>1, <1>2, <1>3, BuffersHoldEvents DEF IInv, IsTrue, IsOfProcess
<1>7. /\ \A e \in Elements(recent) : InOrder(e, event) /\ InOrder(event, e)
                                      /\ IsOfProcess(e)'
      /\ Linked => \A e \in InFlight : InOrder(e, event) /\ InOrder(event, e)
                                         /\ IsOfProcess(e)'
      /\ InOrder(event, event)
  BY <1>1, <1>3, BuffersHoldEvents
     DEF IInv, EventsOfProcess, EventsAreTrue, IsTrue, IsOfProcess, InOrder
<1>8. EventsAreTrue'
  BY <1>1, <1>2, <1>4, <1>5, <1>6 DEF IInv, EventsAreTrue, IsTrue
<1>9. EventsInOrder'
  BY <1>1, <1>4, <1>5, <1>7 DEF IInv, EventsInOrder, Linked, InOrder
<1>10. EventsOfProcess'
  BY <1>1, <1>4, <1>5, <1>6, <1>7 DEF EventsOfProcess, Linked
<1>11. SeenInOrder'
  <2>1. follow = "active" /\ ~left => InOrder(Seen, event)
    BY <1>3, BuffersHoldEvents DEF IInv, Seen, InOrder
  <2>2. follow = "active" /\ ~left /\ Linked => IsOfProcess(Seen)'
    BY <1>1, <1>2, BuffersHoldEvents DEF IInv, SeenInOrder, IsOfProcess, Seen
  <2>3. QED
    BY <1>1, <1>2, <1>4, <1>5, <2>1, <2>2 DEF IInv, SeenInOrder, Linked, InOrder
<1>12. NewestOnItsWay'
  BY <1>1, <1>3, <1>5 DEF NewestOnItsWay
<1>13. ReplayIsCurrent'
  BY <1>1, <1>3, <1>4 DEF ReplayIsCurrent
<1>14. LinkHolds' /\ SnapshotIsFirst' /\ PollsAreLate'
  BY <1>1, <1>5 DEF IInv, LinkHolds, Linked, SnapshotIsFirst, PollsAreLate
<1>15. QED
  BY <1>8, <1>9, <1>10, <1>11, <1>12, <1>13, <1>14 DEF Flow

\* A snapshot opens the stream: it is as new as the process, and a subscriber
\* gets the replay behind it.
LEMMA SnapshotKeeps == ASSUME IInv, Snapshot PROVE Flow'
<1>1. /\ follow = "connecting" /\ link = "none" /\ link' = "snapshot"
      /\ wire' = <<SnapshotEvent>>
      /\ UNCHANGED <<states, revision, recent, announced, queue, shown, last, follow,
                     generation, polls, left>>
  BY DEF Snapshot, serverVars, clientVars
<1>2. PICK event : event = SnapshotEvent
  OBVIOUS
<1>3. /\ event \in Event /\ event.revision = revision /\ event.version = Version
      /\ event.terminal => states[Version] = "over"
  BY <1>2, SnapshotIsEvent DEF IInv, Event, SnapshotEvent, IsOver
<1>4. Version' = Version
  BY <1>1 DEF Version
<1>5. InFlight' = {event} /\ wire' # <<>> /\ wire'[1] = event
  BY <1>1, <1>2, ElementsOfOne, ElementsOfEmpty DEF IInv, LinkHolds, InFlight
<1>6. \A e \in Elements(recent) :
        InOrder(e, event) /\ InOrder(event, e) /\ IsOfProcess(e)
  BY <1>3, BuffersHoldEvents
     DEF IInv, EventsOfProcess, EventsAreTrue, IsTrue, IsOfProcess, InOrder
<1>7. EventsAreTrue'
  BY <1>1, <1>3, <1>4, <1>5, BuffersHoldEvents DEF IInv, EventsAreTrue, IsTrue
<1>8. EventsInOrder' /\ EventsOfProcess'
  BY <1>1, <1>3, <1>5, <1>6, BuffersHoldEvents
     DEF IInv, EventsInOrder, EventsOfProcess, IsOfProcess, InOrder
<1>9. LinkHolds' /\ SeenInOrder' /\ NewestOnItsWay' /\ PollsAreLate' /\ ReplayIsCurrent'
  BY <1>1 DEF IInv, LinkHolds, Linked, SeenInOrder, NewestOnItsWay, PollsAreLate,
              ReplayIsCurrent
<1>10. SnapshotIsFirst'
  BY <1>1, <1>3, <1>5, BuffersHoldEvents DEF IInv, SnapshotIsFirst
<1>11. QED
  BY <1>7, <1>8, <1>9, <1>10 DEF Flow

\* The replay contains the newest event; if there is none yet, the snapshot is.
LEMMA SubscribeKeeps == ASSUME IInv, Subscribe PROVE Flow'
<1>1. /\ link = "snapshot" /\ link' = "subscribed" /\ queue' = recent
      /\ UNCHANGED <<states, revision, recent, announced, wire, shown, last, follow,
                     generation, polls, left>>
  BY DEF Subscribe, serverVars, clientVars
<1>2. Version' = Version /\ Seen' = Seen /\ Elements(recent)' = Elements(recent)
  BY <1>1 DEF Version, Seen
<1>3. InFlight' = InFlight \union Elements(recent)
  BY <1>1, ElementsOfEmpty DEF IInv, LinkHolds, InFlight
<1>4. EventsAreTrue'
  BY <1>1, <1>2, <1>3 DEF IInv, EventsAreTrue, IsTrue
<1>5. EventsInOrder' /\ EventsOfProcess'
  BY <1>1, <1>2, <1>3
     DEF IInv, EventsInOrder, EventsOfProcess, IsOfProcess, InOrder, Linked
<1>6. SeenInOrder'
  BY <1>1, <1>2, <1>3 DEF IInv, SeenInOrder, IsOfProcess, InOrder, Linked
<1>7. NewestOnItsWay'
  <2>1. CASE recent = <<>>
    <3>1. revision = 0
      BY <2>1 DEF IInv, ReplayIsCurrent
    <3>2. CASE follow = "active"
      BY <1>1, <3>1, <3>2 DEF IInv, LinkHolds, SeenInOrder, Linked, IsOfProcess, Seen,
                              NewestOnItsWay
    <3>3. CASE follow = "connecting"
      <4>1. wire # <<>> /\ wire[1] \in Elements(wire)
        BY <1>1, <3>3, ElementsOfHeadAndTail
           DEF IInv, TypeOK, SnapshotIsFirst, Linked
      <4>2. wire[1] \in InFlight /\ wire[1].revision = 0
        BY <1>1, <3>1, <4>1, BuffersHoldEvents
           DEF IInv, InFlight, EventsOfProcess, Linked, IsOfProcess
      <4>3. QED
        BY <1>1, <1>3, <3>1, <4>2 DEF NewestOnItsWay
    <3>4. QED
      BY <1>1, <3>2, <3>3 DEF IInv, TypeOK, LinkHolds
  <2>2. CASE recent # <<>>
    <3>1. recent[Len(recent)] \in Elements(recent)
      BY <2>2 DEF IInv, TypeOK, Elements
    <3>2. recent[Len(recent)].revision = revision
      BY <2>2 DEF IInv, ReplayIsCurrent
    <3>3. QED
      BY <1>1, <1>3, <3>1, <3>2 DEF NewestOnItsWay
  <2>3. QED
    BY <2>1, <2>2
<1>8. LinkHolds' /\ SnapshotIsFirst' /\ PollsAreLate' /\ ReplayIsCurrent'
  BY <1>1 DEF IInv, LinkHolds, Linked, SnapshotIsFirst, PollsAreLate, ReplayIsCurrent
<1>9. QED
  BY <1>4, <1>5, <1>6, <1>7, <1>8 DEF Flow

\* An event that is sent on is still in flight.
LEMMA SendKeeps == ASSUME IInv, Send PROVE Flow'
<1>1. /\ link = "subscribed" /\ queue # <<>>
      /\ wire' = Append(wire, Head(queue)) /\ queue' = Tail(queue)
      /\ UNCHANGED <<states, revision, recent, announced, link, shown, last, follow,
                     generation, polls, left>>
  BY DEF Send, serverVars, clientVars
<1>2. Version' = Version /\ Seen' = Seen /\ Elements(recent)' = Elements(recent)
  BY <1>1 DEF Version, Seen
<1>3. InFlight' = InFlight
  <2>1. /\ Head(queue) \in Event
        /\ Elements(queue) = {Head(queue)} \union Elements(Tail(queue))
    BY <1>1, ElementsOfHeadAndTail DEF IInv, TypeOK
  <2>2. Elements(wire') = Elements(wire) \union {Head(queue)}
    BY <1>1, <2>1, ElementsOfAppend DEF IInv, TypeOK
  <2>3. QED
    BY <1>1, <2>1, <2>2 DEF InFlight
<1>4. wire # <<>> => wire' # <<>> /\ wire'[1] = wire[1]
  <2>1. wire \in Seq(Event) /\ Head(queue) \in Event
    BY <1>1 DEF IInv, TypeOK
  <2>2. QED
    BY <1>1, <2>1
<1>5. EventsAreTrue' /\ EventsInOrder' /\ EventsOfProcess'
  BY <1>1, <1>2, <1>3
     DEF IInv, EventsAreTrue, IsTrue, EventsInOrder, EventsOfProcess, IsOfProcess,
         InOrder, Linked
<1>6. SeenInOrder' /\ NewestOnItsWay'
  BY <1>1, <1>2, <1>3
     DEF IInv, SeenInOrder, NewestOnItsWay, IsOfProcess, InOrder, Linked
<1>7. SnapshotIsFirst'
  BY <1>1, <1>4 DEF IInv, SnapshotIsFirst, Linked
<1>8. LinkHolds' /\ PollsAreLate' /\ ReplayIsCurrent'
  BY <1>1 DEF IInv, LinkHolds, PollsAreLate, ReplayIsCurrent
<1>9. QED
  BY <1>5, <1>6, <1>7, <1>8 DEF Flow

\* A broken connection delivers no more than was on it, and nothing is added.
LEMMA BreakKeeps ==
  ASSUME IInv, queue' = <<>>, NEW n \in 0..Len(wire), wire' = SubSeq(wire, 1, n),
         link' \in {"none", "closed"}, link = "none" => link' = "none",
         link' = "none" => link = "none",
         UNCHANGED <<shown, last, follow, generation, polls, left>>,
         Version' >= Version, Version' \in Nat,
         \A v \in 1..Version : states'[v] = states[v]
  PROVE  /\ InFlight' \subseteq InFlight
         /\ LinkHolds' /\ \A e \in InFlight' : IsTrue(e)' /\ \A f \in InFlight' : InOrder(e, f)
         /\ SeenInOrder' /\ SnapshotIsFirst' /\ NewestOnItsWay' /\ PollsAreLate'
<1>1. /\ Elements(wire') \subseteq Elements(wire)
      /\ wire' # <<>> => wire # <<>> /\ wire'[1] = wire[1]
      /\ wire = <<>> => wire' = <<>>
  BY PrefixKeepsElements DEF IInv, TypeOK
<1>2. InFlight' \subseteq InFlight
  BY <1>1, ElementsOfEmpty DEF InFlight
<1>3. Seen' = Seen
  BY DEF Seen
<1>4. LinkHolds'
  BY <1>1 DEF IInv, LinkHolds, Linked
<1>5. \A e \in InFlight' : IsTrue(e)' /\ \A f \in InFlight' : InOrder(e, f)
  BY <1>2, BuffersHoldEvents DEF IInv, EventsAreTrue, IsTrue, EventsInOrder
<1>6. SeenInOrder'
  BY <1>2, <1>3 DEF IInv, SeenInOrder, InOrder, Linked
<1>7. SnapshotIsFirst' /\ NewestOnItsWay' /\ PollsAreLate'
  BY <1>1 DEF IInv, SnapshotIsFirst, NewestOnItsWay, PollsAreLate, Linked
<1>8. QED
  BY <1>2, <1>4, <1>5, <1>6, <1>7

LEMMA CutKeeps == ASSUME IInv, Cut PROVE Flow'
<1>1. PICK n \in 0..Len(wire) : wire' = SubSeq(wire, 1, n)
  BY DEF Cut
<1>2. /\ queue' = <<>> /\ link' = "closed" /\ link # "none"
      /\ UNCHANGED <<states, revision, recent, announced, shown, last, follow, generation,
                     polls, left>>
  BY DEF Cut, serverVars, clientVars
<1>3. Version' = Version /\ Version \in Nat
  BY <1>2, BuffersHoldEvents DEF IInv, Version
<1>4. /\ InFlight' \subseteq InFlight
      /\ LinkHolds' /\ \A e \in InFlight' : IsTrue(e)' /\ \A f \in InFlight' : InOrder(e, f)
      /\ SeenInOrder' /\ SnapshotIsFirst' /\ NewestOnItsWay' /\ PollsAreLate'
  BY <1>1, <1>2, <1>3, BreakKeeps
<1>5. EventsAreTrue' /\ EventsInOrder' /\ EventsOfProcess' /\ ReplayIsCurrent'
  BY <1>2, <1>3, <1>4
     DEF IInv, EventsAreTrue, EventsInOrder, EventsOfProcess, ReplayIsCurrent, InOrder,
         IsOfProcess, IsTrue, Linked
<1>6. QED
  BY <1>4, <1>5 DEF Flow

\* A new process has published nothing, and the old one's connections are gone.
LEMMA RestartKeeps == ASSUME IInv, Restart PROVE Flow'
<1>1. PICK n \in 0..Len(wire) : wire' = SubSeq(wire, 1, n)
  BY DEF Restart
<1>2. /\ queue' = <<>> /\ link' = IF link = "none" THEN "none" ELSE "closed"
      /\ revision' = 0 /\ recent' = <<>>
      /\ UNCHANGED <<shown, last, follow, generation, polls, left>>
  BY DEF Restart, clientVars
<1>3. /\ Version' = Version + 1 /\ Version \in Nat
      /\ \A v \in 1..Version : states'[v] = states[v]
  BY VersionGrows, BuffersHoldEvents DEF IInv, Restart, Kinds
<1>4. /\ LinkHolds' /\ \A e \in InFlight' : IsTrue(e)' /\ \A f \in InFlight' : InOrder(e, f)
      /\ SeenInOrder' /\ SnapshotIsFirst' /\ NewestOnItsWay' /\ PollsAreLate'
  BY <1>1, <1>2, <1>3, BreakKeeps
<1>5. EventsAreTrue' /\ EventsInOrder' /\ EventsOfProcess' /\ ReplayIsCurrent'
  BY <1>2, <1>4, ElementsOfEmpty
     DEF EventsAreTrue, EventsInOrder, EventsOfProcess, ReplayIsCurrent, Linked, InOrder
<1>6. QED
  BY <1>4, <1>5 DEF Flow

\* An accepted event is the one that has been seen; it is no older than what was
\* shown, whether the revision or the beginning of a stream let it in.
LEMMA ApplyKeeps ==
  ASSUME IInv, wire # <<>>, Apply(wire[1]), wire[1].version >= shown, ~left,
         follow \in {"connecting", "active"}, follow' = "active",
         follow = "active" => wire[1].revision > last,
         UNCHANGED <<states, revision, recent, announced, generation, polls>>
  PROVE  Flow'
<1>1. /\ wire[1] \in InFlight /\ wire[1] \in Event
      /\ Elements(Tail(wire)) \subseteq Elements(wire)
      /\ Elements(wire) = {wire[1]} \union Elements(Tail(wire))
  BY ElementsOfHeadAndTail DEF IInv, TypeOK, InFlight
<1>2. Version' = Version /\ last' = wire[1].revision
  BY DEF Version, Apply
<1>3. PollsAreLate'
  BY DEF IInv, PollsAreLate
<1>4. ReplayIsCurrent' /\ SnapshotIsFirst'
  BY DEF IInv, ReplayIsCurrent, SnapshotIsFirst
<1>5. CASE wire[1].terminal
  <2>1. left' = TRUE /\ link' = "none" /\ queue' = <<>> /\ wire' = <<>>
    BY <1>5 DEF Apply
  <2>2. InFlight' = {}
    BY <2>1, ElementsOfEmpty DEF InFlight
  <2>3. EventsAreTrue' /\ EventsInOrder' /\ EventsOfProcess'
    BY <1>2, <2>1, <2>2
       DEF IInv, EventsAreTrue, EventsInOrder, EventsOfProcess, IsTrue, InOrder,
           IsOfProcess, Linked
  <2>4. LinkHolds' /\ SeenInOrder' /\ NewestOnItsWay'
    BY <2>1 DEF LinkHolds, Linked, SeenInOrder, NewestOnItsWay
  <2>5. QED
    BY <1>3, <1>4, <2>3, <2>4 DEF Flow
<1>6. CASE ~wire[1].terminal
  <2>1. /\ shown' = wire[1].version /\ wire' = Tail(wire)
        /\ UNCHANGED <<link, queue, left>>
    BY <1>6, ElementsOfHeadAndTail DEF Apply
  <2>2. /\ InFlight' \subseteq InFlight /\ InFlight = InFlight' \union {wire[1]}
        /\ Elements(recent)' = Elements(recent)
    BY <1>1, <2>1 DEF InFlight
  <2>3. EventsAreTrue' /\ EventsInOrder' /\ EventsOfProcess'
    BY <1>2, <2>1, <2>2
       DEF IInv, EventsAreTrue, EventsInOrder, EventsOfProcess, IsTrue, InOrder,
           IsOfProcess, Linked
  <2>4. /\ \A e \in InFlight : InOrder(Seen', e)
        /\ Linked => IsOfProcess(Seen') /\ \A e \in Elements(recent) : InOrder(Seen', e)
    BY <1>1, <1>2, <2>1 DEF IInv, EventsInOrder, EventsOfProcess, IsOfProcess, InOrder, Seen
  <2>5. SeenInOrder'
    BY <1>1, <1>2, <2>1, <2>2, <2>4, BuffersHoldEvents
       DEF IInv, SeenInOrder, IsOfProcess, InOrder, Linked, Seen
  <2>6. NewestOnItsWay'
    BY <1>1, <1>2, <2>1, <2>2, BuffersHoldEvents
       DEF IInv, NewestOnItsWay, SeenInOrder, EventsOfProcess, IsOfProcess, Linked, Seen
  <2>7. LinkHolds'
    BY <2>1 DEF IInv, LinkHolds, Linked
  <2>8. QED
    BY <1>3, <1>4, <2>3, <2>5, <2>6, <2>7 DEF Flow
<1>7. QED
  BY <1>5, <1>6

LEMMA InitialKeeps == ASSUME IInv, Initial PROVE Flow'
<1>1. Head(wire) = wire[1]
  BY ElementsOfHeadAndTail DEF Initial, IInv, TypeOK
<1>2. wire[1].version >= shown
  BY DEF Initial, IInv, SnapshotIsFirst
<1>3. QED
  BY <1>1, <1>2, ApplyKeeps DEF Initial, serverVars

LEMMA ReceiveKeeps == ASSUME IInv, Receive PROVE Flow'
<1>1. /\ Head(wire) = wire[1] /\ wire[1] \in InFlight
      /\ InFlight = {wire[1]} \union Elements(Tail(wire)) \union Elements(queue)
  BY ElementsOfHeadAndTail DEF Receive, IInv, TypeOK, InFlight
<1>2. CASE wire[1].revision > last
  <2>1. InOrder(Seen, wire[1]) /\ last \in Nat
    BY <1>1 DEF Receive, IInv, SeenInOrder
  <2>2. wire[1].version >= shown
    BY <1>1, <1>2, <2>1, BuffersHoldEvents DEF IInv, InOrder, Seen
  <2>3. QED
    BY <1>1, <1>2, <2>2, ApplyKeeps DEF Receive, Accepts, serverVars
<1>3. CASE ~(wire[1].revision > last)
  <2>1. /\ wire' = Tail(wire) /\ follow = "active" /\ ~left
        /\ UNCHANGED <<states, revision, recent, announced, link, queue, shown, last,
                       follow, generation, polls, left>>
    BY <1>1, <1>3 DEF Receive, Accepts, serverVars
  <2>2. Version' = Version /\ Seen' = Seen /\ Elements(recent)' = Elements(recent)
    BY <2>1 DEF Version, Seen
  <2>3. InFlight' \subseteq InFlight /\ InFlight = InFlight' \union {wire[1]}
    BY <1>1, <2>1 DEF InFlight
  <2>4. EventsAreTrue' /\ EventsInOrder' /\ EventsOfProcess' /\ SeenInOrder'
    BY <2>1, <2>2, <2>3
       DEF IInv, EventsAreTrue, EventsInOrder, EventsOfProcess, SeenInOrder, IsTrue,
           InOrder, IsOfProcess, Linked
  <2>5. NewestOnItsWay'
    <3>1. link = "subscribed" => last \in Nat /\ last <= revision
      BY <2>1 DEF IInv, SeenInOrder, Linked, IsOfProcess, Seen
    <3>2. QED
      BY <1>1, <1>3, <2>1, <2>3, <3>1, BuffersHoldEvents DEF IInv, NewestOnItsWay
  <2>6. LinkHolds' /\ SnapshotIsFirst' /\ PollsAreLate' /\ ReplayIsCurrent'
    BY <2>1, ElementsOfHeadAndTail
       DEF Receive, IInv, LinkHolds, Linked, SnapshotIsFirst, PollsAreLate, ReplayIsCurrent
  <2>7. QED
    BY <2>4, <2>5, <2>6 DEF Flow
<1>4. QED
  BY <1>2, <1>3

\* The poll of a lost stream is the first of its generation.
LEMMA RecoverKeeps ==
  ASSUME IInv, Recover, follow # "retry", ~left, UNCHANGED serverVars PROVE Flow'
<1> DEFINE poll == [generation |-> generation, answer |-> Pending]
<1>1. /\ follow' = "retry" /\ link' = "none" /\ queue' = <<>> /\ wire' = <<>>
      /\ polls' = polls \union {poll}
      /\ UNCHANGED <<states, revision, recent, announced, shown, last, generation, left>>
  BY DEF Recover, serverVars
<1>2. Version' = Version
  BY <1>1 DEF Version
<1>3. InFlight' = {}
  BY <1>1, ElementsOfEmpty DEF InFlight
<1>4. EventsAreTrue' /\ EventsInOrder' /\ EventsOfProcess' /\ ReplayIsCurrent'
  BY <1>1, <1>2, <1>3
     DEF IInv, EventsAreTrue, EventsInOrder, EventsOfProcess, ReplayIsCurrent, IsTrue,
         InOrder, IsOfProcess, Linked
<1>5. LinkHolds' /\ SeenInOrder' /\ SnapshotIsFirst' /\ NewestOnItsWay'
  BY <1>1 DEF LinkHolds, Linked, SeenInOrder, SnapshotIsFirst, NewestOnItsWay
<1>6. \A p \in polls : p.generation # generation
  BY DEF IInv, PollsAreLate
<1>7. PollsAreLate'
  BY <1>1, <1>6 DEF IInv, PollsAreLate
<1>8. QED
  BY <1>4, <1>5, <1>7 DEF Flow

\* What leaves the server and the connection alone keeps what is said of them.
LEMMA ClientOnly ==
  ASSUME IInv, UNCHANGED <<states, revision, recent, announced, link, queue, wire>>
  PROVE  /\ EventsAreTrue' /\ EventsInOrder' /\ EventsOfProcess' /\ ReplayIsCurrent'
         /\ Version' = Version /\ InFlight' = InFlight
<1>1. Version' = Version /\ InFlight' = InFlight
  BY DEF Version, InFlight
<1>2. QED
  BY <1>1 DEF IInv, EventsAreTrue, EventsInOrder, EventsOfProcess, ReplayIsCurrent, IsTrue,
              InOrder, IsOfProcess, Linked

LEMMA ReconnectKeeps == ASSUME IInv, Reconnect PROVE Flow'
<1>1. /\ follow = "retry" /\ follow' = "connecting" /\ generation' = generation + 1
      /\ UNCHANGED <<states, revision, recent, announced, link, queue, wire, shown, last,
                     polls, left>>
  BY DEF Reconnect, serverVars, linkVars
<1>2. link = "none" /\ wire = <<>> /\ ~left
  BY <1>1 DEF IInv, LinkHolds, Reconnect
<1>3. LinkHolds' /\ SeenInOrder' /\ SnapshotIsFirst' /\ NewestOnItsWay'
  BY <1>1, <1>2
     DEF IInv, LinkHolds, Linked, SeenInOrder, SnapshotIsFirst, NewestOnItsWay
<1>4. \A p \in polls : p.generation # generation'
  BY <1>1 DEF IInv, TypeOK
<1>5. PollsAreLate'
  BY <1>1, <1>4 DEF PollsAreLate
<1>6. QED
  BY <1>1, <1>3, <1>5, ClientOnly DEF Flow

\* A poll that counts is the only one that could.
LEMMA PolledKeeps ==
  ASSUME IInv, NEW p \in polls, p.answer # Pending, Polled(p) PROVE Flow'
<1>1. /\ polls' = polls \ {p} /\ ~left
      /\ shown' = IF p.generation = generation /\ follow # "active" THEN p.answer ELSE shown
      /\ UNCHANGED <<states, revision, recent, announced, link, queue, wire, last, follow,
                     generation, left>>
  BY DEF Polled, serverVars, linkVars
<1>2. p.generation = generation => follow = "retry"
  BY DEF IInv, PollsAreLate
<1>3. shown' = shown \/ (follow = "retry" /\ \A q \in polls' : q.generation # generation)
  BY <1>1, <1>2 DEF IInv, PollsAreLate
<1>4. LinkHolds' /\ SnapshotIsFirst' /\ NewestOnItsWay' /\ PollsAreLate'
  BY <1>1, <1>3, ClientOnly
     DEF IInv, LinkHolds, Linked, SnapshotIsFirst, NewestOnItsWay, PollsAreLate
<1>5. SeenInOrder'
  BY <1>1, <1>3, ClientOnly
     DEF IInv, SeenInOrder, Linked, Seen, InOrder, IsOfProcess
<1>6. QED
  BY <1>1, <1>4, <1>5, ClientOnly DEF Flow

\* Polls that are lost or answered: an answer is as new as the game.
LEMMA PollsKeep == ASSUME IInv, PollFails \/ AnswerPoll PROVE Flow'
<1>1. UNCHANGED <<states, revision, recent, announced, link, queue, wire, shown, last,
                  follow, generation, left>>
  BY DEF PollFails, AnswerPoll, serverVars, linkVars
<1>2. LinkHolds' /\ SeenInOrder' /\ SnapshotIsFirst' /\ NewestOnItsWay'
  BY <1>1, ClientOnly
     DEF IInv, LinkHolds, Linked, SeenInOrder, SnapshotIsFirst, NewestOnItsWay, Seen,
         InOrder, IsOfProcess
<1>3. PollsAreLate'
  <2>1. CASE PollFails
    BY <1>1, <2>1 DEF IInv, PollsAreLate, PollFails
  <2>2. CASE AnswerPoll
    <3>1. PICK p \in polls : /\ p.answer = Pending
                             /\ polls' = (polls \ {p}) \union {[p EXCEPT !.answer = Version]}
      BY <2>2 DEF AnswerPoll
    <3>2. PICK q : q = [p EXCEPT !.answer = Version]
      OBVIOUS
    <3>3. q.generation = p.generation /\ q.answer = Version /\ Version >= shown
      BY <3>2, BuffersHoldEvents DEF IInv, TypeOK
    <3>4. \A r \in polls' : r = q \/ (r \in polls /\ r # p)
      BY <3>1, <3>2
    <3>5. QED
      BY <1>1, <3>3, <3>4 DEF IInv, PollsAreLate
  <2>3. QED
    BY <2>1, <2>2
<1>4. QED
  BY <1>1, <1>2, <1>3, ClientOnly DEF Flow

LEMMA StutterKeeps ==
  ASSUME IInv,
         UNCHANGED <<states, revision, recent, announced, linkVars, clientVars>>
  PROVE  Flow'
<1>1. LinkHolds' /\ SeenInOrder' /\ SnapshotIsFirst' /\ NewestOnItsWay' /\ PollsAreLate'
  BY ClientOnly
     DEF linkVars, clientVars, IInv, LinkHolds, Linked, SeenInOrder, SnapshotIsFirst,
         NewestOnItsWay, Seen, InOrder, IsOfProcess, PollsAreLate
<1>2. QED
  BY <1>1, ClientOnly DEF Flow, linkVars, clientVars

LEMMA InitFlow == Init => Flow
<1> SUFFICES ASSUME Init PROVE Flow
  OBVIOUS
<1>1. InFlight = {} /\ Elements(recent) = {}
  BY ElementsOfEmpty DEF Init, InFlight
<1>2. LinkHolds /\ EventsAreTrue /\ EventsInOrder /\ EventsOfProcess
  BY <1>1 DEF Init, LinkHolds, Linked, EventsAreTrue, EventsInOrder, EventsOfProcess
<1>3. SeenInOrder /\ SnapshotIsFirst /\ ReplayIsCurrent /\ NewestOnItsWay /\ PollsAreLate
  BY DEF Init, SeenInOrder, SnapshotIsFirst, ReplayIsCurrent, NewestOnItsWay, PollsAreLate,
         Linked
<1>4. QED
  BY <1>2, <1>3 DEF Flow

LEMMA IInvPreserved == IInv /\ [Next]_vars => IInv'
<1> SUFFICES ASSUME IInv, [Next]_vars PROVE IInv'
  OBVIOUS
<1>1. TypeOK'
  BY TypePreserved DEF IInv
<1>2. ServerNext => Flow'
  BY ChangeKeeps, PublishKeeps, SnapshotKeeps, SubscribeKeeps, SendKeeps, PollsKeep,
     StutterKeeps
     DEF ServerNext, Abandon
<1>3. ClientNext => Flow'
  <2>1. StreamStops \/ OpenFails => Flow'
    BY RecoverKeeps DEF StreamStops, OpenFails
  <2>2. PollArrives => Flow'
    BY PolledKeeps DEF PollArrives
  <2>3. QED
    BY <2>1, <2>2, InitialKeeps, ReceiveKeeps, ReconnectKeeps, PollsKeep
       DEF ClientNext
<1>4. Cut \/ Restart => Flow'
  BY CutKeeps, RestartKeeps
<1>5. UNCHANGED vars => Flow'
  BY StutterKeeps DEF vars, serverVars
<1>6. Flow'
  BY <1>2, <1>3, <1>4, <1>5 DEF Next
<1>7. QED
  BY <1>1, <1>6 DEF IInv, Flow

LEMMA IInvariant == Spec => []IInv
<1>1. Init => IInv
  BY InitType, InitFlow DEF IInv, Flow
<1>2. QED
  BY <1>1, IInvPreserved, PTL DEF Spec

-----------------------------------------------------------------------------
(* The theorems.                                                           *)

\* A client whose stream has nothing left to deliver knows the newest revision
\* and shows the state announced last or a later one, for every capacity of the
\* hub's buffers.
THEOREM DrainedShowsTheNewest == Spec => []DrainedIsCurrent
<1>1. IInv => DrainedIsCurrent
  <2> SUFFICES ASSUME IInv, ~left, follow = "active", link = "subscribed", queue = <<>>,
                      wire = <<>>
               PROVE  last = revision /\ shown >= announced
    BY DEF DrainedIsCurrent, IInv
  <2>1. InFlight = {}
    BY ElementsOfEmpty DEF InFlight
  <2>2. last = revision
    BY <2>1 DEF IInv, NewestOnItsWay
  <2>3. QED
    BY <2>2 DEF IInv, SeenInOrder, Linked, IsOfProcess, Seen
<1>2. QED
  BY <1>1, IInvariant, PTL

\* An event that is applied takes the mirror forward or leaves it; one that ends
\* the program tells of an ending at least as new as what is shown.
LEMMA ApplyMirrors ==
  ASSUME IInv, wire # <<>>, Apply(wire[1]), wire[1].version >= shown, ~left,
         UNCHANGED states
  PROVE  [Mirror!Next]_(Mirror!vars)
<1>1. wire[1] \in InFlight /\ wire[1] \in Event
  BY ElementsOfHeadAndTail DEF IInv, TypeOK, InFlight
<1>2. IsTrue(wire[1]) /\ shown \in 0..Version /\ Version = Len(states)
      /\ Version \in Nat \ {0} /\ wire[1].version \in 1..Version
  BY <1>1, BuffersHoldEvents DEF IInv, EventsAreTrue, IsTrue, Version
<1>3. CASE wire[1].terminal
  <2>1. left' = TRUE /\ shown' = shown
    BY <1>3 DEF Apply
  <2>2. \E v \in shown..Len(states) : v > 0 /\ states[v] = "over"
    BY <1>2, <1>3 DEF IsTrue
  <2>3. QED
    BY <2>1, <2>2 DEF Mirror!Next, Mirror!Leave
<1>4. CASE ~wire[1].terminal
  <2>1. shown' = wire[1].version /\ UNCHANGED left
    BY <1>4 DEF Apply
  <2>2. shown' = shown \/ shown' \in (shown + 1)..Len(states)
    BY <1>2, <2>1
  <2>3. QED
    BY <2>1, <2>2 DEF Mirror!Next, Mirror!Show, Mirror!vars
<1>5. QED
  BY <1>3, <1>4

\* The client implements the mirror: whatever is lost, replayed, repeated or late,
\* it shows ever later states and quits only for an ending.
THEOREM ClientMirrorsTheGame == Spec => MirrorSpec
<1>1. Init => Mirror!Init
  BY DEF Init, Mirror!Init
<1>2. IInv /\ [Next]_vars => [Mirror!Next]_(Mirror!vars)
  <2> SUFFICES ASSUME IInv, [Next]_vars PROVE [Mirror!Next]_(Mirror!vars)
    OBVIOUS
  <2>1. ASSUME NEW kind \in Kinds, Change(kind) PROVE Mirror!Next
    BY <2>1 DEF Change, clientVars, Mirror!Next, Mirror!Change, Kinds, Mirror!Kinds
  <2>2. CASE Restart
    BY <2>2 DEF Restart, clientVars, Mirror!Next, Mirror!Change, Mirror!Kinds
  <2>3. CASE Initial
    <3>1. Head(wire) = wire[1] /\ wire[1].version >= shown
      BY <2>3, ElementsOfHeadAndTail DEF Initial, IInv, TypeOK, SnapshotIsFirst
    <3>2. QED
      BY <2>3, <3>1, ApplyMirrors DEF Initial, serverVars
  <2>4. CASE Receive
    <3>1. Head(wire) = wire[1] /\ wire[1] \in InFlight
      BY <2>4, ElementsOfHeadAndTail DEF Receive, IInv, TypeOK, InFlight
    <3>2. CASE wire[1].revision > last
      <4>1. InOrder(Seen, wire[1])
        BY <2>4, <3>1 DEF Receive, IInv, SeenInOrder
      <4>2. wire[1].version >= shown
        BY <3>1, <3>2, <4>1, BuffersHoldEvents DEF IInv, InOrder, Seen
      <4>3. QED
        BY <2>4, <3>1, <3>2, <4>2, ApplyMirrors DEF Receive, Accepts, serverVars
    <3>3. CASE ~(wire[1].revision > last)
      BY <2>4, <3>1, <3>3 DEF Receive, Accepts, serverVars, Mirror!vars
    <3>4. QED
      BY <3>2, <3>3
  <2>5. ASSUME NEW p \in polls, p.answer # Pending, Polled(p)
        PROVE [Mirror!Next]_(Mirror!vars)
    <3>1. p.answer \in 1..Version /\ Version = Len(states) /\ Version \in Nat \ {0}
          /\ shown \in 0..Version
      BY <2>5, BuffersHoldEvents DEF IInv, TypeOK, Version
    <3>2. shown' = shown \/ shown' \in (shown + 1)..Len(states)
      BY <2>5, <3>1 DEF IInv, PollsAreLate, Polled
    <3>3. QED
      BY <2>5, <3>2 DEF Polled, serverVars, Mirror!Next, Mirror!Show, Mirror!vars
  <2>6. CASE \/ Publish \/ Abandon \/ Snapshot \/ Subscribe \/ Send \/ AnswerPoll
             \/ StreamStops \/ OpenFails \/ Reconnect \/ PollFails \/ Cut
             \/ UNCHANGED vars
    BY <2>6 DEF Publish, Abandon, Snapshot, Subscribe, Send, AnswerPoll, StreamStops,
                OpenFails, Recover, Reconnect, PollFails, Cut, vars, serverVars, clientVars,
                linkVars, Mirror!vars
  <2>7. QED
    BY <2>1, <2>2, <2>3, <2>4, <2>5, <2>6
       DEF Next, ServerNext, ClientNext, PollArrives
<1>3. QED
  BY <1>1, <1>2, IInvariant, PTL DEF Spec, MirrorSpec, Mirror!Spec
=============================================================================
