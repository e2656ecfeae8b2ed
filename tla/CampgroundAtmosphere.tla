------------------------ MODULE CampgroundAtmosphere ------------------------
(***************************************************************************)
(* What the world says by itself: public events, discoveries, ambience and *)
(* the sounds of the first dungeon level, the bounded history of gameplay  *)
(* events the server keeps, and the client that shows them                 *)
(* (campgroundAtmosphere.ts, sounds.ts, gameplayEvents.ts and              *)
(* applyGameplayEvents of the terminal client).                            *)
(*                                                                         *)
(* The code is a function from game states to game states.  Its choices by *)
(* hash or seeded generator are abstracted to "any of the values it may    *)
(* return", so each operator gives the set of its possible results.        *)
(***************************************************************************)
EXTENDS Integers, SequencesExt, FiniteSetsExt

CONSTANTS
  Spots, Start,       \* where the player may stand, and begins
  Steps,              \* Steps[p]: where one move leads from p
  Level,              \* Level[p]: 0 the campground, 1 the first dungeon level
  Distance,           \* Distance[p][q]: to the entrance or sign of place q
  OnRoad, Sheltered,  \* the spots on a road, and those under canvas
  Talkative,          \* the spots where an action may say something
  Welcoming,          \* those of them where the host of WelcomeCamp can be met
  Landmarks, Camps,   \* the placements, in the code's order
  Programme,          \* the public events: records of a kind and a host
  HeavyRain,          \* whether it rains
  LinesOf(_),         \* how many lines a zone has
  Hippies,            \* of the tunnels
  EventLead, EventDuration, EventCooldown, EventRetry,   \* sets of delays
  AmbientDelay, FirstSoundDelay, SoundDelay,             \* in turns
  GreetingPause,      \* FIRST_AMBIENT_DELAY_MIN
  HistoryLimit,       \* GAMEPLAY_EVENT_LIMIT
  Horizons            \* bounds of the instance: records of the turns of a game
                      \* (turns), the games (games) and the client's steps (looks)

ASSUME AtmosphereAssumption ==
  /\ Start \in Spots /\ Talkative \subseteq Spots
  /\ Welcoming \subseteq {p \in Talkative : Level[p] = 0}
  /\ \A p \in Spots : Steps[p] \subseteq Spots
  /\ Landmarks \in Seq(STRING) /\ Camps \in Seq(STRING)
  /\ \A p \in Spots : \A q \in Range(Landmarks) \union Range(Camps) : Distance[p][q] \in Nat
  /\ HeavyRain \in BOOLEAN
  /\ \A delays \in {EventLead, EventDuration, EventCooldown, EventRetry,
                    AmbientDelay, FirstSoundDelay, SoundDelay} :
       delays # {} /\ delays \subseteq Nat \ {0}
  /\ HistoryLimit \in Nat \ {0}

\* campgroundPublicEvents: no two events have the same kind.
ASSUME ProgrammeAssumption ==
  /\ IsFiniteSet(Programme)
  /\ \A d, e \in Programme : d.kind = e.kind => d = e

VARIABLES
  state,     \* the part of GameState the atmosphere reads and writes
  game,      \* which game this is: a crash loses one and begins another
  client,    \* the client's cursor, and what it has shown
  late,      \* a view computed for a request and not yet delivered
  lastCall,  \* ghost: the last announcement of an event, and the last line
  left       \* how much of the horizon of this behavior is left

vars == <<state, game, client, late, lastCall, left>>

Never == 0
Nothing == [kind |-> "nothing"]

DiscoveryRadius == 3
CampAmbientRadius == 12
LandmarkAmbientRadius == 10
EventAmbientRadius == 14

-----------------------------------------------------------------------------
(* The history of gameplay events *)

\* Mutant: ids are counted from what the history still holds.
LatestIdByLength(s) == Len(s.events)

LatestId(s) == Max({s.nextId} \union {e.id : e \in Range(s.events)})

AppendEvent(s, what) ==
  LET id == LatestId(s) + 1
      all == Append(s.events, [id |-> id, what |-> what])
  IN  [s EXCEPT !.events = SubSeq(all, Max({1, Len(all) - HistoryLimit + 1}), Len(all)),
                !.nextId = id]

-----------------------------------------------------------------------------
(* Public events *)

Eligible(s) ==
  {e \in Programme : e.host \in s.discovered /\ e.host \in Range(Camps)}

\* Mutant: the event that has just ended may be chosen again.
NextEventsWithEncore(s) == Eligible(s)

NextEvents(s) ==
  LET others == {e \in Eligible(s) : e.kind # s.event.kind}
  IN  IF Cardinality(Eligible(s)) > 1 /\ others # {} THEN others ELSE Eligible(s)

\* The public event is that of a kind and a host from now on, in a phase until a turn.
WithEvent(s, phase, e, at) ==
  [s EXCEPT !.event = [phase |-> phase, kind |-> e.kind, host |-> e.host, at |-> at]]

ScheduleNextEvent(s, turn) ==
  IF NextEvents(s) = {}
  THEN {WithEvent(s, "cooldown", s.event, turn + d) : d \in EventRetry}
  ELSE {WithEvent(s, "scheduled", e, turn + d) : e \in NextEvents(s), d \in EventLead}

\* The event's next turn is due; a first cooldown has none and is due at once.
EventIsDue(s, turn) == s.event.at = Never \/ turn >= s.event.at

Hosted(s) == \E e \in Eligible(s) : e.kind = s.event.kind /\ e.host = s.event.host

\* Every outcome of a turn for the event, with the announcement it makes.
AdvancePublicEvent(s, turn) ==
  LET Quietly(states) == {[state |-> t, call |-> Nothing] : t \in states}
      Calling(call, phase, delays) ==
        {[state |-> WithEvent(s, phase, s.event, turn + d),
          call |-> [kind |-> call, about |-> s.event.kind]] : d \in delays}
  IN  IF s.event.phase = "active" /\ ~Hosted(s) THEN Quietly(ScheduleNextEvent(s, turn))
      ELSE IF ~EventIsDue(s, turn) THEN Quietly({s})
      ELSE IF s.event.phase = "active" THEN Calling("closes", "cooldown", EventCooldown)
      ELSE IF s.event.phase = "scheduled" /\ Hosted(s)
           THEN Calling("opens", "active", EventDuration)
      ELSE Quietly(ScheduleNextEvent(s, turn))

-----------------------------------------------------------------------------
(* Discoveries *)

Placements == Landmarks \o Camps

\* Where in Placements the undiscovered places near enough are.
DiscoveryCandidates(s) ==
  {i \in DOMAIN Placements : /\ Distance[s.spot][Placements[i]] <= DiscoveryRadius
                             /\ Placements[i] \notin s.discovered}

\* The one a turn tells of: the nearest, ties by their order.
Discovery(s) ==
  LET Away(i) == Distance[s.spot][Placements[i]]
      first == CHOOSE i \in DiscoveryCandidates(s) : \A j \in DiscoveryCandidates(s) :
                 Away(i) < Away(j) \/ (Away(i) = Away(j) /\ i <= j)
  IN  Placements[first]

Discover(s, q) ==
  AppendEvent([s EXCEPT !.discovered = @ \union {q}], [kind |-> "discovers", about |-> q])

-----------------------------------------------------------------------------
(* Ambience: one line of the zone the player stands in *)

Near(s, q, radius) == q \in Range(Placements) /\ Distance[s.spot][q] <= radius

CampsNear(s) == {q \in Range(Camps) : Near(s, q, CampAmbientRadius)}

\* Ties are settled by the names: always the same way for the same camps.
NearestCamp(s) ==
  CHOOSE q \in CampsNear(s) : \A r \in CampsNear(s) : Distance[s.spot][q] <= Distance[s.spot][r]

BaseZone(s) ==
  IF s.event.phase = "active" /\ Hosted(s) /\ Near(s, s.event.host, EventAmbientRadius)
    THEN <<"event", s.event.kind>>
  ELSE IF Near(s, "temple", LandmarkAmbientRadius) THEN <<"landmark", "temple">>
  ELSE IF Near(s, "effigy", LandmarkAmbientRadius) THEN <<"landmark", "effigy">>
  ELSE IF CampsNear(s) # {} THEN <<"camp", NearestCamp(s)>>
  ELSE IF Near(s, "arrival", LandmarkAmbientRadius) THEN <<"landmark", "arrival">>
  ELSE IF s.spot \in OnRoad THEN <<"road">> ELSE <<"open playa">>

Zone(s) ==
  IF ~HeavyRain THEN BaseZone(s)
  ELSE <<IF s.spot \in Sheltered THEN "sheltered" ELSE "outdoor">> \o BaseZone(s)

\* The hash of a zone and a turn picks from all lines, or from all but one: a
\* draw stands for both remainders.
Draws(n) == IF n < 2 THEN {0} ELSE 0..(n * (n - 1) - 1)

\* The line for a draw.  The code does not keep the line it said: it takes the
\* one the hash of the last message's turn picks from all lines of the zone.
AmbientLine(s, zone, draw) ==
  LET n == LinesOf(zone)
      previous == IF s.ambience.zone = zone /\ s.ambience.lastMessageTurn # Never
                  THEN {s.ambience.recalled} ELSE {}
      choices == IF n < 2 THEN 0..(n - 1) ELSE (0..(n - 1)) \ previous
  IN  SetToSortSeq(choices, <)[1 + (draw % Cardinality(choices))]

\* The ambience with a last message, a next turn, a zone and the line recalled.
WithAmbience(s, last, next, zone, recalled) ==
  [s EXCEPT !.ambience = [lastMessageTurn |-> last, nextTurn |-> next,
                          zone |-> zone, recalled |-> recalled]]

AdvanceAmbient(s, turn) ==
  LET zone == Zone(s)
      before == s.ambience
  IN  IF before.nextTurn = Never
      THEN {WithAmbience(s, before.lastMessageTurn, turn + d, before.zone, before.recalled) :
              d \in AmbientDelay}
      ELSE IF turn < before.nextTurn THEN {s}
      ELSE {AppendEvent(WithAmbience(s, turn, turn + d, zone, h % LinesOf(zone)),
                        [kind |-> "ambience", zone |-> zone, line |-> AmbientLine(s, zone, h)]) :
              d \in AmbientDelay, h \in Draws(LinesOf(zone))}

SuppressUntil(s, turn) ==
  LET before == s.ambience
  IN  {WithAmbience(s, Max({before.lastMessageTurn, turn}), before.nextTurn, before.zone, line) :
         line \in 0..(LinesOf(before.zone) - 1)}

\* Mutant: the turn is taken for occupied one turn too early.
SuppressTooEarly(s) == SuppressUntil(s, s.turn)

\* Mutant: the turn after it is taken for occupied as well.
SuppressTooLong(s) == SuppressUntil(s, s.turn + 2)

\* What is due stays due, but not in the turn that already had a message.  The
\* hash of that turn picks the line taken for the last one.
Suppress(s) == SuppressUntil(s, s.turn + 1)

AdvanceCampground(s, turn) ==
  IF s.ambience.lastMessageTurn >= turn THEN {s}
  ELSE UNION {LET t == step.state
              IN  IF step.call # Nothing THEN {AppendEvent(t, step.call)}
                  ELSE IF DiscoveryCandidates(t) # {}
                  THEN {Discover(t, Discovery(t))}
                  ELSE AdvanceAmbient(t, turn) :
                step \in AdvancePublicEvent(s, turn)}

-----------------------------------------------------------------------------
(* The first dungeon level *)

WithSound(s, at) == [s EXCEPT !.soundTurn = at]

ClearSounds(s) == WithSound(s, Never)

Greet(s, turn, h) ==
  AppendEvent([WithSound(s, Max({s.soundTurn, turn + GreetingPause})) EXCEPT !.greeted = @ \union {h}],
              [kind |-> "greets", about |-> h])

\* A hippie that has not spoken yet may have come within hearing.
AdvanceFirstDungeon(s, turn) ==
  {Greet(s, turn, h) : h \in Hippies \ s.greeted}
  \union
  IF s.soundTurn = Never THEN {WithSound(s, turn + d) : d \in FirstSoundDelay}
  ELSE IF turn < s.soundTurn THEN {s}
  ELSE {AppendEvent(WithSound(s, turn + d), [kind |-> "sound"]) : d \in SoundDelay}

AdvanceWorldAtmosphere(s) ==
  LET turn == s.turn + 1
      advanced == [s EXCEPT !.turn = turn]
  IN  IF Level[s.spot] = 0 THEN AdvanceCampground(ClearSounds(advanced), turn)
      ELSE IF Level[s.spot] = 1 THEN AdvanceFirstDungeon(advanced, turn)
      ELSE {ClearSounds(advanced)}

-----------------------------------------------------------------------------
(* Games, saves and the client *)

Fresh ==
  LET silent == [turn |-> 0, spot |-> Start, discovered |-> {"arrival"} \cap Range(Landmarks), greeted |-> {},
                 event |-> [phase |-> "cooldown", kind |-> "none", host |-> "none", at |-> Never],
                 ambience |-> [lastMessageTurn |-> Never, nextTurn |-> Never,
                               zone |-> <<"nowhere">>, recalled |-> 0],
                 soundTurn |-> Never, events |-> <<>>, nextId |-> 0]
  IN  IF HeavyRain THEN AppendEvent(silent, [kind |-> "narration"]) ELSE silent

WithoutNarration(events) ==
  LET kept[i \in 0..Len(events)] ==
        IF i = 0 THEN <<>>
        ELSE IF events[i].what.kind = "narration" THEN kept[i - 1]
        ELSE Append(kept[i - 1], events[i])
  IN  kept[Len(events)]

\* A restored game no longer tells its beginning; its ids go on.
Prepared(s) == [s EXCEPT !.events = WithoutNarration(@)]

View == [game |-> game, events |-> state.events]

\* The client goes through a view and shows what lies beyond its cursor.
ApplyGameplayEvents(c, view) ==
  LET seen[i \in 0..Len(view.events)] ==
        IF i = 0 THEN c
        ELSE IF view.events[i].id <= seen[i - 1].cursor THEN seen[i - 1]
        ELSE [cursor |-> view.events[i].id,
              shown |-> IF view.events[i].what.kind = "narration" THEN seen[i - 1].shown
                        ELSE Append(seen[i - 1].shown, <<view.game, view.events[i].id>>)]
  IN  seen[Len(view.events)]

Init ==
  /\ state = Fresh
  /\ game = 1
  /\ client = [cursor |-> 0, shown |-> <<>>]
  /\ late = Nothing
  /\ lastCall = [call |-> Nothing, line |-> Nothing]
  /\ left \in Horizons

\* What the history of t holds that was said after s.
NewlySaid(s, t) == {e.what : e \in {f \in Range(t.events) : f.id > LatestId(s)}}

\* What the turn has just said, kept for the properties.
Noted(s, t) ==
  LET said == NewlySaid(s, t)
      calls == {w \in said : w.kind \in {"opens", "closes"}}
      lines == {w \in said : w.kind = "ambience"}
  IN  [call |-> IF calls = {} THEN lastCall.call ELSE CHOOSE w \in calls : TRUE,
       line |-> IF lines = {} THEN lastCall.line ELSE CHOOSE w \in lines : TRUE]

TakeTurn(s) ==
  /\ state.turn < left.turns
  /\ state' \in AdvanceWorldAtmosphere(s)
  /\ lastCall' = Noted(state, state')
  /\ UNCHANGED <<game, client, late, left>>

Walk == \E p \in Steps[state.spot] : TakeTurn([state EXCEPT !.spot = p])

WelcomeCamp == "dusty-spoon"
OwnWords == [kind |-> "talk"]

\* The places known after a talk.  The host of the welcome camp shows its sign when
\* the welcome favor is completed; whether it is now is CampgroundProgress's.
Acquainted(s) ==
  {s.discovered} \union {s.discovered \union {WelcomeCamp} : p \in Welcoming \intersect {s.spot}}

\* An action with a message of its own: talk, a travel notice, a favor.
Talk ==
  /\ state.spot \in Talkative
  /\ \E places \in Acquainted(state) :
       \E s \in Suppress(AppendEvent([state EXCEPT !.discovered = places], OwnWords)) : TakeTurn(s)

\* A server that is stopped saves the game; the next one restores it.
Restart ==
  /\ state' = Prepared(state)
  /\ UNCHANGED <<game, client, late, lastCall, left>>

\* One that is killed loses it: the restored save was consumed.
Crash ==
  /\ game < left.games
  /\ game' = game + 1
  /\ state' = Fresh
  /\ lastCall' = [call |-> Nothing, line |-> Nothing]
  /\ UNCHANGED <<client, late, left>>

\* The client's stream brings the present state.
Look ==
  /\ left.looks > 0
  /\ client' = ApplyGameplayEvents(client, View)
  /\ left' = [left EXCEPT !.looks = @ - 1]
  /\ UNCHANGED <<state, game, late, lastCall>>

\* An answer is computed, and delivered after whatever the stream brings.
Answer ==
  /\ late = Nothing /\ left.looks > 0
  /\ late' = View
  /\ left' = [left EXCEPT !.looks = @ - 1]
  /\ UNCHANGED <<state, game, client, lastCall>>

Deliver ==
  /\ late # Nothing
  /\ client' = ApplyGameplayEvents(client, late)
  /\ late' = Nothing
  /\ UNCHANGED <<state, game, lastCall, left>>

Next == Walk \/ Talk \/ Restart \/ Crash \/ Look \/ Answer \/ Deliver

Spec == Init /\ [][Next]_vars

-----------------------------------------------------------------------------
(* Properties *)

\* The client shows no message twice, whatever views reach it and in whatever
\* order, and a client with the present view has shown every message the
\* history still holds.  The exception is what a crash costs: messages of a new
\* game whose ids do not pass the cursor an earlier game has left.
HeardOnceAndAll ==
  /\ IsInjective(client.shown)
  /\ \A e \in Range(state.events) :
       \/ e.what.kind = "narration"
       \/ <<game, e.id>> \in Range(ApplyGameplayEvents(client, View).shown)
       \/ \E f \in Range(client.shown) : f[1] < game /\ f[2] >= e.id

\* On the campground the world says one thing at most in a turn, and nothing in
\* a turn that has words of its own.  A place is told when it is marked as
\* discovered, never later or again; only the camp whose host shows its sign
\* (completeWelcomeFavor) is known without having been told.
OneVoiceATurn ==
  [][game' = game /\ state'.turn # state.turn =>
       LET said == NewlySaid(state, state')
           found == state'.discovered \ state.discovered
           told == {w.about : w \in {v \in said : v.kind = "discovers"}}
       IN  /\ Level[state'.spot] = 0 =>
                IF OwnWords \in said THEN said = {OwnWords}
                ELSE LatestId(state') <= LatestId(state) + 1
           /\ state.discovered \subseteq state'.discovered
           /\ \/ told = found
              \/ told = {} /\ found = {WelcomeCamp} /\ OwnWords \in said
    ]_vars

\* What waits for the turn to be told at a spot: an announcement, a discovery, a line.
Pending(s, turn, spot) ==
  \/ s.event.phase \in {"scheduled", "active"} /\ EventIsDue(s, turn) /\ Hosted(s)
  \/ DiscoveryCandidates([s EXCEPT !.spot = spot]) # {}
  \/ s.ambience.nextTurn # Never /\ turn >= s.ambience.nextTurn

\* What is due is put off by a turn that has words of its own, and by nothing
\* else: it is as due in the next turn, and a turn without words of its own
\* tells something if anything was due.
DueIsTold ==
  [][game' = game /\ state'.turn # state.turn /\ Level[state'.spot] = 0 =>
       IF OwnWords \in NewlySaid(state, state')
       THEN /\ state'.event = state.event
            /\ state'.ambience.nextTurn = state.ambience.nextTurn
            /\ \A i \in DiscoveryCandidates(state) :
                 i \in DiscoveryCandidates(state') \/ Placements[i] = WelcomeCamp
       ELSE Pending(state, state'.turn, state'.spot) => NewlySaid(state, state') # {}
    ]_vars

\* Announcements come in pairs: an event opens when none is open and only the
\* open one closes.  The event chosen next is another one whenever more than one
\* host is known, however long and however interrupted the wait was.
ProgrammeIsKept ==
  [][game' = game =>
       /\ lastCall'.call # lastCall.call =>
            IF lastCall'.call.kind = "closes"
            THEN lastCall.call = [kind |-> "opens", about |-> lastCall'.call.about]
            ELSE lastCall.call.kind # "opens"
       /\ /\ state'.event.phase = "scheduled" /\ state.event.phase # "scheduled"
          /\ lastCall.call.kind = "closes" /\ Cardinality(Eligible(state)) > 1
          => state'.event.kind # lastCall.call.about
    ]_vars

\* "Heavy-rain ambience without immediate repetition": a zone does not say the
\* same line twice running.
NoLineTwiceRunning ==
  [][lastCall'.line # Nothing /\ lastCall.line # Nothing
       /\ LatestId(state') > LatestId(state) /\ game' = game
       /\ Last(state'.events).what.kind = "ambience"
       /\ lastCall'.line.zone = lastCall.line.zone
       => lastCall'.line.line # lastCall.line.line]_vars

=============================================================================
