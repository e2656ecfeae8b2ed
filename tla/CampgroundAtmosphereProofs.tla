--------------------- MODULE CampgroundAtmosphereProofs ---------------------
(***************************************************************************)
(* Proofs that the client hears every message once, that a turn of the     *)
(* campground says one thing at most and leaves nothing that is due        *)
(* untold, and that the programme of public events is kept                 *)
(* (CampgroundAtmosphere).                                                 *)
(*                                                                         *)
(* The history carries both messages and discoveries, so the proofs begin  *)
(* with what one append does, follow a turn through the handlers, and end  *)
(* with the client's loop over a view.                                     *)
(***************************************************************************)
EXTENDS CampgroundAtmosphere, SequenceTheorems, FiniteSetTheorems, WellFoundedInduction, TLAPS

-----------------------------------------------------------------------------
(* What the states look like. *)

Told(e) == e.what.kind # "narration"

\* Messages in the order of their ids, none beyond the last id given out.  The
\* narration is the first message of a rainy game and of no other.
IsHistory(h, latest) ==
  /\ h \in Seq(Range(h))
  /\ \A e \in Range(h) : /\ e.id \in 1..latest
                         /\ (~ Told(e)) <=> (HeavyRain /\ e.id = 1)
  /\ \A i, j \in DOMAIN h : i < j => h[i].id < h[j].id

IsState(s) ==
  /\ s = [turn |-> s.turn, spot |-> s.spot, discovered |-> s.discovered,
          greeted |-> s.greeted, event |-> s.event, ambience |-> s.ambience,
          soundTurn |-> s.soundTurn, events |-> s.events, nextId |-> s.nextId]
  /\ s.event = [phase |-> s.event.phase, kind |-> s.event.kind,
                host |-> s.event.host, at |-> s.event.at]
  /\ s.ambience = [lastMessageTurn |-> s.ambience.lastMessageTurn,
                   nextTurn |-> s.ambience.nextTurn,
                   zone |-> s.ambience.zone, recalled |-> s.ambience.recalled]
  /\ s.turn \in Nat /\ s.spot \in Spots
  /\ s.ambience.lastMessageTurn \in Nat /\ s.ambience.nextTurn \in Nat
  /\ s.nextId \in Nat /\ IsHistory(s.events, s.nextId)

\* A rainy game has been narrated.
Begun(s) == HeavyRain => s.nextId >= 1

\* Shown messages carry the game and the id; ids only grow, whatever the game.
IsClient(c) ==
  /\ c = [cursor |-> c.cursor, shown |-> c.shown]
  /\ c.cursor \in Nat
  /\ c.shown \in Seq(Nat \X Nat)
  /\ \A f \in Range(c.shown) : f[2] <= c.cursor
  /\ \A i, j \in DOMAIN c.shown : i < j => c.shown[i][2] < c.shown[j][2]

IsLate(l) ==
  /\ l = [game |-> l.game, events |-> l.events]
  /\ l.game \in Nat /\ l.game <= game
  /\ \E n \in Nat : IsHistory(l.events, n)

-----------------------------------------------------------------------------
(* The invariants. *)

\* What holds a message back: it was shown, or a game before this one has left
\* a cursor that it does not pass.
Passed(e) ==
  \/ <<game, e.id>> \in Range(client.shown)
  \/ \E f \in Range(client.shown) : f[1] < game /\ f[2] >= e.id

\* Where the client's cursor can come from.
CursorIsEarned ==
  \/ client.cursor = 0
  \/ HeavyRain /\ client.cursor = 1
  \/ \E f \in Range(client.shown) : f[2] = client.cursor

\* A view on its way is a picture of this game or of one before it; of this
\* game it lacks only messages that came after all of its own.
LateIsBehind ==
  late.game = game =>
    /\ \A e \in Range(late.events) : e.id <= state.nextId
    /\ \A e \in Range(state.events) :
         e \in Range(late.events) \/ \A l \in Range(late.events) : l.id < e.id

Shape ==
  /\ IsState(state) /\ Begun(state) /\ game \in Nat /\ IsClient(client)
  /\ late = Nothing \/ IsLate(late)

HearingInv ==
  /\ \A f \in Range(client.shown) : f[1] <= game /\ (f[1] = game => f[2] <= state.nextId)
  /\ CursorIsEarned
  /\ \A e \in Range(state.events) : Told(e) /\ e.id <= client.cursor => Passed(e)
  /\ late # Nothing => LateIsBehind

\* The programme and the last announcement agree.
ProgrammeInv ==
  /\ state.event.phase \in {"cooldown", "scheduled", "active"}
  /\ state.event.phase \in {"scheduled", "active"} => Hosted(state)
  /\ state.event.phase = "active" =>
       lastCall.call = [kind |-> "opens", about |-> state.event.kind]
  /\ state.event.phase # "active" => lastCall.call.kind # "opens"
  /\ state.event.phase = "cooldown" /\ lastCall.call.kind = "closes" =>
       state.event.kind = lastCall.call.about

AtmosphereInv == Shape /\ HearingInv

-----------------------------------------------------------------------------
(* Numbers. *)

LEMMA LeastOfNaturals ==
  ASSUME NEW S \in SUBSET Nat, S # {}
  PROVE  \E m \in S : \A k \in S : m <= k
<1>1. IsWellFoundedOn(OpToRel(<, Nat), Nat)
  BY NatLessThanWellFounded
<1>2. PICK m \in S : \A k \in S : ~(<<k, m>> \in OpToRel(<, Nat))
  BY <1>1, WFMin
<1>3. ASSUME NEW k \in S PROVE m <= k
  <2>1. ~(<<k, m>> \in OpToRel(<, Nat))
    BY <1>2
  <2>2. ~(k < m)
    BY <2>1 DEF OpToRel
  <2>3. QED
    BY <2>2
<1>4. QED
  BY <1>3

LEMMA MaxIsTheGreatest ==
  ASSUME NEW S \in SUBSET Int, NEW m \in S, \A k \in S : k <= m
  PROVE  Max(S) = m
<1>1. \A k \in S : m >= k
  OBVIOUS
<1>2. Max(S) \in S /\ \A k \in S : Max(S) >= k
  BY <1>1 DEF Max
<1>3. Max(S) >= m /\ Max(S) <= m /\ Max(S) \in Int /\ m \in Int
  BY <1>2
<1>4. QED
  BY <1>3

LEMMA MaxOfTwo ==
  ASSUME NEW m \in Int, NEW n \in Int
  PROVE  Max({m, n}) = IF m >= n THEN m ELSE n
<1>1. CASE m >= n
  BY <1>1, MaxIsTheGreatest
<1>2. CASE ~(m >= n)
  <2>1. \A k \in {m, n} : k <= n
    BY <1>2
  <2>2. QED
    BY <1>2, <2>1, MaxIsTheGreatest
<1>3. QED
  BY <1>1, <1>2

-----------------------------------------------------------------------------
(* The history. *)

LEMMA LatestIsNext ==
  ASSUME NEW s, IsState(s)
  PROVE  LatestId(s) = s.nextId
<1> DEFINE ids == {s.nextId} \union {e.id : e \in Range(s.events)}
<1>1. s.nextId \in Nat /\ \A e \in Range(s.events) : e.id \in 1..s.nextId
  BY DEF IsState, IsHistory
<1>2. ids \in SUBSET Int /\ \A k \in ids : k <= s.nextId
  BY <1>1
<1>3. QED
  BY <1>2, MaxIsTheGreatest DEF LatestId

\* A sequence is one of its own values.
LEMMA OfItsOwnValues ==
  ASSUME NEW S, NEW h \in Seq(S)
  PROVE  /\ h \in Seq(Range(h)) /\ Range(h) \subseteq S
         /\ Len(h) \in Nat /\ DOMAIN h = 1..Len(h)
<1>1. Len(h) \in Nat /\ DOMAIN h = 1..Len(h)
  BY LenProperties
<1>2. QED
  BY <1>1, SeqOfRange, RangeOfSeq

Kept(h, e) ==
  SubSeq(Append(h, e), Max({1, Len(Append(h, e)) - HistoryLimit + 1}), Len(Append(h, e)))

\* The message, and nothing but it and what was there, in order.
KeepsInOrder(h, e, kept) ==
  /\ kept \in Seq(Range(kept))
  /\ e \in Range(kept) /\ Range(kept) \subseteq Range(h) \union {e}
  /\ \E d \in Nat : /\ DOMAIN kept = 1..(Len(h) + 1 - d) /\ d <= Len(h)
                    /\ \A i \in DOMAIN kept : kept[i] = Append(h, e)[i + d]

\* What is kept of a history that has had a message appended.
LEMMA KeptOfAHistory ==
  ASSUME NEW h, h \in Seq(Range(h)), NEW e
  PROVE  KeepsInOrder(h, e, Kept(h, e))
<1> DEFINE all == Append(h, e)
           from == Max({1, Len(all) - HistoryLimit + 1})
           kept == SubSeq(all, from, Len(all))
<1>1. Len(h) \in Nat /\ DOMAIN h = 1..Len(h)
  BY OfItsOwnValues
<1>2. /\ all \in Seq(Range(h) \union {e}) /\ Len(all) = Len(h) + 1
      /\ all[Len(h) + 1] = e
      /\ \A i \in 1..Len(h) : all[i] = h[i]
  <2>1. h \in Seq(Range(h) \union {e})
    BY SeqMonotonic
  <2>2. QED
    BY <2>1, AppendProperties
<1>3. from \in 1..Len(all)
  <2> DEFINE m == Len(all) - HistoryLimit + 1
  <2>1. HistoryLimit \in Nat \ {0}
    BY AtmosphereAssumption
  <2>2. m \in Int /\ m <= Len(all) /\ Len(all) >= 1 /\ Len(all) \in Int
    BY <1>1, <1>2, <2>1
  <2>3. from = IF 1 >= m THEN 1 ELSE m
    BY <2>2, MaxOfTwo
  <2>4. QED
    BY <2>2, <2>3
<1> HIDE DEF from, all
<1>4. /\ kept \in Seq(Range(h) \union {e})
      /\ Len(kept) = Len(all) - from + 1
      /\ \A i \in 1..(Len(all) - from + 1) : kept[i] = all[from + i - 1]
  BY <1>1, <1>2, <1>3, SubSeqProperties
<1> HIDE DEF kept
<1>5. /\ kept \in Seq(Range(kept)) /\ Range(kept) \subseteq Range(h) \union {e}
      /\ DOMAIN kept = 1..(Len(all) - from + 1)
  BY <1>4, OfItsOwnValues
<1> DEFINE d == from - 1
<1>6. d \in Nat /\ d <= Len(h) /\ Len(all) - from + 1 = Len(h) + 1 - d
  BY <1>1, <1>2, <1>3
<1>7. \A i \in DOMAIN kept : kept[i] = all[i + d]
  <2>1. ASSUME NEW i \in DOMAIN kept
        PROVE  kept[i] = all[i + d]
    <3>1. i \in 1..(Len(all) - from + 1) /\ from + i - 1 = i + d
      BY <1>1, <1>2, <1>3, <1>5
    <3>2. QED
      BY <1>4, <3>1
  <2>2. QED
    BY <2>1
<1>8. e \in Range(kept)
  <2>1. Len(h) + 1 - d \in DOMAIN kept /\ Len(h) + 1 - d + d = Len(h) + 1
    BY <1>1, <1>5, <1>6
  <2>2. kept[Len(h) + 1 - d] = e
    BY <1>2, <1>7, <2>1
  <2>3. QED
    BY <2>1, <2>2 DEF Range
<1>9. QED
  BY <1>5, <1>6, <1>7, <1>8 DEF all, from, kept, Kept, KeepsInOrder

\* The message is the next in the history, or the history is what it was.
Says(s, t, what) ==
  LET new == [id |-> s.nextId + 1, what |-> what]
  IN  /\ t.nextId = s.nextId + 1
      /\ new \in Range(t.events) /\ Range(t.events) \subseteq Range(s.events) \union {new}

SaysNothing(s, t) == t.nextId = s.nextId /\ t.events = s.events

\* What is in the history of t and was said after s.
Said(s, t) == {e.what : e \in {f \in Range(t.events) : f.id > s.nextId}}

\* Nothing appears in the history but messages of later ids.
Grows(s, t) ==
  /\ s.nextId <= t.nextId
  /\ \A e \in Range(t.events) : e \in Range(s.events) \/ e.id > s.nextId

\* Everything but the history is the same.
SameButHistory(s, t) ==
  /\ t.turn = s.turn /\ t.spot = s.spot /\ t.discovered = s.discovered
  /\ t.event = s.event /\ t.ambience = s.ambience

\* Appending a message says it and changes nothing else; only the first of a
\* rainy game is the narration.
LEMMA AppendSays ==
  ASSUME NEW s, IsState(s), NEW what,
         (what.kind = "narration") <=> (HeavyRain /\ s.nextId = 0)
  PROVE  LET t == AppendEvent(s, what)
         IN  IsState(t) /\ SameButHistory(s, t) /\ Says(s, t, what)
<1> DEFINE n == s.nextId
           e == [id |-> n + 1, what |-> what]
           all == Append(s.events, e)
           kept == Kept(s.events, e)
           t == AppendEvent(s, what)
<1>1. n \in Nat /\ IsHistory(s.events, n)
  BY DEF IsState
<1>2. t = [s EXCEPT !.events = kept, !.nextId = n + 1]
  BY LatestIsNext DEF AppendEvent, Kept
<1>3. /\ kept \in Seq(Range(kept))
      /\ e \in Range(kept) /\ Range(kept) \subseteq Range(s.events) \union {e}
      /\ \E d \in Nat : /\ DOMAIN kept = 1..(Len(s.events) + 1 - d) /\ d <= Len(s.events)
                        /\ \A i \in DOMAIN kept : kept[i] = all[i + d]
  <2>1. s.events \in Seq(Range(s.events))
    BY <1>1 DEF IsHistory
  <2>2. KeepsInOrder(s.events, e, kept)
    BY <2>1, KeptOfAHistory
  <2>3. QED
    BY <2>2 DEF KeepsInOrder
<1> HIDE DEF kept
<1>4. IsHistory(kept, n + 1)
  <2>1. ASSUME NEW f \in Range(kept)
        PROVE  f.id \in 1..(n + 1) /\ ((~ Told(f)) <=> (HeavyRain /\ f.id = 1))
    <3>1. CASE f \in Range(s.events)
      BY <1>1, <3>1 DEF IsHistory
    <3>2. CASE f = e
      <4>1. f.id = n + 1 /\ f.what = what
        BY <3>2
      <4>2. (n + 1 = 1) <=> (n = 0)
        BY <1>1
      <4>3. f.id \in 1..(n + 1)
        BY <1>1, <4>1
      <4>4. QED
        BY <4>1, <4>2, <4>3 DEF Told
    <3>3. QED
      BY <1>3, <3>1, <3>2
  <2>2. ASSUME NEW i \in DOMAIN kept, NEW j \in DOMAIN kept, i < j
        PROVE  kept[i].id < kept[j].id
    <3>1. PICK d \in Nat : /\ DOMAIN kept = 1..(Len(s.events) + 1 - d) /\ d <= Len(s.events)
                           /\ \A k \in DOMAIN kept : kept[k] = all[k + d]
      BY <1>3
    <3>2. /\ Len(s.events) \in Nat /\ DOMAIN s.events = 1..Len(s.events)
          /\ \A k \in 1..Len(s.events) : all[k] = s.events[k]
          /\ all[Len(s.events) + 1] = e
      <4>1. s.events \in Seq(Range(s.events))
        BY <1>1 DEF IsHistory
      <4>2. s.events \in Seq(Range(s.events) \union {e})
        BY <4>1, SeqMonotonic
      <4>3. QED
        BY <4>1, <4>2, AppendProperties, OfItsOwnValues
    <3>3. /\ i + d \in DOMAIN s.events /\ kept[i] = s.events[i + d]
          /\ j + d \in 1..(Len(s.events) + 1) /\ kept[j] = all[j + d] /\ i + d < j + d
      <4>1. i \in 1..(Len(s.events) + 1 - d) /\ j \in 1..(Len(s.events) + 1 - d)
        BY <2>2, <3>1
      <4>2. i + d \in 1..Len(s.events) /\ j + d \in 1..(Len(s.events) + 1) /\ i + d < j + d
        BY <2>2, <3>1, <3>2, <4>1
      <4>3. kept[i] = all[i + d] /\ kept[j] = all[j + d]
        BY <2>2, <3>1
      <4>4. QED
        BY <3>2, <4>2, <4>3
    <3>4. CASE j + d = Len(s.events) + 1
      <4>1. kept[j].id = n + 1
        BY <3>2, <3>3, <3>4
      <4>2. s.events[i + d].id \in 1..n
        BY <1>1, <3>3 DEF IsHistory, Range
      <4>3. QED
        BY <1>1, <3>3, <4>1, <4>2
    <3>5. CASE j + d \in DOMAIN s.events
      <4>1. kept[j] = s.events[j + d]
        BY <3>2, <3>3, <3>5
      <4>2. QED
        BY <1>1, <3>3, <3>5, <4>1 DEF IsHistory
    <3>6. QED
      BY <3>2, <3>3, <3>4, <3>5
  <2>3. QED
    BY <1>3, <2>1, <2>2 DEF IsHistory
<1>5. /\ t.events = kept /\ t.nextId = n + 1
      /\ t.turn = s.turn /\ t.spot = s.spot /\ t.discovered = s.discovered
      /\ t.event = s.event /\ t.ambience = s.ambience
      /\ t = [turn |-> s.turn, spot |-> s.spot, discovered |-> s.discovered,
              greeted |-> s.greeted, event |-> s.event, ambience |-> s.ambience,
              soundTurn |-> s.soundTurn, events |-> kept, nextId |-> n + 1]
      /\ t.greeted = s.greeted /\ t.soundTurn = s.soundTurn
  BY <1>2 DEF IsState
<1> HIDE DEF t
<1>6. IsState(t)
  BY <1>1, <1>4, <1>5 DEF IsState
<1>7. SameButHistory(s, t)
  BY <1>5 DEF SameButHistory
<1>8. Says(s, t, what)
  BY <1>3, <1>5 DEF Says
<1>9. QED
  BY <1>6, <1>7, <1>8 DEF t

\* One message said after s is all there is after s.
LEMMA SaidIsOne ==
  ASSUME NEW s, IsState(s), NEW t, NEW what, Says(s, t, what)
  PROVE  Said(s, t) = {what} /\ Grows(s, t)
<1> DEFINE new == [id |-> s.nextId + 1, what |-> what]
<1>1. s.nextId \in Nat /\ \A e \in Range(s.events) : e.id \in 1..s.nextId
  BY DEF IsState, IsHistory
<1>2. /\ t.nextId = s.nextId + 1 /\ new \in Range(t.events)
      /\ Range(t.events) \subseteq Range(s.events) \union {new}
  BY DEF Says
<1>3. \A e \in Range(t.events) : e \in Range(s.events) \/ e.id > s.nextId
  BY <1>1, <1>2
<1>4. \A e \in Range(t.events) : e.id > s.nextId <=> e = new
  <2>1. new.id > s.nextId
    BY <1>1
  <2>2. \A e \in Range(s.events) : ~(e.id > s.nextId)
    BY <1>1
  <2>3. QED
    BY <1>2, <2>1, <2>2
<1>5. {f \in Range(t.events) : f.id > s.nextId} = {new}
  BY <1>2, <1>4
<1>6. Said(s, t) = {what}
  <2>1. Said(s, t) = {f.what : f \in {new}}
    BY <1>5 DEF Said
  <2>2. new.what = what
    OBVIOUS
  <2>3. QED
    BY <2>1, <2>2
<1>7. QED
  BY <1>1, <1>2, <1>3, <1>6 DEF Grows

LEMMA SaidIsNone ==
  ASSUME NEW s, IsState(s), NEW t, SaysNothing(s, t)
  PROVE  Said(s, t) = {} /\ Grows(s, t)
<1>1. s.nextId \in Nat /\ \A e \in Range(s.events) : e.id \in 1..s.nextId
  BY DEF IsState, IsHistory
<1>2. {f \in Range(t.events) : f.id > s.nextId} = {}
  BY <1>1 DEF SaysNothing
<1>3. QED
  BY <1>1, <1>2 DEF SaysNothing, Said, Grows

\* A game that has begun says only messages that are shown.
Speaks(s, t, what) ==
  /\ IsState(t) /\ Begun(t) /\ SameButHistory(s, t)
  /\ t.nextId = s.nextId + 1 /\ Said(s, t) = {what} /\ Grows(s, t)

LEMMA SpeakingSays ==
  ASSUME NEW s, IsState(s), Begun(s), NEW what, what.kind # "narration"
  PROVE  Speaks(s, AppendEvent(s, what), what)
<1>1. s.nextId \in Nat
  BY DEF IsState
<1>2. (what.kind = "narration") <=> (HeavyRain /\ s.nextId = 0)
  BY <1>1 DEF Begun
<1>3. PICK t : t = AppendEvent(s, what)
  OBVIOUS
<1>4. IsState(t) /\ SameButHistory(s, t) /\ Says(s, t, what)
  BY <1>2, <1>3, AppendSays
<1>5. Said(s, t) = {what} /\ Grows(s, t) /\ t.nextId = s.nextId + 1
  BY <1>4, SaidIsOne DEF Says
<1>6. Begun(t)
  BY <1>1, <1>5 DEF Begun
<1>7. QED
  BY <1>3, <1>4, <1>5, <1>6 DEF Speaks

\* A state that differs from s outside its history.
Quiet(s, t) == IsState(t) /\ Begun(t) /\ SaysNothing(s, t)

LEMMA QuietIsQuiet ==
  ASSUME NEW s, IsState(s), NEW t, Quiet(s, t)
  PROVE  Said(s, t) = {} /\ Grows(s, t) /\ t.nextId = s.nextId
BY SaidIsNone DEF Quiet, SaysNothing

\* One thing after another.
LEMMA SaidInTurn ==
  ASSUME NEW s, IsState(s), NEW t, IsState(t), NEW u, IsState(u), Grows(s, t), Grows(t, u)
  PROVE  Grows(s, u) /\ Said(s, u) \subseteq Said(s, t) \union Said(t, u)
<1>1. /\ s.nextId \in Nat /\ \A e \in Range(s.events) : e.id \in 1..s.nextId
      /\ t.nextId \in Nat /\ \A e \in Range(t.events) : e.id \in 1..t.nextId
      /\ u.nextId \in Nat /\ \A e \in Range(u.events) : e.id \in 1..u.nextId
      /\ s.nextId <= t.nextId /\ t.nextId <= u.nextId
  BY DEF IsState, IsHistory, Grows
<1>2. ASSUME NEW e \in Range(u.events)
      PROVE  e \in Range(s.events) \/ e.id > s.nextId
  <2>1. CASE e \in Range(t.events)
    BY <1>1, <2>1 DEF Grows
  <2>2. CASE e \notin Range(t.events)
    <3>1. e.id > t.nextId
      BY <2>2 DEF Grows
    <3>2. QED
      BY <1>1, <3>1
  <2>3. QED
    BY <2>1, <2>2
<1>3. Grows(s, u)
  BY <1>1, <1>2 DEF Grows
<1>4. ASSUME NEW e \in Range(u.events), e.id > s.nextId
      PROVE  e.what \in Said(s, t) \union Said(t, u)
  <2>1. CASE e \in Range(t.events)
    BY <1>4, <2>1 DEF Said
  <2>2. CASE e \notin Range(t.events)
    <3>1. e.id > t.nextId
      BY <2>2 DEF Grows
    <3>2. QED
      BY <3>1 DEF Said
  <2>3. QED
    BY <2>1, <2>2
<1>5. Said(s, u) \subseteq Said(s, t) \union Said(t, u)
  BY <1>4 DEF Said
<1>6. QED
  BY <1>3, <1>5

-----------------------------------------------------------------------------
(* The handlers of a turn. *)

\* Everything but the history and the public event is the same.
SameButEvent(s, t) ==
  /\ t.turn = s.turn /\ t.spot = s.spot /\ t.discovered = s.discovered
  /\ t.ambience = s.ambience

LEMMA EventIsQuiet ==
  ASSUME NEW s, IsState(s), Begun(s), NEW phase, NEW e, NEW at
  PROVE  /\ Quiet(s, WithEvent(s, phase, e, at)) /\ SameButEvent(s, WithEvent(s, phase, e, at))
         /\ WithEvent(s, phase, e, at).event = [phase |-> phase, kind |-> e.kind, host |-> e.host, at |-> at]
<1> DEFINE new == [phase |-> phase, kind |-> e.kind, host |-> e.host, at |-> at]
           t == WithEvent(s, phase, e, at)
<1>1. /\ t = [turn |-> s.turn, spot |-> s.spot, discovered |-> s.discovered,
              greeted |-> s.greeted, event |-> new, ambience |-> s.ambience,
              soundTurn |-> s.soundTurn, events |-> s.events, nextId |-> s.nextId]
  BY DEF IsState, WithEvent
<1> HIDE DEF t
<1>2. /\ t.turn = s.turn /\ t.spot = s.spot /\ t.discovered = s.discovered
      /\ t.greeted = s.greeted /\ t.event = new /\ t.ambience = s.ambience
      /\ t.soundTurn = s.soundTurn /\ t.events = s.events /\ t.nextId = s.nextId
  BY <1>1
<1>3. new = [phase |-> new.phase, kind |-> new.kind, host |-> new.host, at |-> new.at]
  OBVIOUS
<1> HIDE DEF new
<1>4. IsState(t)
  BY <1>1, <1>2, <1>3 DEF IsState
<1>5. Begun(t) /\ SaysNothing(s, t) /\ SameButEvent(s, t)
  BY <1>2 DEF Begun, SaysNothing, SameButEvent
<1>6. QED
  BY <1>2, <1>4, <1>5 DEF Quiet, new, t

\* What becomes of the public event when it is scheduled anew.
IsScheduled(s, t) ==
  \/ NextEvents(s) = {} /\ t.event.phase = "cooldown"
       /\ t.event.kind = s.event.kind /\ t.event.host = s.event.host
  \/ \E e \in NextEvents(s) :
       t.event.phase = "scheduled" /\ t.event.kind = e.kind /\ t.event.host = e.host

LEMMA ScheduledNext ==
  ASSUME NEW s, IsState(s), Begun(s), NEW turn, NEW t \in ScheduleNextEvent(s, turn)
  PROVE  Quiet(s, t) /\ SameButEvent(s, t) /\ IsScheduled(s, t)
<1>1. CASE NextEvents(s) = {}
  <2>1. PICK d \in EventRetry : t = WithEvent(s, "cooldown", s.event, turn + d)
    BY <1>1 DEF ScheduleNextEvent
  <2>2. PICK at : at = turn + d
    OBVIOUS
  <2>3. t = WithEvent(s, "cooldown", s.event, at)
    BY <2>1, <2>2
  <2>4. /\ Quiet(s, t) /\ SameButEvent(s, t)
        /\ t.event = [phase |-> "cooldown", kind |-> s.event.kind, host |-> s.event.host, at |-> at]
    BY <2>3, EventIsQuiet
  <2>5. QED
    BY <1>1, <2>4 DEF IsScheduled
<1>2. CASE NextEvents(s) # {}
  <2>1. PICK e \in NextEvents(s), d \in EventLead : t = WithEvent(s, "scheduled", e, turn + d)
    BY <1>2 DEF ScheduleNextEvent
  <2>2. PICK at : at = turn + d
    OBVIOUS
  <2>3. t = WithEvent(s, "scheduled", e, at)
    BY <2>1, <2>2
  <2>4. /\ Quiet(s, t) /\ SameButEvent(s, t)
        /\ t.event = [phase |-> "scheduled", kind |-> e.kind, host |-> e.host, at |-> at]
    BY <2>3, EventIsQuiet
  <2>5. QED
    BY <2>4 DEF IsScheduled
<1>3. QED
  BY <1>1, <1>2

\* The outcomes of a turn for the public event.
IsWaiting(s, step) == step.call = Nothing /\ step.state = s

IsRescheduled(s, step) ==
  /\ step.call = Nothing /\ IsScheduled(s, step.state)
  /\ s.event.phase = "active" => ~ Hosted(s)

Opens(s, step) ==
  /\ s.event.phase = "scheduled" /\ Hosted(s) /\ step.state.event.phase = "active"
  /\ step.call = [kind |-> "opens", about |-> s.event.kind]
  /\ step.state.event.kind = s.event.kind /\ step.state.event.host = s.event.host

Closes(s, step) ==
  /\ s.event.phase = "active" /\ step.state.event.phase = "cooldown"
  /\ step.call = [kind |-> "closes", about |-> s.event.kind]
  /\ step.state.event.kind = s.event.kind /\ step.state.event.host = s.event.host

LEMMA EventStep ==
  ASSUME NEW s, IsState(s), Begun(s), NEW turn, NEW step \in AdvancePublicEvent(s, turn)
  PROVE  /\ Quiet(s, step.state) /\ SameButEvent(s, step.state)
         /\ IsWaiting(s, step) \/ IsRescheduled(s, step) \/ Opens(s, step) \/ Closes(s, step)
<1> DEFINE Quietly(states) == {[state |-> t, call |-> Nothing] : t \in states}
           Calling(call, phase, delays) ==
             {[state |-> WithEvent(s, phase, s.event, turn + d),
               call |-> [kind |-> call, about |-> s.event.kind]] : d \in delays}
<1>1. ASSUME step \in Quietly(ScheduleNextEvent(s, turn)),
             s.event.phase = "active" => ~ Hosted(s)
      PROVE  Quiet(s, step.state) /\ SameButEvent(s, step.state) /\ IsRescheduled(s, step)
  <2>1. PICK t \in ScheduleNextEvent(s, turn) : step = [state |-> t, call |-> Nothing]
    BY <1>1
  <2>2. step.state = t /\ step.call = Nothing
    BY <2>1
  <2>3. Quiet(s, t) /\ SameButEvent(s, t) /\ IsScheduled(s, t)
    BY ScheduledNext
  <2>4. QED
    BY <1>1, <2>2, <2>3 DEF IsRescheduled
<1>2. ASSUME step \in Quietly({s})
      PROVE  Quiet(s, step.state) /\ SameButEvent(s, step.state) /\ IsWaiting(s, step)
  <2>1. step = [state |-> s, call |-> Nothing]
    BY <1>2
  <2>2. step.state = s /\ step.call = Nothing
    BY <2>1
  <2>3. QED
    BY <2>2 DEF IsWaiting, Quiet, SaysNothing, SameButEvent
<1>3. ASSUME NEW call, NEW phase, NEW delays, step \in Calling(call, phase, delays)
      PROVE  /\ Quiet(s, step.state) /\ SameButEvent(s, step.state)
             /\ step.state.event.phase = phase
             /\ step.state.event.kind = s.event.kind /\ step.state.event.host = s.event.host
             /\ step.call = [kind |-> call, about |-> s.event.kind]
  <2>1. PICK d \in delays :
          step = [state |-> WithEvent(s, phase, s.event, turn + d),
                  call |-> [kind |-> call, about |-> s.event.kind]]
    BY <1>3
  <2>2. PICK at : at = turn + d
    OBVIOUS
  <2>3. PICK t : t = step.state
    OBVIOUS
  <2>4. t = WithEvent(s, phase, s.event, at)
        /\ step.call = [kind |-> call, about |-> s.event.kind]
    BY <2>1, <2>2, <2>3
  <2>5. /\ Quiet(s, t) /\ SameButEvent(s, t)
        /\ t.event = [phase |-> phase, kind |-> s.event.kind, host |-> s.event.host, at |-> at]
    BY <2>4, EventIsQuiet
  <2>6. t.event.phase = phase /\ t.event.kind = s.event.kind /\ t.event.host = s.event.host
    BY <2>5
  <2>7. QED
    BY <2>3, <2>4, <2>5, <2>6
<1> HIDE DEF Quietly, Calling
<1>4. CASE s.event.phase = "active" /\ ~ Hosted(s)
  <2>1. step \in Quietly(ScheduleNextEvent(s, turn))
    BY <1>4 DEF AdvancePublicEvent, Quietly
  <2>2. QED
    BY <1>1, <1>4, <2>1
<1>5. CASE ~ (s.event.phase = "active" /\ ~ Hosted(s)) /\ ~ EventIsDue(s, turn)
  <2>1. step \in Quietly({s})
    BY <1>5 DEF AdvancePublicEvent, Quietly
  <2>2. QED
    BY <1>2, <2>1
<1>6. CASE s.event.phase = "active" /\ Hosted(s) /\ EventIsDue(s, turn)
  <2>1. step \in Calling("closes", "cooldown", EventCooldown)
    BY <1>6 DEF AdvancePublicEvent, Calling
  <2>2. QED
    BY <1>3, <1>6, <2>1 DEF Closes
<1>7. CASE s.event.phase = "scheduled" /\ Hosted(s) /\ EventIsDue(s, turn)
  <2>1. step \in Calling("opens", "active", EventDuration)
    BY <1>7 DEF AdvancePublicEvent, Calling
  <2>2. QED
    BY <1>3, <1>7, <2>1 DEF Opens
<1>8. CASE s.event.phase # "active" /\ EventIsDue(s, turn) /\ ~ (s.event.phase = "scheduled" /\ Hosted(s))
  <2>1. step \in Quietly(ScheduleNextEvent(s, turn))
    BY <1>8 DEF AdvancePublicEvent, Quietly
  <2>2. QED
    BY <1>1, <1>8, <2>1
<1>9. QED
  BY <1>4, <1>5, <1>6, <1>7, <1>8

\* Assigning a field outside the history is quiet.
SameButTurn(s, t) ==
  /\ t.spot = s.spot /\ t.discovered = s.discovered
  /\ t.event = s.event /\ t.ambience = s.ambience

SameButPlaces(s, t) ==
  /\ t.turn = s.turn /\ t.spot = s.spot /\ t.event = s.event /\ t.ambience = s.ambience

LEMMA AmbienceIsQuiet ==
  ASSUME NEW s, IsState(s), Begun(s), NEW last \in Nat, NEW next \in Nat, NEW zone, NEW recalled
  PROVE  LET t == WithAmbience(s, last, next, zone, recalled)
         IN  /\ Quiet(s, t) /\ t.turn = s.turn /\ t.spot = s.spot /\ t.discovered = s.discovered
             /\ t.event = s.event
             /\ t.ambience.lastMessageTurn = last /\ t.ambience.nextTurn = next
<1>1. PICK new : new = [lastMessageTurn |-> last, nextTurn |-> next,
                        zone |-> zone, recalled |-> recalled]
  OBVIOUS
<1>2. PICK t : t = [s EXCEPT !.ambience = new]
  OBVIOUS
<1>3. t = [turn |-> s.turn, spot |-> s.spot, discovered |-> s.discovered,
           greeted |-> s.greeted, event |-> s.event, ambience |-> new,
           soundTurn |-> s.soundTurn, events |-> s.events, nextId |-> s.nextId]
  BY <1>2 DEF IsState
<1>4. /\ t.turn = s.turn /\ t.spot = s.spot /\ t.discovered = s.discovered /\ t.greeted = s.greeted
      /\ t.event = s.event /\ t.ambience = new /\ t.soundTurn = s.soundTurn
      /\ t.events = s.events /\ t.nextId = s.nextId
  BY <1>3
<1>5. /\ new = [lastMessageTurn |-> new.lastMessageTurn, nextTurn |-> new.nextTurn,
                zone |-> new.zone, recalled |-> new.recalled]
      /\ new.lastMessageTurn = last /\ new.nextTurn = next
  BY <1>1
<1>6. IsState(t)
  BY <1>3, <1>4, <1>5 DEF IsState
<1>7. Quiet(s, t)
  BY <1>4, <1>6 DEF Quiet, Begun, SaysNothing
<1>8. t = WithAmbience(s, last, next, zone, recalled)
  BY <1>1, <1>2 DEF WithAmbience
<1>9. QED
  BY <1>4, <1>5, <1>7, <1>8

LEMMA SoundIsQuiet ==
  ASSUME NEW s, IsState(s), Begun(s), NEW at
  PROVE  Quiet(s, WithSound(s, at)) /\ SameButHistory(s, WithSound(s, at))
<1>1. PICK t : t = WithSound(s, at)
  OBVIOUS
<1>2. t = [turn |-> s.turn, spot |-> s.spot, discovered |-> s.discovered,
           greeted |-> s.greeted, event |-> s.event, ambience |-> s.ambience,
           soundTurn |-> at, events |-> s.events, nextId |-> s.nextId]
  BY <1>1 DEF IsState, WithSound
<1>3. /\ t.turn = s.turn /\ t.spot = s.spot /\ t.discovered = s.discovered /\ t.greeted = s.greeted
      /\ t.event = s.event /\ t.ambience = s.ambience /\ t.soundTurn = at
      /\ t.events = s.events /\ t.nextId = s.nextId
  BY <1>2
<1>4. IsState(t)
  BY <1>2, <1>3 DEF IsState
<1>5. Quiet(s, t)
  BY <1>3, <1>4 DEF Quiet, Begun, SaysNothing
<1>6. QED
  BY <1>1, <1>3, <1>5 DEF SameButHistory, SameButTurn, SameButPlaces

LEMMA GreetedIsQuiet ==
  ASSUME NEW s, IsState(s), Begun(s), NEW greeted
  PROVE  /\ Quiet(s, [s EXCEPT !.greeted = greeted])
         /\ SameButHistory(s, [s EXCEPT !.greeted = greeted])
<1>1. PICK t : t = [s EXCEPT !.greeted = greeted]
  OBVIOUS
<1>2. t = [turn |-> s.turn, spot |-> s.spot, discovered |-> s.discovered,
           greeted |-> greeted, event |-> s.event, ambience |-> s.ambience,
           soundTurn |-> s.soundTurn, events |-> s.events, nextId |-> s.nextId]
  BY <1>1 DEF IsState
<1>3. /\ t.turn = s.turn /\ t.spot = s.spot /\ t.discovered = s.discovered /\ t.greeted = greeted
      /\ t.event = s.event /\ t.ambience = s.ambience /\ t.soundTurn = s.soundTurn
      /\ t.events = s.events /\ t.nextId = s.nextId
  BY <1>2
<1>4. IsState(t)
  BY <1>2, <1>3 DEF IsState
<1>5. Quiet(s, t)
  BY <1>3, <1>4 DEF Quiet, Begun, SaysNothing
<1>6. QED
  BY <1>1, <1>3, <1>5 DEF SameButHistory, SameButTurn, SameButPlaces

LEMMA PlacesAreQuiet ==
  ASSUME NEW s, IsState(s), Begun(s), NEW discovered
  PROVE  /\ Quiet(s, [s EXCEPT !.discovered = discovered])
         /\ SameButPlaces(s, [s EXCEPT !.discovered = discovered])
         /\ [s EXCEPT !.discovered = discovered].discovered = discovered
<1>1. PICK t : t = [s EXCEPT !.discovered = discovered]
  OBVIOUS
<1>2. t = [turn |-> s.turn, spot |-> s.spot, discovered |-> discovered,
           greeted |-> s.greeted, event |-> s.event, ambience |-> s.ambience,
           soundTurn |-> s.soundTurn, events |-> s.events, nextId |-> s.nextId]
  BY <1>1 DEF IsState
<1>3. /\ t.turn = s.turn /\ t.spot = s.spot /\ t.discovered = discovered /\ t.greeted = s.greeted
      /\ t.event = s.event /\ t.ambience = s.ambience /\ t.soundTurn = s.soundTurn
      /\ t.events = s.events /\ t.nextId = s.nextId
  BY <1>2
<1>4. IsState(t)
  BY <1>2, <1>3 DEF IsState
<1>5. Quiet(s, t)
  BY <1>3, <1>4 DEF Quiet, Begun, SaysNothing
<1>6. QED
  BY <1>1, <1>3, <1>5 DEF SameButHistory, SameButTurn, SameButPlaces

LEMMA TurnIsQuiet ==
  ASSUME NEW s, IsState(s), Begun(s), NEW turn \in Nat
  PROVE  /\ Quiet(s, [s EXCEPT !.turn = turn])
         /\ SameButTurn(s, [s EXCEPT !.turn = turn])
         /\ [s EXCEPT !.turn = turn].turn = turn
<1>1. PICK t : t = [s EXCEPT !.turn = turn]
  OBVIOUS
<1>2. t = [turn |-> turn, spot |-> s.spot, discovered |-> s.discovered,
           greeted |-> s.greeted, event |-> s.event, ambience |-> s.ambience,
           soundTurn |-> s.soundTurn, events |-> s.events, nextId |-> s.nextId]
  BY <1>1 DEF IsState
<1>3. /\ t.turn = turn /\ t.spot = s.spot /\ t.discovered = s.discovered /\ t.greeted = s.greeted
      /\ t.event = s.event /\ t.ambience = s.ambience /\ t.soundTurn = s.soundTurn
      /\ t.events = s.events /\ t.nextId = s.nextId
  BY <1>2
<1>4. IsState(t)
  BY <1>2, <1>3 DEF IsState
<1>5. Quiet(s, t)
  BY <1>3, <1>4 DEF Quiet, Begun, SaysNothing
<1>6. QED
  BY <1>1, <1>3, <1>5 DEF SameButHistory, SameButTurn, SameButPlaces

LEMMA WalkIsQuiet ==
  ASSUME NEW s, IsState(s), Begun(s), NEW spot \in Spots
  PROVE  /\ Quiet(s, [s EXCEPT !.spot = spot])
         /\ [s EXCEPT !.spot = spot].turn = s.turn
         /\ [s EXCEPT !.spot = spot].spot = spot
         /\ [s EXCEPT !.spot = spot].discovered = s.discovered
         /\ [s EXCEPT !.spot = spot].event = s.event
         /\ [s EXCEPT !.spot = spot].ambience = s.ambience
<1>1. PICK t : t = [s EXCEPT !.spot = spot]
  OBVIOUS
<1>2. t = [turn |-> s.turn, spot |-> spot, discovered |-> s.discovered,
           greeted |-> s.greeted, event |-> s.event, ambience |-> s.ambience,
           soundTurn |-> s.soundTurn, events |-> s.events, nextId |-> s.nextId]
  BY <1>1 DEF IsState
<1>3. /\ t.turn = s.turn /\ t.spot = spot /\ t.discovered = s.discovered /\ t.greeted = s.greeted
      /\ t.event = s.event /\ t.ambience = s.ambience /\ t.soundTurn = s.soundTurn
      /\ t.events = s.events /\ t.nextId = s.nextId
  BY <1>2
<1>4. IsState(t)
  BY <1>2, <1>3 DEF IsState
<1>5. Quiet(s, t)
  BY <1>3, <1>4 DEF Quiet, Begun, SaysNothing
<1>6. QED
  BY <1>1, <1>3, <1>5 DEF SameButHistory, SameButTurn, SameButPlaces

LEMMA Parts ==
  ASSUME NEW s, IsState(s)
  PROVE  /\ s.turn \in Nat /\ s.spot \in Spots /\ s.ambience.lastMessageTurn \in Nat
         /\ s.ambience.nextTurn \in Nat /\ s.nextId \in Nat
BY DEF IsState

\* A quiet change, then a message.
LEMMA QuietThenSpeaks ==
  ASSUME NEW s, IsState(s), NEW u, Quiet(s, u), NEW what, what.kind # "narration"
  PROVE  LET t == AppendEvent(u, what)
         IN  /\ IsState(t) /\ Begun(t) /\ SameButHistory(u, t)
             /\ t.nextId = s.nextId + 1 /\ Said(s, t) = {what} /\ Grows(s, t)
<1>1. PICK t : t = AppendEvent(u, what)
  OBVIOUS
<1>2. IsState(u) /\ Begun(u) /\ u.nextId = s.nextId /\ u.events = s.events
  BY DEF Quiet, SaysNothing
<1>3. Speaks(u, t, what)
  BY <1>1, <1>2, SpeakingSays
<1>4. Said(s, t) = {what} /\ Grows(s, t)
  BY <1>2, <1>3 DEF Speaks, Said, Grows
<1>5. QED
  BY <1>1, <1>2, <1>3, <1>4 DEF Speaks

LEMMA QuietTwice ==
  ASSUME NEW s, NEW t, NEW u, Quiet(s, t), Quiet(t, u)
  PROVE  Quiet(s, u)
BY DEF Quiet, SaysNothing

-----------------------------------------------------------------------------
(* Discoveries. *)

LEMMA PlacesInOrder ==
  /\ Len(Placements) \in Nat /\ DOMAIN Placements = 1..Len(Placements)
  /\ Range(Placements) = Range(Landmarks) \union Range(Camps)
<1>1. Landmarks \in Seq(STRING) /\ Camps \in Seq(STRING)
  BY AtmosphereAssumption
<1>2. Placements \in Seq(STRING)
  BY <1>1, ConcatProperties DEF Placements
<1>3. Range(Placements) = Range(Landmarks) \union Range(Camps)
  BY <1>1, RangeConcatenation DEF Placements
<1>4. QED
  BY <1>2, <1>3, LenProperties

\* What a turn discovers is a place, and was not discovered before.
LEMMA DiscoveryIsNew ==
  ASSUME NEW s, IsState(s), DiscoveryCandidates(s) # {}
  PROVE  Discovery(s) \in Range(Placements) \ s.discovered
<1> DEFINE D == DiscoveryCandidates(s)
           away == [i \in DOMAIN Placements |-> Distance[s.spot][Placements[i]]]
           A == {away[i] : i \in D}
           Foremost(i) == \A j \in D : away[i] < away[j] \/ (away[i] = away[j] /\ i <= j)
<1>1. D \subseteq DOMAIN Placements /\ D \in SUBSET Nat
      /\ \A i \in D : Placements[i] \notin s.discovered
  BY PlacesInOrder DEF DiscoveryCandidates
<1>2. \A i \in DOMAIN Placements : away[i] \in Nat
  <2>1. s.spot \in Spots
    BY DEF IsState
  <2>2. ASSUME NEW i \in DOMAIN Placements
        PROVE  away[i] \in Nat
    <3>1. Placements[i] \in Range(Landmarks) \union Range(Camps)
      BY PlacesInOrder DEF Range
    <3>2. Distance[s.spot][Placements[i]] \in Nat
      BY <2>1, <3>1, AtmosphereAssumption
    <3>3. QED
      BY <3>2
  <2>3. QED
    BY <2>2
<1> HIDE DEF away, D
<1>3. A \in SUBSET Nat /\ A # {}
  BY <1>1, <1>2 DEF D
<1>4. PICK a \in A : \A b \in A : a <= b
  BY <1>3, LeastOfNaturals
<1>5. {i \in D : away[i] = a} \in SUBSET Nat /\ {i \in D : away[i] = a} # {}
  BY <1>1, <1>4
<1>6. PICK i \in {j \in D : away[j] = a} : \A j \in {k \in D : away[k] = a} : i <= j
  BY <1>5, LeastOfNaturals
<1>7. i \in D /\ Foremost(i)
  <2>1. ASSUME NEW j \in D
        PROVE  away[i] < away[j] \/ (away[i] = away[j] /\ i <= j)
    <3>1. away[j] \in A /\ away[i] = a /\ a <= away[j] /\ a \in Nat /\ away[j] \in Nat
      BY <1>1, <1>2, <1>3, <1>4, <1>6
    <3>2. CASE away[j] = a
      BY <1>6, <3>1, <3>2
    <3>3. CASE away[j] # a
      BY <3>1, <3>3
    <3>4. QED
      BY <3>2, <3>3
  <2>2. QED
    BY <1>6, <2>1
<1> DEFINE first == CHOOSE j \in D : Foremost(j)
<1>8. first \in D
  BY <1>7
<1>9. Discovery(s) = Placements[first]
  <2>1. ASSUME NEW k \in D, NEW j \in D
        PROVE  /\ away[k] = Distance[s.spot][Placements[k]]
               /\ away[j] = Distance[s.spot][Placements[j]]
    BY <1>1 DEF away
  <2>2. ASSUME NEW k \in D
        PROVE  Foremost(k) <=> \A j \in D :
                 \/ Distance[s.spot][Placements[k]] < Distance[s.spot][Placements[j]]
                 \/ Distance[s.spot][Placements[k]] = Distance[s.spot][Placements[j]] /\ k <= j
    BY <2>1
  <2>3. QED
    BY <2>2 DEF Discovery, D
<1>10. QED
  BY <1>1, <1>8, <1>9 DEF Range

-----------------------------------------------------------------------------
(* A turn. *)

\* Where a turn may leave a state: the same place, with later messages.
Follows(s, t) ==
  /\ IsState(t) /\ Begun(t) /\ Grows(s, t)
  /\ t.turn = s.turn /\ t.spot = s.spot

\* What is due in a turn: an announcement, a discovery, a line.
CallIsDue(s, turn) ==
  s.event.phase \in {"scheduled", "active"} /\ EventIsDue(s, turn) /\ Hosted(s)

LineIsDue(s, turn) == s.ambience.nextTurn # Never /\ turn >= s.ambience.nextTurn

Due(s, turn) ==
  CallIsDue(s, turn) \/ DiscoveryCandidates(s) # {} \/ LineIsDue(s, turn)

LEMMA AmbientTurn ==
  ASSUME NEW s, IsState(s), Begun(s), NEW turn \in Nat, NEW t \in AdvanceAmbient(s, turn)
  PROVE  /\ Follows(s, t) /\ t.discovered = s.discovered /\ t.event = s.event
         /\ t.nextId <= s.nextId + 1 /\ \A w \in Said(s, t) : w.kind = "ambience"
         /\ LineIsDue(s, turn) => Said(s, t) # {}
         /\ s.ambience.lastMessageTurn <= turn => t.ambience.lastMessageTurn <= turn
<1> DEFINE before == s.ambience
<1>0. /\ before.lastMessageTurn \in Nat /\ before.nextTurn \in Nat
      /\ \A d \in AmbientDelay : turn + d \in Nat
  BY Parts, AtmosphereAssumption
<1>1. CASE before.nextTurn = Never
  <2>1. PICK d \in AmbientDelay :
          t = WithAmbience(s, before.lastMessageTurn, turn + d, before.zone, before.recalled)
    BY <1>1 DEF AdvanceAmbient
  <2>2. PICK next \in Nat : next = turn + d
    BY <1>0
  <2>3. t = WithAmbience(s, before.lastMessageTurn, next, before.zone, before.recalled)
    BY <2>1, <2>2
  <2>4. /\ Quiet(s, t) /\ t.turn = s.turn /\ t.spot = s.spot /\ t.discovered = s.discovered
        /\ t.event = s.event /\ t.ambience.lastMessageTurn = before.lastMessageTurn
    BY <1>0, <2>3, AmbienceIsQuiet
  <2>5. Said(s, t) = {} /\ Grows(s, t) /\ t.nextId = s.nextId /\ s.nextId \in Nat
    BY <2>4, QuietIsQuiet, Parts
  <2>6. QED
    BY <1>1, <2>4, <2>5 DEF Follows, Quiet, LineIsDue
<1>2. CASE before.nextTurn # Never /\ turn < before.nextTurn
  <2>1. t = s
    BY <1>2 DEF AdvanceAmbient
  <2>2. Quiet(s, t)
    BY <2>1 DEF Quiet, SaysNothing
  <2>3. Said(s, t) = {} /\ Grows(s, t) /\ t.nextId = s.nextId /\ s.nextId \in Nat
    BY <2>2, QuietIsQuiet, Parts
  <2>4. ~ LineIsDue(s, turn)
    BY <1>0, <1>2 DEF LineIsDue
  <2>5. QED
    BY <2>1, <2>3, <2>4 DEF Follows
<1>3. CASE before.nextTurn # Never /\ ~ (turn < before.nextTurn)
  <2> DEFINE zone == Zone(s)
             What(h) == [kind |-> "ambience", zone |-> zone, line |-> AmbientLine(s, zone, h)]
  <2>1. PICK d \in AmbientDelay, h \in Draws(LinesOf(zone)) :
          t = AppendEvent(WithAmbience(s, turn, turn + d, zone, h % LinesOf(zone)), What(h))
    BY <1>3 DEF AdvanceAmbient
  <2>2. PICK next \in Nat : next = turn + d
    BY <1>0
  <2>3. PICK recalled : recalled = h % LinesOf(zone)
    OBVIOUS
  <2>4. PICK z : z = zone
    OBVIOUS
  <2>5. PICK u : u = WithAmbience(s, turn, next, z, recalled)
    OBVIOUS
  <2>6. PICK what : what = What(h)
    OBVIOUS
  <2>7. t = AppendEvent(u, what) /\ what.kind = "ambience"
    BY <2>1, <2>2, <2>3, <2>4, <2>5, <2>6
  <2>8. /\ Quiet(s, u) /\ u.turn = s.turn /\ u.spot = s.spot /\ u.discovered = s.discovered
        /\ u.event = s.event /\ u.ambience.lastMessageTurn = turn
    BY <2>5, AmbienceIsQuiet
  <2>9. /\ IsState(t) /\ Begun(t) /\ SameButHistory(u, t)
        /\ t.nextId = s.nextId + 1 /\ Said(s, t) = {what} /\ Grows(s, t)
    BY <2>7, <2>8, QuietThenSpeaks
  <2>10. QED
    BY <2>7, <2>8, <2>9, Parts DEF Follows, SameButHistory
<1>4. QED
  BY <1>1, <1>2, <1>3

\* What a turn says of the places, and what it does to them.
TellsPlaces(s, t) ==
  \/ /\ t.discovered = s.discovered
     /\ \A w \in Said(s, t) : w.kind # "discovers"
  \/ \E q \in Range(Placements) \ s.discovered :
       /\ t.discovered = s.discovered \union {q}
       /\ Said(s, t) = {[kind |-> "discovers", about |-> q]}

IsCall(w) == w.kind \in {"opens", "closes"}

\* What a turn says of the programme, and what it does to it.
TellsProgramme(s, t) ==
  \/ t.event = s.event /\ \A w \in Said(s, t) : ~ IsCall(w)
  \/ \E step :
       /\ IsRescheduled(s, step) \/ Opens(s, step) \/ Closes(s, step)
       /\ t.event = step.state.event
       /\ IF step.call = Nothing THEN \A w \in Said(s, t) : ~ IsCall(w)
          ELSE Said(s, t) = {step.call}

LEMMA CallsAreCalls ==
  ASSUME NEW s, NEW step, Opens(s, step) \/ Closes(s, step)
  PROVE  step.call # Nothing /\ IsCall(step.call) /\ step.call.kind \notin {"narration", "discovers"}
<1>1. step.call.kind \in {"opens", "closes"}
  BY DEF Opens, Closes
<1>2. Nothing.kind = "nothing"
  BY DEF Nothing
<1>3. QED
  BY <1>1, <1>2 DEF IsCall

\* An announcement that is due is made.
LEMMA DueIsCalled ==
  ASSUME NEW s, NEW turn, NEW step \in AdvancePublicEvent(s, turn), CallIsDue(s, turn)
  PROVE  step.call # Nothing
<1> DEFINE Calling(call, phase, delays) ==
             {[state |-> WithEvent(s, phase, s.event, turn + d),
               call |-> [kind |-> call, about |-> s.event.kind]] : d \in delays}
<1>1. ASSUME NEW call, NEW phase, NEW delays, step \in Calling(call, phase, delays)
      PROVE  step.call.kind = call
  BY <1>1
<1>2. Nothing.kind = "nothing"
  BY DEF Nothing
<1>3. CASE s.event.phase = "active"
  <2>1. step \in Calling("closes", "cooldown", EventCooldown)
    BY <1>3 DEF AdvancePublicEvent, CallIsDue
  <2> HIDE DEF Calling
  <2>2. step.call.kind = "closes"
    BY <1>1, <2>1
  <2>3. QED
    BY <1>2, <2>2
<1>4. CASE s.event.phase = "scheduled"
  <2>1. step \in Calling("opens", "active", EventDuration)
    BY <1>4 DEF AdvancePublicEvent, CallIsDue
  <2> HIDE DEF Calling
  <2>2. step.call.kind = "opens"
    BY <1>1, <2>1
  <2>3. QED
    BY <1>2, <2>2
<1>5. QED
  BY <1>3, <1>4 DEF CallIsDue

\* On the campground a turn says one thing at most, and something when
\* something is due and the turn is not occupied.
LEMMA CampgroundTurn ==
  ASSUME NEW s, IsState(s), Begun(s), NEW turn \in Nat, NEW t \in AdvanceCampground(s, turn)
  PROVE  /\ Follows(s, t) /\ TellsPlaces(s, t) /\ TellsProgramme(s, t)
         /\ t.nextId <= s.nextId + 1
         /\ s.ambience.lastMessageTurn >= turn => t = s
         /\ s.ambience.lastMessageTurn < turn /\ Due(s, turn) => Said(s, t) # {}
         /\ s.ambience.lastMessageTurn <= turn => t.ambience.lastMessageTurn <= turn
         /\ \A w \in Said(s, t) : w.kind # "talk"
<1>0. s.ambience.lastMessageTurn \in Nat
  BY Parts
<1>1. CASE s.ambience.lastMessageTurn >= turn
  <2>1. t = s
    BY <1>1 DEF AdvanceCampground
  <2>2. Quiet(s, t)
    BY <2>1 DEF Quiet, SaysNothing
  <2>3. Said(s, t) = {} /\ Grows(s, t) /\ s.nextId \in Nat
    BY <2>2, QuietIsQuiet, Parts
  <2>4. QED
    BY <1>0, <1>1, <2>1, <2>3 DEF Follows, TellsPlaces, TellsProgramme
<1>2. CASE ~ (s.ambience.lastMessageTurn >= turn)
  <2> DEFINE Sayings(step) ==
               IF step.call # Nothing THEN {AppendEvent(step.state, step.call)}
               ELSE IF DiscoveryCandidates(step.state) # {}
               THEN {Discover(step.state, Discovery(step.state))}
               ELSE AdvanceAmbient(step.state, turn)
  <2>1. AdvanceCampground(s, turn) = UNION {Sayings(step) : step \in AdvancePublicEvent(s, turn)}
    BY <1>2 DEF AdvanceCampground
  <2> HIDE DEF Sayings
  <2>2. PICK step \in AdvancePublicEvent(s, turn) : t \in Sayings(step)
    BY <2>1
  <2>3. PICK u : u = step.state
    OBVIOUS
  <2>4. /\ Quiet(s, u) /\ SameButEvent(s, u)
        /\ IsWaiting(s, step) \/ IsRescheduled(s, step) \/ Opens(s, step) \/ Closes(s, step)
    BY <2>3, EventStep
  <2>5. IsState(u) /\ Begun(u) /\ u.nextId = s.nextId /\ u.events = s.events
        /\ s.nextId \in Nat
    BY <2>4, Parts DEF Quiet, SaysNothing
  <2>6. CASE step.call # Nothing
    <3>1. Opens(s, step) \/ Closes(s, step)
      BY <2>4, <2>6 DEF IsWaiting, IsRescheduled
    <3>2. IsCall(step.call) /\ step.call.kind \notin {"narration", "discovers"}
      BY <3>1, CallsAreCalls
    <3>3. PICK what : what = step.call
      OBVIOUS
    <3>4. t = AppendEvent(u, what)
      BY <2>2, <2>3, <2>6, <3>3 DEF Sayings
    <3>5. /\ IsState(t) /\ Begun(t) /\ SameButHistory(u, t)
          /\ t.nextId = s.nextId + 1 /\ Said(s, t) = {what} /\ Grows(s, t)
      BY <2>4, <3>2, <3>3, <3>4, QuietThenSpeaks
    <3>6. TellsProgramme(s, t)
      BY <2>3, <2>6, <3>1, <3>3, <3>5 DEF TellsProgramme, SameButHistory
    <3>7. TellsPlaces(s, t)
      BY <2>4, <3>2, <3>3, <3>5 DEF TellsPlaces, SameButHistory, SameButEvent
    <3>8. t.ambience = s.ambience /\ \A w \in Said(s, t) : w.kind # "talk"
      BY <2>4, <3>2, <3>3, <3>5 DEF SameButHistory, SameButEvent, IsCall
    <3>9. QED
      BY <1>2, <2>4, <2>5, <3>5, <3>6, <3>7, <3>8 DEF Follows, SameButHistory, SameButEvent
  <2>a. /\ Said(s, t) = Said(u, t) /\ (Grows(u, t) => Grows(s, t))
        /\ u.ambience = s.ambience /\ DiscoveryCandidates(u) = DiscoveryCandidates(s)
    BY <2>4, <2>5 DEF Said, Grows, SameButEvent, DiscoveryCandidates
  <2>7. ASSUME step.call = Nothing, Follows(u, t), TellsPlaces(u, t), t.event = u.event,
               t.nextId <= s.nextId + 1, \A w \in Said(u, t) : ~ IsCall(w)
        PROVE  Follows(s, t) /\ TellsPlaces(s, t) /\ TellsProgramme(s, t)
    <3>1. Said(s, t) = Said(u, t) /\ (Grows(u, t) => Grows(s, t))
      BY <2>a
    <3>2. Follows(s, t)
      BY <2>4, <2>7, <3>1 DEF Follows, SameButEvent
    <3>3. u.discovered = s.discovered
      BY <2>4 DEF SameButEvent
    <3>4. TellsPlaces(s, t)
      BY <2>7, <3>1, <3>3 DEF TellsPlaces
    <3>5. CASE IsWaiting(s, step)
      BY <2>3, <2>7, <3>1, <3>2, <3>4, <3>5 DEF TellsProgramme, IsWaiting
    <3>6. CASE IsRescheduled(s, step) \/ Opens(s, step) \/ Closes(s, step)
      <4>1. t.event = step.state.event /\ \A w \in Said(s, t) : ~ IsCall(w)
        BY <2>3, <2>7, <3>1
      <4>2. TellsProgramme(s, t)
        BY <2>7, <3>6, <4>1 DEF TellsProgramme
      <4>3. QED
        BY <3>2, <3>4, <4>2
    <3>7. QED
      BY <2>4, <3>2, <3>4, <3>5, <3>6
  <2>8. CASE step.call = Nothing /\ DiscoveryCandidates(u) # {}
    <3>1. PICK q : q = Discovery(u)
      OBVIOUS
    <3>2. q \in Range(Placements) \ u.discovered
      BY <2>5, <2>8, <3>1, DiscoveryIsNew
    <3>3. t = Discover(u, q)
      BY <2>2, <2>3, <2>8, <3>1 DEF Sayings
    <3>4. PICK found : found = u.discovered \union {q}
      OBVIOUS
    <3>5. PICK v : v = [u EXCEPT !.discovered = found]
      OBVIOUS
    <3>6. PICK what : what = [kind |-> "discovers", about |-> q]
      OBVIOUS
    <3>7. t = AppendEvent(v, what)
      BY <3>3, <3>4, <3>5, <3>6 DEF Discover
    <3>8. Quiet(u, v) /\ SameButPlaces(u, v) /\ v.discovered = found
      BY <2>5, <3>5, PlacesAreQuiet
    <3>9. what.kind # "narration" /\ ~ IsCall(what)
      BY <3>6 DEF IsCall
    <3>10. /\ IsState(t) /\ Begun(t) /\ SameButHistory(v, t)
           /\ t.nextId = u.nextId + 1 /\ Said(u, t) = {what} /\ Grows(u, t)
      BY <2>5, <3>7, <3>8, <3>9, QuietThenSpeaks
    <3>11. Follows(u, t) /\ t.event = u.event /\ t.discovered = found
      BY <3>8, <3>10 DEF Follows, SameButHistory, SameButPlaces
    <3>12. TellsPlaces(u, t)
      BY <3>2, <3>4, <3>6, <3>10, <3>11 DEF TellsPlaces
    <3>13. t.nextId <= s.nextId + 1 /\ \A w \in Said(u, t) : ~ IsCall(w)
      BY <2>5, <3>9, <3>10
    <3>14. /\ t.ambience = s.ambience /\ Said(s, t) # {}
           /\ \A w \in Said(s, t) : w.kind # "talk"
      BY <2>a, <3>6, <3>8, <3>10 DEF SameButHistory, SameButPlaces
    <3>15. QED
      BY <1>2, <2>7, <2>8, <3>11, <3>12, <3>13, <3>14
  <2>9. CASE step.call = Nothing /\ DiscoveryCandidates(u) = {}
    <3>1. t \in AdvanceAmbient(u, turn)
      BY <2>2, <2>3, <2>9 DEF Sayings
    <3>2. /\ Follows(u, t) /\ t.discovered = u.discovered /\ t.event = u.event
          /\ t.nextId <= u.nextId + 1 /\ \A w \in Said(u, t) : w.kind = "ambience"
          /\ LineIsDue(u, turn) => Said(u, t) # {}
          /\ u.ambience.lastMessageTurn <= turn => t.ambience.lastMessageTurn <= turn
      BY <2>5, <3>1, AmbientTurn
    <3>3. TellsPlaces(u, t) /\ \A w \in Said(u, t) : ~ IsCall(w)
      BY <3>2 DEF TellsPlaces, IsCall
    <3>4. Due(s, turn) => Said(s, t) # {}
      BY <2>9, <2>a, <3>2, DueIsCalled DEF Due, LineIsDue
    <3>5. QED
      BY <1>2, <2>5, <2>7, <2>9, <2>a, <3>2, <3>3, <3>4
  <2>10. QED
    BY <2>6, <2>8, <2>9
<1>3. QED
  BY <1>1, <1>2

\* On the first dungeon level it greets or makes a sound.
LEMMA DungeonTurn ==
  ASSUME NEW s, IsState(s), Begun(s), NEW turn, NEW t \in AdvanceFirstDungeon(s, turn)
  PROVE  /\ Follows(s, t) /\ t.discovered = s.discovered /\ t.event = s.event
         /\ t.ambience = s.ambience /\ \A w \in Said(s, t) : w.kind \in {"greets", "sound"}
<1>1. ASSUME NEW u, Quiet(s, u), SameButHistory(s, u), NEW what, what.kind \in {"greets", "sound"},
             t = AppendEvent(u, what)
      PROVE  /\ Follows(s, t) /\ t.discovered = s.discovered /\ t.event = s.event
             /\ t.ambience = s.ambience /\ \A w \in Said(s, t) : w.kind \in {"greets", "sound"}
  <2>1. /\ IsState(t) /\ Begun(t) /\ SameButHistory(u, t)
        /\ t.nextId = s.nextId + 1 /\ Said(s, t) = {what} /\ Grows(s, t)
    BY <1>1, QuietThenSpeaks
  <2>2. QED
    BY <1>1, <2>1 DEF Follows, SameButHistory
<1>2. ASSUME Quiet(s, t), SameButHistory(s, t)
      PROVE  /\ Follows(s, t) /\ t.discovered = s.discovered /\ t.event = s.event
             /\ t.ambience = s.ambience /\ \A w \in Said(s, t) : w.kind \in {"greets", "sound"}
  <2>1. Said(s, t) = {} /\ Grows(s, t)
    BY <1>2, QuietIsQuiet
  <2>2. QED
    BY <1>2, <2>1 DEF Follows, Quiet, SameButHistory
<1>3. ASSUME NEW h, t = Greet(s, turn, h)
      PROVE  /\ Follows(s, t) /\ t.discovered = s.discovered /\ t.event = s.event
             /\ t.ambience = s.ambience /\ \A w \in Said(s, t) : w.kind \in {"greets", "sound"}
  <2>1. PICK at : at = Max({s.soundTurn, turn + GreetingPause})
    OBVIOUS
  <2>2. PICK v : v = WithSound(s, at)
    OBVIOUS
  <2>3. PICK greeted : greeted = v.greeted \union {h}
    OBVIOUS
  <2>4. PICK u : u = [v EXCEPT !.greeted = greeted]
    OBVIOUS
  <2>5. PICK what : what = [kind |-> "greets", about |-> h]
    OBVIOUS
  <2>6. t = AppendEvent(u, what)
    BY <1>3, <2>1, <2>2, <2>3, <2>4, <2>5 DEF Greet
  <2>7. Quiet(s, v) /\ SameButHistory(s, v) /\ IsState(v) /\ Begun(v)
    BY <2>2, SoundIsQuiet DEF Quiet
  <2>8. Quiet(v, u) /\ SameButHistory(v, u)
    BY <2>4, <2>7, GreetedIsQuiet
  <2>9. Quiet(s, u) /\ SameButHistory(s, u)
    BY <2>7, <2>8, QuietTwice DEF SameButHistory
  <2>10. what.kind \in {"greets", "sound"}
    BY <2>5
  <2>11. QED
    BY <1>1, <2>6, <2>9, <2>10
<1>4. CASE \E h \in Hippies \ s.greeted : t = Greet(s, turn, h)
  BY <1>3, <1>4
<1>5. CASE ~ \E h \in Hippies \ s.greeted : t = Greet(s, turn, h)
  <2>1. CASE s.soundTurn = Never
    <3>1. PICK d \in FirstSoundDelay : t = WithSound(s, turn + d)
      BY <1>5, <2>1 DEF AdvanceFirstDungeon
    <3>2. QED
      BY <1>2, <3>1, SoundIsQuiet
  <2>2. CASE s.soundTurn # Never /\ turn < s.soundTurn
    <3>1. t = s
      BY <1>5, <2>2 DEF AdvanceFirstDungeon
    <3>2. QED
      BY <1>2, <3>1 DEF Quiet, SaysNothing, SameButHistory
  <2>3. CASE s.soundTurn # Never /\ ~ (turn < s.soundTurn)
    <3>1. PICK d \in SoundDelay : t = AppendEvent(WithSound(s, turn + d), [kind |-> "sound"])
      BY <1>5, <2>3 DEF AdvanceFirstDungeon
    <3>2. PICK u : u = WithSound(s, turn + d)
      OBVIOUS
    <3>3. PICK what : what = [kind |-> "sound"]
      OBVIOUS
    <3>4. Quiet(s, u) /\ SameButHistory(s, u)
      BY <3>2, SoundIsQuiet
    <3>5. what.kind \in {"greets", "sound"} /\ t = AppendEvent(u, what)
      BY <3>1, <3>2, <3>3
    <3>6. QED
      BY <1>1, <3>4, <3>5
  <2>4. QED
    BY <2>1, <2>2, <2>3
<1>6. QED
  BY <1>4, <1>5

\* What a turn does to the programme depends on the programme and the places.
LEMMA SameProgramme ==
  ASSUME NEW s, NEW v, v.event = s.event, v.discovered = s.discovered,
         NEW t, Said(s, t) = Said(v, t), TellsProgramme(v, t)
  PROVE  TellsProgramme(s, t)
<1>1. NextEvents(v) = NextEvents(s) /\ Hosted(v) = Hosted(s)
  BY DEF NextEvents, Hosted, Eligible
<1>2. ASSUME NEW step
      PROVE  /\ IsRescheduled(v, step) => IsRescheduled(s, step)
             /\ Opens(v, step) => Opens(s, step)
             /\ Closes(v, step) => Closes(s, step)
  BY <1>1 DEF IsRescheduled, IsScheduled, Opens, Closes
<1>3. CASE t.event = v.event /\ \A w \in Said(v, t) : ~ IsCall(w)
  BY <1>3 DEF TellsProgramme
<1>4. CASE \E step :
             /\ IsRescheduled(v, step) \/ Opens(v, step) \/ Closes(v, step)
             /\ t.event = step.state.event
             /\ IF step.call = Nothing THEN \A w \in Said(v, t) : ~ IsCall(w)
                ELSE Said(v, t) = {step.call}
  <2>1. PICK step :
          /\ IsRescheduled(v, step) \/ Opens(v, step) \/ Closes(v, step)
          /\ t.event = step.state.event
          /\ IF step.call = Nothing THEN \A w \in Said(v, t) : ~ IsCall(w)
             ELSE Said(v, t) = {step.call}
    BY <1>4
  <2>2. IsRescheduled(s, step) \/ Opens(s, step) \/ Closes(s, step)
    BY <1>2, <2>1
  <2>3. IF step.call = Nothing THEN \A w \in Said(s, t) : ~ IsCall(w)
        ELSE Said(s, t) = {step.call}
    BY <2>1
  <2>4. QED
    BY <2>1, <2>2, <2>3 DEF TellsProgramme
<1>5. QED
  BY <1>3, <1>4 DEF TellsProgramme

\* Whatever the level.  On the campground at most one message more, none when
\* the turn is occupied, and one when it is not and something is due.
LEMMA WorldTurn ==
  ASSUME NEW s, IsState(s), Begun(s), NEW t \in AdvanceWorldAtmosphere(s)
  PROVE  /\ IsState(t) /\ Begun(t) /\ Grows(s, t) /\ t.spot = s.spot /\ t.turn = s.turn + 1
         /\ TellsPlaces(s, t) /\ TellsProgramme(s, t)
         /\ Level[s.spot] = 0 => t.nextId <= s.nextId + 1
         /\ Level[s.spot] = 0 /\ s.ambience.lastMessageTurn >= s.turn + 1 => t.events = s.events
         /\ Level[s.spot] = 0 /\ s.ambience.lastMessageTurn < s.turn + 1 /\ Due(s, s.turn + 1) =>
              Said(s, t) # {}
         /\ Level[s.spot] # 0 \/ s.ambience.lastMessageTurn >= s.turn + 1 =>
              /\ t.discovered = s.discovered /\ t.event = s.event /\ t.ambience = s.ambience
              /\ \A w \in Said(s, t) : w.kind \in {"greets", "sound"}
         /\ s.ambience.lastMessageTurn <= s.turn + 1 => t.ambience.lastMessageTurn <= s.turn + 1
         /\ \A w \in Said(s, t) : w.kind # "talk"
<1>1. PICK turn : turn = s.turn + 1
  OBVIOUS
<1>2. turn \in Nat /\ s.nextId \in Nat
  BY <1>1, Parts
<1>3. PICK u : u = [s EXCEPT !.turn = turn]
  OBVIOUS
<1>4. Quiet(s, u) /\ SameButTurn(s, u) /\ u.turn = turn
  BY <1>2, <1>3, TurnIsQuiet
<1>5. PICK v : v = ClearSounds(u)
  OBVIOUS
<1>6. IsState(u) /\ Begun(u) /\ Quiet(u, v) /\ SameButHistory(u, v)
  BY <1>4, <1>5, SoundIsQuiet DEF ClearSounds, Quiet
<1>7. Quiet(s, v) /\ SameButTurn(s, v) /\ v.turn = turn
  BY <1>4, <1>6, QuietTwice DEF SameButHistory, SameButTurn
<1>8. IsState(v) /\ Begun(v) /\ v.nextId = s.nextId /\ v.events = s.events
      /\ u.nextId = s.nextId /\ u.events = s.events
  BY <1>4, <1>7 DEF Quiet, SaysNothing
<1>9. /\ Said(s, t) = Said(v, t) /\ (Grows(v, t) => Grows(s, t))
      /\ Said(s, t) = Said(u, t) /\ (Grows(u, t) => Grows(s, t))
  BY <1>8 DEF Said, Grows
<1>10. CASE Level[s.spot] = 0
  <2>1. t \in AdvanceCampground(v, turn)
    BY <1>1, <1>3, <1>5, <1>10 DEF AdvanceWorldAtmosphere
  <2>2. /\ Follows(v, t) /\ TellsPlaces(v, t) /\ TellsProgramme(v, t)
        /\ t.nextId <= v.nextId + 1
        /\ v.ambience.lastMessageTurn >= turn => t = v
        /\ v.ambience.lastMessageTurn < turn /\ Due(v, turn) => Said(v, t) # {}
        /\ v.ambience.lastMessageTurn <= turn => t.ambience.lastMessageTurn <= turn
        /\ \A w \in Said(v, t) : w.kind # "talk"
    BY <1>2, <1>8, <2>1, CampgroundTurn
  <2>a. v.ambience = s.ambience /\ (Due(s, turn) <=> Due(v, turn))
    BY <1>7 DEF SameButTurn, Due, CallIsDue, LineIsDue, EventIsDue, Hosted, Eligible, DiscoveryCandidates
  <2>3. TellsPlaces(s, t)
    BY <1>7, <1>9, <2>2 DEF TellsPlaces, SameButTurn
  <2>4. TellsProgramme(s, t)
    <3>1. v.event = s.event /\ v.discovered = s.discovered
      BY <1>7 DEF SameButTurn
    <3>2. QED
      BY <1>9, <2>2, <3>1, SameProgramme
  <2>5. CASE s.ambience.lastMessageTurn >= turn
    <3>1. t = v
      BY <1>7, <2>2, <2>5 DEF SameButTurn
    <3>2. Said(s, t) = {} /\ t.events = s.events
      BY <1>7, <1>8, <3>1, QuietIsQuiet
    <3>3. t.discovered = s.discovered /\ t.event = s.event /\ t.ambience = s.ambience
      BY <1>7, <3>1 DEF SameButTurn
    <3>4. ~ (s.ambience.lastMessageTurn < turn)
      BY <1>2, <2>5, Parts
    <3>5. QED
      BY <1>1, <1>7, <1>8, <1>9, <1>10, <2>2, <2>3, <2>4, <2>5, <3>2, <3>3, <3>4
         DEF Follows, SameButTurn
  <2>6. CASE ~ (s.ambience.lastMessageTurn >= turn)
    BY <1>1, <1>7, <1>8, <1>9, <1>10, <2>2, <2>3, <2>4, <2>6, <2>a DEF Follows, SameButTurn
  <2>7. QED
    BY <2>5, <2>6
<1>11. ASSUME t.discovered = s.discovered, t.event = s.event,
              \A w \in Said(s, t) : w.kind \in {"greets", "sound"}
       PROVE  /\ TellsPlaces(s, t) /\ TellsProgramme(s, t)
  BY <1>11 DEF TellsPlaces, TellsProgramme, IsCall
<1>12. CASE Level[s.spot] = 1
  <2>1. t \in AdvanceFirstDungeon(u, turn)
    BY <1>1, <1>3, <1>12 DEF AdvanceWorldAtmosphere
  <2>2. /\ Follows(u, t) /\ t.discovered = u.discovered /\ t.event = u.event
        /\ t.ambience = u.ambience /\ \A w \in Said(u, t) : w.kind \in {"greets", "sound"}
    BY <1>6, <2>1, DungeonTurn
  <2>3. /\ t.turn = turn /\ t.spot = s.spot /\ t.discovered = s.discovered /\ t.event = s.event
        /\ t.ambience = s.ambience /\ \A w \in Said(s, t) : w.kind \in {"greets", "sound"}
    BY <1>4, <1>9, <2>2 DEF Follows, SameButTurn
  <2>4. TellsPlaces(s, t) /\ TellsProgramme(s, t)
    BY <1>11, <2>3
  <2>5. QED
    BY <1>1, <1>9, <1>12, <2>2, <2>3, <2>4 DEF Follows
<1>13. CASE Level[s.spot] \notin {0, 1}
  <2>1. t = v
    BY <1>1, <1>3, <1>5, <1>13 DEF AdvanceWorldAtmosphere
  <2>2. Said(s, t) = {} /\ Grows(s, t)
    BY <1>7, <2>1, QuietIsQuiet
  <2>3. /\ t.turn = turn /\ t.spot = s.spot /\ t.discovered = s.discovered /\ t.event = s.event
        /\ t.ambience = s.ambience
    BY <1>7, <2>1 DEF SameButTurn
  <2>4. TellsPlaces(s, t) /\ TellsProgramme(s, t)
    BY <2>2, <2>3 DEF TellsPlaces, TellsProgramme
  <2>5. QED
    BY <1>1, <1>8, <1>13, <2>1, <2>2, <2>3, <2>4
<1>14. QED
  BY <1>10, <1>12, <1>13

-----------------------------------------------------------------------------
(* The client's loop over a view. *)

\* One message of the loop.
Hear(c, g, e) ==
  IF e.id <= c.cursor THEN c
  ELSE [cursor |-> e.id,
        shown |-> IF Told(e) THEN Append(c.shown, <<g, e.id>>) ELSE c.shown]

\* The states of the loop over the first n messages of a view.
IsLoop(f, c, view, n) ==
  f = [i \in 0..n |-> IF i = 0 THEN c
                      ELSE IF view.events[i].id <= f[i - 1].cursor THEN f[i - 1]
                      ELSE [cursor |-> view.events[i].id,
                            shown |-> IF view.events[i].what.kind = "narration" THEN f[i - 1].shown
                                      ELSE Append(f[i - 1].shown, <<view.game, view.events[i].id>>)]]

LEMMA LoopSteps ==
  ASSUME NEW c, NEW view, NEW n \in Nat, NEW f
  PROVE  IsLoop(f, c, view, n) <=>
           f = [i \in 0..n |-> IF i = 0 THEN c ELSE Hear(f[i - 1], view.game, view.events[i])]
<1>1. ASSUME NEW i \in 0..n
      PROVE  (IF i = 0 THEN c
              ELSE IF view.events[i].id <= f[i - 1].cursor THEN f[i - 1]
              ELSE [cursor |-> view.events[i].id,
                    shown |-> IF view.events[i].what.kind = "narration" THEN f[i - 1].shown
                              ELSE Append(f[i - 1].shown, <<view.game, view.events[i].id>>)])
             = (IF i = 0 THEN c ELSE Hear(f[i - 1], view.game, view.events[i]))
  BY DEF Hear, Told
<1>2. QED
  BY <1>1 DEF IsLoop

LEMMA LoopExists ==
  ASSUME NEW c, NEW view, NEW n \in Nat
  PROVE  \E f : IsLoop(f, c, view, n)
<1> DEFINE H(x, i) == Hear(x, view.game, view.events[i])
           Steps_(f, k) == f = [i \in 0..k |-> IF i = 0 THEN c ELSE H(f[i - 1], i)]
           Failing == {k \in Nat : ~ \E f : Steps_(f, k)}
<1> HIDE DEF H
<1>1. Failing = {}
  <2>1. SUFFICES ASSUME Failing # {} PROVE FALSE
    OBVIOUS
  <2>2. PICK m \in Failing : \A k \in Failing : m <= k
    BY <2>1, LeastOfNaturals
  <2>3. CASE m = 0
    <3>1. Steps_([i \in 0..0 |-> c], 0)
      OBVIOUS
    <3>2. QED
      BY <2>2, <2>3, <3>1
  <2>4. CASE m # 0
    <3>1. m - 1 \in Nat /\ m - 1 \notin Failing
      BY <2>2, <2>4
    <3>2. PICK f : Steps_(f, m - 1)
      BY <3>1
    <3> DEFINE g == [i \in 0..m |-> IF i < m THEN f[i] ELSE H(f[m - 1], m)]
    <3>3. ASSUME NEW i \in 0..m
          PROVE  g[i] = IF i = 0 THEN c ELSE H(g[i - 1], i)
      <4>1. CASE i = 0
        BY <2>2, <2>4, <3>2, <4>1
      <4>2. CASE i # 0 /\ i < m
        <5>1. i \in 0..(m - 1) /\ i - 1 \in 0..m /\ i - 1 < m
          BY <2>2, <4>2
        <5>2. g[i] = f[i] /\ g[i - 1] = f[i - 1]
          BY <4>2, <5>1
        <5>3. f[i] = IF i = 0 THEN c ELSE H(f[i - 1], i)
          BY <3>2, <5>1
        <5>4. QED
          BY <5>2, <5>3
      <4>3. CASE i = m
        <5>1. g[m - 1] = f[m - 1] /\ g[m] = H(f[m - 1], m)
          BY <2>2, <2>4
        <5>2. QED
          BY <2>4, <4>3, <5>1
      <4>4. QED
        BY <2>2, <4>1, <4>2, <4>3
    <3>4. Steps_(g, m)
      BY <3>3
    <3>5. QED
      BY <2>2, <3>4
  <2>5. QED
    BY <2>3, <2>4
<1>2. PICK f : Steps_(f, n)
  BY <1>1
<1>3. IsLoop(f, c, view, n)
  BY <1>2, LoopSteps DEF H
<1>4. QED
  BY <1>3

\* What the loop has done to the client with the messages E of game g, which
\* are those up to some id: everything beyond the old cursor is shown and
\* nothing else, and the new cursor is the last id or the old one.
HasHeard(c, d, g, E) ==
  /\ IsClient(d) /\ c.cursor <= d.cursor
  /\ Range(c.shown) \subseteq Range(d.shown)
  /\ \A f \in Range(d.shown) : f \in Range(c.shown) \/ \E e \in E : e.id > c.cursor /\ f = <<g, e.id>>
  /\ \A e \in E : /\ e.id <= d.cursor
                  /\ e.id > c.cursor /\ Told(e) => <<g, e.id>> \in Range(d.shown)
  /\ d.cursor = c.cursor \/ \E e \in E : e.id > c.cursor /\ d.cursor = e.id

LEMMA HearingOne ==
  ASSUME NEW c, IsClient(c), NEW d, NEW g \in Nat, NEW E, HasHeard(c, d, g, E),
         NEW e, e.id \in Nat, \A y \in E : y.id \in Nat /\ y.id < e.id
  PROVE  HasHeard(c, Hear(d, g, e), g, E \union {e})
<1>1. c.cursor \in Nat /\ d.cursor \in Nat /\ c.cursor <= d.cursor /\ IsClient(d)
  BY DEF IsClient, HasHeard
<1> DEFINE All == E \union {e}
<1>a. /\ Range(c.shown) \subseteq Range(d.shown)
      /\ \A f \in Range(d.shown) : f \in Range(c.shown) \/ \E y \in All : y.id > c.cursor /\ f = <<g, y.id>>
      /\ \A y \in E : /\ y.id <= d.cursor
                      /\ y.id > c.cursor /\ Told(y) => <<g, y.id>> \in Range(d.shown)
      /\ d.cursor = c.cursor \/ \E y \in All : y.id > c.cursor /\ d.cursor = y.id
  <2>1. E \subseteq All
    OBVIOUS
  <2> HIDE DEF All
  <2>2. /\ Range(c.shown) \subseteq Range(d.shown)
        /\ \A y \in E : /\ y.id <= d.cursor
                        /\ y.id > c.cursor /\ Told(y) => <<g, y.id>> \in Range(d.shown)
    BY DEF HasHeard
  <2>3. \A f \in Range(d.shown) : f \in Range(c.shown) \/ \E y \in E : y.id > c.cursor /\ f = <<g, y.id>>
    BY DEF HasHeard
  <2>4. d.cursor = c.cursor \/ \E y \in E : y.id > c.cursor /\ d.cursor = y.id
    BY DEF HasHeard
  <2>5. QED
    BY <2>1, <2>2, <2>3, <2>4
<1>b. \A y \in All : y \in E \/ y = e
  OBVIOUS
<1>c. e \in All
  OBVIOUS
<1> HIDE DEF All
<1>2. CASE e.id <= d.cursor
  <2>1. Hear(d, g, e) = d
    BY <1>2 DEF Hear
  <2>0. e.id <= c.cursor
    <3>1. \A y \in E : ~ (d.cursor = y.id)
      BY <1>1, <1>2
    <3>2. QED
      BY <1>2, <3>1 DEF HasHeard
  <2>2. ASSUME NEW y \in All
        PROVE  y.id <= d.cursor /\ (y.id > c.cursor /\ Told(y) => <<g, y.id>> \in Range(d.shown))
    BY <1>1, <1>a, <1>b, <1>2, <2>0
  <2>3. HasHeard(c, d, g, All)
    BY <1>1, <1>a, <2>2 DEF HasHeard
  <2>4. QED
    BY <2>1, <2>3 DEF All
<1>3. CASE ~ (e.id <= d.cursor)
  <2>1. PICK new : new = <<g, e.id>>
    OBVIOUS
  <2>2. new \in Nat \X Nat /\ new[1] = g /\ new[2] = e.id /\ e.id > d.cursor /\ e.id > c.cursor
    BY <1>1, <1>3, <2>1
  <2>3. PICK x : x = Hear(d, g, e)
    OBVIOUS
  <2>4. PICK shown : shown = IF Told(e) THEN Append(d.shown, new) ELSE d.shown
    OBVIOUS
  <2>5. x = [cursor |-> e.id, shown |-> shown]
    BY <1>3, <2>1, <2>3, <2>4 DEF Hear
  <2>6. x.cursor = e.id /\ x.shown = shown /\ x = [cursor |-> x.cursor, shown |-> x.shown]
    BY <2>5
  <2>7. /\ d.shown \in Seq(Nat \X Nat) /\ Len(d.shown) \in Nat /\ DOMAIN d.shown = 1..Len(d.shown)
        /\ \A f \in Range(d.shown) : f[2] \in Nat /\ f[2] <= d.cursor
        /\ \A i, j \in DOMAIN d.shown : i < j => d.shown[i][2] < d.shown[j][2]
    <3>1. d.shown \in Seq(Nat \X Nat)
      BY <1>1 DEF IsClient
    <3>2. Range(d.shown) \subseteq Nat \X Nat
      BY <3>1, OfItsOwnValues
    <3>3. QED
      BY <1>1, <3>1, <3>2, OfItsOwnValues DEF IsClient
  <2>10. ASSUME IsClient(x), Range(d.shown) \subseteq Range(shown),
                Told(e) => <<g, e.id>> \in Range(shown),
                \A f \in Range(shown) : f \in Range(c.shown) \/ \E y \in All : y.id > c.cursor /\ f = <<g, y.id>>
         PROVE  HasHeard(c, Hear(d, g, e), g, E \union {e})
    <3>1. c.cursor <= x.cursor /\ Range(c.shown) \subseteq Range(x.shown)
      BY <1>1, <1>a, <2>2, <2>6, <2>10
    <3>2. ASSUME NEW y \in All
          PROVE  y.id <= x.cursor /\ (y.id > c.cursor /\ Told(y) => <<g, y.id>> \in Range(x.shown))
      <4>1. CASE y \in E
        BY <1>1, <1>a, <2>2, <2>6, <2>10, <4>1
      <4>2. CASE y = e
        BY <2>6, <2>10, <4>2
      <4>3. QED
        BY <1>b, <4>1, <4>2
    <3>3. \E y \in All : y.id > c.cursor /\ x.cursor = y.id
      BY <1>c, <2>2, <2>6
    <3>4. HasHeard(c, x, g, All)
      BY <2>6, <2>10, <3>1, <3>2, <3>3 DEF HasHeard
    <3>5. QED
      BY <2>3, <3>4 DEF All
  <2>8. CASE Told(e)
    <3>1. /\ shown \in Seq(Nat \X Nat) /\ Len(shown) = Len(d.shown) + 1
          /\ \A i \in 1..Len(d.shown) : shown[i] = d.shown[i]
          /\ shown[Len(d.shown) + 1] = new
      BY <2>2, <2>4, <2>7, <2>8, AppendProperties
    <3>2. DOMAIN shown = 1..(Len(d.shown) + 1)
      BY <3>1, OfItsOwnValues
    <3>3. Range(shown) = Range(d.shown) \union {new}
      <4>1. \A i \in DOMAIN shown : shown[i] \in Range(d.shown) \union {new}
        <5>1. ASSUME NEW i \in DOMAIN shown
              PROVE  shown[i] \in Range(d.shown) \union {new}
          <6>1. i \in 1..(Len(d.shown) + 1)
            BY <3>2
          <6>2. i \in 1..Len(d.shown) \/ i = Len(d.shown) + 1
            BY <2>7, <6>1
          <6>3. QED
            BY <2>7, <3>1, <6>2 DEF Range
        <5>2. QED
          BY <5>1
      <4>2. ASSUME NEW i \in DOMAIN d.shown
            PROVE  i \in DOMAIN shown /\ shown[i] = d.shown[i]
        <5>1. i \in 1..Len(d.shown)
          BY <2>7
        <5>2. i \in 1..(Len(d.shown) + 1)
          BY <2>7, <5>1
        <5>3. QED
          BY <3>1, <3>2, <5>1, <5>2
      <4>3. Len(d.shown) + 1 \in DOMAIN shown
        BY <2>7, <3>2
      <4>4. QED
        BY <3>1, <4>1, <4>2, <4>3 DEF Range
    <3>4. ASSUME NEW i \in DOMAIN shown, NEW j \in DOMAIN shown, i < j
          PROVE  shown[i][2] < shown[j][2]
      <4>1. i \in DOMAIN d.shown /\ shown[i] = d.shown[i]
        <5>1. i \in 1..(Len(d.shown) + 1) /\ j \in 1..(Len(d.shown) + 1)
          BY <3>2
        <5>2. i \in 1..Len(d.shown)
          BY <2>7, <3>4, <5>1
        <5>3. QED
          BY <2>7, <3>1, <5>2
      <4>2. CASE j = Len(d.shown) + 1
        <5>1. d.shown[i] \in Range(d.shown) /\ shown[j] = new
          BY <3>1, <4>1, <4>2 DEF Range
        <5>2. d.shown[i][2] \in Nat /\ d.shown[i][2] <= d.cursor
          BY <2>7, <5>1
        <5>3. QED
          BY <1>1, <2>2, <4>1, <5>1, <5>2
      <4>3. CASE j \in DOMAIN d.shown
        BY <2>7, <3>1, <3>4, <4>1, <4>3
      <4>4. QED
        BY <2>7, <3>2, <4>2, <4>3
    <3>5. \A f \in Range(shown) : f[2] <= e.id
      BY <1>1, <2>2, <2>7, <3>3
    <3>6. IsClient(x)
      BY <2>6, <3>1, <3>4, <3>5 DEF IsClient
    <3>7. new = <<g, e.id>>
      BY <2>1
    <3>8. \A f \in Range(shown) : f \in Range(c.shown) \/ \E y \in All : y.id > c.cursor /\ f = <<g, y.id>>
      BY <1>a, <1>c, <2>2, <3>3, <3>7
    <3>9. QED
      BY <2>10, <3>3, <3>6, <3>7, <3>8
  <2>9. CASE ~ Told(e)
    <3>1. shown = d.shown
      BY <2>4, <2>9
    <3>2. \A f \in Range(shown) : f[2] <= e.id
      BY <1>1, <2>2, <2>7, <3>1
    <3>3. IsClient(x)
      BY <2>6, <2>7, <3>1, <3>2 DEF IsClient
    <3>4. \A f \in Range(shown) : f \in Range(c.shown) \/ \E y \in All : y.id > c.cursor /\ f = <<g, y.id>>
      BY <1>a, <3>1
    <3>5. QED
      BY <2>9, <2>10, <3>1, <3>3, <3>4
  <2>11. QED
    BY <2>8, <2>9
<1>4. QED
  BY <1>2, <1>3

\* A client goes through a whole view, whatever its cursor.
LEMMA ViewIsHeard ==
  ASSUME NEW c, IsClient(c), NEW view, view.game \in Nat, NEW latest \in Nat,
         IsHistory(view.events, latest)
  PROVE  HasHeard(c, ApplyGameplayEvents(c, view), view.game, Range(view.events))
<1> DEFINE n == Len(view.events)
           f == CHOOSE x : IsLoop(x, c, view, n)
           First(i) == {view.events[j] : j \in 1..i}
           Failing == {i \in 0..n : ~ HasHeard(c, f[i], view.game, First(i))}
<1>1. n \in Nat /\ DOMAIN view.events = 1..n /\ \A j \in 1..n : view.events[j].id \in Nat
  <2>1. n \in Nat /\ DOMAIN view.events = 1..n
    BY OfItsOwnValues DEF IsHistory
  <2>2. \A e \in Range(view.events) : e.id \in Nat
    BY DEF IsHistory
  <2>3. QED
    BY <2>1, <2>2 DEF Range
<1>2. IsLoop(f, c, view, n)
  BY <1>1, LoopExists
<1>3. ApplyGameplayEvents(c, view) = f[n]
  BY DEF ApplyGameplayEvents, IsLoop
<1> HIDE DEF f, n, First
<1>4. f = [i \in 0..n |-> IF i = 0 THEN c ELSE Hear(f[i - 1], view.game, view.events[i])]
  <2>1. PICK last \in Nat : last = n
    BY <1>1
  <2>2. PICK loop : loop = f
    OBVIOUS
  <2>3. IsLoop(loop, c, view, last)
    BY <1>2, <2>1, <2>2
  <2>4. loop = [i \in 0..last |-> IF i = 0 THEN c ELSE Hear(loop[i - 1], view.game, view.events[i])]
    BY <2>3, LoopSteps
  <2>5. QED
    BY <2>1, <2>2, <2>4
<1>5. Failing = {}
  <2>1. SUFFICES ASSUME Failing # {} PROVE FALSE
    OBVIOUS
  <2>2. Failing \in SUBSET Nat
    BY <1>1
  <2>3. PICK m \in Failing : \A k \in Failing : m <= k
    BY <2>1, <2>2, LeastOfNaturals
  <2>4. CASE m = 0
    <3>1. f[0] = c /\ First(0) = {}
      BY <1>1, <1>4 DEF First
    <3>2. HasHeard(c, c, view.game, {})
      BY DEF HasHeard, IsClient
    <3>3. QED
      BY <2>3, <2>4, <3>1, <3>2
  <2>5. CASE m # 0
    <3>1. m \in 1..n /\ m - 1 \in 0..n /\ m - 1 \notin Failing
      BY <1>1, <2>3, <2>5
    <3>2. HasHeard(c, f[m - 1], view.game, First(m - 1))
      BY <3>1
    <3>3. f[m] = Hear(f[m - 1], view.game, view.events[m])
      BY <1>1, <1>4, <3>1
    <3>4. First(m) = First(m - 1) \union {view.events[m]}
      BY <1>1, <3>1 DEF First
    <3>5. \A y \in First(m - 1) : y.id \in Nat /\ y.id < view.events[m].id
      <4>1. \A j \in 1..(m - 1) : j \in 1..n /\ j < m
        BY <1>1, <3>1
      <4>2. \A j \in 1..(m - 1) : view.events[j].id \in Nat /\ view.events[j].id < view.events[m].id
        BY <1>1, <3>1, <4>1 DEF IsHistory
      <4>3. QED
        BY <4>2 DEF First
    <3>7. HasHeard(c, f[m], view.game, First(m))
      BY <1>1, <3>1, <3>2, <3>3, <3>4, <3>5, HearingOne
    <3>6. QED
      BY <2>3, <3>7
  <2>6. QED
    BY <2>4, <2>5
<1>6. HasHeard(c, f[n], view.game, First(n))
  BY <1>1, <1>5
<1>7. First(n) = Range(view.events)
  BY <1>1 DEF First, Range
<1>8. QED
  BY <1>3, <1>6, <1>7

-----------------------------------------------------------------------------
(* Saves: a restored game has lost its narration and nothing else. *)

IsSieve(f, events, n) ==
  f = [i \in 0..n |-> IF i = 0 THEN <<>>
                      ELSE IF events[i].what.kind = "narration" THEN f[i - 1]
                      ELSE Append(f[i - 1], events[i])]

LEMMA SieveExists ==
  ASSUME NEW events, NEW n \in Nat
  PROVE  \E f : IsSieve(f, events, n)
<1> DEFINE H(x, i) == IF events[i].what.kind = "narration" THEN x ELSE Append(x, events[i])
           Steps_(f, k) == f = [i \in 0..k |-> IF i = 0 THEN <<>> ELSE H(f[i - 1], i)]
           Failing == {k \in Nat : ~ \E f : Steps_(f, k)}
<1>1. \A f : IsSieve(f, events, n) <=> Steps_(f, n)
  BY DEF IsSieve
<1> HIDE DEF H
<1>2. Failing = {}
  <2>1. SUFFICES ASSUME Failing # {} PROVE FALSE
    OBVIOUS
  <2>2. PICK m \in Failing : \A k \in Failing : m <= k
    BY <2>1, LeastOfNaturals
  <2>3. CASE m = 0
    <3>1. Steps_([i \in 0..0 |-> <<>>], 0)
      OBVIOUS
    <3>2. QED
      BY <2>2, <2>3, <3>1
  <2>4. CASE m # 0
    <3>1. m - 1 \in Nat /\ m - 1 \notin Failing
      BY <2>2, <2>4
    <3>2. PICK f : Steps_(f, m - 1)
      BY <3>1
    <3> DEFINE g == [i \in 0..m |-> IF i < m THEN f[i] ELSE H(f[m - 1], m)]
    <3>3. ASSUME NEW i \in 0..m
          PROVE  g[i] = IF i = 0 THEN <<>> ELSE H(g[i - 1], i)
      <4>1. CASE i = 0
        BY <2>2, <2>4, <3>2, <4>1
      <4>2. CASE i # 0 /\ i < m
        <5>1. i \in 0..(m - 1) /\ i - 1 \in 0..m /\ i - 1 < m
          BY <2>2, <4>2
        <5>2. g[i] = f[i] /\ g[i - 1] = f[i - 1]
          BY <4>2, <5>1
        <5>3. f[i] = IF i = 0 THEN <<>> ELSE H(f[i - 1], i)
          BY <3>2, <5>1
        <5>4. QED
          BY <5>2, <5>3
      <4>3. CASE i = m
        <5>1. g[m - 1] = f[m - 1] /\ g[m] = H(f[m - 1], m)
          BY <2>2, <2>4
        <5>2. QED
          BY <2>4, <4>3, <5>1
      <4>4. QED
        BY <2>2, <4>1, <4>2, <4>3
    <3>4. Steps_(g, m)
      BY <3>3
    <3>5. QED
      BY <2>2, <3>4
  <2>5. QED
    BY <2>3, <2>4
<1>3. PICK f : Steps_(f, n)
  BY <1>2
<1>4. QED
  BY <1>1, <1>3

LEMMA SiftedHistory ==
  ASSUME NEW h, NEW latest \in Nat, IsHistory(h, latest)
  PROVE  IsHistory(WithoutNarration(h), latest) /\ Range(WithoutNarration(h)) \subseteq Range(h)
<1> DEFINE n == Len(h)
           f == CHOOSE x : IsSieve(x, h, n)
           First(i) == {h[j] : j \in 1..i}
           Good(i) == /\ f[i] \in Seq(First(i))
                      /\ \A j, k \in 1..Len(f[i]) : j < k => f[i][j].id < f[i][k].id
           Failing == {i \in 0..n : ~ Good(i)}
<1>1. n \in Nat /\ DOMAIN h = 1..n /\ \A j \in 1..n : h[j].id \in Nat
  <2>1. n \in Nat /\ DOMAIN h = 1..n
    BY OfItsOwnValues DEF IsHistory
  <2>2. \A e \in Range(h) : e.id \in Nat
    BY DEF IsHistory
  <2>3. QED
    BY <2>1, <2>2 DEF Range
<1>2. IsSieve(f, h, n)
  BY <1>1, SieveExists
<1>3. WithoutNarration(h) = f[n]
  BY DEF WithoutNarration, IsSieve
<1> HIDE DEF f, n, First
<1> DEFINE Sift(x, i) == IF h[i].what.kind = "narration" THEN x ELSE Append(x, h[i])
<1>4. f = [i \in 0..n |-> IF i = 0 THEN <<>> ELSE Sift(f[i - 1], i)]
  BY <1>2 DEF IsSieve
<1> HIDE DEF Sift
<1>5. Failing = {}
  <2>1. SUFFICES ASSUME Failing # {} PROVE FALSE
    OBVIOUS
  <2>2. Failing \in SUBSET Nat
    BY <1>1
  <2>3. PICK m \in Failing : \A k \in Failing : m <= k
    BY <2>1, <2>2, LeastOfNaturals
  <2>4. CASE m = 0
    <3>1. f[0] = <<>>
      BY <1>1, <1>4
    <3>2. f[0] \in Seq(First(0)) /\ Len(f[0]) = 0
      BY <3>1, EmptySeq
    <3>3. QED
      BY <2>3, <2>4, <3>2
  <2>5. CASE m # 0
    <3>1. m \in 1..n /\ m - 1 \in 0..n /\ m - 1 \notin Failing
      <4>1. n \in Nat /\ m \in 0..n
        BY <1>1, <2>3
      <4> HIDE DEF Failing
      <4>2. m \in 1..n /\ m - 1 \in 0..n /\ m - 1 \in Nat /\ ~ (m <= m - 1)
        BY <4>1, <2>5
      <4>3. m - 1 \notin Failing
        BY <2>3, <4>2
      <4>4. QED
        BY <4>2, <4>3
    <3>2. PICK old : old = f[m - 1]
      OBVIOUS
    <3>3. old \in Seq(First(m - 1)) /\ \A j, k \in 1..Len(old) : j < k => old[j].id < old[k].id
      BY <3>1, <3>2
    <3>4. First(m - 1) \subseteq First(m) /\ h[m] \in First(m)
      BY <1>1, <3>1 DEF First
    <3>5. old \in Seq(First(m)) /\ Len(old) \in Nat
      BY <3>3, <3>4, SeqMonotonic, LenProperties
    <3>6. \A y \in First(m - 1) : y.id < h[m].id
      <4>1. \A j \in 1..(m - 1) : j \in 1..n /\ j < m
        BY <1>1, <3>1
      <4>2. \A j \in 1..(m - 1) : h[j].id < h[m].id
        BY <1>1, <3>1, <4>1 DEF IsHistory
      <4>3. QED
        BY <4>2 DEF First
    <3>a. f[m] = Sift(old, m)
      BY <1>1, <1>4, <3>1, <3>2
    <3>7. CASE h[m].what.kind = "narration"
      <4>1. f[m] = old
        BY <3>a, <3>7 DEF Sift
      <4>2. QED
        BY <2>3, <3>3, <3>5, <4>1
    <3>8. CASE h[m].what.kind # "narration"
      <4>1. PICK new : new = Append(old, h[m])
        OBVIOUS
      <4>2. f[m] = new
        BY <3>a, <3>8, <4>1 DEF Sift
      <4>3. /\ new \in Seq(First(m)) /\ Len(new) = Len(old) + 1
            /\ \A j \in 1..Len(old) : new[j] = old[j]
            /\ new[Len(old) + 1] = h[m]
        BY <3>4, <3>5, <4>1, AppendProperties
      <4>4. ASSUME NEW j \in 1..Len(new), NEW k \in 1..Len(new), j < k
            PROVE  new[j].id < new[k].id
        <5>1. j \in 1..Len(old) /\ (k \in 1..Len(old) \/ k = Len(old) + 1)
          BY <3>5, <4>3, <4>4
        <5>2. old[j] \in First(m - 1)
          BY <3>3, <5>1, ElementOfSeq
        <5>3. CASE k \in 1..Len(old)
          BY <3>3, <4>3, <4>4, <5>1, <5>3
        <5>4. CASE k = Len(old) + 1
          BY <3>6, <4>3, <5>1, <5>2, <5>4
        <5>5. QED
          BY <5>1, <5>3, <5>4
      <4>5. QED
        BY <2>3, <4>2, <4>3, <4>4
    <3>9. QED
      BY <3>7, <3>8
  <2>6. QED
    BY <2>4, <2>5
<1>6. PICK kept : kept = f[n]
  OBVIOUS
<1>7. kept \in Seq(First(n)) /\ \A j, k \in 1..Len(kept) : j < k => kept[j].id < kept[k].id
  BY <1>1, <1>5, <1>6
<1>8. First(n) = Range(h)
  BY <1>1 DEF First, Range
<1>9. kept \in Seq(Range(kept)) /\ Range(kept) \subseteq Range(h) /\ DOMAIN kept = 1..Len(kept)
  BY <1>7, <1>8, OfItsOwnValues
<1>10. IsHistory(kept, latest)
  BY <1>7, <1>9 DEF IsHistory
<1>11. QED
  BY <1>3, <1>6, <1>9, <1>10

LEMMA PreparedKeeps ==
  ASSUME NEW s, IsState(s), Begun(s)
  PROVE  /\ IsState(Prepared(s)) /\ Begun(Prepared(s)) /\ SameButHistory(s, Prepared(s))
         /\ Prepared(s).nextId = s.nextId
         /\ Range(Prepared(s).events) \subseteq Range(s.events)
<1>1. PICK kept : kept = WithoutNarration(s.events)
  OBVIOUS
<1>2. IsHistory(kept, s.nextId) /\ Range(kept) \subseteq Range(s.events)
  BY <1>1, SiftedHistory DEF IsState
<1>3. PICK t : t = Prepared(s)
  OBVIOUS
<1>4. t = [turn |-> s.turn, spot |-> s.spot, discovered |-> s.discovered,
           greeted |-> s.greeted, event |-> s.event, ambience |-> s.ambience,
           soundTurn |-> s.soundTurn, events |-> kept, nextId |-> s.nextId]
  BY <1>1, <1>3 DEF IsState, Prepared
<1>5. t.turn = s.turn /\ t.spot = s.spot /\ t.discovered = s.discovered /\ t.greeted = s.greeted
      /\ t.event = s.event /\ t.ambience = s.ambience /\ t.soundTurn = s.soundTurn
      /\ t.events = kept /\ t.nextId = s.nextId
  BY <1>4
<1>6. IsState(t)
  BY <1>2, <1>4, <1>5 DEF IsState
<1>7. QED
  BY <1>2, <1>3, <1>5, <1>6 DEF Begun, SameButHistory

\* A new game has said its narration, if it rains, and nothing else.
LEMMA FreshIsState ==
  /\ IsState(Fresh) /\ Begun(Fresh)
  /\ Fresh.event.phase = "cooldown" /\ Fresh.turn = 0 /\ Fresh.ambience.lastMessageTurn = 0
  /\ \A e \in Range(Fresh.events) : ~ Told(e)
<1> DEFINE silent == [turn |-> 0, spot |-> Start, discovered |-> {"arrival"} \cap Range(Landmarks),
                      greeted |-> {},
                      event |-> [phase |-> "cooldown", kind |-> "none", host |-> "none", at |-> Never],
                      ambience |-> [lastMessageTurn |-> Never, nextTurn |-> Never,
                                    zone |-> <<"nowhere">>, recalled |-> 0],
                      soundTurn |-> Never, events |-> <<>>, nextId |-> 0]
           narration == [kind |-> "narration"]
<1>1. Fresh = IF HeavyRain THEN AppendEvent(silent, narration) ELSE silent
  BY DEF Fresh
<1>2. /\ silent.turn = 0 /\ silent.spot = Start /\ silent.events = <<>> /\ silent.nextId = 0
      /\ silent.event = [phase |-> "cooldown", kind |-> "none", host |-> "none", at |-> Never]
      /\ silent.ambience = [lastMessageTurn |-> Never, nextTurn |-> Never,
                            zone |-> <<"nowhere">>, recalled |-> 0]
      /\ silent = [turn |-> silent.turn, spot |-> silent.spot, discovered |-> silent.discovered,
                   greeted |-> silent.greeted, event |-> silent.event, ambience |-> silent.ambience,
                   soundTurn |-> silent.soundTurn, events |-> silent.events, nextId |-> silent.nextId]
  OBVIOUS
<1> HIDE DEF silent
<1>3. Range(silent.events) = {} /\ IsHistory(silent.events, 0)
  <2>1. PICK h : h = <<>>
    OBVIOUS
  <2>2. h \in Seq({}) /\ Len(h) = 0
    BY <2>1, EmptySeq
  <2>3. h \in Seq(Range(h)) /\ Range(h) = {} /\ DOMAIN h = 1..0
    <3>0. PICK S : S = {}
      OBVIOUS
    <3>1. h \in Seq(Range(h)) /\ Range(h) \subseteq S /\ DOMAIN h = 1..Len(h)
      BY <2>2, <3>0, OfItsOwnValues
    <3>2. QED
      BY <2>2, <3>0, <3>1
  <2>4. DOMAIN h = {}
    BY <2>3
  <2>5. QED
    BY <1>2, <2>1, <2>3, <2>4 DEF IsHistory
<1>4. IsState(silent)
  <2>1. /\ silent.event = [phase |-> silent.event.phase, kind |-> silent.event.kind,
                           host |-> silent.event.host, at |-> silent.event.at]
        /\ silent.ambience = [lastMessageTurn |-> silent.ambience.lastMessageTurn,
                              nextTurn |-> silent.ambience.nextTurn,
                              zone |-> silent.ambience.zone, recalled |-> silent.ambience.recalled]
        /\ silent.ambience.lastMessageTurn = 0 /\ silent.event.phase = "cooldown"
    BY <1>2 DEF Never
  <2>2. Start \in Spots
    BY AtmosphereAssumption
  <2>3. QED
    BY <1>2, <1>3, <2>1, <2>2 DEF IsState
<1>5. CASE HeavyRain
  <2>1. PICK t : t = AppendEvent(silent, narration)
    OBVIOUS
  <2>2. (narration.kind = "narration") <=> (HeavyRain /\ silent.nextId = 0)
    BY <1>2, <1>5
  <2>3. IsState(t) /\ SameButHistory(silent, t) /\ Says(silent, t, narration)
    BY <1>4, <2>1, <2>2, AppendSays
  <2>4. \A e \in Range(t.events) : e = [id |-> silent.nextId + 1, what |-> narration]
    BY <1>3, <2>3 DEF Says
  <2>5. \A e \in Range(t.events) : ~ Told(e)
    BY <2>4 DEF Told
  <2>6. t.nextId = 1
    BY <1>2, <2>3 DEF Says
  <2>7. t.event.phase = "cooldown" /\ t.turn = 0 /\ t.ambience.lastMessageTurn = 0
    BY <1>2, <2>3 DEF SameButHistory, Never
  <2>8. QED
    BY <1>1, <1>5, <2>1, <2>3, <2>5, <2>6, <2>7 DEF Begun
<1>6. CASE ~ HeavyRain
  BY <1>1, <1>2, <1>3, <1>4, <1>6 DEF Begun, Never
<1>7. QED
  BY <1>5, <1>6

-----------------------------------------------------------------------------
(* The player's actions, each with the turn that follows it. *)

\* A message of the action's own occupies the turn, and puts nothing off further.
LEMMA Occupied ==
  ASSUME NEW s, IsState(s), Begun(s), NEW t \in Suppress(AppendEvent(s, OwnWords))
  PROVE  /\ IsState(t) /\ Begun(t) /\ Grows(s, t) /\ t.nextId = s.nextId + 1
         /\ Said(s, t) = {OwnWords}
         /\ t.turn = s.turn /\ t.spot = s.spot
         /\ t.discovered = s.discovered /\ t.event = s.event
         /\ t.ambience.nextTurn = s.ambience.nextTurn
         /\ t.ambience.lastMessageTurn >= t.turn + 1
         /\ s.ambience.lastMessageTurn <= s.turn => t.ambience.lastMessageTurn <= t.turn + 1
<1>1. OwnWords.kind # "narration"
  BY DEF OwnWords
<1>2. PICK u : u = AppendEvent(s, OwnWords)
  OBVIOUS
<1>3. Speaks(s, u, OwnWords)
  BY <1>1, <1>2, SpeakingSays
<1>4. PICK turn : turn = u.turn + 1
  OBVIOUS
<1>5. IsState(u) /\ Begun(u) /\ SameButHistory(s, u)
      /\ u.turn \in Nat /\ u.ambience.lastMessageTurn \in Nat /\ u.ambience.nextTurn \in Nat
  BY <1>3, Parts DEF Speaks
<1>6. PICK last : last = Max({u.ambience.lastMessageTurn, turn})
  OBVIOUS
<1>7. /\ last \in Nat /\ last >= turn
      /\ u.ambience.lastMessageTurn <= u.turn => last <= turn
  BY <1>4, <1>5, <1>6, MaxOfTwo
<1>8. PICK line : t = WithAmbience(u, last, u.ambience.nextTurn, u.ambience.zone, line)
  BY <1>2, <1>4, <1>6 DEF Suppress, SuppressUntil
<1>9. /\ Quiet(u, t) /\ t.turn = u.turn /\ t.spot = u.spot /\ t.discovered = u.discovered
      /\ t.event = u.event
      /\ t.ambience.lastMessageTurn = last /\ t.ambience.nextTurn = u.ambience.nextTurn
  BY <1>5, <1>7, <1>8, AmbienceIsQuiet
<1>10. Said(s, t) = {OwnWords} /\ Grows(s, t) /\ t.nextId = s.nextId + 1
  BY <1>3, <1>9 DEF Quiet, SaysNothing, Said, Grows, Speaks
<1>11. QED
  BY <1>4, <1>5, <1>7, <1>9, <1>10 DEF Quiet, SameButHistory

\* An action and its turn.
IsTurn(s, t) ==
  /\ IsState(t) /\ Begun(t) /\ Grows(s, t) /\ t.turn = s.turn + 1
  /\ s.discovered \subseteq t.discovered /\ TellsProgramme(s, t)
  /\ s.ambience.lastMessageTurn <= s.turn => t.ambience.lastMessageTurn <= t.turn

\* A turn without words of its own tells of the places it marks and of what is due.
IsWalkTurn(s, t) ==
  /\ IsTurn(s, t) /\ TellsPlaces(s, t) /\ OwnWords \notin Said(s, t)
  /\ Level[t.spot] = 0 => t.nextId <= s.nextId + 1
  /\ Level[t.spot] = 0 /\ s.ambience.lastMessageTurn <= s.turn /\ Pending(s, t.turn, t.spot) =>
       Said(s, t) # {}

\* A turn with words of its own: nothing that is due moves, and it may make the
\* welcome camp known.
IsTalkTurn(s, t) ==
  /\ IsTurn(s, t) /\ t.spot = s.spot /\ \A w \in Said(s, t) : w.kind # "discovers"
  /\ \/ t.discovered = s.discovered
     \/ Level[t.spot] = 0 /\ t.discovered = s.discovered \union {WelcomeCamp}
  /\ Level[t.spot] = 0 =>
       /\ Said(s, t) = {OwnWords} /\ t.event = s.event
       /\ t.ambience.nextTurn = s.ambience.nextTurn

LEMMA WalkTurn ==
  ASSUME NEW s, IsState(s), Begun(s), NEW p \in Steps[s.spot],
         NEW t \in AdvanceWorldAtmosphere([s EXCEPT !.spot = p])
  PROVE  IsWalkTurn(s, t)
<1>1. PICK u : u = [s EXCEPT !.spot = p]
  OBVIOUS
<1>2. p \in Spots /\ s.turn \in Nat /\ s.ambience.lastMessageTurn \in Nat
  BY AtmosphereAssumption, Parts
<1>3. /\ Quiet(s, u) /\ u.turn = s.turn /\ u.spot = p
      /\ u.discovered = s.discovered /\ u.event = s.event /\ u.ambience = s.ambience
  BY <1>1, <1>2, WalkIsQuiet
<1>4. IsState(u) /\ Begun(u) /\ u.nextId = s.nextId /\ u.events = s.events
  BY <1>3 DEF Quiet, SaysNothing
<1>5. /\ IsState(t) /\ Begun(t) /\ Grows(u, t) /\ t.spot = u.spot /\ t.turn = u.turn + 1
      /\ TellsPlaces(u, t) /\ TellsProgramme(u, t)
      /\ Level[u.spot] = 0 => t.nextId <= u.nextId + 1
      /\ Level[u.spot] = 0 /\ u.ambience.lastMessageTurn < u.turn + 1 /\ Due(u, u.turn + 1) =>
           Said(u, t) # {}
      /\ u.ambience.lastMessageTurn <= u.turn + 1 => t.ambience.lastMessageTurn <= u.turn + 1
      /\ \A w \in Said(u, t) : w.kind # "talk"
  BY <1>1, <1>4, WorldTurn
<1>6. Said(s, t) = Said(u, t) /\ Grows(s, t)
  BY <1>4, <1>5 DEF Said, Grows
<1>7. TellsProgramme(s, t)
  BY <1>3, <1>5, <1>6, SameProgramme
<1>8. TellsPlaces(s, t)
  BY <1>3, <1>5, <1>6 DEF TellsPlaces
<1>9. Pending(s, u.turn + 1, p) => Due(u, u.turn + 1)
  <2>1. Hosted(u) = Hosted(s) /\ (EventIsDue(s, u.turn + 1) <=> EventIsDue(u, u.turn + 1))
    BY <1>3 DEF Hosted, Eligible, EventIsDue
  <2>2. QED
    BY <1>1, <1>3, <2>1 DEF Pending, Due, CallIsDue, LineIsDue
<1>10. s.ambience.lastMessageTurn <= s.turn =>
         u.ambience.lastMessageTurn < u.turn + 1 /\ u.ambience.lastMessageTurn <= u.turn + 1
  BY <1>2, <1>3
<1>11. s.discovered \subseteq t.discovered
  BY <1>8 DEF TellsPlaces
<1>12. IsTurn(s, t)
  BY <1>3, <1>5, <1>6, <1>7, <1>10, <1>11 DEF IsTurn
<1>13. OwnWords \notin Said(s, t)
  <2>1. OwnWords.kind = "talk"
    BY DEF OwnWords
  <2>2. QED
    BY <1>5, <1>6, <2>1
<1>14. QED
  BY <1>3, <1>4, <1>5, <1>6, <1>8, <1>9, <1>10, <1>12, <1>13 DEF IsWalkTurn

LEMMA TalkTurn ==
  ASSUME NEW s, IsState(s), Begun(s), NEW places \in Acquainted(s),
         NEW u \in Suppress(AppendEvent([s EXCEPT !.discovered = places], OwnWords)),
         NEW t \in AdvanceWorldAtmosphere(u)
  PROVE  IsTalkTurn(s, t)
<1>1. PICK v : v = [s EXCEPT !.discovered = places]
  OBVIOUS
<1>2. Quiet(s, v) /\ SameButPlaces(s, v) /\ v.discovered = places
  BY <1>1, PlacesAreQuiet
<1>3. IsState(v) /\ Begun(v) /\ v.nextId = s.nextId /\ v.events = s.events
  BY <1>2 DEF Quiet, SaysNothing
<1>4. /\ IsState(u) /\ Begun(u) /\ Grows(v, u) /\ u.nextId = v.nextId + 1
      /\ Said(v, u) = {OwnWords}
      /\ u.turn = v.turn /\ u.spot = v.spot /\ u.discovered = v.discovered /\ u.event = v.event
      /\ u.ambience.nextTurn = v.ambience.nextTurn
      /\ u.ambience.lastMessageTurn >= u.turn + 1
      /\ v.ambience.lastMessageTurn <= v.turn => u.ambience.lastMessageTurn <= u.turn + 1
  BY <1>1, <1>3, Occupied
<1>5. /\ Said(s, u) = {OwnWords} /\ Grows(s, u)
      /\ u.turn = s.turn /\ u.spot = s.spot /\ u.discovered = places /\ u.event = s.event
      /\ u.ambience.nextTurn = s.ambience.nextTurn
      /\ s.ambience.lastMessageTurn <= s.turn => u.ambience.lastMessageTurn <= u.turn + 1
  BY <1>2, <1>3, <1>4 DEF Said, Grows, SameButPlaces
<1>6. /\ IsState(t) /\ Begun(t) /\ Grows(u, t) /\ t.spot = u.spot /\ t.turn = u.turn + 1
      /\ Level[u.spot] = 0 => t.events = u.events
      /\ t.discovered = u.discovered /\ t.event = u.event /\ t.ambience = u.ambience
      /\ \A w \in Said(u, t) : w.kind \in {"greets", "sound"}
  BY <1>4, WorldTurn
<1>7. Grows(s, t) /\ Said(s, t) \subseteq Said(s, u) \union Said(u, t)
  BY <1>4, <1>5, <1>6, SaidInTurn
<1>8. \A w \in Said(s, t) : w.kind \in {"talk", "greets", "sound"}
  <2>1. OwnWords.kind = "talk"
    BY DEF OwnWords
  <2>2. QED
    BY <1>5, <1>6, <1>7, <2>1
<1>9. Level[t.spot] = 0 => Said(s, t) = {OwnWords}
  BY <1>5, <1>6 DEF Said
<1>10. places = s.discovered \/ (Level[s.spot] = 0 /\ places = s.discovered \union {WelcomeCamp})
  <2>1. \A p \in Welcoming : Level[p] = 0
    BY AtmosphereAssumption
  <2>2. QED
    BY <2>1 DEF Acquainted
<1>11. TellsProgramme(s, t)
  BY <1>5, <1>6, <1>8 DEF TellsProgramme, IsCall
<1>12. IsTurn(s, t)
  BY <1>5, <1>6, <1>7, <1>10, <1>11 DEF IsTurn
<1>13. QED
  BY <1>5, <1>6, <1>8, <1>9, <1>10, <1>12 DEF IsTalkTurn

\* The model's name for what a turn has said.
LEMMA NewlySaidIsSaid ==
  ASSUME NEW s, IsState(s), NEW t
  PROVE  NewlySaid(s, t) = Said(s, t)
BY LatestIsNext DEF NewlySaid, Said

\* What is noted of a turn's announcements: the one it makes, if it makes one.
LEMMA NotedSays ==
  ASSUME NEW s, IsState(s), NEW t
  PROVE  /\ (\A w \in Said(s, t) : ~ IsCall(w)) => Noted(s, t).call = lastCall.call
         /\ \A w : Said(s, t) = {w} /\ IsCall(w) => Noted(s, t).call = w
<1> DEFINE calls == {w \in NewlySaid(s, t) : w.kind \in {"opens", "closes"}}
<1>1. NewlySaid(s, t) = Said(s, t)
  BY NewlySaidIsSaid
<1>2. Noted(s, t).call = IF calls = {} THEN lastCall.call ELSE CHOOSE w \in calls : TRUE
  BY DEF Noted
<1>3. ASSUME \A w \in Said(s, t) : ~ IsCall(w)
      PROVE  Noted(s, t).call = lastCall.call
  <2>1. calls = {}
    BY <1>1, <1>3 DEF IsCall
  <2>2. QED
    BY <1>2, <2>1
<1>4. ASSUME NEW w, Said(s, t) = {w}, IsCall(w)
      PROVE  Noted(s, t).call = w
  <2>1. calls = {w}
    BY <1>1, <1>4 DEF IsCall
  <2>2. QED
    BY <1>2, <2>1
<1>5. QED
  BY <1>3, <1>4

-----------------------------------------------------------------------------
(* The invariant of hearing. *)

LEMMA InitHears == Init => AtmosphereInv
<1>1. SUFFICES ASSUME Init PROVE AtmosphereInv
  OBVIOUS
<1>2. PICK c : c = [cursor |-> 0, shown |-> <<>>]
  OBVIOUS
<1>3. client = c /\ c.cursor = 0 /\ c.shown = <<>> /\ c = [cursor |-> c.cursor, shown |-> c.shown]
  BY <1>1, <1>2 DEF Init
<1>4. c.shown \in Seq(Nat \X Nat) /\ DOMAIN c.shown = {} /\ Range(c.shown) = {}
  <2>1. PICK h : h = <<>>
    OBVIOUS
  <2>2. h \in Seq(Nat \X Nat) /\ Len(h) = 0
    BY <2>1, EmptySeq
  <2>3. DOMAIN h = 1..Len(h)
    BY <2>2, LenProperties
  <2>4. DOMAIN h = {}
    BY <2>2, <2>3
  <2>5. Range(h) = {}
    BY <2>4 DEF Range
  <2>6. QED
    BY <1>3, <2>1, <2>2, <2>4, <2>5
<1>5. IsClient(client)
  BY <1>3, <1>4 DEF IsClient
<1>6. state = Fresh /\ game = 1 /\ late = Nothing
  BY <1>1 DEF Init
<1>7. Shape
  BY <1>5, <1>6, FreshIsState DEF Shape
<1>8. HearingInv
  BY <1>3, <1>4, <1>6, FreshIsState DEF HearingInv, CursorIsEarned
<1>9. QED
  BY <1>7, <1>8 DEF AtmosphereInv

\* The game goes on and says more: what the client has heard stands.
LEMMA GrowingIsHeard ==
  ASSUME AtmosphereInv, IsState(state'), Begun(state'), Grows(state, state'),
         UNCHANGED <<game, client, late>>
  PROVE  AtmosphereInv'
<1>1. /\ IsState(state) /\ Begun(state) /\ game \in Nat /\ IsClient(client)
      /\ late = Nothing \/ IsLate(late)
      /\ state.nextId \in Nat /\ state'.nextId \in Nat /\ state.nextId <= state'.nextId
  BY Parts DEF AtmosphereInv, Shape, Grows
<1>2. /\ \A f \in Range(client.shown) : f[1] <= game /\ (f[1] = game => f[2] <= state.nextId)
      /\ CursorIsEarned
      /\ \A e \in Range(state.events) : Told(e) /\ e.id <= client.cursor => Passed(e)
      /\ late # Nothing => LateIsBehind
  BY DEF AtmosphereInv, HearingInv
<1>3. client' = client /\ game' = game /\ late' = late
  OBVIOUS
<1>4. client.cursor \in Nat /\ \A f \in Range(client.shown) : f[1] \in Nat /\ f[2] \in Nat
  <2>1. client.cursor \in Nat /\ client.shown \in Seq(Nat \X Nat)
    BY <1>1 DEF IsClient
  <2>2. Range(client.shown) \subseteq Nat \X Nat
    BY <2>1, OfItsOwnValues
  <2>3. QED
    BY <2>1, <2>2
<1>5. \A e \in Range(state'.events) : e.id \in Nat /\ (e \in Range(state.events) \/ e.id > state.nextId)
  BY DEF IsState, IsHistory, Grows
<1>6. Shape'
  <2>1. IsClient(client')
    BY <1>1, <1>3
  <2>2. late' = Nothing \/ IsLate(late)'
    BY <1>1, <1>3 DEF IsLate
  <2>3. QED
    BY <1>1, <1>3, <2>1, <2>2 DEF Shape
<1>7. \A f \in Range(client'.shown) : f[1] <= game' /\ (f[1] = game' => f[2] <= state'.nextId)
  BY <1>1, <1>2, <1>3, <1>4
<1>8. CursorIsEarned'
  BY <1>2, <1>3 DEF CursorIsEarned
<1>9. ASSUME NEW e \in Range(state'.events), Told(e), e.id <= client.cursor
      PROVE  Passed(e)
  <2>1. CASE e \in Range(state.events)
    BY <1>2, <1>9, <2>1
  <2>2. CASE e.id > state.nextId
    <3>1. client.cursor > state.nextId
      BY <1>1, <1>4, <1>5, <1>9, <2>2
    <3>2. ~ (client.cursor = 0) /\ ~ (HeavyRain /\ client.cursor = 1)
      BY <1>1, <1>4, <3>1 DEF Begun
    <3>3. PICK f \in Range(client.shown) : f[2] = client.cursor
      BY <1>2, <3>2 DEF CursorIsEarned
    <3>4. f[1] <= game /\ ~ (f[1] = game) /\ f[1] \in Nat
      BY <1>1, <1>2, <1>4, <3>1, <3>3
    <3>5. f[1] < game /\ f[2] >= e.id
      BY <1>1, <1>4, <1>5, <1>9, <3>3, <3>4
    <3>6. QED
      BY <3>5 DEF Passed
  <2>3. QED
    BY <1>5, <2>1, <2>2
<1>10. \A e \in Range(state'.events) : Told(e) /\ e.id <= client'.cursor => Passed(e)'
  BY <1>3, <1>9 DEF Passed
<1>11. ASSUME late' # Nothing
       PROVE  LateIsBehind'
  <2>1. SUFFICES ASSUME late'.game = game'
                 PROVE  /\ \A e \in Range(late'.events) : e.id <= state'.nextId
                        /\ \A e \in Range(state'.events) :
                             e \in Range(late'.events) \/ \A l \in Range(late'.events) : l.id < e.id
    BY DEF LateIsBehind
  <2>2. /\ \A l \in Range(late.events) : l.id <= state.nextId
        /\ \A e \in Range(state.events) :
             e \in Range(late.events) \/ \A l \in Range(late.events) : l.id < e.id
    BY <1>2, <1>3, <1>11, <2>1 DEF LateIsBehind
  <2>3. \A l \in Range(late.events) : l.id \in Nat
    BY <1>1, <1>3, <1>11 DEF IsLate, IsHistory
  <2>4. \A l \in Range(late.events) : l.id <= state'.nextId
    BY <1>1, <2>2, <2>3
  <2>5. ASSUME NEW e \in Range(state'.events)
        PROVE  e \in Range(late.events) \/ \A l \in Range(late.events) : l.id < e.id
    BY <1>1, <1>5, <2>2, <2>3
  <2>6. QED
    BY <1>3, <2>4, <2>5
<1>12. HearingInv'
  BY <1>7, <1>8, <1>10, <1>11 DEF HearingInv
<1>13. QED
  BY <1>6, <1>12 DEF AtmosphereInv

\* A new game has nothing to show yet, and holds nothing against the old cursor.
LEMMA CrashIsHeard == AtmosphereInv /\ Crash => AtmosphereInv'
<1>1. SUFFICES ASSUME AtmosphereInv, Crash PROVE AtmosphereInv'
  OBVIOUS
<1>2. state' = Fresh /\ game' = game + 1 /\ client' = client /\ late' = late
  BY <1>1 DEF Crash
<1>3. /\ game \in Nat /\ IsClient(client) /\ (late = Nothing \/ IsLate(late))
      /\ \A f \in Range(client.shown) : f[1] <= game
      /\ CursorIsEarned
  BY <1>1 DEF AtmosphereInv, Shape, HearingInv
<1>4. \A f \in Range(client.shown) : f[1] \in Nat
  <2>1. client.shown \in Seq(Nat \X Nat)
    BY <1>3 DEF IsClient
  <2>2. Range(client.shown) \subseteq Nat \X Nat
    BY <2>1, OfItsOwnValues
  <2>3. QED
    BY <2>2
<1>5. Shape'
  <2>1. late' = Nothing \/ IsLate(late)'
    BY <1>2, <1>3 DEF IsLate
  <2>2. QED
    BY <1>2, <1>3, <2>1, FreshIsState DEF Shape
<1>6. \A f \in Range(client'.shown) : f[1] <= game' /\ ~ (f[1] = game')
  BY <1>2, <1>3, <1>4
<1>7. CursorIsEarned'
  BY <1>2, <1>3 DEF CursorIsEarned
<1>8. \A e \in Range(state'.events) : ~ Told(e)
  BY <1>2, FreshIsState
<1>9. late' # Nothing => LateIsBehind'
  BY <1>2, <1>3 DEF IsLate, LateIsBehind
<1>10. QED
  BY <1>5, <1>6, <1>7, <1>8, <1>9 DEF AtmosphereInv, HearingInv

\* The client goes through a view: of the present, or of a late answer.
LEMMA HearingIsHeard ==
  ASSUME AtmosphereInv, NEW view, IsLate(view), view.game = game => 
           /\ \A e \in Range(view.events) : e.id <= state.nextId
           /\ \A e \in Range(state.events) :
                e \in Range(view.events) \/ \A l \in Range(view.events) : l.id < e.id,
         client' = ApplyGameplayEvents(client, view), UNCHANGED <<state, game>>
  PROVE  /\ IsClient(client')
         /\ \A f \in Range(client'.shown) : f[1] <= game /\ (f[1] = game => f[2] <= state.nextId)
         /\ CursorIsEarned'
         /\ \A e \in Range(state.events) : Told(e) /\ e.id <= client'.cursor => Passed(e)'
<1> DEFINE E == Range(view.events)
<1>1. PICK c : c = client'
  OBVIOUS
<1>2. /\ IsState(state) /\ game \in Nat /\ IsClient(client) /\ state.nextId \in Nat
  BY Parts DEF AtmosphereInv, Shape
<1>3. /\ \A f \in Range(client.shown) : f[1] <= game /\ (f[1] = game => f[2] <= state.nextId)
      /\ CursorIsEarned
      /\ \A e \in Range(state.events) : Told(e) /\ e.id <= client.cursor => Passed(e)
  BY DEF AtmosphereInv, HearingInv
<1>4. PICK latest \in Nat : IsHistory(view.events, latest)
  BY DEF IsLate
<1>5. view.game \in Nat /\ view.game <= game
  BY DEF IsLate
<1>6. HasHeard(client, c, view.game, E)
  BY <1>1, <1>2, <1>4, <1>5, ViewIsHeard
<1>7. /\ \A e \in E : e.id \in Nat /\ ((~ Told(e)) <=> (HeavyRain /\ e.id = 1))
      /\ \A e \in Range(state.events) : e.id \in Nat /\ e.id >= 1
                                        /\ ((~ Told(e)) <=> (HeavyRain /\ e.id = 1))
  BY <1>2, <1>4 DEF IsHistory, IsState
<1>8. /\ IsClient(c) /\ client.cursor <= c.cursor /\ client.cursor \in Nat /\ c.cursor \in Nat
      /\ Range(client.shown) \subseteq Range(c.shown)
      /\ \A f \in Range(c.shown) : f \in Range(client.shown)
                                   \/ \E e \in E : e.id > client.cursor /\ f = <<view.game, e.id>>
      /\ \A e \in E : e.id > client.cursor /\ Told(e) => <<view.game, e.id>> \in Range(c.shown)
      /\ c.cursor = client.cursor \/ \E e \in E : e.id > client.cursor /\ c.cursor = e.id
  BY <1>2, <1>6 DEF HasHeard, IsClient
<1> HIDE DEF E
<1>9. ASSUME NEW f \in Range(c.shown)
      PROVE  f[1] <= game /\ (f[1] = game => f[2] <= state.nextId)
  <2>1. CASE f \in Range(client.shown)
    BY <1>3, <2>1
  <2>2. CASE f \notin Range(client.shown)
    <3>1. PICK e \in E : f = <<view.game, e.id>>
      BY <1>8, <2>2
    <3>2. f[1] = view.game /\ f[2] = e.id
      BY <3>1
    <3>3. QED
      BY <1>5, <3>2 DEF E
  <2>3. QED
    BY <2>1, <2>2
<1>10. \A e \in E : e.id > client.cursor /\ Told(e) => \E f \in Range(c.shown) : f[1] = view.game /\ f[2] = e.id
  <2>1. ASSUME NEW e \in E, e.id > client.cursor, Told(e)
        PROVE  \E f \in Range(c.shown) : f[1] = view.game /\ f[2] = e.id
    <3>1. <<view.game, e.id>> \in Range(c.shown)
      BY <1>8, <2>1
    <3>2. QED
      BY <3>1
  <2>2. QED
    BY <2>1
<1>11. \/ c.cursor = 0
       \/ HeavyRain /\ c.cursor = 1
       \/ \E f \in Range(c.shown) : f[2] = c.cursor
  <2>1. CASE c.cursor = client.cursor
    BY <1>3, <1>8, <2>1 DEF CursorIsEarned
  <2>2. CASE c.cursor # client.cursor
    <3>1. PICK e \in E : e.id > client.cursor /\ c.cursor = e.id
      BY <1>8, <2>2
    <3>2. QED
      BY <1>7, <1>10, <3>1
  <2>3. QED
    BY <2>1, <2>2
<1>12. ASSUME NEW e \in Range(state.events), Told(e), e.id <= c.cursor
       PROVE  \/ <<game, e.id>> \in Range(c.shown)
              \/ \E f \in Range(c.shown) : f[1] < game /\ f[2] >= e.id
  <2>1. CASE e.id <= client.cursor
    BY <1>3, <1>8, <1>12, <2>1 DEF Passed
  <2>2. CASE ~ (e.id <= client.cursor)
    <3>1. c.cursor # client.cursor /\ e.id > client.cursor
      BY <1>7, <1>8, <1>12, <2>2
    <3>2. PICK l \in E : l.id > client.cursor /\ c.cursor = l.id
      BY <1>8, <3>1
    <3>3. CASE view.game = game
      <4>1. e \in E
        BY <1>7, <1>12, <3>2, <3>3 DEF E
      <4>2. QED
        BY <1>8, <1>12, <3>1, <3>3, <4>1
    <3>4. CASE view.game # game
      <4>1. view.game < game
        BY <1>2, <1>5, <3>4
      <4>2. Told(l)
        <5>1. SUFFICES ASSUME ~ Told(l) PROVE FALSE
          OBVIOUS
        <5>2. HeavyRain /\ l.id = 1
          BY <1>7, <5>1
        <5>3. e.id = 1
          BY <1>7, <1>12, <3>2, <5>2
        <5>4. QED
          BY <1>7, <1>12, <5>2, <5>3
      <4>3. PICK f \in Range(c.shown) : f[1] = view.game /\ f[2] = l.id
        BY <1>10, <3>2, <4>2
      <4>4. f[1] < game /\ f[2] >= e.id
        BY <1>7, <1>12, <3>2, <4>1, <4>3
      <4>5. QED
        BY <4>4
    <3>5. QED
      BY <3>3, <3>4
  <2>3. QED
    BY <2>1, <2>2
<1>13. QED
  BY <1>1, <1>8, <1>9, <1>11, <1>12 DEF CursorIsEarned, Passed

LEMMA LookIsHeard == AtmosphereInv /\ Look => AtmosphereInv'
<1>1. SUFFICES ASSUME AtmosphereInv, Look PROVE AtmosphereInv'
  OBVIOUS
<1>2. client' = ApplyGameplayEvents(client, View) /\ state' = state /\ game' = game /\ late' = late
  BY <1>1 DEF Look
<1>3. PICK view : view = View
  OBVIOUS
<1>4. /\ view = [game |-> game, events |-> state.events]
      /\ view.game = game /\ view.events = state.events
  BY <1>3 DEF View
<1>5. IsState(state) /\ game \in Nat /\ (late = Nothing \/ IsLate(late)) /\ Begun(state)
      /\ (late # Nothing => LateIsBehind)
  BY <1>1 DEF AtmosphereInv, Shape, HearingInv
<1>6. IsLate(view)
  BY <1>4, <1>5 DEF IsLate, IsState
<1>7. \A e \in Range(state.events) : e.id <= state.nextId
  BY <1>5 DEF IsState, IsHistory
<1>8. /\ IsClient(client')
      /\ \A f \in Range(client'.shown) : f[1] <= game /\ (f[1] = game => f[2] <= state.nextId)
      /\ CursorIsEarned'
      /\ \A e \in Range(state.events) : Told(e) /\ e.id <= client'.cursor => Passed(e)'
  BY <1>1, <1>2, <1>3, <1>4, <1>6, <1>7, HearingIsHeard
<1>9. Shape'
  BY <1>2, <1>5, <1>8 DEF Shape, IsLate
<1>10. late' # Nothing => LateIsBehind'
  BY <1>2, <1>5 DEF LateIsBehind
<1>11. HearingInv'
  BY <1>2, <1>8, <1>10 DEF HearingInv
<1>12. QED
  BY <1>9, <1>11 DEF AtmosphereInv

LEMMA AnswerIsHeard == AtmosphereInv /\ Answer => AtmosphereInv'
<1>1. SUFFICES ASSUME AtmosphereInv, Answer PROVE AtmosphereInv'
  OBVIOUS
<1>2. late' = View /\ state' = state /\ game' = game /\ client' = client
  BY <1>1 DEF Answer
<1>3. PICK view : view = View
  OBVIOUS
<1>4. /\ view = [game |-> view.game, events |-> view.events]
      /\ view.game = game /\ view.events = state.events /\ late' = view
  BY <1>2, <1>3 DEF View
<1>5. IsState(state) /\ game \in Nat /\ IsClient(client) /\ Begun(state)
  BY <1>1 DEF AtmosphereInv, Shape
<1>6. IsLate(late)'
  BY <1>2, <1>4, <1>5 DEF IsLate, IsState
<1>7. Shape'
  BY <1>2, <1>5, <1>6 DEF Shape
<1>8. \A e \in Range(state.events) : e.id <= state.nextId
  BY <1>5 DEF IsState, IsHistory
<1>9. LateIsBehind'
  BY <1>2, <1>4, <1>8 DEF LateIsBehind
<1>10. /\ \A f \in Range(client.shown) : f[1] <= game /\ (f[1] = game => f[2] <= state.nextId)
       /\ CursorIsEarned
       /\ \A e \in Range(state.events) : Told(e) /\ e.id <= client.cursor => Passed(e)
  BY <1>1 DEF AtmosphereInv, HearingInv
<1>11. /\ \A f \in Range(client'.shown) : f[1] <= game' /\ (f[1] = game' => f[2] <= state'.nextId)
       /\ CursorIsEarned'
       /\ \A e \in Range(state'.events) : Told(e) /\ e.id <= client'.cursor => Passed(e)'
  BY <1>2, <1>10 DEF CursorIsEarned, Passed
<1>12. QED
  BY <1>7, <1>9, <1>11 DEF AtmosphereInv, HearingInv

LEMMA DeliverIsHeard == AtmosphereInv /\ Deliver => AtmosphereInv'
<1>1. SUFFICES ASSUME AtmosphereInv, Deliver PROVE AtmosphereInv'
  OBVIOUS
<1>2. /\ late # Nothing /\ client' = ApplyGameplayEvents(client, late) /\ late' = Nothing
      /\ state' = state /\ game' = game
  BY <1>1 DEF Deliver
<1>3. IsState(state) /\ game \in Nat /\ IsLate(late) /\ Begun(state) /\ LateIsBehind
  BY <1>1, <1>2 DEF AtmosphereInv, Shape, HearingInv
<1>4. late.game = game =>
        /\ \A e \in Range(late.events) : e.id <= state.nextId
        /\ \A e \in Range(state.events) :
             e \in Range(late.events) \/ \A l \in Range(late.events) : l.id < e.id
  BY <1>3 DEF LateIsBehind
<1>5. /\ IsClient(client')
      /\ \A f \in Range(client'.shown) : f[1] <= game /\ (f[1] = game => f[2] <= state.nextId)
      /\ CursorIsEarned'
      /\ \A e \in Range(state.events) : Told(e) /\ e.id <= client'.cursor => Passed(e)'
  BY <1>1, <1>2, <1>3, <1>4, HearingIsHeard
<1>6. Shape'
  BY <1>2, <1>3, <1>5 DEF Shape
<1>7. HearingInv'
  BY <1>2, <1>5 DEF HearingInv
<1>8. QED
  BY <1>6, <1>7 DEF AtmosphereInv

\* What the turns of the player do.
LEMMA TurnTaken ==
  ASSUME AtmosphereInv, Walk \/ Talk
  PROVE  /\ IsWalkTurn(state, state') \/ IsTalkTurn(state, state')
         /\ IsTurn(state, state') /\ lastCall' = Noted(state, state')
         /\ UNCHANGED <<game, client, late>>
<1>1. IsState(state) /\ Begun(state)
  BY DEF AtmosphereInv, Shape
<1>2. CASE Walk
  <2>1. PICK p \in Steps[state.spot] : TakeTurn([state EXCEPT !.spot = p])
    BY <1>2 DEF Walk
  <2>2. state' \in AdvanceWorldAtmosphere([state EXCEPT !.spot = p])
    BY <2>1 DEF TakeTurn
  <2>3. IsWalkTurn(state, state')
    BY <1>1, <2>2, WalkTurn
  <2>4. QED
    BY <2>1, <2>3 DEF TakeTurn, IsWalkTurn
<1>3. CASE Talk
  <2>1. PICK places \in Acquainted(state) :
          \E s \in Suppress(AppendEvent([state EXCEPT !.discovered = places], OwnWords)) : TakeTurn(s)
    BY <1>3 DEF Talk
  <2>2. PICK u \in Suppress(AppendEvent([state EXCEPT !.discovered = places], OwnWords)) : TakeTurn(u)
    BY <2>1
  <2>3. state' \in AdvanceWorldAtmosphere(u)
    BY <2>2 DEF TakeTurn
  <2>4. IsTalkTurn(state, state')
    BY <1>1, <2>1, <2>2, <2>3, TalkTurn
  <2>5. QED
    BY <2>2, <2>4 DEF TakeTurn, IsTalkTurn
<1>4. QED
  BY <1>2, <1>3

LEMMA RestartKeeps ==
  ASSUME AtmosphereInv, Restart
  PROVE  /\ IsState(state') /\ Begun(state') /\ Grows(state, state') /\ SameButHistory(state, state')
         /\ UNCHANGED <<game, client, late, lastCall>>
<1>1. IsState(state) /\ Begun(state) /\ state' = Prepared(state) /\ state.nextId \in Nat
  BY Parts DEF AtmosphereInv, Shape, Restart
<1>2. /\ IsState(state') /\ Begun(state') /\ SameButHistory(state, state')
      /\ state'.nextId = state.nextId /\ Range(state'.events) \subseteq Range(state.events)
  BY <1>1, PreparedKeeps
<1>3. Grows(state, state')
  BY <1>1, <1>2 DEF Grows
<1>4. QED
  BY <1>2, <1>3 DEF Restart

LEMMA StepsAreHeard == AtmosphereInv /\ [Next]_vars => AtmosphereInv'
<1>1. SUFFICES ASSUME AtmosphereInv, [Next]_vars PROVE AtmosphereInv'
  OBVIOUS
<1>2. CASE Walk \/ Talk
  BY <1>1, <1>2, TurnTaken, GrowingIsHeard DEF IsTurn
<1>3. CASE Restart
  BY <1>1, <1>3, RestartKeeps, GrowingIsHeard
<1>4. CASE Crash
  BY <1>1, <1>4, CrashIsHeard
<1>5. CASE Look
  BY <1>1, <1>5, LookIsHeard
<1>6. CASE Answer
  BY <1>1, <1>6, AnswerIsHeard
<1>7. CASE Deliver
  BY <1>1, <1>7, DeliverIsHeard
<1>8. CASE UNCHANGED vars
  <2>1. /\ state' = state /\ game' = game /\ client' = client /\ late' = late
    BY <1>8 DEF vars
  <2>2. Shape'
    BY <1>1, <2>1 DEF AtmosphereInv, Shape, IsLate
  <2>3. HearingInv'
    BY <1>1, <2>1 DEF AtmosphereInv, HearingInv, CursorIsEarned, LateIsBehind, Passed
  <2>4. QED
    BY <2>2, <2>3 DEF AtmosphereInv
<1>9. QED
  BY <1>1, <1>2, <1>3, <1>4, <1>5, <1>6, <1>7, <1>8 DEF Next

LEMMA InvHears == AtmosphereInv => HeardOnceAndAll
<1>1. SUFFICES ASSUME AtmosphereInv PROVE HeardOnceAndAll
  OBVIOUS
<1>2. IsState(state) /\ game \in Nat /\ IsClient(client) /\ state.nextId \in Nat
  BY <1>1, Parts DEF AtmosphereInv, Shape
<1>3. IsInjective(client.shown)
  <2>1. client.shown \in Seq(Nat \X Nat)
        /\ \A i, j \in DOMAIN client.shown : i < j => client.shown[i][2] < client.shown[j][2]
    BY <1>2 DEF IsClient
  <2>2. Len(client.shown) \in Nat /\ DOMAIN client.shown = 1..Len(client.shown)
        /\ Range(client.shown) \subseteq Nat \X Nat
    BY <2>1, OfItsOwnValues
  <2>3. ASSUME NEW i \in DOMAIN client.shown, NEW j \in DOMAIN client.shown,
               client.shown[i] = client.shown[j]
        PROVE  i = j
    <3>1. client.shown[i] \in Nat \X Nat
      BY <2>2 DEF Range
    <3>2. client.shown[i][2] \in Nat
      BY <3>1
    <3>3. ~ (i < j) /\ ~ (j < i)
      BY <2>1, <2>3, <3>2
    <3>4. i \in Nat /\ j \in Nat
      BY <2>2
    <3>5. QED
      BY <3>3, <3>4
  <2>4. QED
    BY <2>3 DEF IsInjective
<1>4. PICK view : view = View
  OBVIOUS
<1>5. view.game = game /\ view.events = state.events
  BY <1>4 DEF View
<1>6. IsHistory(view.events, state.nextId)
  BY <1>2, <1>5 DEF IsState
<1>7. PICK c : c = ApplyGameplayEvents(client, view)
  OBVIOUS
<1>8. HasHeard(client, c, game, Range(state.events))
  BY <1>2, <1>5, <1>6, <1>7, ViewIsHeard
<1>9. \A e \in Range(state.events) : e.id \in Nat
  BY <1>2 DEF IsState, IsHistory
<1>10. client.cursor \in Nat
  BY <1>2 DEF IsClient
<1>11. ASSUME NEW e \in Range(state.events), Told(e)
       PROVE  \/ <<game, e.id>> \in Range(c.shown)
              \/ \E f \in Range(client.shown) : f[1] < game /\ f[2] >= e.id
  <2>1. CASE e.id > client.cursor
    BY <1>8, <1>11, <2>1 DEF HasHeard
  <2>2. CASE e.id <= client.cursor
    <3>1. Passed(e)
      BY <1>1, <1>11, <2>2 DEF AtmosphereInv, HearingInv
    <3>2. Range(client.shown) \subseteq Range(c.shown)
      BY <1>8 DEF HasHeard
    <3>3. QED
      BY <3>1, <3>2 DEF Passed
  <2>3. QED
    BY <1>9, <1>10, <2>1, <2>2
<1>12. QED
  BY <1>3, <1>4, <1>7, <1>11 DEF HeardOnceAndAll, Told

-----------------------------------------------------------------------------
(* The theorems on the client. *)

\* The invariant behind both: states have their shape, and the cursor, the late
\* answer and what was shown agree (gameplayEvents.ts, applyGameplayEvents).
THEOREM AtmosphereInvariant == Spec => []AtmosphereInv
<1>1. Init => AtmosphereInv
  BY InitHears
<1>2. AtmosphereInv /\ [Next]_vars => AtmosphereInv'
  BY StepsAreHeard
<1>3. QED
  BY <1>1, <1>2, PTL DEF Spec

\* The client shows no message twice, and misses only what a crash costs: the
\* cursor of applyGameplayEvents against late answers, restarts, a history
\* that forgets and games that are lost.
THEOREM HearsOnceAndAll == Spec => []HeardOnceAndAll
<1>1. AtmosphereInv => HeardOnceAndAll
  BY InvHears
<1>2. QED
  BY <1>1, AtmosphereInvariant, PTL

\* Only the player's actions take turns of a game.
LEMMA TurnIsTaken ==
  ASSUME AtmosphereInv, [Next]_vars, game' = game, state'.turn # state.turn
  PROVE  /\ IsWalkTurn(state, state') \/ IsTalkTurn(state, state')
         /\ NewlySaid(state, state') = Said(state, state')
         /\ LatestId(state) = state.nextId /\ LatestId(state') = state'.nextId
<1>1. ~ Restart
  BY RestartKeeps DEF SameButHistory
<1>2. ~ Crash
  <2>1. game \in Nat
    BY DEF AtmosphereInv, Shape
  <2>2. QED
    BY <2>1 DEF Crash
<1>3. Walk \/ Talk
  BY <1>1, <1>2 DEF Next, vars, Look, Answer, Deliver
<1>4. IsState(state) /\ IsState(state')
  BY <1>3, TurnTaken DEF AtmosphereInv, Shape, IsTurn
<1>5. QED
  BY <1>3, <1>4, TurnTaken, NewlySaidIsSaid, LatestIsNext

\* The places a turn has marked and those it has told of.
Found == state'.discovered \ state.discovered

ToldOf == {w.about : w \in {v \in NewlySaid(state, state') : v.kind = "discovers"}}

\* On the campground a turn says one thing at most and nothing beside words of
\* its own, and a place is told when it is marked: the single message of
\* advanceCampgroundAtmosphere, the turns that suppressCampgroundAtmosphere
\* takes for the action's own message, and the sign of completeWelcomeFavor.
THEOREM OneVoiceATurnHolds == Spec => OneVoiceATurn
<1>1. ASSUME AtmosphereInv, [Next]_vars, game' = game, state'.turn # state.turn
      PROVE  /\ Level[state'.spot] = 0 =>
                  IF OwnWords \in NewlySaid(state, state') THEN NewlySaid(state, state') = {OwnWords}
                  ELSE LatestId(state') <= LatestId(state) + 1
             /\ state.discovered \subseteq state'.discovered
             /\ \/ ToldOf = Found
                \/ ToldOf = {} /\ Found = {WelcomeCamp} /\ OwnWords \in NewlySaid(state, state')
  <2>1. /\ IsWalkTurn(state, state') \/ IsTalkTurn(state, state')
        /\ NewlySaid(state, state') = Said(state, state')
        /\ LatestId(state) = state.nextId /\ LatestId(state') = state'.nextId
    BY <1>1, TurnIsTaken
  <2>2. state.discovered \subseteq state'.discovered
    BY <2>1 DEF IsWalkTurn, IsTalkTurn, IsTurn
  <2>3. CASE IsWalkTurn(state, state')
    <3>1. /\ TellsPlaces(state, state') /\ OwnWords \notin NewlySaid(state, state')
          /\ Level[state'.spot] = 0 => LatestId(state') <= LatestId(state) + 1
      BY <2>1, <2>3 DEF IsWalkTurn
    <3>2. ToldOf = Found
      <4>1. CASE /\ state'.discovered = state.discovered
                 /\ \A w \in Said(state, state') : w.kind # "discovers"
        BY <2>1, <4>1 DEF ToldOf, Found
      <4>2. ASSUME NEW q \in Range(Placements) \ state.discovered,
                   state'.discovered = state.discovered \union {q},
                   Said(state, state') = {[kind |-> "discovers", about |-> q]}
            PROVE  ToldOf = Found
        <5>1. PICK w : w = [kind |-> "discovers", about |-> q]
          OBVIOUS
        <5>2. w.kind = "discovers" /\ w.about = q
          BY <5>1
        <5>3. {v \in NewlySaid(state, state') : v.kind = "discovers"} = {w}
          BY <2>1, <4>2, <5>1, <5>2
        <5>4. ToldOf = {w.about}
          BY <5>3 DEF ToldOf
        <5>5. QED
          BY <4>2, <5>2, <5>4 DEF Found
      <4>3. QED
        BY <3>1, <4>1, <4>2 DEF TellsPlaces
    <3>3. QED
      BY <2>2, <3>1, <3>2
  <2>4. CASE IsTalkTurn(state, state')
    <3>1. ToldOf = {}
      BY <2>1, <2>4 DEF IsTalkTurn, ToldOf
    <3>2. Level[state'.spot] = 0 => NewlySaid(state, state') = {OwnWords}
      BY <2>1, <2>4 DEF IsTalkTurn
    <3>3. \/ Found = {}
          \/ Found = {WelcomeCamp} /\ OwnWords \in NewlySaid(state, state')
      BY <2>4, <3>2 DEF IsTalkTurn, Found
    <3>4. QED
      BY <2>2, <3>1, <3>2, <3>3
  <2>5. QED
    BY <2>1, <2>3, <2>4
<1>2. AtmosphereInv /\ [Next]_vars =>
        [game' = game /\ state'.turn # state.turn =>
           LET said == NewlySaid(state, state')
               found == state'.discovered \ state.discovered
               told == {w.about : w \in {v \in said : v.kind = "discovers"}}
           IN  /\ Level[state'.spot] = 0 =>
                    IF OwnWords \in said THEN said = {OwnWords}
                    ELSE LatestId(state') <= LatestId(state) + 1
               /\ state.discovered \subseteq state'.discovered
               /\ \/ told = found
                  \/ told = {} /\ found = {WelcomeCamp} /\ OwnWords \in said
        ]_vars
  BY <1>1 DEF ToldOf, Found
<1>3. QED
  BY <1>2, AtmosphereInvariant, PTL DEF Spec, OneVoiceATurn

\* A turn is never taken for occupied before the action that occupies it.
Punctual == state.ambience.lastMessageTurn <= state.turn

LEMMA AlwaysPunctual == Spec => []Punctual
<1>1. state = Fresh => Punctual
  BY FreshIsState DEF Punctual
<1>2. AtmosphereInv /\ Punctual /\ [Next]_vars => Punctual'
  <2>1. SUFFICES ASSUME AtmosphereInv, Punctual, [Next]_vars PROVE Punctual'
    OBVIOUS
  <2>2. CASE Walk \/ Talk
    BY <2>1, <2>2, TurnTaken DEF IsTurn, Punctual
  <2>3. CASE Restart
    BY <2>1, <2>3, RestartKeeps DEF SameButHistory, Punctual
  <2>4. CASE Crash
    BY <2>4, FreshIsState DEF Crash, Punctual
  <2>5. CASE Look \/ Answer \/ Deliver \/ UNCHANGED vars
    BY <2>1, <2>5 DEF Look, Answer, Deliver, vars, Punctual
  <2>6. QED
    BY <2>1, <2>2, <2>3, <2>4, <2>5 DEF Next
<1>3. Init => Punctual
  BY <1>1 DEF Init
<1>4. QED
  BY <1>2, <1>3, AtmosphereInvariant, PTL DEF Spec

\* What is due waits for no more than the turns with words of their own, and
\* loses nothing by them: suppressCampgroundAtmosphere against the order of
\* advanceCampgroundAtmosphere.
THEOREM DueIsToldHolds == Spec => DueIsTold
<1>1. ASSUME AtmosphereInv, Punctual, [Next]_vars,
             game' = game, state'.turn # state.turn, Level[state'.spot] = 0
      PROVE  IF OwnWords \in NewlySaid(state, state')
             THEN /\ state'.event = state.event
                  /\ state'.ambience.nextTurn = state.ambience.nextTurn
                  /\ \A i \in DiscoveryCandidates(state) :
                       i \in DiscoveryCandidates(state') \/ Placements[i] = WelcomeCamp
             ELSE Pending(state, state'.turn, state'.spot) => NewlySaid(state, state') # {}
  <2>1. /\ IsWalkTurn(state, state') \/ IsTalkTurn(state, state')
        /\ NewlySaid(state, state') = Said(state, state')
    BY <1>1, TurnIsTaken
  <2>2. CASE IsWalkTurn(state, state')
    BY <1>1, <2>1, <2>2 DEF IsWalkTurn, Punctual
  <2>3. CASE IsTalkTurn(state, state')
    <3>1. /\ OwnWords \in NewlySaid(state, state') /\ state'.event = state.event
          /\ state'.ambience.nextTurn = state.ambience.nextTurn
          /\ state'.spot = state.spot
          /\ state'.discovered \subseteq state.discovered \union {WelcomeCamp}
      BY <1>1, <2>1, <2>3 DEF IsTalkTurn
    <3>2. \A i \in DiscoveryCandidates(state) :
            i \in DiscoveryCandidates(state') \/ Placements[i] = WelcomeCamp
      BY <3>1 DEF DiscoveryCandidates
    <3>3. QED
      BY <3>1, <3>2
  <2>4. QED
    BY <2>1, <2>2, <2>3
<1>2. AtmosphereInv /\ Punctual /\ [Next]_vars =>
        [game' = game /\ state'.turn # state.turn /\ Level[state'.spot] = 0 =>
           IF OwnWords \in NewlySaid(state, state')
           THEN /\ state'.event = state.event
                /\ state'.ambience.nextTurn = state.ambience.nextTurn
                /\ \A i \in DiscoveryCandidates(state) :
                     i \in DiscoveryCandidates(state') \/ Placements[i] = WelcomeCamp
           ELSE Pending(state, state'.turn, state'.spot) => NewlySaid(state, state') # {}
        ]_vars
  BY <1>1
<1>3. QED
  BY <1>2, AtmosphereInvariant, AlwaysPunctual, PTL DEF Spec, DueIsTold

-----------------------------------------------------------------------------
(* The programme. *)

\* Another event is taken when there is another.
LEMMA NextIsAnother ==
  ASSUME NEW s, NEW e \in NextEvents(s)
  PROVE  /\ e \in Eligible(s)
         /\ Cardinality(Eligible(s)) > 1 => e.kind # s.event.kind
<1> DEFINE others == {d \in Eligible(s) : d.kind # s.event.kind}
<1>1. e \in Eligible(s)
  BY DEF NextEvents
<1>2. ASSUME Cardinality(Eligible(s)) > 1
      PROVE  others # {}
  <2>1. SUFFICES ASSUME others = {} PROVE FALSE
    OBVIOUS
  <2>2. \A d \in Eligible(s) : d.kind = s.event.kind
    BY <2>1
  <2>3. \A d \in Eligible(s) : d \in Programme
    BY DEF Eligible
  <2>4. Eligible(s) = {e}
    BY <1>1, <2>2, <2>3, ProgrammeAssumption
  <2>5. Cardinality(Eligible(s)) = 1
    BY <2>4, FS_Singleton
  <2>6. QED
    BY <1>2, <2>5
<1>3. ASSUME Cardinality(Eligible(s)) > 1
      PROVE  e.kind # s.event.kind
  <2>1. NextEvents(s) = others
    BY <1>2, <1>3 DEF NextEvents
  <2>2. QED
    BY <2>1
<1>4. QED
  BY <1>1, <1>3

\* With somebody to host an event there is an event to come.
LEMMA HostedHasNext ==
  ASSUME NEW s, Hosted(s)
  PROVE  NextEvents(s) # {}
BY DEF Hosted, NextEvents

\* Who hosts goes on hosting: places are not forgotten.
LEMMA HostedStays ==
  ASSUME NEW s, NEW t, s.discovered \subseteq t.discovered,
         NEW e \in Eligible(s), t.event.kind = e.kind, t.event.host = e.host
  PROVE  Hosted(t)
BY DEF Hosted, Eligible

\* What a turn makes of the programme and its last announcement.
LEMMA ProgrammeTurn ==
  ASSUME ProgrammeInv, IsState(state), IsTurn(state, state'), lastCall' = Noted(state, state')
  PROVE  /\ ProgrammeInv'
         /\ lastCall'.call # lastCall.call =>
              IF lastCall'.call.kind = "closes"
              THEN lastCall.call = [kind |-> "opens", about |-> lastCall'.call.about]
              ELSE lastCall.call.kind # "opens"
         /\ /\ state'.event.phase = "scheduled" /\ state.event.phase # "scheduled"
            /\ lastCall.call.kind = "closes" /\ Cardinality(Eligible(state)) > 1
            => state'.event.kind # lastCall.call.about
<1>1. TellsProgramme(state, state')
  BY DEF IsTurn
<1>2. state.discovered \subseteq state'.discovered
  BY DEF IsTurn
<1>3. /\ (\A w \in Said(state, state') : ~ IsCall(w)) => lastCall'.call = lastCall.call
      /\ \A w : Said(state, state') = {w} /\ IsCall(w) => lastCall'.call = w
  BY NotedSays
<1>4. CASE state'.event = state.event /\ \A w \in Said(state, state') : ~ IsCall(w)
  <2>1. lastCall'.call = lastCall.call
    BY <1>3, <1>4
  <2>2. Hosted(state) => Hosted(state')
    BY <1>2, <1>4, HostedStays DEF Hosted
  <2>3. ProgrammeInv'
    BY <1>4, <2>1, <2>2 DEF ProgrammeInv
  <2>4. QED
    BY <1>4, <2>1, <2>3
<1>5. ASSUME NEW step, state'.event = step.state.event, IsRescheduled(state, step),
             \A w \in Said(state, state') : ~ IsCall(w)
      PROVE  /\ ProgrammeInv' /\ lastCall'.call = lastCall.call
             /\ /\ state'.event.phase = "scheduled" /\ state.event.phase # "scheduled"
                /\ lastCall.call.kind = "closes" /\ Cardinality(Eligible(state)) > 1
                => state'.event.kind # lastCall.call.about
  <2>1. lastCall'.call = lastCall.call
    BY <1>3, <1>5
  <2>2. state.event.phase \in {"cooldown", "scheduled"} /\ lastCall.call.kind # "opens"
    BY <1>5 DEF IsRescheduled, ProgrammeInv
  <2>3. CASE /\ NextEvents(state) = {} /\ state'.event.phase = "cooldown"
             /\ state'.event.kind = state.event.kind /\ state'.event.host = state.event.host
    <3>1. ~ Hosted(state)
      BY <2>3, HostedHasNext
    <3>2. state.event.phase = "cooldown"
      BY <2>2, <3>1 DEF ProgrammeInv
    <3>3. QED
      BY <2>1, <2>2, <2>3, <3>2 DEF ProgrammeInv
  <2>4. ASSUME NEW e \in NextEvents(state), state'.event.phase = "scheduled",
               state'.event.kind = e.kind, state'.event.host = e.host
        PROVE  /\ ProgrammeInv'
               /\ /\ state.event.phase # "scheduled"
                  /\ lastCall.call.kind = "closes" /\ Cardinality(Eligible(state)) > 1
                  => state'.event.kind # lastCall.call.about
    <3>1. e \in Eligible(state) /\ (Cardinality(Eligible(state)) > 1 => e.kind # state.event.kind)
      BY <2>4, NextIsAnother
    <3>2. Hosted(state')
      BY <1>2, <2>4, <3>1, HostedStays
    <3>3. ProgrammeInv'
      BY <2>1, <2>2, <2>4, <3>2 DEF ProgrammeInv
    <3>4. state.event.phase # "scheduled" /\ lastCall.call.kind = "closes" =>
            state.event.kind = lastCall.call.about
      BY <2>2 DEF ProgrammeInv
    <3>5. QED
      BY <2>4, <3>1, <3>3, <3>4
  <2>5. IsScheduled(state, step.state)
    BY <1>5 DEF IsRescheduled
  <2>6. CASE \E e \in NextEvents(state) :
               /\ state'.event.phase = "scheduled"
               /\ state'.event.kind = e.kind /\ state'.event.host = e.host
    BY <2>1, <2>4, <2>6
  <2>7. CASE ~ (state'.event.phase = "scheduled")
    BY <1>5, <2>1, <2>3, <2>5, <2>7 DEF IsScheduled
  <2>8. QED
    BY <1>5, <2>1, <2>3, <2>5, <2>6, <2>7 DEF IsScheduled
<1>6. ASSUME NEW step, state'.event = step.state.event, Opens(state, step),
             Said(state, state') = {step.call}
      PROVE  ProgrammeInv' /\ lastCall'.call.kind = "opens" /\ lastCall.call.kind # "opens"
             /\ state'.event.phase = "active"
  <2>1. lastCall'.call = step.call
    BY <1>3, <1>6, CallsAreCalls
  <2>2. /\ state.event.phase = "scheduled" /\ Hosted(state) /\ state'.event.phase = "active"
        /\ lastCall'.call = [kind |-> "opens", about |-> state.event.kind]
        /\ state'.event.kind = state.event.kind /\ state'.event.host = state.event.host
    BY <1>6, <2>1 DEF Opens
  <2>3. Hosted(state')
    BY <1>2, <2>2, HostedStays DEF Hosted
  <2>4. lastCall.call.kind # "opens"
    BY <2>2 DEF ProgrammeInv
  <2>5. lastCall'.call.kind = "opens"
    BY <2>2
  <2>6. ProgrammeInv'
    BY <2>2, <2>3 DEF ProgrammeInv
  <2>7. QED
    BY <2>2, <2>4, <2>5, <2>6
<1>7. ASSUME NEW step, state'.event = step.state.event, Closes(state, step),
             Said(state, state') = {step.call}
      PROVE  ProgrammeInv' /\ lastCall'.call.kind = "closes"
             /\ lastCall.call = [kind |-> "opens", about |-> lastCall'.call.about]
             /\ state'.event.phase = "cooldown"
  <2>1. lastCall'.call = step.call
    BY <1>3, <1>7, CallsAreCalls
  <2>2. /\ state.event.phase = "active" /\ state'.event.phase = "cooldown"
        /\ lastCall'.call = [kind |-> "closes", about |-> state.event.kind]
        /\ state'.event.kind = state.event.kind
    BY <1>7, <2>1 DEF Closes
  <2>3. lastCall'.call.kind = "closes" /\ lastCall'.call.about = state.event.kind
    BY <2>2
  <2>4. lastCall.call = [kind |-> "opens", about |-> state.event.kind]
    BY <2>2 DEF ProgrammeInv
  <2>5. ProgrammeInv'
    BY <2>2, <2>3 DEF ProgrammeInv
  <2>6. QED
    BY <2>2, <2>3, <2>4, <2>5
<1>8. CASE \E step :
             /\ IsRescheduled(state, step) \/ Opens(state, step) \/ Closes(state, step)
             /\ state'.event = step.state.event
             /\ IF step.call = Nothing THEN \A w \in Said(state, state') : ~ IsCall(w)
                ELSE Said(state, state') = {step.call}
  <2>1. PICK step :
          /\ IsRescheduled(state, step) \/ Opens(state, step) \/ Closes(state, step)
          /\ state'.event = step.state.event
          /\ IF step.call = Nothing THEN \A w \in Said(state, state') : ~ IsCall(w)
             ELSE Said(state, state') = {step.call}
    BY <1>8
  <2>2. CASE IsRescheduled(state, step)
    <3>1. \A w \in Said(state, state') : ~ IsCall(w)
      BY <2>1, <2>2 DEF IsRescheduled
    <3>2. QED
      BY <1>5, <2>1, <2>2, <3>1
  <2>3. CASE Opens(state, step)
    <3>1. Said(state, state') = {step.call}
      BY <2>1, <2>3, CallsAreCalls
    <3>2. QED
      BY <1>6, <2>1, <2>3, <3>1
  <2>4. CASE Closes(state, step)
    <3>1. Said(state, state') = {step.call}
      BY <2>1, <2>4, CallsAreCalls
    <3>2. QED
      BY <1>7, <2>1, <2>4, <3>1
  <2>5. QED
    BY <2>1, <2>2, <2>3, <2>4
<1>9. QED
  BY <1>1, <1>4, <1>8 DEF TellsProgramme

\* Whatever the step: it keeps the programme's invariant, and within a game
\* announcements alternate and the next event is another one.
LEMMA ProgrammeStep ==
  ASSUME AtmosphereInv, ProgrammeInv, [Next]_vars
  PROVE  /\ ProgrammeInv'
         /\ game' = game =>
              /\ lastCall'.call # lastCall.call =>
                   IF lastCall'.call.kind = "closes"
                   THEN lastCall.call = [kind |-> "opens", about |-> lastCall'.call.about]
                   ELSE lastCall.call.kind # "opens"
              /\ /\ state'.event.phase = "scheduled" /\ state.event.phase # "scheduled"
                 /\ lastCall.call.kind = "closes" /\ Cardinality(Eligible(state)) > 1
                 => state'.event.kind # lastCall.call.about
<1>1. ASSUME state'.event = state.event, state'.discovered = state.discovered,
             lastCall' = lastCall
      PROVE  ProgrammeInv'
  BY <1>1 DEF ProgrammeInv, Hosted, Eligible
<1>2. CASE Walk \/ Talk
  <2>1. IsState(state)
    BY DEF AtmosphereInv, Shape
  <2>2. QED
    BY <1>2, <2>1, TurnTaken, ProgrammeTurn
<1>3. CASE Restart
  <2>1. /\ state'.event = state.event /\ state'.discovered = state.discovered
        /\ lastCall' = lastCall
    BY <1>3, RestartKeeps DEF SameButHistory
  <2>2. QED
    BY <1>1, <2>1
<1>4. CASE Crash
  <2>1. state'.event.phase = "cooldown" /\ game' # game
    BY <1>4, FreshIsState DEF Crash, AtmosphereInv, Shape
  <2>2. lastCall'.call = Nothing
    BY <1>4 DEF Crash
  <2>3. lastCall'.call.kind = "nothing"
    BY <2>2 DEF Nothing
  <2>4. QED
    BY <2>1, <2>3 DEF ProgrammeInv
<1>5. CASE Look \/ Answer \/ Deliver \/ UNCHANGED vars
  <2>1. state' = state /\ lastCall' = lastCall
    BY <1>5 DEF Look, Answer, Deliver, vars
  <2>2. QED
    BY <1>1, <2>1
<1>6. QED
  BY <1>2, <1>3, <1>4, <1>5 DEF Next

\* Announcements come in pairs and the next event is another one: the phases
\* of advancePublicEvent against days of walking, talk and restarts.
THEOREM ProgrammeIsKeptHolds == Spec => ProgrammeIsKept
<1>1. Init => ProgrammeInv
  <2>1. SUFFICES ASSUME Init PROVE ProgrammeInv
    OBVIOUS
  <2>2. state.event.phase = "cooldown"
    BY <2>1, FreshIsState DEF Init
  <2>3. lastCall.call = Nothing
    BY <2>1 DEF Init
  <2>4. lastCall.call.kind = "nothing"
    BY <2>3 DEF Nothing
  <2>5. QED
    BY <2>2, <2>4 DEF ProgrammeInv
<1>2. AtmosphereInv /\ ProgrammeInv /\ [Next]_vars => ProgrammeInv'
  BY ProgrammeStep
<1>3. AtmosphereInv /\ ProgrammeInv /\ [Next]_vars =>
        [game' = game =>
           /\ lastCall'.call # lastCall.call =>
                IF lastCall'.call.kind = "closes"
                THEN lastCall.call = [kind |-> "opens", about |-> lastCall'.call.about]
                ELSE lastCall.call.kind # "opens"
           /\ /\ state'.event.phase = "scheduled" /\ state.event.phase # "scheduled"
              /\ lastCall.call.kind = "closes" /\ Cardinality(Eligible(state)) > 1
              => state'.event.kind # lastCall.call.about
        ]_vars
  BY ProgrammeStep
<1>4. Spec => []ProgrammeInv
  BY <1>1, <1>2, AtmosphereInvariant, PTL DEF Spec
<1>5. QED
  BY <1>3, <1>4, AtmosphereInvariant, PTL DEF Spec, ProgrammeIsKept

=============================================================================
