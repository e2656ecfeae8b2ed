---------------------- MODULE CampgroundProgressProofs ----------------------
(***************************************************************************)
(* The favors and the flag story never go back, no reward comes twice,     *)
(* handed-in items stay where they are, and a turn leaves nothing to       *)
(* reconcile: for any set of waters and decoys.                            *)
(*                                                                         *)
(* A turn is a composition of small functions from game to game.  Each of  *)
(* them is shown to keep a game sound and to lead only forward; both facts *)
(* compose.                                                                *)
(***************************************************************************)
EXTENDS CampgroundProgress, TLAPS

-----------------------------------------------------------------------------
(* The inductive invariant, stated of a game.                              *)

HammerInPlace(g) ==
  g.favor["tool"] = "completed" =>
    IF Exists(g, "hammer") THEN g.where["hammer"] = "worker" ELSE ~g.patchBay

\* Before the first level is there, its flag is nowhere.
FlagInPlace(g) ==
  /\ g.story = "returned" <=> g.where["flag"] = "ranger"
  /\ ~g.dungeon => g.where["flag"] = "absent"

DecoysInPlace(g) == \A i \in Decoys : g.where[i] \notin Npcs

\* No reward before its favor is completed.
RewardsInPlace(g) ==
  \A f \in {"welcome", "water"} :
    g.favor[f] # "completed" => g.where[RewardOf(f)] = "absent"

\* What has been told is over.
ToldIsPast(g) ==
  /\ "flag" \in g.told => g.story \in {"flag-retrieved", "returned"}
  /\ "waived" \in g.told => g.favor["tool"] = "completed"
  /\ g.toldTwice = FALSE

Sound(g) ==
  /\ g \in Game
  /\ HammerInPlace(g) /\ FlagInPlace(g) /\ DecoysInPlace(g)
  /\ RewardsInPlace(g) /\ ToldIsPast(g)

IInv == Sound(game) /\ Settled

\* What a step of the story, from one game to a later one, does.
Forward(g, h) ==
  /\ \A f \in Favors : Rank(FavorOrder, h.favor[f]) >= Rank(FavorOrder, g.favor[f])
  /\ Rank(StoryOrder, h.story) >= Rank(StoryOrder, g.story)

RewardMoves(g, h) ==
  \A f \in {"welcome", "water"} :
    g.where[RewardOf(f)] # h.where[RewardOf(f)] =>
      \/ g.where[RewardOf(f)] = "absent" /\ h.favor[f] = "completed"
      \/ g.where[RewardOf(f)] \notin {"absent", "gone"}

Leads(g, h) == Sound(h) /\ Forward(g, h) /\ RewardMoves(g, h)

-----------------------------------------------------------------------------
(* Phases and their order.                                                 *)

LEMMA FavorPhases ==
  Range(FavorOrder) = {"unavailable", "offered", "active", "ready", "completed"}
  BY DEF Range, FavorOrder

LEMMA StoryPhases ==
  Range(StoryOrder) = {"not-started", "seeking-rumors", "temple-lead",
                       "flag-retrieved", "returned"}
  BY DEF Range, StoryOrder

LEMMA FavorRanks ==
  /\ Rank(FavorOrder, "unavailable") = 1 /\ Rank(FavorOrder, "offered") = 2
  /\ Rank(FavorOrder, "active") = 3 /\ Rank(FavorOrder, "ready") = 4
  /\ Rank(FavorOrder, "completed") = 5
<1>1. DOMAIN FavorOrder = 1..5
  BY DEF FavorOrder
<1>2. /\ FavorOrder[1] = "unavailable" /\ FavorOrder[2] = "offered"
      /\ FavorOrder[3] = "active" /\ FavorOrder[4] = "ready" /\ FavorOrder[5] = "completed"
  BY DEF FavorOrder
<1>3. ASSUME NEW k \in 1..5 PROVE Rank(FavorOrder, FavorOrder[k]) = k
  <2>1. \E i \in DOMAIN FavorOrder : FavorOrder[i] = FavorOrder[k]
    BY <1>1
  <2>2. PICK r : r = Rank(FavorOrder, FavorOrder[k])
    OBVIOUS
  <2>3. r \in 1..5 /\ FavorOrder[r] = FavorOrder[k]
    BY <1>1, <2>1, <2>2 DEF Rank
  <2>4. r = k
    BY <1>2, <2>3
  <2>5. QED
    BY <2>2, <2>4
<1>4. QED
  BY <1>2, <1>3

LEMMA StoryRanks ==
  /\ Rank(StoryOrder, "not-started") = 1 /\ Rank(StoryOrder, "seeking-rumors") = 2
  /\ Rank(StoryOrder, "temple-lead") = 3 /\ Rank(StoryOrder, "flag-retrieved") = 4
  /\ Rank(StoryOrder, "returned") = 5
<1>1. DOMAIN StoryOrder = 1..5
  BY DEF StoryOrder
<1>2. /\ StoryOrder[1] = "not-started" /\ StoryOrder[2] = "seeking-rumors"
      /\ StoryOrder[3] = "temple-lead" /\ StoryOrder[4] = "flag-retrieved"
      /\ StoryOrder[5] = "returned"
  BY DEF StoryOrder
<1>3. ASSUME NEW k \in 1..5 PROVE Rank(StoryOrder, StoryOrder[k]) = k
  <2>1. \E i \in DOMAIN StoryOrder : StoryOrder[i] = StoryOrder[k]
    BY <1>1
  <2>2. PICK r : r = Rank(StoryOrder, StoryOrder[k])
    OBVIOUS
  <2>3. r \in 1..5 /\ StoryOrder[r] = StoryOrder[k]
    BY <1>1, <2>1, <2>2 DEF Rank
  <2>4. r = k
    BY <1>2, <2>3
  <2>5. QED
    BY <2>2, <2>4
<1>4. QED
  BY <1>2, <1>3

\* A favor moves to a later phase or stays.
LEMMA AdvancedForward ==
  ASSUME NEW phase \in Range(FavorOrder), NEW target \in Range(FavorOrder)
  PROVE  /\ Advanced(phase, target) \in {phase, target}
         /\ Rank(FavorOrder, Advanced(phase, target)) >= Rank(FavorOrder, phase)
         /\ Advanced(phase, "completed") = "completed"
         /\ phase = "completed" => Advanced(phase, target) = "completed"
  BY FavorRanks, FavorPhases DEF Advanced

-----------------------------------------------------------------------------
(* What the primitive changes leave alone.                                 *)

LEMMA PlaceChanges ==
  ASSUME NEW g \in Game, NEW i \in Items, NEW p \in Places
  PROVE  /\ Place(g, i, p) \in Game
         /\ Place(g, i, p).where = [g.where EXCEPT ![i] = p]
         /\ Place(g, i, p).favor = g.favor /\ Place(g, i, p).story = g.story
         /\ Place(g, i, p).flagKey = g.flagKey /\ Place(g, i, p).level = g.level
         /\ Place(g, i, p).dungeon = g.dungeon /\ Place(g, i, p).patchBay = g.patchBay
         /\ Place(g, i, p).crew = g.crew /\ Place(g, i, p).told = g.told
         /\ Place(g, i, p).toldTwice = g.toldTwice
  BY DEF Place, Game

LEMMA AdvanceChanges ==
  ASSUME NEW g \in Game, NEW f \in Favors, NEW target \in Range(FavorOrder)
  PROVE  /\ Advance(g, f, target) \in Game
         /\ Advance(g, f, target).favor = [g.favor EXCEPT ![f] = Advanced(@, target)]
         /\ Advance(g, f, target).where = g.where /\ Advance(g, f, target).story = g.story
         /\ Advance(g, f, target).flagKey = g.flagKey
         /\ Advance(g, f, target).level = g.level
         /\ Advance(g, f, target).dungeon = g.dungeon
         /\ Advance(g, f, target).patchBay = g.patchBay
         /\ Advance(g, f, target).crew = g.crew /\ Advance(g, f, target).told = g.told
         /\ Advance(g, f, target).toldTwice = g.toldTwice
<1>1. [g.favor EXCEPT ![f] = Advanced(@, target)] \in [Favors -> Range(FavorOrder)]
  BY AdvancedForward DEF Game
<1>2. QED
  BY <1>1 DEF Advance, Game

-----------------------------------------------------------------------------
(* Leading forward composes.                                               *)

LEMMA GameTypes ==
  ASSUME NEW g \in Game
  PROVE  /\ g.where \in [Items -> Places] /\ g.favor \in [Favors -> Range(FavorOrder)]
         /\ g.story \in Range(StoryOrder) /\ g.level \in Levels
         /\ g.flagKey \in BOOLEAN /\ g.dungeon \in BOOLEAN
         /\ g.patchBay \in BOOLEAN /\ g.crew \in BOOLEAN
         /\ g.told \in SUBSET Messages
  BY DEF Game

LEMMA RewardNames ==
  /\ RewardOf("welcome") = "pancake" /\ RewardOf("water") = "trailmix"
  /\ {"pancake", "trailmix", "hammer", "flag"} \subseteq Items
  /\ {"welcome", "water", "tool"} = Favors
  /\ Rewards = {"pancake", "trailmix"} /\ Keyed = {"hammer", "flag"}
  /\ Waters \subseteq Items /\ Decoys \subseteq Items
  /\ \A w \in Waters : w \notin Keyed \union Rewards \union Decoys
  /\ \A d \in Decoys : d \notin Keyed \union Rewards \union Waters
  BY ProgressAssumption DEF RewardOf, Items, Rewards, Keyed, Favors

LEMMA CompletedIsLast ==
  ASSUME NEW a \in Range(FavorOrder), NEW b \in Range(FavorOrder),
         Rank(FavorOrder, b) >= Rank(FavorOrder, a)
  PROVE  a = "completed" => b = "completed"
  BY FavorRanks, FavorPhases

LEMMA LeadsNowhere == ASSUME NEW g, Sound(g) PROVE Leads(g, g)
<1>1. \A f \in Favors : Rank(FavorOrder, g.favor[f]) >= Rank(FavorOrder, g.favor[f])
  BY FavorRanks, FavorPhases, GameTypes DEF Sound
<1>2. Rank(StoryOrder, g.story) >= Rank(StoryOrder, g.story)
  BY StoryRanks, StoryPhases, GameTypes DEF Sound
<1>3. QED
  BY <1>1, <1>2 DEF Leads, Forward, RewardMoves

LEMMA LeadsOn ==
  ASSUME NEW g, NEW h, NEW k, Sound(g), Leads(g, h), Leads(h, k)
  PROVE  Leads(g, k)
<1>1. g \in Game /\ h \in Game /\ k \in Game
  BY DEF Leads, Sound
<1>2. ASSUME NEW f \in Favors
      PROVE  Rank(FavorOrder, k.favor[f]) >= Rank(FavorOrder, g.favor[f])
  <2>1. g.favor[f] \in Range(FavorOrder) /\ h.favor[f] \in Range(FavorOrder)
        /\ k.favor[f] \in Range(FavorOrder)
    BY <1>1, GameTypes
  <2>2. Rank(FavorOrder, h.favor[f]) >= Rank(FavorOrder, g.favor[f])
        /\ Rank(FavorOrder, k.favor[f]) >= Rank(FavorOrder, h.favor[f])
    BY DEF Leads, Forward
  <2>3. QED
    BY <2>1, <2>2, FavorRanks, FavorPhases
<1>3. Rank(StoryOrder, k.story) >= Rank(StoryOrder, g.story)
  <2>1. g.story \in Range(StoryOrder) /\ h.story \in Range(StoryOrder)
        /\ k.story \in Range(StoryOrder)
    BY <1>1, GameTypes
  <2>2. QED
    BY <2>1, StoryRanks, StoryPhases DEF Leads, Forward
<1>4. RewardMoves(g, k)
  <2> SUFFICES ASSUME NEW f \in {"welcome", "water"},
                      g.where[RewardOf(f)] # k.where[RewardOf(f)]
               PROVE  \/ g.where[RewardOf(f)] = "absent" /\ k.favor[f] = "completed"
                      \/ g.where[RewardOf(f)] \notin {"absent", "gone"}
    BY DEF RewardMoves
  <2>1. h.favor[f] = "completed" => k.favor[f] = "completed"
    BY <1>1, GameTypes, CompletedIsLast, RewardNames DEF Leads, Forward
  <2>2. CASE g.where[RewardOf(f)] # h.where[RewardOf(f)]
    BY <2>1, <2>2 DEF Leads, RewardMoves
  <2>3. CASE g.where[RewardOf(f)] = h.where[RewardOf(f)]
    BY <2>3 DEF Leads, RewardMoves
  <2>4. QED
    BY <2>2, <2>3
<1>5. QED
  BY <1>2, <1>3, <1>4 DEF Leads, Forward

\* A favor may be moved to any phase; the tool favor is completed only when the
\* hammer has been handed in or cannot be.
LEMMA AdvanceLeads ==
  ASSUME NEW g, Sound(g), NEW f \in Favors, NEW target \in Range(FavorOrder),
         f = "tool" /\ target = "completed" =>
           IF Exists(g, "hammer") THEN g.where["hammer"] = "worker" ELSE ~g.patchBay
  PROVE  Leads(g, Advance(g, f, target))
<1>1. PICK h : h = Advance(g, f, target)
  OBVIOUS
<1>2. g \in Game /\ h \in Game
  BY <1>1, AdvanceChanges DEF Sound
<1>3. /\ h.favor = [g.favor EXCEPT ![f] = Advanced(@, target)]
      /\ h.where = g.where /\ h.story = g.story /\ h.told = g.told
      /\ h.toldTwice = g.toldTwice
  BY <1>1, AdvanceChanges DEF Sound
<1>4. ASSUME NEW e \in Favors
      PROVE  /\ g.favor[e] \in Range(FavorOrder) /\ h.favor[e] \in Range(FavorOrder)
             /\ Rank(FavorOrder, h.favor[e]) >= Rank(FavorOrder, g.favor[e])
  <2>1. g.favor[e] \in Range(FavorOrder) /\ h.favor[e] \in Range(FavorOrder)
    BY <1>2, GameTypes
  <2>2. CASE e = f
    BY <1>2, <1>3, <2>1, <2>2, AdvancedForward, GameTypes
  <2>3. CASE e # f
    BY <1>2, <1>3, <2>1, <2>3, FavorRanks, FavorPhases, GameTypes
  <2>4. QED
    BY <2>1, <2>2, <2>3
<1>5. \A e \in Favors : g.favor[e] = "completed" => h.favor[e] = "completed"
  BY <1>4, CompletedIsLast
<1>6. Forward(g, h)
  BY <1>2, <1>3, <1>4, StoryRanks, StoryPhases, GameTypes DEF Forward
<1>7. HammerInPlace(h)
  <2>1. h.patchBay = g.patchBay
    BY <1>1, AdvanceChanges DEF Sound
  <2>2. h.favor["tool"] = "completed" =>
          g.favor["tool"] = "completed" \/ (f = "tool" /\ target = "completed")
    BY <1>2, <1>3, AdvancedForward, GameTypes, RewardNames
  <2>3. QED
    BY <1>3, <2>1, <2>2 DEF Sound, HammerInPlace, Exists
<1>8. FlagInPlace(h)
  <2>1. h.dungeon = g.dungeon
    BY <1>1, AdvanceChanges DEF Sound
  <2>2. QED
    BY <1>3, <2>1 DEF Sound, FlagInPlace
<1>9. DecoysInPlace(h) /\ RewardsInPlace(h) /\ ToldIsPast(h) /\ RewardMoves(g, h)
  BY <1>3, <1>5, RewardNames
     DEF Sound, DecoysInPlace, RewardsInPlace, ToldIsPast, RewardMoves
<1>10. QED
  BY <1>1, <1>2, <1>6, <1>7, <1>8, <1>9 DEF Leads, Sound

\* An item may be moved as long as a handed-in one stays, decoys are not handed
\* in, nothing but the return puts the flag into the ranger's hands, and a
\* reward is in the world.
LEMMA PlaceLeads ==
  ASSUME NEW g, Sound(g), NEW i \in Items, NEW p \in Places,
         i \in Decoys => p \notin Npcs,
         i = "flag" => p # "ranger" /\ g.where["flag"] # "ranger" /\ g.dungeon,
         i = "hammer" => g.favor["tool"] # "completed",
         i \in Rewards => g.where[i] \notin {"absent", "gone"}
  PROVE  Leads(g, Place(g, i, p))
<1>1. PICK h : h = Place(g, i, p)
  OBVIOUS
<1>2. g \in Game /\ h \in Game
  BY <1>1, PlaceChanges DEF Sound
<1>3. /\ h.where = [g.where EXCEPT ![i] = p] /\ g.where \in [Items -> Places]
      /\ h.favor = g.favor /\ h.story = g.story /\ h.told = g.told
      /\ h.toldTwice = g.toldTwice
  BY <1>1, PlaceChanges, GameTypes DEF Sound
<1>4. h.dungeon = g.dungeon /\ h.patchBay = g.patchBay
  BY <1>1, PlaceChanges DEF Sound
<1>5. Forward(g, h)
  BY <1>3, LeadsNowhere DEF Leads, Forward
<1>6. HammerInPlace(h)
  BY <1>3, <1>4, RewardNames DEF Sound, HammerInPlace, Exists
<1>7. FlagInPlace(h)
  BY <1>3, <1>4, RewardNames DEF Sound, FlagInPlace
<1>8. DecoysInPlace(h)
  BY <1>3, RewardNames DEF Sound, DecoysInPlace
<1>9. RewardsInPlace(h) /\ RewardMoves(g, h)
  BY <1>3, RewardNames DEF Sound, RewardsInPlace, RewardMoves
<1>10. ToldIsPast(h)
  BY <1>3 DEF Sound, ToldIsPast
<1>11. QED
  BY <1>1, <1>2, <1>5, <1>6, <1>7, <1>8, <1>9, <1>10 DEF Leads, Sound

\* The story may move on; it is over exactly when the flag is the ranger's.
LEMMA StoryLeads ==
  ASSUME NEW g, Sound(g), NEW s \in Range(StoryOrder),
         Rank(StoryOrder, s) >= Rank(StoryOrder, g.story),
         s = "returned" <=> g.where["flag"] = "ranger"
  PROVE  Leads(g, [g EXCEPT !.story = s])
<1>1. PICK h : h = [g EXCEPT !.story = s]
  OBVIOUS
<1>2. g \in Game /\ h \in Game
  BY <1>1 DEF Sound, Game
<1>3. /\ h.where = g.where /\ h.favor = g.favor /\ h.told = g.told /\ h.story = s
      /\ h.toldTwice = g.toldTwice /\ h.dungeon = g.dungeon /\ h.patchBay = g.patchBay
  BY <1>1, <1>2 DEF Game
<1>4. Forward(g, h)
  BY <1>3, LeadsNowhere DEF Leads, Forward
<1>5. HammerInPlace(h) /\ FlagInPlace(h) /\ DecoysInPlace(h)
  BY <1>3 DEF Sound, HammerInPlace, Exists, FlagInPlace, DecoysInPlace
<1>6. RewardsInPlace(h) /\ RewardMoves(g, h)
  BY <1>3 DEF Sound, RewardsInPlace, RewardMoves
<1>7. g.story \in {"flag-retrieved", "returned"} => s \in {"flag-retrieved", "returned"}
  BY <1>2, StoryRanks, StoryPhases
<1>8. ToldIsPast(h)
  BY <1>3, <1>7 DEF Sound, ToldIsPast
<1>9. QED
  BY <1>1, <1>2, <1>4, <1>5, <1>6, <1>8 DEF Leads, Sound

-----------------------------------------------------------------------------
(* The reconciliation leads forward, one repair after the other.           *)

LEMMA PlacesOfItems ==
  ASSUME NEW g, Sound(g)
  PROVE  /\ {"hammer", "flag"} \subseteq Items
         /\ {"dungeon", "cooler", "player", "worker", "ranger", "pulseDome"} \subseteq Places
         /\ \A i \in Items : g.where[i] \in Places
  BY RewardNames, GameTypes DEF Sound, Places, Levels, Npcs

LEMMA WithKeysLeads == ASSUME NEW g, Sound(g) PROVE Leads(g, WithKeys(g))
<1>1. PICK h : h = WithKeys(g)
  OBVIOUS
<1>2. (g.flagKey \/ Exists(g, "flag")) \in BOOLEAN
  BY Zenon
<1>3. g \in Game /\ h \in Game
  BY <1>1, <1>2 DEF Sound, Game, WithKeys
<1>4. /\ h.where = g.where /\ h.favor = g.favor /\ h.told = g.told /\ h.story = g.story
      /\ h.toldTwice = g.toldTwice /\ h.dungeon = g.dungeon /\ h.patchBay = g.patchBay
  BY <1>1, <1>3 DEF Game, WithKeys
<1>5. Forward(g, h) /\ RewardMoves(g, h)
  BY <1>4, LeadsNowhere DEF Leads, Forward, RewardMoves
<1>6. HammerInPlace(h) /\ FlagInPlace(h) /\ DecoysInPlace(h)
  BY <1>4 DEF Sound, HammerInPlace, Exists, FlagInPlace, DecoysInPlace
<1>7. RewardsInPlace(h) /\ ToldIsPast(h)
  BY <1>4 DEF Sound, RewardsInPlace, ToldIsPast
<1>8. QED
  BY <1>1, <1>3, <1>5, <1>6, <1>7 DEF Leads, Sound

\* A flag that has its key set keeps it.
LEMMA FlagKeySet ==
  ASSUME NEW g, Sound(g)
  PROVE  Leads(g, [g EXCEPT !.flagKey = TRUE])
<1>1. PICK h : h = [g EXCEPT !.flagKey = TRUE]
  OBVIOUS
<1>2. g \in Game /\ h \in Game
  BY <1>1 DEF Sound, Game
<1>3. /\ h.where = g.where /\ h.favor = g.favor /\ h.told = g.told /\ h.story = g.story
      /\ h.toldTwice = g.toldTwice /\ h.dungeon = g.dungeon /\ h.patchBay = g.patchBay
  BY <1>1, <1>2 DEF Game
<1>4. Forward(g, h) /\ RewardMoves(g, h)
  BY <1>3, LeadsNowhere DEF Leads, Forward, RewardMoves
<1>5. HammerInPlace(h) /\ FlagInPlace(h) /\ DecoysInPlace(h)
  BY <1>3 DEF Sound, HammerInPlace, Exists, FlagInPlace, DecoysInPlace
<1>6. RewardsInPlace(h) /\ ToldIsPast(h)
  BY <1>3 DEF Sound, RewardsInPlace, ToldIsPast
<1>7. QED
  BY <1>1, <1>2, <1>4, <1>5, <1>6 DEF Leads, Sound

LEMMA RepairFlagLeads == ASSUME NEW g, Sound(g) PROVE Leads(g, RepairFlag(g))
<1>1. CASE FlagIsLost(g)
  <2>1. Leads(g, Place(g, "flag", "dungeon"))
    <3>1. g.where["flag"] # "ranger" /\ g.dungeon
      BY <1>1 DEF FlagIsLost, Sound, FlagInPlace
    <3>2. QED
      BY <3>1, PlacesOfItems, PlaceLeads, RewardNames
  <2>2. Leads(Place(g, "flag", "dungeon"),
              [Place(g, "flag", "dungeon") EXCEPT !.flagKey = TRUE])
    BY <2>1, FlagKeySet DEF Leads
  <2>3. QED
    BY <1>1, <2>1, <2>2, LeadsOn DEF RepairFlag
<1>2. CASE ~FlagIsLost(g)
  BY <1>2, LeadsNowhere DEF RepairFlag
<1>3. QED
  BY <1>1, <1>2

LEMMA RepairToolLeads == ASSUME NEW g, Sound(g) PROVE Leads(g, RepairTool(g))
<1>1. CASE ToolIsLost(g) /\ g.patchBay
  <2>1. "hammer" \notin Decoys \union Rewards /\ "hammer" # "flag"
    BY RewardNames
  <2>2. Leads(g, Place(g, "hammer", "cooler"))
    BY <1>1, <2>1, PlacesOfItems, PlaceLeads DEF ToolIsLost
  <2>3. QED
    BY <1>1, <2>2 DEF RepairTool
<1>2. CASE IsWaived(g)
  <2>1. ~Exists(g, "hammer") /\ ~g.patchBay
    BY <1>2 DEF IsWaived, ToolIsLost
  <2>2. Leads(g, Advance(g, "tool", "completed"))
    BY <2>1, AdvanceLeads, FavorPhases, RewardNames
  <2>3. QED
    BY <1>2, <2>1, <2>2 DEF RepairTool
<1>3. CASE ~(ToolIsLost(g) /\ g.patchBay) /\ ~IsWaived(g)
  BY <1>3, LeadsNowhere DEF RepairTool
<1>4. QED
  BY <1>1, <1>2, <1>3

LEMMA ReadyLeads ==
  ASSUME NEW g, Sound(g)
  PROVE  Leads(g, ReadyTool(g)) /\ Leads(g, ReadyWater(g))
<1>1. Leads(g, Advance(g, "tool", "ready")) /\ Leads(g, Advance(g, "water", "ready"))
  BY AdvanceLeads, FavorPhases, RewardNames
<1>2. QED
  BY <1>1, LeadsNowhere DEF ReadyTool, ReadyWater

LEMMA RecoverLeads == ASSUME NEW g, Sound(g) PROVE Leads(g, Recover(g))
<1>1. CASE RecoversFlag(g)
  <2>1. g.story \in Range(StoryOrder) /\ "flag-retrieved" \in Range(StoryOrder)
    BY StoryPhases, GameTypes DEF Sound
  <2>2. Rank(StoryOrder, "flag-retrieved") >= Rank(StoryOrder, g.story)
    BY <1>1, <2>1, StoryRanks, StoryPhases DEF RecoversFlag
  <2>3. g.where["flag"] # "ranger"
    BY <1>1 DEF RecoversFlag, Held
  <2>4. QED
    BY <1>1, <2>1, <2>2, <2>3, StoryLeads DEF Recover
<1>2. CASE ~RecoversFlag(g)
  BY <1>2, LeadsNowhere DEF Recover
<1>3. QED
  BY <1>1, <1>2

\* The phases of a reconciliation, before anything is told of it.
FlagSeenTo(g)   == RepairFlag(WithKeys(g))
LossesRepaired(g) == RepairTool(FlagSeenTo(g))
Readied(g) == ReadyWater(ReadyTool(LossesRepaired(g)))
Reconciled(g) == Recover(Readied(g))

LEMMA ReconcileInPhases ==
  ASSUME NEW g
  PROVE  /\ Reconcile(g, FALSE) = Reconciled(g)
         /\ Reconcile(g, TRUE) =
              IF RecoversFlag(LossesRepaired(g)) THEN Tell(Reconciled(g), "flag")
              ELSE IF IsWaived(FlagSeenTo(g)) THEN Tell(Reconciled(g), "waived")
              ELSE Reconciled(g)
  BY DEF Reconcile, FlagSeenTo, LossesRepaired, Readied, Reconciled

LEMMA SettledLeads ==
  ASSUME NEW g, Sound(g)
  PROVE  /\ Leads(g, FlagSeenTo(g)) /\ Leads(g, LossesRepaired(g)) /\ Leads(g, Reconciled(g))
         /\ Leads(FlagSeenTo(g), LossesRepaired(g)) /\ Leads(LossesRepaired(g), Reconciled(g))
         /\ Leads(LossesRepaired(g), Readied(g))
<1>1. Leads(g, FlagSeenTo(g))
  <2>1. Sound(WithKeys(g)) /\ Leads(g, WithKeys(g))
    BY WithKeysLeads DEF Leads
  <2>2. QED
    BY <2>1, RepairFlagLeads, LeadsOn DEF FlagSeenTo
<1>2. Leads(FlagSeenTo(g), LossesRepaired(g))
  BY <1>1, RepairToolLeads DEF Leads, LossesRepaired
<1>3. Leads(g, LossesRepaired(g))
  BY <1>1, <1>2, LeadsOn DEF Leads
<1>4. Leads(LossesRepaired(g), Readied(g))
  <2>1. Sound(LossesRepaired(g))
    BY <1>3 DEF Leads
  <2>2. Sound(ReadyTool(LossesRepaired(g))) /\ Leads(LossesRepaired(g), ReadyTool(LossesRepaired(g)))
    BY <2>1, ReadyLeads DEF Leads
  <2>3. QED
    BY <2>1, <2>2, ReadyLeads, LeadsOn DEF Readied
<1>5. Leads(LossesRepaired(g), Reconciled(g))
  <2>1. Sound(Readied(g)) /\ Sound(LossesRepaired(g))
    BY <1>3, <1>4 DEF Leads
  <2>2. QED
    BY <1>4, <2>1, RecoverLeads, LeadsOn DEF Reconciled
<1>6. QED
  BY <1>1, <1>2, <1>3, <1>4, <1>5, LeadsOn

\* A message is told when what it tells of has happened, for the first time.
LEMMA TellLeads ==
  ASSUME NEW g, Sound(g), NEW message \in Messages, message \notin g.told,
         message = "flag" => g.story \in {"flag-retrieved", "returned"},
         message = "waived" => g.favor["tool"] = "completed"
  PROVE  Leads(g, Tell(g, message))
<1>1. PICK h : h = Tell(g, message)
  OBVIOUS
<1>2. (g.toldTwice \/ message \in g.told) = FALSE
  BY Zenon DEF Sound, ToldIsPast
<1>3. g \in Game /\ g.told \union {message} \in SUBSET Messages
  BY GameTypes DEF Sound
<1>4. h = [g EXCEPT !.told = g.told \union {message}, !.toldTwice = FALSE]
  BY <1>1, <1>2 DEF Tell
<1>5. h \in Game
  BY <1>3, <1>4 DEF Game
<1>6. /\ h.where = g.where /\ h.favor = g.favor /\ h.told = g.told \union {message}
      /\ h.story = g.story /\ h.toldTwice = FALSE /\ h.dungeon = g.dungeon
      /\ h.patchBay = g.patchBay
  BY <1>3, <1>4 DEF Game
<1>7. Forward(g, h) /\ RewardMoves(g, h)
  BY <1>6, LeadsNowhere DEF Leads, Forward, RewardMoves
<1>8. HammerInPlace(h) /\ FlagInPlace(h) /\ DecoysInPlace(h)
  BY <1>6 DEF Sound, HammerInPlace, Exists, FlagInPlace, DecoysInPlace
<1>9. RewardsInPlace(h)
  BY <1>6 DEF Sound, RewardsInPlace
<1>10. ToldIsPast(h)
  BY <1>6 DEF Sound, ToldIsPast, Messages
<1>11. QED
  BY <1>1, <1>5, <1>7, <1>8, <1>9, <1>10 DEF Leads, Sound

LEMMA ReadyKeepsItems ==
  ASSUME NEW g, Sound(g)
  PROVE  /\ Readied(g).where = LossesRepaired(g).where
         /\ Readied(g).story = LossesRepaired(g).story
         /\ Readied(g).told = LossesRepaired(g).told
         /\ Readied(g).flagKey = LossesRepaired(g).flagKey
<1>1. ASSUME NEW h, Sound(h)
      PROVE  /\ ReadyTool(h).where = h.where /\ ReadyTool(h).story = h.story
             /\ ReadyTool(h).told = h.told /\ ReadyTool(h).flagKey = h.flagKey
             /\ ReadyWater(h).where = h.where /\ ReadyWater(h).story = h.story
             /\ ReadyWater(h).told = h.told /\ ReadyWater(h).flagKey = h.flagKey
  <2>1. h \in Game /\ "ready" \in Range(FavorOrder) /\ "tool" \in Favors /\ "water" \in Favors
    BY <1>1, FavorPhases, RewardNames DEF Sound
  <2>2. ReadyTool(h) \in {h, Advance(h, "tool", "ready")}
        /\ ReadyWater(h) \in {h, Advance(h, "water", "ready")}
    BY DEF ReadyTool, ReadyWater
  <2>3. ASSUME NEW f \in Favors, NEW k, k \in {h, Advance(h, f, "ready")}
        PROVE  /\ k.where = h.where /\ k.story = h.story
               /\ k.told = h.told /\ k.flagKey = h.flagKey
    <3>1. PICK target \in Range(FavorOrder) : target = "ready"
      BY <2>1
    <3>2. k \in {h, Advance(h, f, target)}
      BY <2>3, <3>1
    <3>3. /\ Advance(h, f, target).where = h.where /\ Advance(h, f, target).story = h.story
          /\ Advance(h, f, target).told = h.told
      BY <2>1, AdvanceChanges, ZenonT(60)
    <3>4. Advance(h, f, target).flagKey = h.flagKey
      BY <2>1, AdvanceChanges, ZenonT(60)
    <3>5. QED
      BY <3>2, <3>3, <3>4
  <2>4. QED
    BY <2>1, <2>2, <2>3
<1>2. Sound(LossesRepaired(g)) /\ Sound(ReadyTool(LossesRepaired(g)))
  BY SettledLeads, ReadyLeads DEF Leads
<1>3. QED
  BY <1>1, <1>2 DEF Readied

LEMMA RecoverChanges ==
  ASSUME NEW g, Sound(g)
  PROVE  /\ Recover(g).where = g.where /\ Recover(g).favor = g.favor
         /\ Recover(g).told = g.told /\ Recover(g).flagKey = g.flagKey
         /\ Recover(g).level = g.level /\ Recover(g).dungeon = g.dungeon
         /\ Recover(g).patchBay = g.patchBay /\ Recover(g).crew = g.crew
         /\ Recover(g).toldTwice = g.toldTwice
         /\ Recover(g).story = IF RecoversFlag(g) THEN "flag-retrieved" ELSE g.story
  BY DEF Recover, Sound, Game

LEMMA ReconcileLeads ==
  ASSUME NEW g, Sound(g)
  PROVE  Leads(g, Reconcile(g, FALSE)) /\ Leads(g, Reconcile(g, TRUE))
<1>1. Leads(g, Reconciled(g)) /\ Sound(Reconciled(g)) /\ Sound(LossesRepaired(g))
      /\ Sound(Readied(g)) /\ Sound(FlagSeenTo(g))
  BY SettledLeads DEF Leads
<1>2. Reconciled(g).told = LossesRepaired(g).told
  BY <1>1, ReadyKeepsItems, RecoverChanges DEF Reconciled
<1>3. CASE RecoversFlag(LossesRepaired(g))
  <2>1. "flag" \notin LossesRepaired(g).told
    BY <1>1, <1>3 DEF RecoversFlag, Sound, ToldIsPast
  <2>2. Reconciled(g).story = "flag-retrieved"
    <3>1. RecoversFlag(Readied(g))
      BY <1>3, ReadyKeepsItems DEF RecoversFlag, Held
    <3>2. QED
      BY <1>1, <3>1, RecoverChanges DEF Reconciled
  <2>3. Leads(Reconciled(g), Tell(Reconciled(g), "flag"))
    BY <1>1, <1>2, <2>1, <2>2, TellLeads DEF Messages
  <2>4. QED
    BY <1>1, <1>3, <2>3, LeadsOn, ReconcileInPhases
<1>4. CASE ~RecoversFlag(LossesRepaired(g)) /\ IsWaived(FlagSeenTo(g))
  <2>1. "waived" \notin FlagSeenTo(g).told
    BY <1>1, <1>4 DEF IsWaived, ToolIsLost, Sound, ToldIsPast
  <2>2. LossesRepaired(g) = Advance(FlagSeenTo(g), "tool", "completed")
    BY <1>4 DEF LossesRepaired, RepairTool, IsWaived
  <2>3. LossesRepaired(g).told = FlagSeenTo(g).told
        /\ LossesRepaired(g).favor["tool"] = "completed"
    <3>1. PICK h : h = FlagSeenTo(g)
      OBVIOUS
    <3>2. h \in Game /\ h.favor \in [Favors -> Range(FavorOrder)]
      BY <1>1, <3>1, GameTypes DEF Sound
    <3>3. "tool" \in Favors /\ "completed" \in Range(FavorOrder)
      BY FavorPhases, RewardNames
    <3>4. Advanced(h.favor["tool"], "completed") = "completed"
      BY <3>2, <3>3, AdvancedForward
    <3>5. PICK target \in Range(FavorOrder) : target = "completed"
      BY <3>3
    <3>6. LossesRepaired(g) = Advance(h, "tool", target)
      BY <2>2, <3>1, <3>5
    <3>7. /\ Advance(h, "tool", target).told = h.told
          /\ Advance(h, "tool", target).favor = [h.favor EXCEPT !["tool"] = Advanced(@, target)]
      BY <3>2, <3>3, AdvanceChanges
    <3>8. QED
      BY <3>1, <3>2, <3>3, <3>4, <3>5, <3>6, <3>7
  <2>4. Reconciled(g).favor["tool"] = "completed"
    BY <1>1, <2>3, SettledLeads, CompletedIsLast, GameTypes, RewardNames
       DEF Leads, Forward, Sound
  <2>5. Leads(Reconciled(g), Tell(Reconciled(g), "waived"))
    BY <1>1, <1>2, <2>1, <2>3, <2>4, TellLeads DEF Messages
  <2>6. QED
    BY <1>1, <1>4, <2>5, LeadsOn, ReconcileInPhases
<1>5. CASE ~RecoversFlag(LossesRepaired(g)) /\ ~IsWaived(FlagSeenTo(g))
  BY <1>1, <1>5, ReconcileInPhases
<1>6. QED
  BY <1>1, <1>3, <1>4, <1>5, ReconcileInPhases

-----------------------------------------------------------------------------
(* Conversations lead forward.                                             *)

\* A clue takes the search for rumors on.
LEMMA ClueLeads == ASSUME NEW g, Sound(g) PROVE Leads(g, Clue(g))
<1>1. CASE g.story = "seeking-rumors"
  <2>1. "temple-lead" \in Range(StoryOrder) /\ g.where["flag"] # "ranger"
    BY <1>1, StoryPhases DEF Sound, FlagInPlace
  <2>2. Rank(StoryOrder, "temple-lead") >= Rank(StoryOrder, g.story)
    BY <1>1, StoryRanks
  <2>3. PICK s \in Range(StoryOrder) : s = "temple-lead"
    BY <2>1
  <2>4. Leads(g, [g EXCEPT !.story = s])
    BY <2>1, <2>2, <2>3, StoryLeads
  <2>5. QED
    BY <1>1, <2>3, <2>4 DEF Clue
<1>2. CASE g.story # "seeking-rumors"
  BY <1>2, LeadsNowhere DEF Clue
<1>3. QED
  BY <1>1, <1>2

LEMMA GreetedLeads == ASSUME NEW g, Sound(g) PROVE Leads(g, Greeted(g))
<1>1. PICK s : s = IF g.story = "not-started" THEN "seeking-rumors" ELSE g.story
  OBVIOUS
<1>2. Leads(g, [g EXCEPT !.story = s])
  <2>1. s \in Range(StoryOrder) /\ g.story \in Range(StoryOrder)
    BY <1>1, StoryPhases, GameTypes DEF Sound
  <2>2. Rank(StoryOrder, s) >= Rank(StoryOrder, g.story)
    BY <1>1, <2>1, StoryRanks, StoryPhases
  <2>3. s = "returned" <=> g.where["flag"] = "ranger"
    BY <1>1 DEF Sound, FlagInPlace
  <2>4. QED
    BY <2>1, <2>2, <2>3, StoryLeads
<1>3. Leads(g, Advance([g EXCEPT !.story = s], "welcome", "active"))
  <2>1. Leads([g EXCEPT !.story = s], Advance([g EXCEPT !.story = s], "welcome", "active"))
    BY <1>2, AdvanceLeads, FavorPhases, RewardNames DEF Leads
  <2>2. QED
    BY <1>2, <2>1, LeadsOn
<1>4. QED
  BY <1>1, <1>3, LeadsNowhere DEF Greeted

\* A reward is granted together with the completion of its favor.
LEMMA RewardLeads ==
  ASSUME NEW g, Sound(g), NEW f \in {"welcome", "water"}, g.favor[f] # "completed",
         NEW h \in Game,
         h.where = [g.where EXCEPT ![RewardOf(f)] = "player"],
         h.favor = [g.favor EXCEPT ![f] = "completed"],
         h.story = g.story, h.told = g.told, h.toldTwice = g.toldTwice,
         h.dungeon = g.dungeon, h.patchBay = g.patchBay
  PROVE  Leads(g, h)
<1>1. g \in Game /\ g.where \in [Items -> Places] /\ g.favor \in [Favors -> Range(FavorOrder)]
  BY GameTypes DEF Sound
<1>2. g.where[RewardOf(f)] = "absent"
  BY DEF Sound, RewardsInPlace
<1>3. RewardOf(f) \in Rewards
  BY RewardNames
<1>4. ASSUME NEW e \in Favors
      PROVE  Rank(FavorOrder, h.favor[e]) >= Rank(FavorOrder, g.favor[e])
  BY <1>1, FavorRanks, FavorPhases
<1>5. Forward(g, h)
  BY <1>4, LeadsNowhere DEF Leads, Forward
<1>6. h.favor["tool"] = g.favor["tool"]
  BY <1>1, RewardNames
<1>7. HammerInPlace(h) /\ FlagInPlace(h)
  BY <1>1, <1>3, <1>6, RewardNames DEF Sound, HammerInPlace, Exists, FlagInPlace
<1>8. DecoysInPlace(h)
  BY <1>1, <1>3, RewardNames DEF Sound, DecoysInPlace
<1>9. RewardsInPlace(h) /\ RewardMoves(g, h)
  BY <1>1, <1>2, RewardNames DEF Sound, RewardsInPlace, RewardMoves
<1>10. ToldIsPast(h)
  BY <1>6 DEF Sound, ToldIsPast
<1>11. QED
  BY <1>5, <1>7, <1>8, <1>9, <1>10 DEF Leads, Sound

\* The same in the words of the code.
LEMMA GrantLeads ==
  ASSUME NEW g, Sound(g), NEW f \in {"welcome", "water"}, g.favor[f] # "completed"
  PROVE  Leads(g, Advance(Grant(g, RewardOf(f)), f, "completed"))
<1>1. PICK k : k = Place(g, RewardOf(f), "player")
  OBVIOUS
<1>2. PICK target \in Range(FavorOrder) : target = "completed"
  BY FavorPhases
<1>3. g \in Game /\ f \in Favors /\ RewardOf(f) \in Items /\ "player" \in Places
  BY RewardNames, PlacesOfItems DEF Sound
<1>4. /\ k \in Game /\ k.where = [g.where EXCEPT ![RewardOf(f)] = "player"]
      /\ k.favor = g.favor /\ k.story = g.story /\ k.told = g.told
      /\ k.toldTwice = g.toldTwice /\ k.dungeon = g.dungeon /\ k.patchBay = g.patchBay
  <2>1. PICK p \in Places : p = "player"
    BY <1>3
  <2>2. PICK i \in Items : i = RewardOf(f)
    BY <1>3
  <2>3. QED
    BY <1>1, <1>3, <2>1, <2>2, PlaceChanges
<1>5. PICK h : h = Advance(k, f, target)
  OBVIOUS
<1>6. /\ h \in Game /\ h.where = k.where
      /\ h.favor = [k.favor EXCEPT ![f] = Advanced(@, target)]
      /\ h.story = k.story /\ h.told = k.told
      /\ h.toldTwice = k.toldTwice /\ h.dungeon = k.dungeon /\ h.patchBay = k.patchBay
  BY <1>3, <1>4, <1>5, AdvanceChanges
<1>7. Advanced(k.favor[f], target) = "completed"
  BY <1>2, <1>3, <1>4, GameTypes, AdvancedForward
<1>8. Leads(g, h)
  <2>1. h.favor = [g.favor EXCEPT ![f] = "completed"]
    BY <1>4, <1>6, <1>7
  <2>2. /\ h.where = [g.where EXCEPT ![RewardOf(f)] = "player"]
        /\ h.story = g.story /\ h.told = g.told /\ h.dungeon = g.dungeon
        /\ h.patchBay = g.patchBay /\ h.toldTwice = g.toldTwice
    BY <1>4, <1>6
  <2>3. QED
    BY <1>6, <2>1, <2>2, RewardLeads, ZenonT(60)
<1>9. Grant(g, RewardOf(f)) = k
  BY <1>1 DEF Grant, Exists, Sound, RewardsInPlace
<1>10. QED
  BY <1>2, <1>5, <1>8, <1>9

\* The clue of The Dusty Spoon does not touch the pancake.
LEMMA ClueOfGrant ==
  ASSUME NEW g, Sound(g), NEW reward \in Rewards
  PROVE  Clue(Grant(g, reward)) = Grant(Clue(g), reward)
<1>1. g \in Game /\ reward \in Items
  BY RewardNames DEF Sound
<1>2. Grant(g, reward) \in {g, Place(g, reward, "player")}
      /\ Clue(g) \in {g, [g EXCEPT !.story = "temple-lead"]}
  BY DEF Grant, Clue
<1>3. Clue(g).where = g.where
  BY <1>1, <1>2 DEF Game
<1>4. Grant(g, reward).story = g.story
  BY <1>1, <1>2, PlaceChanges DEF Place, Game
<1>5. [Place(g, reward, "player") EXCEPT !.story = "temple-lead"]
        = Place([g EXCEPT !.story = "temple-lead"], reward, "player")
  BY <1>1 DEF Place, Game
<1>6. QED
  BY <1>3, <1>4, <1>5 DEF Grant, Clue, Exists

LEMMA WelcomedLeads == ASSUME NEW g, Sound(g) PROVE Leads(g, Welcomed(g))
<1>1. CASE g.favor["welcome"] \in {"unavailable", "completed"}
  BY <1>1, LeadsNowhere DEF Welcomed
<1>2. CASE g.favor["welcome"] \notin {"unavailable", "completed"}
  <2>1. Leads(g, Clue(g)) /\ Sound(Clue(g))
    BY ClueLeads DEF Leads
  <2>2. Clue(g).favor = g.favor
    BY DEF Clue, Sound, Game
  <2>3. Leads(Clue(g), Advance(Grant(Clue(g), "pancake"), "welcome", "completed"))
    BY <1>2, <2>1, <2>2, GrantLeads, RewardNames
  <2>4. Clue(Grant(g, "pancake")) = Grant(Clue(g), "pancake")
    BY ClueOfGrant, RewardNames
  <2>5. QED
    BY <1>2, <2>1, <2>3, <2>4, LeadsOn DEF Welcomed
<1>3. QED
  BY <1>1, <1>2

\* An errand that has been asked for and reconciled.
LEMMA AskedLeads ==
  ASSUME NEW g, Sound(g), NEW f \in Favors
  PROVE  Leads(g, Reconcile(Advance(g, f, "active"), FALSE))
<1>1. Leads(g, Advance(g, f, "active")) /\ Sound(Advance(g, f, "active"))
  BY AdvanceLeads, FavorPhases DEF Leads
<1>2. QED
  BY <1>1, ReconcileLeads, LeadsOn

\* The worker keeps the hammer and the favor is completed.
LEMMA HammerGivenLeads ==
  ASSUME NEW g, Sound(g), Held(g, "hammer")
  PROVE  Leads(g, Advance(Clue(Place(g, "hammer", "worker")), "tool", "completed"))
<1>1. g.favor["tool"] # "completed"
  BY DEF Sound, HammerInPlace, Held, Exists
<1>2. PICK k : k = Place(g, "hammer", "worker")
  OBVIOUS
<1>3. Leads(g, k)
  <2>1. "hammer" \notin Decoys \union Rewards /\ "hammer" # "flag"
    BY RewardNames
  <2>2. QED
    BY <1>1, <1>2, <2>1, PlacesOfItems, PlaceLeads
<1>4. Leads(k, Clue(k))
  BY <1>3, ClueLeads DEF Leads
<1>5. Clue(k).where["hammer"] = "worker"
  <2>1. PICK p \in Places : p = "worker"
    BY PlacesOfItems
  <2>2. PICK i \in Items : i = "hammer"
    BY RewardNames
  <2>3. k.where = [g.where EXCEPT ![i] = p] /\ g.where \in [Items -> Places] /\ k \in Game
    BY <1>2, <2>1, <2>2, PlaceChanges, GameTypes DEF Sound
  <2>4. Clue(k).where = k.where
    BY <2>3 DEF Clue, Game
  <2>5. QED
    BY <2>1, <2>2, <2>3, <2>4
<1>6. Leads(Clue(k), Advance(Clue(k), "tool", "completed"))
  BY <1>4, <1>5, AdvanceLeads, FavorPhases, RewardNames DEF Leads, Exists
<1>7. Leads(g, Clue(k))
  BY <1>3, <1>4, LeadsOn
<1>8. QED
  BY <1>2, <1>6, <1>7, LeadsOn

LEMMA HammerLeads == ASSUME NEW g, Sound(g) PROVE Leads(g, HammerHandedIn(g))
<1>1. PICK asked : asked = Reconcile(Advance(g, "tool", "active"), FALSE)
  OBVIOUS
<1>2. Leads(g, asked) /\ Sound(asked)
  BY <1>1, AskedLeads, RewardNames DEF Leads
<1>3. Held(asked, "hammer") =>
        Leads(g, Advance(Clue(Place(asked, "hammer", "worker")), "tool", "completed"))
  BY <1>2, HammerGivenLeads, LeadsOn
<1>4. QED
  BY <1>1, <1>2, <1>3, LeadsNowhere DEF HammerHandedIn

\* What advances one favor leaves the others alone.
LEMMA AdvanceOfAnother ==
  ASSUME NEW g \in Game, NEW f \in Favors, NEW e \in Favors, e # f,
         NEW target \in Range(FavorOrder)
  PROVE  Advance(g, f, target).favor[e] = g.favor[e]
<1>1. Advance(g, f, target).favor = [g.favor EXCEPT ![f] = Advanced(@, target)]
  BY AdvanceChanges
<1>2. g.favor \in [Favors -> Range(FavorOrder)]
  BY GameTypes
<1>3. QED
  BY <1>1, <1>2

\* A reconciliation does not complete the water favor.
LEMMA WaterIsNotReconciled ==
  ASSUME NEW g, Sound(g), Reconcile(g, FALSE).favor["water"] = "completed"
  PROVE  g.favor["water"] = "completed"
<1>1. /\ Sound(g) /\ Sound(WithKeys(g)) /\ Sound(FlagSeenTo(g)) /\ Sound(LossesRepaired(g))
      /\ Sound(ReadyTool(LossesRepaired(g))) /\ Sound(Readied(g))
  BY SettledLeads, WithKeysLeads, ReadyLeads DEF Leads
<1>2. PICK ready \in Range(FavorOrder) : ready = "ready"
  BY FavorPhases
<1>3. PICK completed \in Range(FavorOrder) : completed = "completed"
  BY FavorPhases
<1>4. PICK water \in Favors : water = "water"
  BY RewardNames
<1>5. PICK tool \in Favors : tool = "tool" /\ water # tool
  BY <1>4, RewardNames
<1>6. WithKeys(g).favor = g.favor
  BY DEF WithKeys, Sound, Game
<1>7. FlagSeenTo(g).favor = WithKeys(g).favor
  BY <1>1 DEF FlagSeenTo, RepairFlag, Place, Sound, Game
<1>8. LossesRepaired(g).favor[water] = FlagSeenTo(g).favor[water]
  <2>1. PICK k : k = FlagSeenTo(g)
    OBVIOUS
  <2>2. k \in Game
    BY <1>1, <2>1 DEF Sound
  <2>3. Advance(k, tool, completed).favor[water] = k.favor[water]
    BY <1>5, <2>2, AdvanceOfAnother
  <2>4. Place(k, "hammer", "cooler").favor = k.favor
    BY <2>2 DEF Place, Game
  <2>5. RepairTool(k) \in {k, Place(k, "hammer", "cooler"), Advance(k, tool, completed)}
    BY <1>3, <1>5 DEF RepairTool
  <2>6. QED
    BY <2>1, <2>3, <2>4, <2>5 DEF LossesRepaired
<1>9. ReadyTool(LossesRepaired(g)).favor[water] = LossesRepaired(g).favor[water]
  <2>1. PICK k : k = LossesRepaired(g)
    OBVIOUS
  <2>2. k \in Game
    BY <1>1, <2>1 DEF Sound
  <2>3. Advance(k, tool, ready).favor[water] = k.favor[water]
    BY <1>5, <2>2, AdvanceOfAnother
  <2>4. ReadyTool(k) \in {k, Advance(k, tool, ready)}
    BY <1>2, <1>5 DEF ReadyTool
  <2>5. QED
    BY <2>1, <2>3, <2>4
<1>10. Readied(g).favor[water] = "completed" => ReadyTool(LossesRepaired(g)).favor[water] = "completed"
  <2>1. PICK k : k = ReadyTool(LossesRepaired(g))
    OBVIOUS
  <2>2. k \in Game /\ k.favor \in [Favors -> Range(FavorOrder)]
    BY <1>1, <2>1, GameTypes DEF Sound
  <2>3. Advance(k, water, ready).favor = [k.favor EXCEPT ![water] = Advanced(@, ready)]
    BY <2>2, AdvanceChanges
  <2>4. Advanced(k.favor[water], ready) \in {k.favor[water], ready}
    BY <2>2, AdvancedForward
  <2>5. ReadyWater(k) \in {k, Advance(k, water, ready)}
    BY <1>2, <1>4 DEF ReadyWater
  <2>6. QED
    BY <1>2, <2>1, <2>2, <2>3, <2>4, <2>5 DEF Readied
<1>11. Reconcile(g, FALSE).favor = Readied(g).favor
  BY <1>1, RecoverChanges, ReconcileInPhases DEF Reconciled
<1>12. QED
  BY <1>4, <1>6, <1>7, <1>8, <1>9, <1>10, <1>11

LEMMA WaterGivenLeads ==
  ASSUME NEW g, Sound(g), NEW w \in HeldWaters(g), g.favor["water"] # "completed"
  PROVE  Leads(g, Advance(Grant(Place(g, w, "pulseDome"), "trailmix"), "water", "completed"))
<1>1. w \in Items /\ w \notin Decoys \union Rewards \union Keyed
  BY RewardNames DEF HeldWaters
<1>2. PICK k : k = Place(g, w, "pulseDome")
  OBVIOUS
<1>3. Leads(g, k)
  BY <1>1, <1>2, PlacesOfItems, PlaceLeads, RewardNames
<1>4. k.favor["water"] # "completed"
  <2>1. PICK p \in Places : p = "pulseDome"
    BY PlacesOfItems
  <2>2. QED
    BY <1>1, <1>2, <2>1, PlaceChanges DEF Sound
<1>5. Leads(k, Advance(Grant(k, "trailmix"), "water", "completed"))
  BY <1>3, <1>4, GrantLeads, RewardNames DEF Leads
<1>6. QED
  BY <1>2, <1>3, <1>5, LeadsOn

LEMMA WaterLeads == ASSUME NEW g, Sound(g) PROVE Leads(g, WaterHandedIn(g))
<1>1. PICK asked : asked = Reconcile(Advance(g, "water", "active"), FALSE)
  OBVIOUS
<1>2. Leads(g, asked) /\ Sound(asked)
  BY <1>1, AskedLeads, RewardNames DEF Leads
<1>3. PICK water : water = CHOOSE w \in Waters : Held(asked, w)
  OBVIOUS
<1>4. ASSUME g.favor["water"] # "completed", HeldWaters(asked) # {}
      PROVE  Leads(g, Advance(Grant(Place(asked, water, "pulseDome"), "trailmix"),
                              "water", "completed"))
  <2>1. water \in HeldWaters(asked)
    BY <1>3, <1>4 DEF HeldWaters
  <2>2. PICK active \in Range(FavorOrder) : active = "active"
    BY FavorPhases
  <2>3. PICK f \in Favors : f = "water"
    BY RewardNames
  <2>4. PICK k : k = Advance(g, f, active)
    OBVIOUS
  <2>5. k.favor["water"] # "completed"
    <3>1. g \in Game /\ g.favor \in [Favors -> Range(FavorOrder)]
      BY GameTypes DEF Sound
    <3>2. k.favor = [g.favor EXCEPT ![f] = Advanced(@, active)]
      BY <2>4, <3>1, AdvanceChanges
    <3>3. Advanced(g.favor[f], active) \in {g.favor[f], active}
      BY <3>1, AdvancedForward
    <3>4. QED
      BY <1>4, <2>2, <2>3, <3>1, <3>2, <3>3
  <2>6. Sound(k)
    BY <2>2, <2>3, <2>4, AdvanceLeads DEF Leads
  <2>7. asked = Reconcile(k, FALSE)
    BY <1>1, <2>2, <2>3, <2>4
  <2>8. asked.favor["water"] # "completed"
    BY <2>5, <2>6, <2>7, WaterIsNotReconciled
  <2>9. QED
    BY <1>2, <2>1, <2>8, WaterGivenLeads, LeadsOn
<1>5. QED
  BY <1>1, <1>2, <1>3, <1>4, LeadsNowhere DEF WaterHandedIn

\* The ranger takes the flag, and the story is over.
LEMMA ReturnLeads ==
  ASSUME NEW g, Sound(g), Held(g, "flag")
  PROVE  Leads(g, [Place(g, "flag", "ranger") EXCEPT !.story = "returned"])
<1>1. PICK h : h = [Place(g, "flag", "ranger") EXCEPT !.story = "returned"]
  OBVIOUS
<1>2. g \in Game /\ g.where \in [Items -> Places] /\ g.story \in Range(StoryOrder)
  BY GameTypes DEF Sound
<1>3. /\ h \in Game /\ h.where = [g.where EXCEPT !["flag"] = "ranger"]
      /\ h.favor = g.favor /\ h.story = "returned" /\ h.told = g.told
      /\ h.toldTwice = g.toldTwice /\ h.dungeon = g.dungeon /\ h.patchBay = g.patchBay
  <2>1. PICK i \in Items : i = "flag"
    BY RewardNames
  <2>2. PICK p \in Places : p = "ranger"
    BY PlacesOfItems
  <2>3. PICK k : k = Place(g, i, p)
    OBVIOUS
  <2>4. /\ k \in Game /\ k.where = [g.where EXCEPT ![i] = p]
        /\ k.favor = g.favor /\ k.told = g.told
        /\ k.toldTwice = g.toldTwice /\ k.dungeon = g.dungeon /\ k.patchBay = g.patchBay
    BY <1>2, <2>3, PlaceChanges
  <2>5. h = [k EXCEPT !.story = "returned"]
    BY <1>1, <2>1, <2>2, <2>3
  <2>6. "returned" \in Range(StoryOrder)
    BY StoryPhases
  <2>7. h \in Game
    BY <2>4, <2>5, <2>6 DEF Game
  <2>8. QED
    BY <2>1, <2>2, <2>4, <2>5, <2>7 DEF Game
<1>4. g.dungeon /\ g.where["flag"] = "player"
  BY DEF Sound, FlagInPlace, Held
<1>5. Forward(g, h)
  <2>1. Rank(StoryOrder, h.story) >= Rank(StoryOrder, g.story)
    BY <1>2, <1>3, StoryRanks, StoryPhases
  <2>2. QED
    BY <1>3, <2>1, LeadsNowhere DEF Leads, Forward
<1>6. HammerInPlace(h)
  BY <1>2, <1>3, RewardNames DEF Sound, HammerInPlace, Exists
<1>7. FlagInPlace(h)
  BY <1>2, <1>3, <1>4, RewardNames DEF FlagInPlace
<1>8. DecoysInPlace(h)
  BY <1>2, <1>3, RewardNames DEF Sound, DecoysInPlace
<1>9. RewardsInPlace(h) /\ RewardMoves(g, h)
  BY <1>2, <1>3, RewardNames DEF Sound, RewardsInPlace, RewardMoves
<1>10. ToldIsPast(h)
  BY <1>3 DEF Sound, ToldIsPast
<1>11. QED
  BY <1>1, <1>3, <1>5, <1>6, <1>7, <1>8, <1>9, <1>10 DEF Leads, Sound

LEMMA ConversedLeads ==
  ASSUME NEW g, Sound(g), NEW npc \in Npcs
  PROVE  Leads(g, Conversed(g, npc))
<1>1. PICK h : h = Reconcile(g, FALSE)
  OBVIOUS
<1>2. Leads(g, h) /\ Sound(h)
  BY <1>1, ReconcileLeads DEF Leads
<1>3. ReturnsFlag(h, npc) => Leads(h, [Place(h, "flag", "ranger") EXCEPT !.story = "returned"])
  BY <1>2, ReturnLeads DEF ReturnsFlag
<1>4. /\ Leads(h, Greeted(h)) /\ Leads(h, Welcomed(h)) /\ Leads(h, HammerHandedIn(h))
      /\ Leads(h, WaterHandedIn(h)) /\ Leads(h, h)
  BY <1>2, GreetedLeads, WelcomedLeads, HammerLeads, WaterLeads, LeadsNowhere
<1>5. Conversed(g, npc) \in
        {Greeted(h), Welcomed(h), HammerHandedIn(h), WaterHandedIn(h), h}
        \union IF ReturnsFlag(h, npc)
               THEN {[Place(h, "flag", "ranger") EXCEPT !.story = "returned"]} ELSE {}
  <2>1. CASE ReturnsFlag(h, npc)
    BY <1>1, <2>1 DEF Conversed, ReturnsFlag
  <2>2. CASE ~ReturnsFlag(h, npc) /\ npc = "ranger"
    BY <1>1, <2>2 DEF Conversed
  <2>3. CASE ~ReturnsFlag(h, npc) /\ npc # "ranger"
    BY <1>1, <2>3 DEF Conversed, Npcs
  <2>4. QED
    BY <2>1, <2>2, <2>3
<1>6. Leads(h, Conversed(g, npc))
  BY <1>3, <1>4, <1>5
<1>7. QED
  BY <1>2, <1>6, LeadsOn

-----------------------------------------------------------------------------
(* Every turn leads forward.                                               *)

\* What is within reach, or held, may be moved.
LEMMA MovedLeads ==
  ASSUME NEW g, Sound(g), NEW i \in Items,
         g.where[i] \in Levels \union {"cooler", "player"},
         NEW p \in Levels \union {"cooler", "player"}
  PROVE  Leads(g, Place(g, i, p))
<1>1. g.where[i] \notin Npcs \union {"absent", "gone"} /\ p \notin Npcs /\ p \in Places
  BY DEF Levels, Npcs, Places
<1>2. i = "flag" => g.dungeon
  BY <1>1 DEF Sound, FlagInPlace
<1>3. i = "hammer" => g.favor["tool"] # "completed"
  BY <1>1 DEF Sound, HammerInPlace, Exists, Npcs
<1>4. p # "ranger" /\ g.where[i] # "ranger"
  BY <1>1 DEF Npcs
<1>5. QED
  BY <1>1, <1>2, <1>3, <1>4, PlaceLeads

LEMMA ConsumedLeads ==
  ASSUME NEW g, Sound(g), NEW i \in Rewards \union Waters, Held(g, i)
  PROVE  Leads(g, Place(g, i, "gone"))
<1>1. i \in Items /\ i \notin Decoys /\ i # "flag" /\ i # "hammer"
  BY RewardNames, ProgressAssumption DEF Keyed
<1>2. "gone" \in Places /\ "gone" \notin Npcs
  BY DEF Places, Npcs
<1>3. QED
  BY <1>1, <1>2, PlaceLeads DEF Held

LEMMA LevelLeads ==
  ASSUME NEW g, Sound(g), NEW l \in Levels, NEW b \in {TRUE, g.dungeon}
  PROVE  Leads(g, [g EXCEPT !.level = l, !.dungeon = b])
<1>1. PICK h : h = [g EXCEPT !.level = l, !.dungeon = b]
  OBVIOUS
<1>2. g \in Game /\ b \in BOOLEAN
  BY GameTypes DEF Sound
<1>3. h \in Game
  BY <1>1, <1>2 DEF Game
<1>4. /\ h.where = g.where /\ h.favor = g.favor /\ h.told = g.told /\ h.story = g.story
      /\ h.toldTwice = g.toldTwice /\ h.dungeon = b /\ h.patchBay = g.patchBay
  BY <1>1, <1>2 DEF Game
<1>5. Forward(g, h) /\ RewardMoves(g, h)
  BY <1>4, LeadsNowhere DEF Leads, Forward, RewardMoves
<1>6. HammerInPlace(h) /\ DecoysInPlace(h)
  BY <1>4 DEF Sound, HammerInPlace, Exists, DecoysInPlace
<1>7. FlagInPlace(h)
  BY <1>4 DEF Sound, FlagInPlace
<1>8. RewardsInPlace(h) /\ ToldIsPast(h)
  BY <1>4 DEF Sound, RewardsInPlace, ToldIsPast
<1>9. QED
  BY <1>1, <1>3, <1>5, <1>6, <1>7, <1>8 DEF Leads, Sound

\* What the player has done, before the turn reconciles it, leads forward.
ForwardTurn == \E h : Leads(game, h) /\ Turn(h)

LEMMA NextTurns == ASSUME Sound(game), Next PROVE ForwardTurn
<1>1. ASSUME NEW npc \in Npcs, Talk(npc) PROVE ForwardTurn
  BY <1>1, ConversedLeads DEF ForwardTurn, Talk
<1>2. ASSUME NEW i \in Items, Take(i) PROVE ForwardTurn
  <2>1. game.where[i] \in Levels \union {"cooler", "player"}
    BY <1>2, GameTypes DEF Take, Sound
  <2>2. Leads(game, Place(game, i, "player"))
    BY <2>1, MovedLeads
  <2>3. Leads(game, Reconcile(Place(game, i, "player"), TRUE))
    BY <2>2, ReconcileLeads, LeadsOn DEF Leads
  <2>4. QED
    BY <1>2, <2>3 DEF ForwardTurn, Take
<1>3. ASSUME NEW i \in Items, Consume(i) PROVE ForwardTurn
  BY <1>3, ConsumedLeads DEF ForwardTurn, Consume
<1>4. ASSUME NEW i \in Stowed, Drop(i) \/ PutAway(i) PROVE ForwardTurn
  <2>1. i \in Items /\ game.where[i] = "player"
    BY <1>4, ProgressAssumption DEF Drop, PutAway, Held
  <2>2. game.level \in Levels
    BY GameTypes DEF Sound
  <2>3. Leads(game, Place(game, i, game.level)) /\ Leads(game, Place(game, i, "cooler"))
    BY <2>1, <2>2, MovedLeads
  <2>4. QED
    BY <1>4, <2>3 DEF ForwardTurn, Drop, PutAway
<1>5. CASE Descend
  <2>1. PICK below : below = [game EXCEPT !.level = "dungeon", !.dungeon = TRUE]
    OBVIOUS
  <2>2. Leads(game, below) /\ Sound(below)
    BY <2>1, LevelLeads DEF Levels, Leads
  <2>3. ~game.dungeon => Leads(below, Place(below, "flag", "dungeon"))
    <3>1. below.where = game.where /\ below.dungeon
      BY <2>1 DEF Sound, Game
    <3>2. ~game.dungeon => below.where["flag"] # "ranger"
      BY <3>1 DEF Sound, FlagInPlace
    <3>3. QED
      BY <2>2, <3>1, <3>2, PlaceLeads, PlacesOfItems, RewardNames
  <2>4. ~game.dungeon => Leads(game, Place(below, "flag", "dungeon"))
    BY <2>2, <2>3, LeadsOn
  <2>5. QED
    BY <1>5, <2>1, <2>2, <2>4 DEF ForwardTurn, Descend
<1>6. CASE Ascend
  <2>1. Leads(game, [game EXCEPT !.level = "surface", !.dungeon = game.dungeon])
    BY LevelLeads DEF Levels
  <2>2. [game EXCEPT !.level = "surface", !.dungeon = game.dungeon]
          = [game EXCEPT !.level = "surface"]
    BY DEF Sound, Game
  <2>3. QED
    BY <1>6, <2>1, <2>2, SMTT(60) DEF ForwardTurn, Ascend
<1>7. CASE Wander
  BY <1>7, LeadsNowhere DEF ForwardTurn, Wander
<1>8. QED
  BY <1>1, <1>2, <1>3, <1>4, <1>5, <1>6, <1>7 DEF Next

-----------------------------------------------------------------------------
(* A reconciled game has nothing left to reconcile.                        *)

FlagIsSeenTo(g) == (Exists(g, "flag") => g.flagKey) /\ ~FlagIsLost(g)
ToolIsSeenTo(g) == ~(ToolIsLost(g) /\ g.patchBay) /\ ~IsWaived(g)
ToolIsReady(g)  == ~(Awaited(g, "tool") /\ Held(g, "hammer"))
WaterIsReady(g) == ~(Awaited(g, "water") /\ HeldWaters(g) # {})

\* Nothing in a game calls for a reconciliation.
NothingLeft(g) ==
  /\ FlagIsSeenTo(g) /\ ToolIsSeenTo(g) /\ ToolIsReady(g) /\ WaterIsReady(g)
  /\ ~RecoversFlag(g)

LEMMA NothingLeftIsSettled ==
  ASSUME NEW g, Sound(g), NothingLeft(g)
  PROVE  Reconcile(g, TRUE) = g
<1>1. g \in Game /\ g.flagKey \in BOOLEAN
  BY GameTypes DEF Sound
<1>2. (g.flagKey \/ Exists(g, "flag")) = g.flagKey
  BY <1>1, Zenon DEF NothingLeft, FlagIsSeenTo
<1>3. WithKeys(g) = [g EXCEPT !.flagKey = g.flagKey]
  BY <1>2 DEF WithKeys
<1>4. WithKeys(g) = g
  BY <1>1, <1>3 DEF Game
<1>5. FlagSeenTo(g) = g
  BY <1>4 DEF FlagSeenTo, RepairFlag, NothingLeft, FlagIsSeenTo
<1>6. LossesRepaired(g) = g
  BY <1>5 DEF LossesRepaired, RepairTool, NothingLeft, ToolIsSeenTo
<1>7. ReadyTool(g) = g /\ ReadyWater(g) = g
  BY DEF ReadyTool, ReadyWater, NothingLeft, ToolIsReady, WaterIsReady
<1>8. Readied(g) = g
  BY <1>6, <1>7 DEF Readied
<1>9. Reconciled(g) = g
  BY <1>8 DEF Reconciled, Recover, NothingLeft
<1>10. QED
  BY <1>5, <1>6, <1>9, ReconcileInPhases DEF NothingLeft, ToolIsSeenTo

LEMMA FlagIsSettled ==
  ASSUME NEW g, Sound(g) PROVE FlagIsSeenTo(FlagSeenTo(g))
<1>1. PICK a : a = WithKeys(g)
  OBVIOUS
<1>2. a \in Game
  BY <1>1, WithKeysLeads DEF Leads, Sound
<1>3. Exists(a, "flag") => a.flagKey
  BY <1>1 DEF WithKeys, Exists, Sound, Game
<1>4. CASE FlagIsLost(a)
  <2>1. PICK k : k = Place(a, "flag", "dungeon")
    OBVIOUS
  <2>2. k \in Game /\ k.where = [a.where EXCEPT !["flag"] = "dungeon"]
    <3>1. PICK i \in Items : i = "flag"
      BY RewardNames
    <3>2. PICK p \in Places : p = "dungeon"
      BY DEF Places, Levels
    <3>3. QED
      BY <1>2, <2>1, <3>1, <3>2, PlaceChanges
  <2>3. FlagSeenTo(g) = [k EXCEPT !.flagKey = TRUE]
    BY <1>1, <1>4, <2>1 DEF FlagSeenTo, RepairFlag
  <2>4. PICK h : h = FlagSeenTo(g)
    OBVIOUS
  <2>5. h.flagKey /\ h.where = k.where
    BY <2>2, <2>3, <2>4 DEF Game
  <2>6. Exists(h, "flag")
    BY <1>2, <2>2, <2>5, GameTypes, RewardNames DEF Exists
  <2>7. QED
    BY <2>4, <2>5, <2>6 DEF FlagIsSeenTo, FlagIsLost
<1>5. CASE ~FlagIsLost(a)
  BY <1>1, <1>3, <1>5 DEF FlagSeenTo, RepairFlag, FlagIsSeenTo
<1>6. QED
  BY <1>4, <1>5

\* What a flag has been seen to depends on.
LEMMA FlagStaysSeenTo ==
  ASSUME NEW g, NEW h, FlagIsSeenTo(g), h.where["flag"] = g.where["flag"],
         h.flagKey = g.flagKey, h.level = g.level, h.dungeon = g.dungeon,
         h.story = g.story
  PROVE  FlagIsSeenTo(h)
  BY DEF FlagIsSeenTo, FlagIsLost, Exists

LEMMA ToolIsSettled ==
  ASSUME NEW g, Sound(g), FlagIsSeenTo(g)
  PROVE  FlagIsSeenTo(RepairTool(g)) /\ ToolIsSeenTo(RepairTool(g))
<1>1. g \in Game
  BY DEF Sound
<1>2. CASE ToolIsLost(g) /\ g.patchBay
  <2>1. PICK i \in Items : i = "hammer"
    BY RewardNames
  <2>2. PICK p \in Places : p = "cooler"
    BY DEF Places
  <2>3. PICK h : h = Place(g, i, p)
    OBVIOUS
  <2>4. /\ h.where = [g.where EXCEPT ![i] = p] /\ g.where \in [Items -> Places]
        /\ h.flagKey = g.flagKey /\ h.level = g.level /\ h.dungeon = g.dungeon
        /\ h.story = g.story
    BY <1>1, <2>3, PlaceChanges, GameTypes
  <2>5. h.where["flag"] = g.where["flag"] /\ Exists(h, "hammer")
    BY <2>1, <2>2, <2>4, RewardNames DEF Exists
  <2>6. FlagIsSeenTo(h) /\ ToolIsSeenTo(h)
    BY <2>4, <2>5, FlagStaysSeenTo DEF ToolIsSeenTo, ToolIsLost, IsWaived
  <2>7. QED
    BY <1>2, <2>1, <2>2, <2>3, <2>6 DEF RepairTool
<1>3. CASE IsWaived(g)
  <2>1. PICK f \in Favors : f = "tool"
    BY RewardNames
  <2>2. PICK target \in Range(FavorOrder) : target = "completed"
    BY FavorPhases
  <2>3. PICK h : h = Advance(g, f, target)
    OBVIOUS
  <2>4. /\ h.favor = [g.favor EXCEPT ![f] = Advanced(@, target)]
        /\ g.favor \in [Favors -> Range(FavorOrder)]
        /\ h.where = g.where /\ h.flagKey = g.flagKey /\ h.level = g.level
        /\ h.dungeon = g.dungeon /\ h.story = g.story
    BY <1>1, <2>3, AdvanceChanges, GameTypes
  <2>5. h.favor["tool"] = "completed"
    BY <2>1, <2>2, <2>4, AdvancedForward
  <2>6. FlagIsSeenTo(h) /\ ToolIsSeenTo(h)
    BY <2>4, <2>5, FlagStaysSeenTo DEF ToolIsSeenTo, ToolIsLost, IsWaived
  <2>7. RepairTool(g) = h
    BY <1>3, <2>1, <2>2, <2>3 DEF RepairTool, IsWaived
  <2>8. QED
    BY <2>6, <2>7
<1>4. CASE ~(ToolIsLost(g) /\ g.patchBay) /\ ~IsWaived(g)
  BY <1>4 DEF RepairTool, ToolIsSeenTo
<1>5. QED
  BY <1>2, <1>3, <1>4

LEMMA ReadyIsSettled ==
  ASSUME NEW g, Sound(g), FlagIsSeenTo(g), ToolIsSeenTo(g)
  PROVE  LET h == ReadyWater(ReadyTool(g))
         IN  FlagIsSeenTo(h) /\ ToolIsSeenTo(h) /\ ToolIsReady(h) /\ WaterIsReady(h)
<1>1. PICK ready \in Range(FavorOrder) : ready = "ready"
  BY FavorPhases
<1>2. PICK tool \in Favors : tool = "tool"
  BY RewardNames
<1>3. PICK water \in Favors : water = "water"
  BY RewardNames
<1>4. ASSUME NEW k \in Game, NEW f \in Favors, Awaited(k, f)
      PROVE  /\ Advance(k, f, ready).favor = [k.favor EXCEPT ![f] = "ready"]
             /\ k.favor \in [Favors -> Range(FavorOrder)]
             /\ Advance(k, f, ready).where = k.where
             /\ Advance(k, f, ready).flagKey = k.flagKey
             /\ Advance(k, f, ready).level = k.level
             /\ Advance(k, f, ready).dungeon = k.dungeon
             /\ Advance(k, f, ready).story = k.story
             /\ Advance(k, f, ready).patchBay = k.patchBay
             /\ Advance(k, f, ready).crew = k.crew
  <2>1. Advanced(k.favor[f], ready) = ready
    BY <1>1, <1>4, FavorRanks DEF Advanced, Awaited
  <2>2. QED
    BY <1>1, <2>1, AdvanceChanges, GameTypes
<1>5. PICK k : k = ReadyTool(g)
  OBVIOUS
<1>6. g \in Game /\ k \in Game
  BY <1>5, ReadyLeads DEF Leads, Sound
<1>7. FlagIsSeenTo(k) /\ ToolIsSeenTo(k) /\ ToolIsReady(k)
  <2>1. CASE Awaited(g, "tool") /\ Held(g, "hammer")
    <3>1. k = Advance(g, tool, ready)
      BY <1>1, <1>2, <1>5, <2>1 DEF ReadyTool
    <3>2. /\ k.favor = [g.favor EXCEPT ![tool] = "ready"]
          /\ g.favor \in [Favors -> Range(FavorOrder)]
          /\ k.where = g.where /\ k.flagKey = g.flagKey
          /\ k.level = g.level /\ k.dungeon = g.dungeon /\ k.story = g.story
      BY <1>2, <1>4, <1>6, <2>1, <3>1
    <3>3. Exists(k, "hammer") /\ k.favor["tool"] = "ready"
      BY <1>2, <2>1, <3>2 DEF Exists, Held
    <3>4. FlagIsSeenTo(k)
      BY <3>2, FlagStaysSeenTo
    <3>5. QED
      BY <3>3, <3>4 DEF ToolIsSeenTo, ToolIsLost, IsWaived, ToolIsReady, Awaited
  <2>2. CASE ~(Awaited(g, "tool") /\ Held(g, "hammer"))
    BY <1>5, <2>2 DEF ReadyTool, ToolIsReady
  <2>3. QED
    BY <2>1, <2>2
<1>8. PICK h : h = ReadyWater(k)
  OBVIOUS
<1>9. FlagIsSeenTo(h) /\ ToolIsSeenTo(h) /\ ToolIsReady(h) /\ WaterIsReady(h)
  <2>1. CASE Awaited(k, "water") /\ HeldWaters(k) # {}
    <3>1. h = Advance(k, water, ready)
      BY <1>1, <1>3, <1>8, <2>1 DEF ReadyWater
    <3>2. /\ h.favor = [k.favor EXCEPT ![water] = "ready"]
          /\ k.favor \in [Favors -> Range(FavorOrder)]
          /\ h.where = k.where /\ h.flagKey = k.flagKey
          /\ h.level = k.level /\ h.dungeon = k.dungeon /\ h.story = k.story
          /\ h.patchBay = k.patchBay /\ h.crew = k.crew
      BY <1>3, <1>4, <1>6, <2>1, <3>1
    <3>3. h.favor["water"] = "ready" /\ h.favor["tool"] = k.favor["tool"]
      BY <1>2, <1>3, <3>2
    <3>4. FlagIsSeenTo(h)
      BY <1>7, <3>2, FlagStaysSeenTo
    <3>5. ToolIsSeenTo(h)
      BY <1>7, <3>2, <3>3 DEF ToolIsSeenTo, ToolIsLost, IsWaived, Exists
    <3>6. QED
      BY <1>7, <3>2, <3>3, <3>4, <3>5
         DEF ToolIsReady, WaterIsReady, Awaited, Held
  <2>2. CASE ~(Awaited(k, "water") /\ HeldWaters(k) # {})
    BY <1>7, <1>8, <2>2 DEF ReadyWater, WaterIsReady
  <2>3. QED
    BY <2>1, <2>2
<1>10. QED
  BY <1>5, <1>8, <1>9

\* The message told last is no cause for another.
LEMMA StoryIsSettled ==
  ASSUME NEW g, Sound(g), FlagIsSeenTo(g), ToolIsSeenTo(g), ToolIsReady(g),
         WaterIsReady(g)
  PROVE  NothingLeft(Recover(g))
<1>1. CASE RecoversFlag(g)
  <2>1. PICK h : h = Recover(g)
    OBVIOUS
  <2>2. /\ h.where = g.where /\ h.favor = g.favor /\ h.flagKey = g.flagKey
        /\ h.patchBay = g.patchBay /\ h.crew = g.crew /\ h.story = "flag-retrieved"
    BY <1>1, <2>1, RecoverChanges
  <2>3. Exists(h, "flag") /\ h.flagKey
    BY <1>1, <2>2 DEF RecoversFlag, Held, Exists
  <2>4. FlagIsSeenTo(h) /\ ~RecoversFlag(h)
    BY <2>2, <2>3 DEF FlagIsSeenTo, FlagIsLost, RecoversFlag
  <2>5. ToolIsSeenTo(h) /\ ToolIsReady(h) /\ WaterIsReady(h)
    BY <2>2 DEF ToolIsSeenTo, ToolIsLost, IsWaived, Exists, ToolIsReady, WaterIsReady,
                Awaited, Held, HeldWaters
  <2>6. QED
    BY <2>1, <2>4, <2>5 DEF NothingLeft
<1>2. CASE ~RecoversFlag(g)
  BY <1>2 DEF Recover, NothingLeft
<1>3. QED
  BY <1>1, <1>2

LEMMA TellSettles ==
  ASSUME NEW g, Sound(g), NothingLeft(g), NEW message
  PROVE  NothingLeft(Tell(g, message))
<1>1. PICK h : h = Tell(g, message)
  OBVIOUS
<1>2. /\ h.where = g.where /\ h.favor = g.favor /\ h.flagKey = g.flagKey
      /\ h.patchBay = g.patchBay /\ h.crew = g.crew /\ h.story = g.story
      /\ h.level = g.level /\ h.dungeon = g.dungeon
  BY <1>1 DEF Tell, Sound, Game
<1>3. FlagIsSeenTo(h)
  BY <1>2, FlagStaysSeenTo DEF NothingLeft
<1>4. ToolIsSeenTo(h) /\ ToolIsReady(h) /\ WaterIsReady(h) /\ ~RecoversFlag(h)
  BY <1>2 DEF NothingLeft, ToolIsSeenTo, ToolIsLost, IsWaived, Exists, ToolIsReady,
              WaterIsReady, Awaited, Held, HeldWaters, RecoversFlag
<1>5. QED
  BY <1>1, <1>3, <1>4 DEF NothingLeft

LEMMA ReconcileSettles ==
  ASSUME NEW g, Sound(g)
  PROVE  LET h == Reconcile(g, TRUE) IN Reconcile(h, TRUE) = h
<1>1. Sound(FlagSeenTo(g)) /\ Sound(LossesRepaired(g)) /\ Sound(Readied(g))
      /\ Sound(Reconciled(g)) /\ Sound(Reconcile(g, TRUE))
  BY SettledLeads, ReconcileLeads DEF Leads
<1>2. FlagIsSeenTo(LossesRepaired(g)) /\ ToolIsSeenTo(LossesRepaired(g))
  BY <1>1, FlagIsSettled, ToolIsSettled DEF LossesRepaired
<1>3. /\ FlagIsSeenTo(Readied(g)) /\ ToolIsSeenTo(Readied(g)) /\ ToolIsReady(Readied(g))
      /\ WaterIsReady(Readied(g))
  BY <1>1, <1>2, ReadyIsSettled DEF Readied
<1>4. NothingLeft(Reconciled(g))
  BY <1>1, <1>3, StoryIsSettled DEF Reconciled
<1>5. NothingLeft(Reconcile(g, TRUE))
  BY <1>1, <1>4, TellSettles, ReconcileInPhases
<1>6. QED
  BY <1>1, <1>5, NothingLeftIsSettled

-----------------------------------------------------------------------------
(* The theorems.                                                           *)

LEMMA InitSound == Init => IInv
<1> SUFFICES ASSUME Init PROVE IInv
  OBVIOUS
<1>1. PICK bay \in BOOLEAN, crew \in BOOLEAN, below \in BOOLEAN, hammer \in BOOLEAN,
           flag \in BOOLEAN :
        /\ flag => below
        /\ hammer => bay
        /\ game = [where |-> [i \in Items |->
                     CASE i = "hammer" /\ hammer -> "cooler"
                       [] i = "flag" /\ flag     -> "dungeon"
                       [] i \in Waters \union Decoys -> "surface"
                       [] OTHER                  -> "absent"],
                   favor    |-> [f \in Favors |-> "unavailable"],
                   story    |-> "not-started", flagKey |-> flag,
                   level    |-> "surface", dungeon |-> below,
                   patchBay |-> bay, crew |-> crew,
                   told     |-> {}, toldTwice |-> FALSE]
  BY DEF Init
<1>2. PICK where : where = [i \in Items |->
                     CASE i = "hammer" /\ hammer -> "cooler"
                       [] i = "flag" /\ flag     -> "dungeon"
                       [] i \in Waters \union Decoys -> "surface"
                       [] OTHER                  -> "absent"]
  OBVIOUS
<1>3. /\ where["hammer"] = IF hammer THEN "cooler" ELSE "absent"
      /\ where["flag"] = IF flag THEN "dungeon" ELSE "absent"
      /\ where["pancake"] = "absent" /\ where["trailmix"] = "absent"
      /\ \A i \in Waters \union Decoys : where[i] = "surface"
  BY <1>2, RewardNames
<1>4. \A i \in Items : where[i] \in {"cooler", "dungeon", "surface", "absent"}
  BY <1>2, <1>3, RewardNames DEF Items
<1>5. where \in [Items -> Places]
  <2>1. DOMAIN where = Items /\ where = [i \in Items |-> where[i]]
    BY <1>2
  <2>2. {"cooler", "dungeon", "surface", "absent"} \subseteq Places
    BY DEF Places, Levels
  <2>3. QED
    BY <1>4, <2>1, <2>2
<1>6. game \in Game
  <2>1. [f \in Favors |-> "unavailable"] \in [Favors -> Range(FavorOrder)]
        /\ "not-started" \in Range(StoryOrder) /\ "surface" \in Levels
    BY FavorPhases, StoryPhases DEF Levels
  <2>2. QED
    BY <1>1, <1>2, <1>5, <2>1 DEF Game
<1>7. /\ game.where = where /\ \A f \in Favors : game.favor[f] = "unavailable"
      /\ game.story = "not-started" /\ game.told = {} /\ game.toldTwice = FALSE
  BY <1>1, <1>2
<1>8. ~game.dungeon => game.where["flag"] = "absent"
  BY <1>1, <1>3, <1>7
<1>9. HammerInPlace(game) /\ FlagInPlace(game)
  BY <1>3, <1>7, <1>8, RewardNames DEF HammerInPlace, FlagInPlace
<1>10. DecoysInPlace(game)
  BY <1>3, <1>7 DEF DecoysInPlace, Npcs
<1>11. RewardsInPlace(game) /\ ToldIsPast(game)
  BY <1>3, <1>7, RewardNames DEF RewardsInPlace, ToldIsPast
<1>12. Settled
  BY <1>6 DEF Init, Settled, TypeOK
<1>13. QED
  BY <1>6, <1>9, <1>10, <1>11, <1>12 DEF IInv, Sound

LEMMA NextLeads ==
  ASSUME Sound(game), Next
  PROVE  Leads(game, game') /\ Settled'
<1>1. PICK h : Leads(game, h) /\ Turn(h)
  BY NextTurns DEF ForwardTurn
<1>2. Leads(game, game')
  BY <1>1, ReconcileLeads, LeadsOn DEF Turn, Leads
<1>3. Reconcile(game', TRUE) = game'
  BY <1>1, ReconcileSettles DEF Turn, Leads
<1>4. TypeOK'
  BY <1>1, <1>2 DEF TypeOK, Turn, Leads, Sound
<1>5. QED
  BY <1>2, <1>3, <1>4 DEF Settled

LEMMA IInvariant == Spec => []IInv
<1>1. IInv /\ [Next]_vars => IInv'
  <2>1. IInv /\ Next => IInv'
    BY NextLeads DEF IInv, Leads
  <2>2. IInv /\ UNCHANGED vars => IInv'
    <3> SUFFICES ASSUME IInv, game' = game, played' = played PROVE IInv'
      BY DEF vars
    <3>1. Sound(game')
      BY DEF IInv
    <3>2. Settled'
      BY DEF IInv, Settled, TypeOK
    <3>3. QED
      BY <3>1, <3>2 DEF IInv
  <2>3. QED
    BY <2>1, <2>2
<1>2. QED
  BY <1>1, InitSound, PTL DEF Spec

\* After every turn the game has its types and nothing is left to reconcile: a
\* restore or the next turn finds no late repair and no late message.
THEOREM TurnsLeaveNothing == Spec => []Settled
<1>1. IInv => Settled
  BY DEF IInv
<1>2. QED
  BY <1>1, IInvariant, PTL

\* The handed-in hammer and the returned flag stay where they are, and nothing
\* else is ever handed in.
THEOREM HandedInForGood == Spec => []HandedIn
<1>1. IInv => HandedIn
  BY DEF IInv, Sound, HammerInPlace, FlagInPlace, DecoysInPlace, HandedIn
<1>2. QED
  BY <1>1, IInvariant, PTL

\* Neither the discovery of the flag nor the waiver of the hammer is told twice.
THEOREM NothingToldTwice == Spec => []ToldOnce
<1>1. IInv => ToldOnce
  BY DEF IInv, Sound, ToldIsPast, ToldOnce
<1>2. QED
  BY <1>1, IInvariant, PTL

\* No order of talks, pickups, losses and repairs takes a favor or the story back.
THEOREM NothingGoesBack == Spec => PhasesOnlyForward
<1>1. IInv /\ [Next]_vars => [GoesForward]_vars
  <2>1. IInv /\ Next => GoesForward
    BY NextLeads DEF IInv, Leads, Forward, GoesForward
  <2>2. QED
    BY <2>1
<1>2. QED
  BY <1>1, IInvariant, PTL DEF Spec, PhasesOnlyForward

\* A reward comes with the completion of its favor and never again.
THEOREM NoSecondReward == Spec => RewardedOnce
<1>1. IInv /\ [Next]_vars =>
        [\A f \in {"welcome", "water"} :
           game.where[RewardOf(f)] # game'.where[RewardOf(f)] =>
             \/ game.where[RewardOf(f)] = "absent" /\ game'.favor[f] = "completed"
             \/ game.where[RewardOf(f)] \notin {"absent", "gone"}]_vars
  <2>1. IInv /\ Next => RewardMoves(game, game')
    BY NextLeads DEF IInv, Leads
  <2>2. QED
    BY <2>1 DEF RewardMoves
<1>2. QED
  BY <1>1, IInvariant, PTL DEF Spec, RewardedOnce
=============================================================================
