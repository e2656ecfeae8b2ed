------------------------- MODULE CampgroundProgress -------------------------
(***************************************************************************)
(* The favors and the missing-flag story of campgroundProgress.ts, played  *)
(* in turns: the player's action of actions.ts or campgroundActions.ts,    *)
(* then the reconciliation that closes every turn (gameloop.ts).           *)
(*                                                                         *)
(* A save may come from an older version of the program: a campground      *)
(* without Patch Bay or without an effigy crew, without the hammer, or a   *)
(* dungeon without the flag.  Positions are abstracted to the level: from  *)
(* turn to turn the player can walk up to whatever is on its own.          *)
(***************************************************************************)
EXTENDS Naturals

CONSTANTS
  Waters,   \* bottles of water in the campground
  Decoys,   \* hammers and flags that are not the ones looked for
  Stowed    \* bound of the instance: what the player may drop or put away

Keyed   == {"hammer", "flag"}
Rewards == {"pancake", "trailmix"}
Items   == Keyed \union Rewards \union Waters \union Decoys

ASSUME ProgressAssumption ==
  /\ Waters \intersect (Keyed \union Rewards \union Decoys) = {}
  /\ Decoys \intersect (Keyed \union Rewards) = {}
  /\ Stowed \subseteq Items

Npcs   == {"ranger", "dustySpoon", "worker", "pulseDome", "resident"}
Levels == {"surface", "dungeon"}

\* Where an entity is: not (yet) in the world, consumed, on the ground of a
\* level, in a cooler of the surface, held by the player or by somebody.
Places == {"absent", "gone", "cooler", "player"} \union Levels \union Npcs

Favors     == {"welcome", "tool", "water"}
FavorOrder == <<"unavailable", "offered", "active", "ready", "completed">>
StoryOrder == <<"not-started", "seeking-rumors", "temple-lead",
                "flag-retrieved", "returned">>
Range(order) == {order[i] : i \in DOMAIN order}
Rank(order, phase) == CHOOSE i \in DOMAIN order : order[i] = phase

Messages == {"flag", "waived"}

VARIABLES
  game,     \* the part of the game state the story is about
  played    \* has a turn been played since the save was made or the game begun?

vars == <<game, played>>

Game == [
  where:   [Items -> Places],
  favor:   [Favors -> Range(FavorOrder)],
  story:   Range(StoryOrder),         \* missingFlagPhase
  flagKey: BOOLEAN,                   \* is missingFlagKey set?
  level:   Levels,                    \* of the player
  dungeon: BOOLEAN,                   \* has the first level been generated?
  patchBay: BOOLEAN, crew: BOOLEAN,   \* does the campground have them?
  told:    SUBSET Messages,           \* progress messages told so far
  toldTwice: BOOLEAN]

-----------------------------------------------------------------------------
(* Favors and items.                                                       *)

\* Mutant: a transition also goes back.
AdvancedAnyWay(phase, target) == target

\* transitionCampgroundFavor: only forward.
Advanced(phase, target) ==
  IF Rank(FavorOrder, target) > Rank(FavorOrder, phase) THEN target ELSE phase

Advance(g, f, target) == [g EXCEPT !.favor[f] = Advanced(@, target)]

Exists(g, i) == g.where[i] \notin {"absent", "gone"}
Held(g, i)   == g.where[i] = "player"
Place(g, i, p) == [g EXCEPT !.where[i] = p]
HeldWaters(g) == {w \in Waters : Held(g, w)}

\* grantUniqueReward: not while the reward of this key is in the world.
Grant(g, reward) == IF Exists(g, reward) THEN g ELSE Place(g, reward, "player")

\* A clue: the search for rumors has led to the temple.
Clue(g) == IF g.story = "seeking-rumors" THEN [g EXCEPT !.story = "temple-lead"]
                                         ELSE g

Tell(g, message) ==
  [g EXCEPT !.told = @ \union {message},
            !.toldTwice = @ \/ message \in g.told]

-----------------------------------------------------------------------------
(* reconcileCampgroundProgress.                                            *)

\* withStableProgressKeys.
WithKeys(g) == [g EXCEPT !.flagKey = @ \/ Exists(g, "flag")]

\* repairMissingFlag puts a lost flag at a dead end of the dungeon.
FlagIsLost(g) ==
  /\ g.story # "returned"
  /\ g.flagKey \/ g.level = "dungeon"
  /\ ~Exists(g, "flag")
  /\ g.dungeon

RepairFlag(g) ==
  IF FlagIsLost(g) THEN [Place(g, "flag", "dungeon") EXCEPT !.flagKey = TRUE]
                   ELSE g

\* repairBorrowedTool puts a lost hammer into Patch Bay's cooler; a campground
\* without Patch Bay has the favor waived by its effigy crew.
ToolIsLost(g) == g.favor["tool"] # "completed" /\ ~Exists(g, "hammer")
IsWaived(g)   == ToolIsLost(g) /\ ~g.patchBay /\ g.crew

\* Mutant: a hammer that cannot be put back is not waived.
RepairToolUnwaived(g) == IF ToolIsLost(g) /\ g.patchBay THEN Place(g, "hammer", "cooler") ELSE g

RepairTool(g) ==
  IF ToolIsLost(g) /\ g.patchBay THEN Place(g, "hammer", "cooler")
  ELSE IF IsWaived(g) THEN Advance(g, "tool", "completed") ELSE g

\* reconcileHeldItems: what the player holds moves a favor that waits for it,
\* and the flag moves the story at any time.
Awaited(g, f) == g.favor[f] \in {"offered", "active"}

ReadyTool(g) ==
  IF Awaited(g, "tool") /\ Held(g, "hammer") THEN Advance(g, "tool", "ready") ELSE g

ReadyWater(g) ==
  IF Awaited(g, "water") /\ HeldWaters(g) # {} THEN Advance(g, "water", "ready")
                                               ELSE g

\* Mutant: a returned flag is recognized again.
RecoversAgain(g) == g.flagKey /\ Held(g, "flag") /\ g.story # "returned"

RecoversFlag(g) ==
  /\ g.flagKey /\ Held(g, "flag")
  /\ g.story \notin {"flag-retrieved", "returned"}

Recover(g) == IF RecoversFlag(g) THEN [g EXCEPT !.story = "flag-retrieved"] ELSE g

\* One message at most: the flag's hides the waiver's.
Reconcile(g, emit) ==
  LET keyed    == RepairFlag(WithKeys(g))
      repaired == RepairTool(keyed)
      settled  == Recover(ReadyWater(ReadyTool(repaired)))
  IN  IF ~emit THEN settled
      ELSE IF RecoversFlag(repaired) THEN Tell(settled, "flag")
      ELSE IF IsWaived(keyed) THEN Tell(settled, "waived")
      ELSE settled

-----------------------------------------------------------------------------
(* Conversations: what progressCampgroundConversation makes of a talk.     *)

\* greetAndStartRumors.
Greeted(g) ==
  IF g.story # "not-started" /\ g.favor["welcome"] \notin {"unavailable", "offered"}
    THEN g
    ELSE Advance([g EXCEPT !.story = IF @ = "not-started" THEN "seeking-rumors"
                                                          ELSE @],
                 "welcome", "active")

\* Mutant: the host of The Dusty Spoon thanks every time.
WelcomedAgain(g) ==
  IF g.favor["welcome"] = "unavailable" THEN g
  ELSE Advance(Clue(Grant(g, "pancake")), "welcome", "completed")

\* completeWelcomeFavor.
Welcomed(g) ==
  IF g.favor["welcome"] \in {"unavailable", "completed"} THEN g
  ELSE Advance(Clue(Grant(g, "pancake")), "welcome", "completed")

\* Mutant: any hammer will do.
AnyHammerHandedIn(g) ==
  LET asked == Reconcile(Advance(g, "tool", "active"), FALSE)
  IN  IF g.favor["tool"] = "completed" THEN g
      ELSE IF \E t \in Decoys \union {"hammer"} : Held(asked, t)
        THEN LET any == CHOOSE t \in Decoys \union {"hammer"} : Held(asked, t)
             IN  Advance(Clue(Place(asked, any, "worker")), "tool", "completed")
        ELSE asked

\* handleToolFavor: the exact hammer is handed in as soon as it is there.
HammerHandedIn(g) ==
  LET asked == Reconcile(Advance(g, "tool", "active"), FALSE)
  IN  IF g.favor["tool"] = "completed" THEN g
      ELSE IF Held(asked, "hammer")
        THEN Advance(Clue(Place(asked, "hammer", "worker")), "tool", "completed")
        ELSE asked

\* handleWaterFavor: any held water will do.
WaterHandedIn(g) ==
  LET asked == Reconcile(Advance(g, "water", "active"), FALSE)
      water == CHOOSE w \in Waters : Held(asked, w)
  IN  IF g.favor["water"] = "completed" THEN g
      ELSE IF HeldWaters(asked) # {}
        THEN Advance(Grant(Place(asked, water, "pulseDome"), "trailmix"),
                     "water", "completed")
        ELSE asked

\* returnMissingFlag comes before everything else its owner has to say.
ReturnsFlag(g, npc) == npc = "ranger" /\ g.flagKey /\ Held(g, "flag")

Conversed(g0, npc) ==
  LET g == Reconcile(g0, FALSE)
  IN  CASE ReturnsFlag(g, npc) -> [Place(g, "flag", "ranger") EXCEPT !.story = "returned"]
        [] npc = "ranger" /\ ~ReturnsFlag(g, npc) -> Greeted(g)
        [] npc = "dustySpoon" -> Welcomed(g)
        [] npc = "worker"     -> HammerHandedIn(g)
        [] npc = "pulseDome"  -> WaterHandedIn(g)
        [] OTHER              -> g

-----------------------------------------------------------------------------
(* Turns.                                                                  *)

\* Mutant: the turn engine does not reconcile.
TurnUnreconciled(g) == game' = g /\ played' = TRUE

\* Every turn ends with a reconciliation that tells what it finds.
Turn(g) == game' = Reconcile(g, TRUE) /\ played' = TRUE

\* talk, to somebody who is there.
Talk(npc) ==
  /\ game.level = "surface"
  /\ npc = "worker" => game.crew
  /\ Turn(Conversed(game, npc))

\* pickupMulti and lootTakeMulti reconcile of themselves, too.
Take(i) ==
  /\ \/ game.where[i] = game.level
     \/ game.where[i] = "cooler" /\ game.level = "surface"
  /\ Turn(Reconcile(Place(game, i, "player"), TRUE))

Drop(i) == Held(game, i) /\ Turn(Place(game, i, game.level))

\* lootPutMulti.
PutAway(i) ==
  /\ Held(game, i) /\ game.level = "surface"
  /\ Turn(Place(game, i, "cooler"))

\* eatMulti and quaffMulti.
Consume(i) ==
  /\ i \in Rewards \union Waters
  /\ Held(game, i)
  /\ Turn(Place(game, i, "gone"))

\* descendPlayer generates the level, with its flag, on the first visit.
Descend ==
  /\ game.level = "surface"
  /\ LET below == [game EXCEPT !.level = "dungeon", !.dungeon = TRUE]
     IN  Turn(IF game.dungeon THEN below ELSE Place(below, "flag", "dungeon"))

Ascend == game.level = "dungeon" /\ Turn([game EXCEPT !.level = "surface"])

\* Every other action: walking, waiting, doors.
Wander == Turn(game)

-----------------------------------------------------------------------------
(* Specification.                                                          *)

\* A fresh game or the save of an older version.
Init ==
  /\ played = FALSE
  /\ \E bay, crew, below, hammer, flag \in BOOLEAN :
       /\ flag => below
       /\ hammer => bay
       /\ game = [where |-> [i \in Items |->
                    CASE i = "hammer" /\ hammer -> "cooler"
                      [] i = "flag" /\ flag     -> "dungeon"
                      [] i \in Waters \union Decoys -> "surface"
                      [] OTHER                  -> "absent"],
                  favor    |-> [f \in Favors |-> "unavailable"],
                  story    |-> "not-started", flagKey |-> flag,
                  level    |-> "surface", dungeon |-> below,
                  patchBay |-> bay, crew |-> crew,
                  told     |-> {}, toldTwice |-> FALSE]

Next ==
  \/ \E npc \in Npcs : Talk(npc)
  \/ \E i \in Items : Take(i) \/ Consume(i)
  \/ \E i \in Stowed : Drop(i) \/ PutAway(i)
  \/ Descend \/ Ascend \/ Wander

Spec == Init /\ [][Next]_vars

\* A player who means to finish runs every errand that is possible again and
\* again.  Each errand changes the game whenever it is possible, so this is
\* strong fairness; it stands for "can still be finished".
Up      == game.level = "surface"
Near(i) == game.where[i] = game.level \/ (Up /\ game.where[i] = "cooler")
Awaits  == game.favor["welcome"] = "active"
Unmet   == game.favor["welcome"] = "unavailable"

Keen ==
  /\ <>[]~Up \/ []<><<Descend>>_vars
  /\ <>[]Up  \/ []<><<Ascend>>_vars
  /\ \A i \in Keyed :
       /\ <>[]~Near(i) \/ []<><<Take(i)>>_vars
       /\ <>[](Up \/ ~Held(game, i)) \/ []<><<Held(game, i) /\ Ascend>>_vars
  /\ <>[]~(Up /\ Unmet)  \/ []<><<Unmet /\ Talk("ranger")>>_vars
  /\ <>[]~(Up /\ Awaits) \/ []<><<Awaits /\ Talk("dustySpoon")>>_vars
  /\ <>[]~(Up /\ Held(game, "hammer") /\ game.crew)
       \/ []<><<Held(game, "hammer") /\ Talk("worker")>>_vars
  /\ <>[]~(Up /\ Held(game, "flag"))
       \/ []<><<Held(game, "flag") /\ Talk("ranger")>>_vars

KeenSpec == Spec /\ Keen

-----------------------------------------------------------------------------
(* Properties.                                                             *)

TypeOK == game \in Game /\ played \in BOOLEAN

\* No order of talks, pickups and losses takes a favor or the story back: the
\* phases are never reset by a reconciliation that comes late.
GoesForward ==
  /\ \A f \in Favors :
       Rank(FavorOrder, game'.favor[f]) >= Rank(FavorOrder, game.favor[f])
  /\ Rank(StoryOrder, game'.story) >= Rank(StoryOrder, game.story)
PhasesOnlyForward == [][GoesForward]_vars

\* A reward comes with the completion of its favor and never again, even when
\* it has been eaten and its key is free (grantUniqueReward looks at the world
\* only; the phases have to do the rest).
RewardOf(f) == CASE f = "welcome" -> "pancake" [] f = "water" -> "trailmix"
RewardedOnce ==
  [][\A f \in {"welcome", "water"} :
       game.where[RewardOf(f)] # game'.where[RewardOf(f)] =>
         \/ game.where[RewardOf(f)] = "absent" /\ game'.favor[f] = "completed"
         \/ game.where[RewardOf(f)] \notin {"absent", "gone"}]_vars

\* A completed tool favor means that the worker has Patch Bay's own hammer, or
\* that there was none to be had; a returned flag is the ranger's for good.
HandedIn ==
  /\ game.favor["tool"] = "completed" =>
       IF Exists(game, "hammer") THEN game.where["hammer"] = "worker"
                                 ELSE ~game.patchBay
  /\ game.story = "returned" <=> game.where["flag"] = "ranger"
  /\ \A i \in Decoys : game.where[i] \notin Npcs

\* After every turn the game is a proper one and nothing is left to reconcile:
\* the next turn, or a restore, finds no late repair to make and no late message
\* to tell.
Settled == TypeOK /\ (played => Reconcile(game, TRUE) = game)

\* The discovery of the flag and the waiver of the hammer are told once at
\* most, however often the items are dropped and taken again.
ToldOnce == ~game.toldTwice

\* The story can always be finished: whatever has been lost or put away, a
\* player who keeps at it hands in the hammer, brings the message and returns
\* the flag.  (The water favor is optional; without a crew nobody asks.)
StoryFinishes ==
  <>(/\ game.story = "returned" /\ game.favor["welcome"] = "completed"
     /\ game.crew => game.favor["tool"] = "completed")

=============================================================================
