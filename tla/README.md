# A TLA+ verification project for Flag Hack

Flag Hack is a turn-based terminal game: one server process (TypeScript,
Effect) keeps the one game there is, saves it to one file and streams its
state to terminal clients (Go, Bubble Tea). This directory holds a model of the
parts whose correctness depends on the order in which things happen, the TLC
runs that check them on small instances, and machine-checked proofs.

File names below are relative to `packages/server/src` unless they say
otherwise; `main.go` is `packages/cli/charm/main.go`.

## 1. Inventory

| Component | State it keeps | Operations | Talks to | What makes it hard |
|---|---|---|---|---|
| Game repository (`GameRepository.ts`, `GameStateStore.ts`) | the live game or none, the terminal marker, one permit | views, actions, two setup requests, save, restore, quit, autosave | persistence and hub, awaited with the permit held; called by HTTP fibers | fibers interrupted at every wait, failures between store, save and publication |
| Persistence (`GamePersistence.ts`) | the save file | read, consume, delete corrupt, write temporary and rename | the file system, by promises nobody can cancel | crashes between two calls, calls that land after their operation is over |
| Process (`server.ts`) | running, draining, closing | signals, autosave, interruption, exit | repository | requests overtaken by the shutdown |
| Hub and stream (`GameUpdateHub.ts`, `Api.ts`) | revision, replay buffer, a queue per subscriber | publish, snapshot, subscribe | repository; one HTTP response per client | gap between snapshot and subscription, slow readers, restarts |
| Terminal client (`main.go`) | the state shown, stream and generation, queue of actions, automatic movement, terminal intent | `Update`, one message at a time; commands in goroutines | server, by stream and requests | late answers, reconnects, requests that wait for one another |
| Favors and flag story (`campgroundProgress.ts`) | phases of three favors and of the story, keys of items and people | talk, repair, reconcile | turn engine, dialogue | any order of finding, losing and asking; old saves |
| Turn engine (`gameloop.ts`, `actions.ts`, `activeRegion.ts`, `offscreen.ts`, `ai/ai.ts`) | the world: one map of entities | the player's action, plans of the others, off-screen budget | everything below it | plans made for a world that has changed when they run |
| Atmosphere, sounds, events (`campgroundAtmosphere.ts`, `sounds.ts`, `gameplayEvents.ts`) | turn counter, cooldowns, bounded event history | one step a turn | client, by event ids | once-only messages, bounds |
| Travel (`campgroundActions.ts`, `campgroundNavigation.ts`) | the route under way | travel step, search | turn engine | a stored route through a world that moves |
| Setup, runtime defaults (`setup.ts`, `campgroundState.ts`) | phase, role, campground record | two requests, normalisation on load | repository | old saves, prose told once |
| World generation (`world.ts`, `campground.ts`, `terrain.ts`, `worldUtil.ts`) | none | surface, first dungeon level, deeper levels | repository, stairs | every step takes what the earlier ones left free, for seeds nobody has tried |
| Rendering, dialogue, schemas, configuration, scripts | none that matters here | | | |

What makes each correct, in a sentence: the *repository* never loses, tears or
silently replaces a game, and an ended game stays ended; the *stream* brings
every client to the newest state and never back; the *client* sends what was
typed once and in order and shows nothing older than it has shown; the *favors*
go forward only, pay once and can always be finished; the *turn engine* keeps
every entity in one sensible place; *travel* ends; *messages* are told once; a
*level* can be made for any seed and all of it can be reached.

## 2. Modules

| Module | Models |
|---|---|
| `GameRepository` | repository, store, persistence, process and the fibers of the HTTP server |
| `SteadyRepository` | it, with a record of whether a call has failed in this process |
| `StateMirror` | abstract: what a client that follows the game may show |
| `ClientStateStream` | hub, stream, connection, and the client's stream, poll and reconnect handling; implements `StateMirror` |
| `CampgroundProgress` | favors and flag story, in turns |
| `TurnEngine` | one turn: plans, their execution, doors, stairs, the active region, off-screen people, landmark travel |
| `CampgroundRoute` | legal steps and the route search that landmark travel follows |
| `CampgroundAtmosphere` | public events, discoveries, ambience, dungeon sounds, the event history and the client that shows it |
| `CampgroundCatalog` | the 24 camps as far as the level depends on them |
| `CampgroundPlan` | what a geometry fixes: roads, lots, shelter tiles, reserved ground |
| `CampgroundLayout` | the surface level, made step by step |
| `CampgroundPlaces` | what the game reads off the finished surface: landmarks, parts people play |
| `Grid` | the cells of a dungeon level, what is beside them and what steps along the axes reach |
| `FirstDungeonLevel` | the maze, the flag and the hippies |
| `BspLevel` | the deeper levels: rooms, links, doors |
| `LevelGeneration` | the three kinds of level as alternatives |
| `InputQueue` | abstract: what a player may expect of keys typed ahead |
| `CharmClient` | the client's message loop, its commands and the game they talk to; implements `InputQueue` |
| `MC_*` | constants of the TLC runs |
| `*Proofs` | theorems about the module they are named for, `DungeonLevelProofs` about `FirstDungeonLevel` and `BspLevel` (section 4) |

### GameRepository

A game is `[stamp, phase, player, prose]`: which change made it, how far its
setup is, whether the player is still in its world, and whether its history
holds the opening prose. Everything else in a game is moved around by this
component without being looked at.

`op[f]` and `pc[f]` say what fiber `f` does and which promise it waits for.
JavaScript runs from one wait to the next without interleaving what matters
here, so an action stretches from one wait to the next: `Acquire` (the permit
is granted, the first file-system call is issued), `Read`, `DeleteLands`,
`WriteTemp`, `Rename` (that call resolves), the bodies `ServeView`, `TakeTurn`,
`ChangeSetup`, `KeepSetup`, `SaveBody`, `AutosaveBody`, then `EndGame` or
`Resume` and `Publish`. Between the body, the terminal refs and the publication
the fiber does not wait for anything, but it may yield to the scheduler and be
interrupted there, which is why they are separate.

`Abort` is the HTTP server interrupting a fiber whose client has gone. The
permit is given back at once; the promise has no `AbortSignal`, so the call it
stands for goes on as `LateDelete`, `LateWrite`, `LateRename`. `InOrderIO` says
whether calls of different operations land in the order they were issued, which
Node's thread pool does not promise; the runs below say which they assume.
`Signal`, `CloseServer`, `Exit`, `Crash` and `Boot` are `server.ts`. What Effect
and Node do (the semaphore, interruption, promises) is not in this repository:
those definitions are marked external in the map and modelled from their use.

`promise` is a history variable: the game of the last completed save, forgotten
when a quit, an explicit restore or the loss of the player takes it back.
`SteadyRepository` adds another, `steady`: no call has failed since the process
started. It is for what the code promises only while the file system works.

### StateMirror and ClientStateStream

The game is the sequence of states it has been in (playing or over), across
restarts; an event carries its revision, the index of its state and the
terminal mark. `Change` and `Publish` are the two ends of a mutation that holds
the permit; `Abandon` gives the permit back after storing without publishing.
`Snapshot` and `Subscribe` are the two halves of the stream handler, with the
gap between them; `queue` is the subscriber's sliding queue, `wire` whatever
the connection holds. `Cut` and `Restart` lose any suffix of it.

On the client `Initial`, `Receive`, `StreamStops`, `OpenFails`, `Reconnect`,
`Polled`, `PollFails` are the branches of `Update`; `generation` and `last` are
its `streamGeneration` and `lastStreamRevision`. The client modelled is one
that watches: it sends no actions, so `mutationSerial` never changes and its
queue is empty. The refinement maps `states`, `shown` and `left` to themselves:
whatever the network does, each step of the system is one of `StateMirror` or
changes nothing of it.

### CampgroundProgress

An entity is at one of a few places (ground of a level, a cooler, the player, a
person, consumed, absent). Positions within a level are left out, since from
turn to turn the player can walk to anything on it; `Talk`, `Take`, `Drop`,
`PutAway`, `Consume`, `Descend`, `Ascend` are the actions that can matter to a
favor, `Wander` all others. Every action ends in `Turn`, which reconciles as
`gameloop.ts` does. Initial states are fresh games and saves of older versions:
with or without Patch Bay, effigy crew, hammer, generated dungeon and flag.

### TurnEngine and CampgroundRoute

A turn of `gameloop.ts` is one transition of the stored game; the model takes it
apart where something is computed for later use. `StartTurn` makes the plans:
`sight` and `frozen` are the planning world (`actorWorld`), `seen` the movement
world (`collisionWorld`). `PersonActs` carries out one plan against `seen` and
writes back the one who acted (`Synced`). The player comes last: `Rests`, `Walks`,
`SetsDoor`, `TakesStairs`, `TravelsTo`. `AfterPlayer` begins the lazy step:
`roster` holds the people it will serve, who plan against the cells next to all of
them; `Serve` is one of them. What a person decides is a set (`Steps`): the code
takes a member by a hash. The order in which people act is that of a hash map
and left open.

`travel` is `activeTravel` of the stored game. `CampgroundRoute` has the search as
a recursive function over its own state (frontier, costs, predecessors); the
binary heap is modelled by what `pop` returns. The reference it is measured
against, `CheapestCosts`, knows legal steps and their prices only.

A grid of another z stands for the first dungeon level; there `activeRegion` is
undefined in the code, since the level has no far corner, and planning and
movement use the whole world.

### Level generation

`CampgroundLayout` is `makeCampgroundLevel` at its real size, 360 by 160 cells with
all 24 camps, in the order of the code: `PlaceShelter` for each of
`PlacementOrder`, `FurnishCamp` for each camp, `PutUpAwnings`, `LetItRain`,
`HousePeople`, `PutOnRoads`. Where the code fails with a `LevelGenerationError`
the stage is "failed". A shelter is described in the frame of its camp, along
and away from the road, and turned onto the grid by `OnGrid`. Random choices are
shuffles of cells: an order `(a * x + b * y) % m` stands for one.
`SettleIn` is what `campgroundState.ts` derives from a level it has been given:
which entity is which landmark, which signs are camps, who greets, hosts,
keeps, lives and travels.

`FirstDungeonLevel` is a depth-first walk with all its choices; `BspLevel` turns
the recursion of `_BSPGenLevel` into an agenda of parts to build and links to
make, and draws `Draws` of every `Grain`-th part of a range. A link whose rooms do not
face each other is dug in steps: `StartDigging` draws the floors to be joined,
`LowerCosts` is a round of dijkstra for all cells at once (the code visits one cell at a
time, which gives the same costs), `StepBack` is a step of the way back that
`dijkstraPath` reconstructs, and `DigWay` turns its walls into the passage.

### CampgroundAtmosphere

`state` is the part of `GameState` that the atmosphere reads and writes. The code
is a function from states to states; its hashes and seeded draws are replaced by
all values they may take, so each operator is the set of its results. `Walk` and
`Talk` take a turn, `Talk` first says something of its own and then suppresses
what is due. The host of the welcome camp may answer by completing its favor, which marks
the camp as discovered and announces nothing (`completeWelcomeFavor`). Which talk does so is
`CampgroundProgress`'s; here each at a `Welcoming` spot may or may not (`Acquainted`).
`Restart` is a stop with autosave and lazy restore, `Crash` loses the
game, and `Look`, `Answer` and `Deliver` bring views to the client at once or
late. `recalled` is what `ambientLine` computes as the line said last.

### InputQueue and CharmClient

`m` is the Go `model`, with the fields that decide something; `cmds` are the
commands (goroutines) under way. A command is the list of HTTP calls it still
has to make (`todo`); every call is a step of its own, done by a game that
stands for the server (`game`: version, setup, arrival event, ended or not), and
with none left the command is a message that `Update` takes in any order. So
a message is read, computed and sent in one step (`ActionDone`, `SetupDone`,
`EndDone`, `AutoDone`, `PollDone`, `Opened`, `Received`, ...), as Bubble Tea does
it, and everything else interleaves. `ActionKey`, `AutoKey`, `StopKey`,
`SaveKey`, `QuitKey`, `QuitAnswer`, `InterruptKey`, `DismissKey` and the setup keys
are the player; panes and prompts that only swallow keys are left out, since a
key that is not taken is a step that is not made.

The client's `mutationSerial` numbers the keys and stands for the ids of actions
and movement as well; it grows whenever they do. `shown` is the version on the
screen. A stream delivers a snapshot, then every published state in order:
revisions, overflow and replays are `ClientStateStream`'s. Automatic movement
does any number of steps up to `MaxSteps` and stops for any reason; polled travel
moves in batches of one or two. A lost answer (`AnswerLost`) means that the server
did the call: a call the client gave up on has a place in the queue of the
repository's permit before any later call of the same client.

The refinement maps the queue, the active action and the requests the game has
seen to `InputQueue`; its `closed` is `pendingTerminalAction`.

## 3. Runs

| Run | Bounds | Shows |
|---|---|---|
| `repository_faults` | two request slots, all faults, calls in any order, one mutation | `TerminalIsEmpty`, `SaveNeverTorn`, `ProseOnlyFromConfirm`, `ProgressOnlyForward` |
| `repository_crash` | two slots, crashes and I/O failures, one mutation | `DurableSave`, `QuitIsFinal`, `SteadyIsAnnounced`, `SteadyReload`, `RequestsFinish` |
| `repository_quit` | two slots, clients that go away, two mutations | violated: a quit game comes back |
| `stream_mirror` | replay 2, queue 2, wire 1, four states, three connections | `MirrorSpec`, `DrainedIsCurrent`, `EventuallyShown` |
| `campground_safety` | one bottle, one other hammer; the player drops and puts away what the errands need | `HandedIn`, `Settled`, `ToldOnce`, `PhasesOnlyForward`, `RewardedOnce`, `StoryFinishes` |
| `client_play` | queue of one, three keys, one fault, runs of two steps | `KeysInOrder`, `OneAtATime` |
| `client_others` | one key, travel, save, Control-C, one refused call or broken stream, one call of another client, one restart | `DrainedIsCurrent`, `RecoveryArmed`, `StreamNotOverwritten` |
| `client_rest` | three keys from the choice of a role on, landmark travel, save, one fault | `BeginsInOrder`, `ComesToRest` |
| `world_turns` | six by two cells of campground and two of dungeon, a resident, a traveler, one destination, a view of one column, a budget of one | `Apart`, `RegionSealed`, `TravelHonest`, `EverybodyServed`, `TravelArrives` |
| `levels` | the surface at its size for nine geometries and two shuffles; mazes of 10 by 8; deeper levels of 14 by 10 | `EverythingHasItsPlace`, `EverywhereWithinReach`, `EveryoneInTheirPlace`, `FlagAtTheEndOfAMaze`, `LevelHoldsTogether` |
| `atmosphere_days` | four spots, two landmarks, two hosts, one hippie, a history of three; nine turns of one game, or four turns of each of two games with three views | `HeardOnceAndAll`, `OneVoiceATurn`, `DueIsTold`, `ProgrammeIsKept` |
| `atmosphere_rain` | six turns, four lines in a zone | violated: a line is said twice running |

Each module's type invariant is the first conjunct of one of these invariants
(`DrainedIsCurrent` of the stream, `OneAtATime`, `Settled`, `Apart`), all of which
are proved too, or proved on its own (`GameRepository`).

**Why the bounds are enough.** Two slots and the shutdown fiber give one holder
of the permit, one waiter and one abandoned call at the same time, and every
pair of operations; views, saves, restores and quits are not bounded at all,
only the mutations that make new stamps are (`MaxMutations`). Every initial file
that decoding distinguishes is tried. One mutation makes two games: the one
that was in the file, and can be saved again, and its successor, whose save may
be cut off at any call. In the stream the hub keeps 16 and 256
events where the runs keep one or two: what matters is that both limits are hit
and that the replay is never longer than the queue, and four states overflow
both. Three connections allow a poll of the first to be answered in the third.
In the campground one bottle and one decoy distinguish the exact item from one
of its kind; the other events of the world do not touch this state.
In the client three keys fill the queue behind an action and are refused one
more; saves, quits and movement of the same run meet them in every order. One
fault breaks a stream or a call at any point, and a restart breaks the stream
again while the fault is being recovered from; polls and actions of different
generations are then under way together. Landmark travel differs from other
travel in its second start only and is used in `client_rest`.

In `world_turns` the region around the player is three columns, its collision
ring five, of a strip of six: everybody is at some time inside, on the ring
and far away, the door, the walls and the stairs lie on the way, and people can
stand in each other's and the player's way. Two people are the fewest for two
plans that collide and for a cursor that must move on.
In `levels` the nine geometries are the middle and eight extremes such that any two
of the six parameters meet in all four combinations. Two shuffles are few; but
`EverythingHasItsPlace` includes `RoomForEveryShuffle`: wherever cells are chosen
that keep a gap there are as many as are asked for with twice the gap, so that
no choice made earlier can use up the room of two later ones. That covers every
shuffle for these geometries. A maze of 10 by 8 has 5 by 3 cells and all its spanning
trees that the walk can make; some have too few dead ends and are refused, as the
code refuses them. Deeper levels are split into four parts, with draws at the middle
and the end of every range: that gives links along rows, along columns and dug ones.
In `atmosphere_days` delays of one or two turns make every two schedules due
together, which the real ones (6 to 60 turns) do seldom; nine turns are two
events and the wait between them, and a history of three is cut as the
real one of fifty is.

**Deadlock.** It is checked for the repository, the campground, its turns, its
levels and its atmosphere. The stream
and client runs switch it off: with its bounds used up a quiet server and a
waiting client have nothing to do, and a client that has left never moves.

**Fairness.** `GameRepository!FairSpec`: a fiber that can run runs, the
semaphore's waiters are served in the order they came (hence strong fairness of
`Acquire`), abandoned calls land, a signalled shutdown proceeds. Nothing is
assumed of requests, signals or faults. `ClientStateStream!FairSpec`: server
fibers, the client's message loop and its timers go on; connections break and
servers restart only as often as the bounds say, after which a connection
lasts. `CharmClient!FairSpec`: while some command can go on, commands do; each
makes finitely many steps, so all come to their turn (goroutines run, every call
has a timeout of ten seconds, timers fire). Nothing is assumed of the player.
`TurnEngine!FairSpec`: the player goes on playing. `EverybodyServed` and
`TravelArrives` say in their premises what else they need: that the group far away
stops changing, that the player travels and nobody is in motion.
`CampgroundProgress!KeenSpec` is not about scheduling: it describes a
player who runs every errand again and again, so that `StoryFinishes` says the
story can always be finished, whatever was lost or stored on the way.

**Order of file-system calls.** `DurableSave`, `QuitIsFinal` and
`SteadyReload` are checked with calls landing in the order of issue.
When they may overtake one another `DurableSave` does not hold even without
aborts by clients: a shutdown interrupts a quit, its `rm` is still on its way,
and it lands after the finalizer's autosave.

### What the violated runs show

* `repository_quit`. `packages/server/README.md` lines 51-53 promise that a
  confirmed quit deletes the save. A save whose client has gone gives back the
  permit while `writeFile` and `rename` go on; a quit gets in between, and the
  late rename puts the file back. The next process resumes a game that was quit.
* `atmosphere_rain`. `packages/server/test/campground-atmosphere.unit.test.ts`
  line 269 describes "frequent heavy-rain ambience without immediate repetition".
  `ambientLine` (`campgroundAtmosphere.ts:519`) does not keep the line it said: it
  takes the one that the hash of the last message's turn picks from all lines
  of the zone, while the line said was picked from a list without its
  predecessor; after a talk the turn is even the talk's. So the line left out is
  often another one. With the real hash about a quarter of consecutive lines
  repeat (seed 777, road in the rain: turns 96 and 105).

Other things seen while modelling, which no run states. A setup change is in the
store before it is saved; if that save fails the request fails and nobody is
told, though the next view shows the changed setup (`GameRepository.ts:206`,
hence `steady`). Polled travel that sees its cancellation before the next move of
a batch returns the state it had (`main.go:3339`). A setup answer that is read
late brings back the prompt of a setup that another client has confirmed
(`main.go:855`). A save whose answer fails after its event has been read takes
keys again until the program's quit message comes (`main.go:874`).

A tool that cannot be repaired is waived without the explanatory event that
`docs/campground-improvement-plan.md` lines 341-342 describe when the first turn on
such a save is a talk, because that talk reconciles silently first
(`campgroundProgress.ts:699`). A client that missed a quit keeps its completed setup
over the fresh game of a restarted server (`main.go:1869`), though
`packages/cli/README.md` line 24 says that a fresh game prompts for a role. After a
crash the new game's first messages are not shown while their ids lie below the
client's cursor (`main.go:1880`); `HeardOnceAndAll` excepts exactly those.

Of the turn engine: in the dungeon there is no active region, so everybody on the
surface plans and moves every turn, while
`docs/campground-improvement-plan.md` lines 241-242 speak of a bounded set. People
whom the player's own step leaves on the ring between the two margins are neither
planned for nor served until the player moves on. Whoever comes up the stairs
does not ask whether somebody stands there (`actions.ts:398`): `Apart` excepts that
cell. `EverybodyServed` needs the group far away to stop changing: the cursor counts
positions in a list, and a list that changes at the right moments passes
somebody over. An off-screen traveler sees only the cells next to those served.
Landmark travel does not cut corners and plain steps do.

Of the levels: the gate's directory and the water station share their kind with
a prop of a camp, and the two are equally far from their middle, so the
order of keys decides which is the landmark (`campgroundNavigation.ts:114`). It is
the right one because the arrival's props are made first, and because the keys
concerned have the same number of digits. Nearly all rangers who patrol by a
flagship camp are within its radius of 24 and so count as residents of that
camp. A maze can have too few dead ends for its hippies; the level is then not
made, and the step downstairs fails.

## 4. Proofs

Eight modules hold theorems, each about the model of the same name (the first one also
about `SteadyRepository`, and `DungeonLevelProofs` about `FirstDungeonLevel` and
`BspLevel`), for every value of its constants. Besides the assumptions a model states of its own
constants (model values differ, capacities are positive, a floor plan is one)
only those are used that the tables name.

Each safety theorem follows one pattern: the property is made inductive by what the
code relies on without saying so, one lemma per action or part shows that a step
keeps it, and temporal logic does the rest. The inductive invariants were checked
by TLC on the runs' instances before they were proved.

**`GameRepositoryProofs`**, for any set of request slots and any number of mutations:

| Theorem | Says | Assumes |
|---|---|---|
| `TypeCorrect` | `Spec => []TypeOK` | |
| `MutualExclusion` | only the holder of the permit is inside an operation | |
| `EndedStaysEnded` | `Spec => []TerminalIsEmpty` | |
| `SaveIsNeverTorn` | `Spec => SaveNeverTorn` | |
| `PlayGoesForward` | `Spec => ProgressOnlyForward` | |
| `ProseIsToldOnce` | `Spec => ProseOnlyFromConfirm` | |
| `QuitLeavesNothing` | `Spec => []QuitIsFinal` | no aborts |
| `SavesAreDurable` | `Spec => []DurableSave` | no aborts, calls in order |

The inductive invariant `IInv` has six parts. `TerminalIsEmpty` is not
inductive: a lazy restore that was started while there was no game and no
marker would install its file after another operation has ended the game. It
cannot, because the fiber still holds the permit: `PermitHeld` (a fiber is
inside exactly if it holds the permit) and `LazyReadIsNeeded` (while a lazy read
is in flight there is no game and no marker). `PermitHeld` needs
`ShutdownSleeps`: a signal starts the shutdown's fiber only when it is idle, so
it cannot overwrite a place that holds the permit. `ProgressOnlyForward` also
needs `StampsGivenOut`, that no game in memory, in a hand or in the file has a
stamp beyond the clock.

`QuitLeavesNothing` and `SavesAreDurable` say what is true of saving and quitting.
*No aborts* (`"abort" \notin Faults`) means that clients wait for their answers;
without it `QuitIsFinal` is false, which is the finding of `repository_quit`.
*Calls in order* (`InOrderIO`) is needed because of the shutdown that interrupts a
quit (section 3). Crashes and failing calls are allowed, and the closing of
the server still interrupts every request. `QInv` adds to `IInv` that only this
closing leaves calls behind (`LateOnlyAtTheEnd`), that no new request comes then
(`ServerClosed`), and that whatever is being written, also by a call left behind,
is the live game (`WritesTheLiveGame`): a late write cannot bring back a game that was
quit, as a quit needs a server that is up. `SInv` adds that nobody who has a save to
answer for deletes the file (`NothingPromised`, `NothingToRestore`) and that the live
game is no older than the promise (`LiveIsNoOlder`).

In the same module, with the record of failed calls (`SteadyRepository`):

| Theorem | Says | Assumes |
|---|---|---|
| `EveryChangeIsAnnounced` | `SteadySpec => []SteadyIsAnnounced` | no aborts |
| `ShutdownKeepsTheGame` | `SteadySpec => SteadyReload` | no aborts, calls in order |

The first needs that a change not yet announced is *owed* by a fiber on its way to the
publication with the permit in its hands (`ChangesAreOwed`), and that a state once
announced does not vanish from the store except at an end (`ShownIsThere`). The
second needs that while the server closes either its autosave is still to come
or the file is the live game and no `rm` is left behind (`ClosingSaves`).

**`ClientStateStreamProofs`**, for any size of replay buffer, queue and connection
and any number of states and reconnects:

| Theorem | Says |
|---|---|
| `DrainedShowsTheNewest` | `Spec => []DrainedIsCurrent` |
| `ClientMirrorsTheGame` | `Spec => MirrorSpec`, step by step |

The buffers are treated as sets of events. The invariant says that of two events on
their way, or one on its way and one to be replayed, the later revision tells of the
state not older (`EventsInOrder`); that this holds for what the client has seen
(`SeenInOrder`), so that dropping events by their revision never drops news; that
an event of the newest revision is seen, or on its way (`NewestOnItsWay`), although
the sliding queue loses events, because it loses the oldest; and that a poll of the
present generation was sent after the stream was lost (`PollsAreLate`).

**`CharmClientProofs`**, for any size of the action queue, any kinds of automatic
movement and any number of keys, faults, calls of other clients and restarts:

| Theorem | Says | Assumes |
|---|---|---|
| `OneThingAtATime` | `Spec => []OneAtATime` | |
| `RecoveryIsArmed` | `Spec => []RecoveryArmed` | |
| `DrainedShowsTheGame` | `Spec => []DrainedIsCurrent` | |
| `NothingOlderIsShown` | `Spec => StreamNotOverwritten` | |
| `KeysReachTheGameInOrder` | `Spec => KeysInOrder`, the refinement of `InputQueue` | |
| `PlayBeginsInOrder` | `Spec => []BeginsInOrder` | alone |

Five parts make the invariant: `Types` (which calls a command of each kind can still
have before it); `FInv`, exactly one command follows the game, and it is the one that
the three flags say; `WInv`, the work under way is the one that `activeAction`,
`activeAuto` and `ending` say, which is why nothing else can be started; `OInv`, keys
wait in the order of their numbers, behind the one under way and those done;
`DInv`, the events on the wire are in order, none older than what is shown, and
the last of an open stream is the game. Every message and every key has a lemma of
its own. They share their conclusion, `Keeps`, which classifies what a step does to
the stream (`StreamStep`) and to the work (`PlayStep`); the five parts are then proved for
the classes instead of for each of some thirty messages and keys. The refinement uses the
same classes.

*Alone* (`MaxOthers = 0`, `MaxRestarts = 0`) is the situation `BeginsInOrder` is about:
another client may complete the setup, and a restarted server may have another game.
Its invariant tells games set up here (`NewGame`) from games joined later
(`OldGame`). The heart of the first is `Untold`: until the arrival has been shown, nothing
of play is under way, and every event on the wire and every answer on its way that shows the
setup complete brings the arrival with it. So whichever of them comes first opens the
pane, and no other has set the setup complete before. Two more classifications serve
it: what a step does to the setup on the screen (`ScreenStep`) and what the commands
it leaves know (`CommandsMove`).

**`CampgroundProgressProofs`**, for any sets of waters, decoys and items that can be
put away:

| Theorem | Says |
|---|---|
| `TurnsLeaveNothing` | `Spec => []Settled` |
| `HandedInForGood` | `Spec => []HandedIn` |
| `NothingToldTwice` | `Spec => []ToldOnce` |
| `NothingGoesBack` | `Spec => PhasesOnlyForward` |
| `NoSecondReward` | `Spec => RewardedOnce` |

A turn composes small functions from game to game. Each keeps a game sound
(`Sound`) and leads only forward (`Leads`), and both compose. That a second
reconciliation does nothing (`Settled`) is needed to prove the rest: a talk
reconciles before it acts.

**`TurnEngineProofs`** and **`CampgroundRouteProofs`**, for a campground, a dungeon
level, a view and a number of people of any size:

| Theorem | Says |
|---|---|
| `NobodyRunsIntoAnybody` | `Spec => []Apart` |
| `NobodyCrossesTheBorder` | `Spec => RegionSealed` |
| `TravelTellsTheTruth` | `Spec => TravelHonest` |
| `RouteIsLegal` | a route found begins and ends where it should, makes legal steps on free cells only, and meets no cell twice |
| `RouteIsCheapest` | a route is found exactly when legal steps lead to the goal, and its cost is the least that `CheapestCosts` computes |

Plans are made for the world at the turn's beginning and carried out in a movement
world that is kept up to date only in part. `PlansInside` and `ServedOutside` say in
which part: everybody in the collision ring (or, for the off-screen budget, everybody
beyond it) is in `seen` exactly where they stand, and whoever acts stands there too,
so that every cell they may enter is one that `seen` knows.

The search is shown correct in both directions. After every expansion each cell has been
reached from one that costs less (`SearchOK`), which makes the walk back legal and
finite. `Frontwards` says that a cell with no current entry left in the frontier is
closed: no entry that waits has a smaller total, and each of its neighbours has been
reached through it or more cheaply. This needs the estimate to be consistent: it drops by no
more than a step costs (`EstimateIsConsistent`), because the cheapest ground costs ten
a step straight and fourteen across. The search ends within `8 * n + 1` expansions
of `n` free cells: each uses up an entry, or pays for the new ones with the ways that
leave a cell closed only now (`Work`). When it has ended, every walk from the start is
accounted for by closed cells or by a goal found no dearer (`AccountedFor`). On the
other side, what repeated improvement gives for a cell is the cost of some walk
(`CheapestWithin`) and at most that of each (`WalksCostMore`).

`TravelTellsTheTruth` joins the two halves. The route is searched in the whole world, the next
step is tested in the movement world of the turn; `NextStepIsLegal` says that around
the player the two agree, since the region holds all cells a step away. So a
route that exists is never refused. A stored path is always past its first step
(`TravelOK`), which is how one that was newly searched is told from it.

**`CampgroundAtmosphereProofs`**, for any map, programme, ranges of delays, numbers of
lines, history limit and number of games, with rain and without:

| Theorem | Says |
|---|---|
| `AtmosphereInvariant` | `Spec => []AtmosphereInv` |
| `HearsOnceAndAll` | `Spec => []HeardOnceAndAll` |
| `OneVoiceATurnHolds` | `Spec => OneVoiceATurn` |
| `DueIsToldHolds` | `Spec => DueIsTold` |
| `ProgrammeIsKeptHolds` | `Spec => ProgrammeIsKept` |

They use `AtmosphereAssumption` (spots lead to spots, hosts who welcome are met on the
campground, delays are positive) and, for the last, `ProgrammeAssumption` (finitely many events, each of a kind of its own), which
the code's tables satisfy and TLC evaluates. What a turn may do is stated once,
whatever path it takes through the handlers (`WorldTurn`), with three relations that
compose: later messages are only added (`Grows`), a place is marked exactly when told
(`TellsPlaces`), and the event goes one way (`TellsProgramme`). The player's actions add
to it in two ways: a turn without words of its own keeps all three and tells something of
what is due (`IsWalkTurn`); one with words of its own says nothing else, moves nothing
that is due, and may mark the welcome camp untold (`IsTalkTurn`). For the first, no turn may
be taken for occupied before its action, which is the invariant `Punctual`. A client's loop over a view is
summed up by `HasHeard`. `HeardOnceAndAll` is not inductive: the client keeps one
cursor for all games. `CursorIsEarned` says where it can come from, so that a
new message below it is held back by an earlier game and by nothing else; the opening
narration, which moves the cursor without being shown, is the one exception, and only
a game that has begun (`Begun`) gives ids beyond it. `LateIsBehind` says that a late view of
the present game lacks only messages that came after all of its own, which is why
delivering it cannot carry the cursor past something unheard. `ProgrammeInv` ties the
phase of the event to the last announcement, through waits in which nobody can host.

**`DungeonLevelProofs`**, for every size of a level, every number of hippies and whatever
is drawn:

| Theorem | Says |
|---|---|
| `MazeKeepsFlag` | `MazeSpec => []FlagAtTheEndOfAMaze` |
| `LevelIsJoined` | `BspSpec => []LevelHoldsTogether` |

`MazeSpec` is the walk and the furnishing alone; every step of `LevelGeneration` is one
of its steps or leaves its variables. `MazeInv` says that what is carved is maze
cells and the links between pairs of them (`Carved`); that some function from cells to
numbers makes it a tree (`Tree`: neighbours differ by one, and every cell but the arrival
has exactly one neighbour nearer to it); and that every maze cell whose neighbours are not
all carved is on the trail (`Walked`). Carving a link and the cell behind it keeps a
tree, since the link is beside these two maze cells and no other (`DugNeighbours`). With an
empty trail the maze is full: a cell that was left out has a carved one beyond it
(`MazeIsFilled`). The numbers of the tree are the distances that the furnishing
measures (`DistancesAreDepths`). The farthest cell has one neighbour, so it is a
dead end; hippies stand at dead ends, so nobody's only way passes one
(`FlagStaysFree`); and the bands by distance do not overlap, so each has a hippie of its
own (`OneHippieABand`).

`BspSpec` is the making of a deeper level alone. That its rooms are joined at the end is
not inductive, since during the work they are not; `BspInv` says of the agenda what it
still promises. `Nested`: a task lies apart from a later one, or within one of the parts
that this needs. `Provided`: each half that a link needs is either to be completed by a
task before it, or is already `Sound` (it has a room, all that is open in it is joined and
off its edge) and touched by no task before it. `Blank`: where a room is still to be carved
there is rock. The block itself is needed after the last task, so an empty agenda
leaves it sound. A set is `Joined` when no part of it but the whole is closed under steps;
this needs no paths, and two joined sets with a cell in common, or side by side, are joined
together. A passage has to bridge its halves (`Bridges`) inside the edge of the whole.
For a straight one that follows from where the facing edges are (`RowBridges`,
`ColumnBridges`). For a dug one it is a property of the prices: a wall costs a thousand and
an edge is all wall, so a cell of the edge always costs more than the one inside it
(`EdgesCostMore`), and a way back that goes to the cheapest neighbour never steps onto the
edge (`WayStaysInside`). That holds for the final prices, of which `Costed` says that each
is what its cheapest neighbour offers; every round keeps it but for the cells that were just
lowered (`LoweringKeepsPrices`). The proof uses that a part spans at least four
(`MinPartSpan >= 4` in `BspAssumption`, 4 in the code), which is what makes a room fit.

What loops and recursive functions compute is proved by induction on the least
counterexample (`LeastNatural`, `LeastOfNaturals`): the order of keys
(`CollectsExists`), the client's loop (`LoopExists`, `ViewIsHeard`), what a restored history
keeps (`SiftedHistory`), what is reached and how far it is in the maze (`AllIsReached`,
`MeasuredIsDepth`), and in the search its expansions, the walk back from the goal along the
recorded predecessors, which cannot be longer than there are free cells, the rounds
of improvement and the sums of costs along a path.

**Left to TLC.** Liveness under fairness: `RequestsFinish`, `EventuallyShown`,
`StoryFinishes`, `ComesToRest`, `EverybodyServed` and `TravelArrives`.
The properties of the surface, `EverythingHasItsPlace`, `EverywhereWithinReach` and
`EveryoneInTheirPlace`, are found by evaluation: they are facts about this one geometry,
with 24 camps and their catalogue, and `CampgroundLayout` finds what can be reached by a
recursive operator, which a module with proofs cannot use.

## 5. Not modelled

Dialogue, rendering, schemas, configuration and scripts: wording, presentation
or types. Client popups load what they show and change nothing of the game. Within
the modules: roles and inventories, the contents of messages other than those
that must be told once, HTTP statuses, the client's panes, and more than one
subscriber at a time (subscribers do not affect each other). In `CampgroundAtmosphere`: the message that the repair of an old save adds
(`CampgroundProgress` has it), which can come second in a turn after a travel notice. In
levels: wall variants, the contents of coolers, display names, and the renaming of keys when the
dungeon is merged into a world. In `campgroundState.ts`: the repair of single
malformed fields and the projection to the client. The functions that make
single creatures and items have no state.

Containment of items is `CampgroundProgress`'s and places of creatures are
`TurnEngine`'s; the two do not read each other's state except for the player being
near something, which the first leaves open.

A version the client shows may for a moment be followed by an older one when a
stream's first event was sent before an action whose answer came without a
stream; the events behind it bring the newer state back, and
`DrainedIsCurrent` says so.

## 6. Plan

The models and proofs are complete as far as they were planned. Two things are left.
The surface is checked as it is; a proof for any catalogue of camps would need the
catalogue's own promises stated as assumptions, and the flood of `CampgroundLayout` written
with `Reached` of `Grid`. And four hazards of PROJECT.json have a note instead of a
property: a game lost in the middle of a restore, two clients that set up one game
together, a screen that is behind after travel was cancelled, and a step of travel that is
made twice when its answer was lost.
