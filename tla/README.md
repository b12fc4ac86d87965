# vibe-land: a verification project

vibe-land is a browser first-person game with an authoritative Rust server. The
same physics runs on the server and, compiled to WebAssembly, in the browser,
which predicts its own player and vehicle and corrects itself from snapshots.
This directory holds TLA+ models of the parts whose difficulty is not physics
but order: messages that are lost, late or repeated, two copies of one fact,
and modes that change while something is in flight. TLC checks each model on
small instances; TLAPS proves the main properties for every instance.

## 1. Inventory

| component | state | operations | what is hard |
|---|---|---|---|
| Input pipeline (`predictionManager.ts`, `vehiclePredictionManager.ts`, `wasm_api.rs`, `seq.rs`, `main.rs`) | client: next sequence number, on-foot and vehicle replay buffers, mode; server: queue, last received, acknowledged input, death deadline | frame on foot, frame in a vehicle, enter, leave; receive bundle, tick, kill, respawn, snapshot; reconcile | datagrams lost and overtaking; 16-bit wrap; two buffers pruned by one acknowledgement; deaths between two messages; a limit that pauses input |
| Vehicle seats (`physics_arena/vehicle.rs`, `spawn.rs`, `main.rs`, `GameWorld.tsx`, `netcodeClient.ts`) | server: driver of each vehicle, vehicle of each player, collision groups; client: predicted vehicle, believed drivers, roster | interact key, enter, leave, death, respawn, disconnect, tick, snapshot, roster | two records of one relation; races for a seat; a view older than the request; handles on the wire |
| Block world (`voxelWorld.ts`, `voxel_world.rs`, `main.rs`) | server: versioned chunk, colliders; client: chunk, version, pending edits | optimistic edit, accept, refuse, diff, whole chunk, join, leave | optimistic edits against foreign diffs; dropped packets; guessed versions |
| Player handles and roster (`main.rs`, `netcodeClient.ts`) | handle pool with cooldown, roster, client's map | connect, disconnect, reclaim, roster broadcast | reuse of a handle before every client forgot its owner; exhaustion |
| Match life (`main.rs`, `player.rs`, `lag_comp.rs`) | hit points, energy, dead, spawn protection, cooldowns, batteries, the record of the past | fire, melee, damage, kill, respawn, pick up, drain, the stages of a tick | several ways to die in one tick; deadlines that fall together; shots resolved in a past with another life in it |
| Snapshots (`main.rs`, `netcodeClient.ts`, `interpolation.ts`) | what was last sent of each thing; what the client shows and since when | build within a datagram, send, lose, apply, forget | what counts as sent; order of the budget; overtaking |
| Energy and batteries told (`main.rs`, `netcodeClient.ts`) | what the server believes the client to show, per player | send differences, full resync, reset | a refused packet that counts as told |
| Match registry, connections (`main.rs`) | matches by id, their tasks; two tasks per session | look, create, connect, speak, hang up, panic, clean up | a map read and written under two locks; late clean-up; tasks that wait for one another |
| Undo history (`GodMode.tsx`, `godModeHistory.ts`, `worldTool.ts`) | world, two stacks, a drag, a run of the AI, what React has yet to render | edit, drag, undo, redo, bookmark, roll back, AI run, render, effects | references that late effects set back; an AI that edits beside a person |
| Drafts (`GodMode.tsx`, `worldDraftStore.ts`) | world, timer, requests under way, stored draft and revisions | edit, import, wipe, autosave, push a revision, reload | a stored list that is read and written in two requests; edits before storage is read |
| Publishing (`worldsCloud.ts`, `api/`) | reservation, files, PUTs, what the client knows | reserve, upload, repeat, expire, tidy, list, die | two uploads side by side; PUTs repeated or late; half a file |
| Chats (`useGodModeChat.ts`, `chatStore.ts`) | chat shown, messages, turns that run, requests under way, stored chats | choose, send, stream, stop, load, save | a chat changed in the middle of anything |
| Clock synchronisation (`clock_sync.rs`) | smoothed round trip, offset | observe | outlier rules that reject good samples |
| Local practice (`local_session.rs`) | one match in the browser | tick, packets | none beyond the server's |
| Physics, rendering, input devices, bots, AI providers, infrastructure | | | floating point, or I/O: not modelled |

How they interact. A client is connected by a WebSocket (a stream) or by
WebTransport (a reliable stream plus datagrams). Input bundles, block edits and
seat requests go up; snapshots, chunk packets, rosters and results come down
through a per-player outbound queue of 64 packets that drops what does not fit.
The server runs one task per match: it drains events, then ticks at 60 Hz, and
sends snapshots every second tick. So server handlers are atomic steps and the
interleavings are between handlers, the network and each client's frame loop
and packet callbacks, which are atomic too (one JavaScript thread). Two parts are
not like that: the server's sessions, which are tasks of their own that share
the map of matches (`MatchRegistry`), and the world editor, whose storage
requests, uploads and AI runs each wait in the middle (`WorldHistory`,
`WorldDrafts`, `WorldPublish`, `ChatTurns`).

## 2. Modules

| module | models |
|---|---|
| `Links` | the two transports: an ordered lossless stream (`Reliable`), or datagrams that overtake each other and may be lost |
| `InputPipeline` | one player's inputs from key to acknowledgement and back |
| `InputStream` | what that path promises, with no network, queue or mode |
| `VehicleSeats` | seats on the server and in the views of the clients |
| `VoxelSync` | one chunk, its server copy and its client copies |
| `PlayerHandles` | the pool of one-byte handles, rosters, and the names clients use |
| `MatchLife` | lives, deaths, energy and attacks, in the order of the stages of a tick |
| `Interest` | which vehicles and bodies a snapshot has, and what a client goes on showing |
| `BatterySync` | what one client is told of energy and batteries, through a queue that may be full |
| `MatchRegistry` | how sessions find a match, and how sessions and matches end |
| `WorldHistory` | the editor's world, undo and redo |
| `EditTimeline` | what undo and redo promise, with no stacks, React or AI |
| `WorldDrafts` | the draft and its revisions in the browser's storage |
| `WorldPublish` | reservations and uploads, on the file system or in a bucket |
| `ChatTurns` | chats with the AI: shown, streamed, loaded, stored |
| `MCInputPipeline`, `MCVehicleSeats`, `MCVoxelSync`, `MCMatch`, `MCPlayerHandles`, `MCEditor` | instances for TLC |
| `LinksProofs`, `InputPipelineProofs`, `VehicleSeatsProofs`, `VoxelSyncProofs`, `PlayerHandlesProofs`, `MatchProofs`, `ServerProofs`, `EditorProofs` | theorems and their proofs |

`MCMatch`, `MCPlayerHandles` and `MCEditor` each hold several parts that share
no state. Their variable `which`, chosen by the initial state, says which part
moves; the others stay as they were. Such a run has all behaviours of each
part, with the fairness of that part, and does not multiply their states.

### InputPipeline

An input is named by its true number; every comparison the code makes on 16-bit
numbers is made modulo `SeqMod = 2 * Half`, so the model has the code's
confusions. `next`, `foot` and `veh` are `nextSeq`, `pending_inputs` and
`pendingInputsForSend` (which the wasm side mirrors as
`vehicle_pending_inputs`); `rt` holds the input fields of `PlayerRuntime`.
`FootFrame`, `VehicleFrame`, `EnterFrame` and `ExitFrame` are the four frames
`GameWorld` and `gameRuntime` can run (an interact key switches mode in the
middle of a frame); `Receive` is `handle_event` for bundles and seat requests;
`ServerTick` is the tick: respawn, one input (or the vehicle catch-up), perhaps
a death, and a snapshot every other tick. `ReceiveSnapshot` prunes and replays.
Positions are left out: replay is a set of inputs.

A snapshot carries a tick number and the client ignores older ticks than the
one it applied; the model removes them from the link instead.

`Recent` is an assumption about the environment: nothing the two sides still
compare is half the sequence space old (in the code nine minutes of play).
`LongDrives` drops it for the one buffer nothing prunes while driving
(`wasm_api.rs`, line 427). It is FALSE in the runs and theorems: set to TRUE, TLC
shows `NoStaleReplay` violated after a drive of half the sequence space, when old
on-foot inputs pass for new ones.

### InputStream and the refinement

`InputStream` has four variables: inputs made, inputs decided by the server for
good, what the client knows of that, and what it replays. `ImplementsStream`
is the refinement under `made <- next - 1`, `decided <- rt.ack`,
`known <- seenAck`, `replay <- foot`. It is what the client's prediction
relies on: the replay after a reconcile is exactly the inputs beyond the
acknowledgement, and nothing is decided twice or taken back.

### VehicleSeats

`driver` and `vehicleOf` are the two records of the arena
(`vehicle.driver_id`, `vehicle_of_player`), `ghost` the players whose capsule
has `InteractionGroups::none()`. `EnterVehicle`, `ExitVehicle`, `Die`,
`RemovePlayer` and `Reconciled` are the functions of `vehicle.rs` and `spawn.rs`,
with the early returns. On the client, `mode` is the predicted vehicle, `view`
what the packets say, `known` the roster. A snapshot follows the V2 rules for
drivers the roster does not know (`Mine`, `Seen`).

The wire id is resolved first as a runtime id, then as a handle, as the code
does, and nothing is assumed of the ids: the demo worlds (`demo_world.rs`) have a
vehicle with id 1, as small as a handle. In a world where the id of one vehicle is
the handle of another, a request for the latter seats its sender in the former.
`SeatsAsRequested` allows just this (`NamesFor`) and no other seat that was not
asked for. In the worlds the server loads it cannot happen (`IdsAreClear`: two
vehicles with ids 200 and 1003, or one vehicle), and `SeatsAsMeant` says that the
seat is then the one the client meant.

### VoxelSync

One chunk. A match starts without it (`run_match_loop` makes an empty voxel world;
`seed_demo_world` is called by tests only) and has it from the first edit on. A
client that joins before that, or out of range (`FarJoins`), is sent nothing: it
has version 0, at which it takes any diff for its first. So its view may lack
blocks, and no property may say otherwise: `told` is a history variable, the cells
whose contents a client has been told, all of them by a whole chunk or by version
1, one of them by any other diff. `ConfirmedView` says that what the client shows
there, under its pending edits, is what the server had, and that it shows nothing
elsewhere.

An edit carries the version its author guesses: its confirmed
version plus its own pending edits. The server accepts the edit if the guess is
its version and broadcasts a diff, else answers the author with the whole
chunk. Every packet passes an outbound queue that may be full (`MayDrop`). An
edit that reaches the server after its author died is ignored without an answer
(`MayDie`). `past` is a history variable, the chunk at each version.

Block colliders of a client follow its blocks in every operation and are left
out; the server's are counted per cell, because they do not.

### PlayerHandles

`handle`, `next`, `free` and `cooling` are the pool: `player_handles`,
`next_player_handle`, `free_player_handles`, `reusable_player_handles`. Release
times are kept as ticks left and lists in the code's order. `Connect` and
`Disconnect` are the two events, with the roster sync that ends each; `Tick`
reclaims, snapshots and, when due, syncs. `names` is `playerIdByHandle`, `shown`
is `remotePlayers`, reduced to whose state is shown as whose.

A player stands for one connection (the code numbers connections and never uses
a number again). The code snapshots every second tick and the model every tick;
the two rosters a newcomer is sent are one; which players were near enough to be
in a snapshot is chosen when it is read. Rosters and snapshots have links of
their own even where they share a stream, which allows more, not less.

`InTime` is an assumption about the environment: no client uses a roster or a
snapshot as old as the cooldown (ten seconds in the code, in which five periodic
rosters are sent). It is the contract that the cooldown exists for.

### MatchLife

`hp`, `dead`, `guard`, `energy` are the player's motor state, `respawn` and
`shield` its two deadlines, kept as ticks left. A tick goes through its stages
in the code's order (`Proceed`): respawns and protection, movement with the
record and falls, vehicles that run players over, pick-ups, energy drains,
shots, swings. Each stage does one player or one queued attack at a time, and no
event is handled before `End`. Geometry is a choice: who falls, who is run over,
what an attack meets. A shot sees any of the last `MaxRewind` records (`Seen`):
how client time and the clamp choose one is left open. `record` has a third
value, `Earlier`, that the code does not have: it marks what was recorded in a
life that is over, so that `HitsThisLife` can be said at all. Energy counts
in units of one; the code's is real.

### Interest

A tick of the model is a snapshot. What is where, what moves and what the player
drives is an input of every snapshot, from `Worlds`: `ChosenVehicles` and
`ChosenBodies` say which of it the code's sort and budget would take. `lastSent`
is what the server remembers of each thing, `lastSeen` what the client does.
`carried` and `excused` are history, so that `VanishesOnlyByLoss` can say how
many snapshots must be lost. Other players take room; the ways in which they
come and go are in `PlayerHandles`. Vehicles are always streamed first in order
until one does not fit; bodies that do not fit are passed over.

### BatterySync

One player's outbound queue, with room for the two kinds of packet and any
other. `told` and `toldEnergy` are history: what the client will show when all
that is queued has arrived. What the world does (`Spend`, `Wander`, `Perish`,
`Revive`) is open. A reconnection gives the player a queue and a memory of its
own and resets the client.

### MatchRegistry

One match id and the tasks that ever run it. `Look` and `Create` are the two
critical sections of `get_or_create_match`; `Enlist` sends Connect, with the
error that ends the session if the match is over by now. `Panic` may happen at
any time; `Remove` and `Unregister` are what the task does afterwards, each
under a lock of its own. A session over a WebSocket keeps a sender of its queue
until both of its tasks have ended (`Holds`), one over WebTransport does not.
One handle fewer than there are sessions lets a Connect be refused.

### WorldHistory and EditTimeline

`world`, `undo` and `redo` are `worldRef` and `editHistoryRef`, which handlers
read; `given` is what they gave to React, `rendered` a render whose effects have
not run. `Effects` sets the references to what was rendered, which may be
older. Undo and redo give up a drag even when there is nothing to undo or redo, and
a preview (`Drag`) may come after that. `KeepsToTimeline` is a step refinement: under
`line <- Reverse(undo) \o <<world>> \o redo, at <- Len(undo) + 1` each step that
begins and ends with the references in step with React is a step of
`EditTimeline`. One AI run at a time is modelled; an aborted turn may in the code
leave a second one behind.

### WorldDrafts

The browser's storage performs requests in the order they were made.
`pushRevisionHistory` is a read and, when that is answered, a write, which may
not fit and is then shortened. `Reopen` is a reload; a reload loses requests not
performed. `wiped` is history, the one case the code does not save: to empty an
empty world. Saving a draft never fails in the model: `saveCurrentDraft` is called
and forgotten, so what the storage refuses is lost until the next edit, and `Saves`
is a promise only where the storage takes what it is given.

### WorldPublish

On the file system a PUT goes through `Admit` (the reservation is alive), `Open`
(the file is created, and exists), `Close` (it is whole) and `Tidy` (are both
there?), between which anything may happen, `Die` included; a bucket has `Store`
alone. PUTs are repeated by the browser or a proxy (`Resend`). Each publication
has an id of its own, so publications do not meet.

### ChatTurns

A message of the model is a turn. `Choose` is the effect of a new `chatId`: abort,
reset, load, and the cancellation of the load before. `Finish` sets the status
of whatever chat is shown, as the code does. A save is a read and a write. Reads
and writes may fail without a word (`idbGet`, `idbPut`): a chat whose load fails
is shown empty, and `failed` is a history variable, the chats whose last write the
storage has refused, of which `ShownIsStored` promises nothing.

`ShownIsStored` compares what is shown with what is stored, not with what was
written. When a chat is left and chosen again while its save is under way, its load
overtakes the write and shows the chat as it was before, and that is then saved over
what was written: the last turn is lost, and the property holds.

## 3. Runs

| run | question | bounds |
|---|---|---|
| `pipeline_datagram` | over datagrams, is order kept, is every acknowledgement honest, is replay exact, is the stream implemented | 6 inputs in a sequence space of 6 (each number wraps), pause at 1 pending with frames of 2, 2 messages up, 1 snapshot, deaths at any time |
| `pipeline_liveness` | over datagrams, are received inputs released, and do the newest vehicle controls get through | 4 inputs, window of 2, 1 message up |
| `pipeline_stall` (finding) | over datagrams, does paused input resume | 4 inputs, pause at 2 |
| `seats` | do the two records agree, are drivers fit, are seats kept, are requests honoured, do the views become right | 2 players, 2 vehicles with ids 1 and 1003 and handles in either order, 3 interact keys, 1 death, lossy |
| `seats_capsule` (finding) | is the capsule always restored | 2 players, 2 vehicles, stream |
| `seats_exit` (finding) | is the server told of an exit | 1 player, 1 vehicle, stream |
| `match` (blocks) | is a view under its pending edits always a state of the server, do versions rise | 2 clients, 2 cells, no blocks at first, 4 edits, joins out of range, lossy, dropping |
| `match` (calm) | do clients that stay converge | the same over a stream |
| `match` (life) | are deaths whole, and do they stand, do shots hit this life, does everyone return | 2 players, 2 hit points, energy 2, deaths of 2 ticks, shots 1 tick back, 1 battery, 1 queued attack |
| `match` (interest) | do snapshots fit, does what is there disappear only when enough snapshots are lost | 1 vehicle of size 2, 1 body, room for 3, 1 other player, refresh 2, sweep 3, 5 snapshots, 2 under way, both modes |
| `battery_drop` (finding) | does a collision leave a battery | 1 player |
| `voxel_gap` (finding) | is a version gap ever closed | 2 edits, dropping |
| `voxel_collider` (finding) | has each block one collider | 4 edits, stream |
| `handles` (handles) | is the pool whole, are names true, do the departed disappear | 3 connections, 2 handles, cooldown 3, rosters dropped, snapshots late and lost |
| `handles` (sync) | does the client show what the server believes, and in the end what there is | 2 batteries, energy 0 to 1, queue of 2 |
| `handles` (registry) | is a running match always found, do ghosts leave, do sessions end | 2 sessions, one of each transport, 2 tasks, 1 handle, 1 event queued per packet |
| `editor` (history) | do undo and redo keep to one line | 2 worlds, limit 2 |
| `editor` (drafts) | is what is edited saved in the end | 3 worlds, 2 revisions, 2 requests |
| `editor` (publish) | is what is published whole, are reservations consumed, does what is listed become whole | 1 publication, each PUT sent twice, both backends |
| `editor` (chat) | is what is shown and stored of a chat its own, is what is shown stored | 2 chats, 2 turns, 2 requests |

Why the bounds are enough. The limits are scaled, not removed: the pause, the
backlog cut, the redundancy window, the server's catch-up and the queue limit
are all reached within the bounded number of inputs, and the sequence space
wraps inside a behaviour. Two players and two vehicles are the least with a race
for a seat by someone who already has one; two clients and two cells the least
with a foreign diff that touches another cell; three connections and two handles
the least with a handle used again and one connection refused; two tasks of a
match the least with a clean-up that comes late; two turns the least with one
that ends beside another. Where there is a theorem below, what it
says does not depend on the bounds; they are kept in the guards, named `Max...`.

The tick always runs in the pipeline and seat models, in `PlayerHandles` it waits
only for what may arrive, and `Leave` and `Join` in
the voxel model, so deadlock is checked everywhere. Where a part may really be
over (all publications ended, all sessions and matches over, the last snapshot
of the bound taken) its MC module has a stuttering step that says so.

### Fairness

`InputPipeline`: the browser's frame loop and the server's tick run for ever
(weak fairness), and a link delivers infinitely often if infinitely often it has
something (strong fairness on receiving): loss is allowed for ever, silence is
not. Nobody must enter, leave or die. `VehicleSeats`: the server ticks and
its snapshots reach each client again and again, rosters (sent every two
seconds) and what is in flight arrive, the dead respawn. `VoxelSync`: what is in
flight arrives. `PlayerHandles`: the server ticks and what is in flight arrives.
`MatchLife`: the tick goes on (weak fairness of its steps). `BatterySync`: the
two kinds of packet are tried on every tick and the writer empties the queue, so
that a packet finds room again and again, and then is sent (strong fairness):
other packets may fill the queue again and again, but not always first.
`MatchRegistry`: a match that runs handles its events, the writer writes, the
reader sees what its client sends and that it has gone; `SessionsEnd` further
uses that a client that stays speaks (it sends an input every frame).
`WorldDrafts`: renders, the timer and the storage go on. `WorldPublish`: a
handler that has not died goes on. Players never have to do anything else.

### What the violations show

Each violation is a disagreement between the code and a sentence of a comment,
a test or a note of the repository; `PROJECT.json` quotes it. In short: lost
on-foot inputs are never sent again, so 30 of them freeze the player; a refused
request for a seat leaves the player's capsule without collisions; leaving before
the first snapshot is never told to the server; a dropped chunk diff is never
made good; a block edit whose guessed version is right by accident leaves a second
collider; a death by damage never drops a battery, because the damage has marked
the player dead before the drop is considered.

Two more the model shows, which have no run of their own: pending edits do not
survive a foreign diff as the comment at `voxelWorld.ts`, line 145, says, because
undoing them empties the list that is then replayed (`ApplyDiff`); and an edit
made against an old version may be accepted, against what `NOTES.md`, line 25,
says of stale edits, because the author counts its own pending edits as versions
to come (`MakeEdit`). Of the new modules: a WebSocket session whose client has
gone ends only when something more is sent to it, because the session keeps its
own queue open (`Holds`; `SessionsEnd` leaves these out); an effect that runs
late takes an edit out of the editor's references (`Effects`; `KeepsToTimeline`
leaves such steps out); emptying an empty world removes its draft (`wiped`).

## 4. Proofs

All proofs are of the modules the runs check, for every value of the constants
that satisfies the named assumptions. Every type invariant, safety invariant and
action property of the passing runs is the subject of a theorem.

**InputPipeline** (`InputPipelineProofs`). `TypeCorrect`, `OrderKept`,
`AcksNeverRetreat`, `NothingIsForgotten`, `FootIsBounded`; and, assuming
`~LongDrives`, `ReplayIsFresh` and `PipelineImplementsStream`. The invariant adds
to the properties what makes them inductive: every message in flight is a bundle
of inputs that exist, the acknowledgements in flight rise and lie between what
the client knows and what the server has, and no number compared is half the
space from the one it is compared with. The last part turns the modular
comparison into the comparison of true numbers, and everything else is order.
`AckMonotone` and `NothingForgotten` are not checked by a run of their own:
`ImplementsStream`, which `pipeline_datagram` checks, implies both.

**VehicleSeats** (`VehicleSeatsProofs`). `TypeCorrect`, `SeatsAlwaysAgree`,
`DriversAlwaysFit`, `SeatsAreKept`, `SeatsFollowRequests`, the last whatever the
ids of the vehicles are, and `SeatsAreMeant` for worlds with clear ids (`OneName`:
a vehicle then has no name but its handle). The invariant adds that
handles name vehicles one to one and that everything a client holds vanishes with
it. `SeatsAgree` carries the argument: detaching a player clears at most one
vehicle, so taking a seat leaves both records functions of each other.

**VoxelSync** (`VoxelSyncProofs`). `TypeCorrect`, `VersionsOnlyRise`,
`ViewsAreConfirmed`, from the empty world, wherever clients join and whatever is
dropped. The invariant says of the pending edits that each left its cell as the
next edit of that cell found it (`LinkedEdits`), so that undoing them in one sweep,
newest first, is undoing them one by one; of the packets in flight that they tell
the server's history (`PacketsOK`) in order (`InOrder`); and of the edits in flight
that before the first version they expect none (`NoneRefused`), so that the server
never answers with a chunk it does not have.

**PlayerHandles** (`PlayerHandlesProofs`), from `HandlesAssumption`, that the
delays allowed are no longer than the cooldown. `TypeCorrect`, `PoolIsWhole`,
`NamesAreTrue`. For the pool the invariant adds that only handles already issued
are in use, free or resting. For the names it says of every roster and snapshot
a client has or may yet receive, together with its age, that each handle in it
is still its owner's or has been resting since (`Explained`): the ticks it still
has to rest and the age together are at least the cooldown. So a handle that comes
back, with nothing left to rest, is named by nothing younger than the cooldown;
and a snapshot and a roster that are both explained agree (`OneName`).

**MatchLife** (`MatchProofs`), from `LifeAssumption`: a death lasts longer than
a shot may look back. `LifeTypes`, `DeathsAreWhole`, `DeathsDoStand`,
`ShotsHitThisLife`, `NobodyDropsBatteries`. The invariant `LifeInv` adds that those
who are not in the match have nothing left of a life; that nobody is left to be
seen to between ticks and while attacks are resolved; and, for the shots,
`Fresh`: of the `MaxRewind + 1` newest records none is of an earlier life, and
during a death those made since it began are of a dead body, one more at every
tick. So when the player returns, all that a shot may see is of the death.

**Interest** (`MatchProofs`), from `InterestAssumption`. `SnapshotsFit`,
`VanishingTakesLosses`. The size of a snapshot is a fold, about which nothing can be
proved by induction; instead, any function that satisfies the equation of the fold
is shown to count the bytes of the records (`Bytes`, `TotalIsBytes`, by a least
counterexample), and the bytes of disjoint sets add up. For what vanishes the
invariant adds `Refreshed`, that since the thing was due and was last left out no
`Refresh` snapshots have gone by without it, and `SentIsCarried`, that what the
server takes for sent was in a snapshot. A thing that vanishes has been unseen for
`Stale` ticks: they hold `Stale \div Refresh` stretches of `Refresh` snapshots, each
with a snapshot of its own that had the thing and was lost (`Stretches`). TLC has
found the invariant to hold in the 641,677 states of this part.

**A match** (`MatchProofs`). `MatchTypesHold`, `MatchIsSafe`, `MatchStepsAreSafe`
are of `MatchSpec`, the specification `match` checks, in which one part moves and
the others stay. `MatchInv` is the three invariants together. `CalmStep` moves the
blocks by the actions of `VoxelSync` over a stream, with nothing dropped and nobody
dying, and `CalmIsPossible` shows that those steps are steps of `VoxelSync`.

**BatterySync** (`ServerProofs`), from `SyncAssumption`. `SyncTypes`,
`ClientsFollow`. The invariant adds `Chained`, that each packet in the queue,
applied to what the one before it leaves, gives what its history says, and that
the last leaves `told`; and `Believed`, that `told` is what the server remembers,
unless a full list is pending or no energy is remembered. A packet refused by a
full queue leaves both alone.

**MatchRegistry** (`ServerProofs`), from `RegistryAssumption`.
`RegistryTypes`, `RunningMatchIsFound`. The invariant adds that a session that
has a handle has that of a match once made. `NothingRuns` carries the argument:
where the second look finds nothing alive, no match of the id runs at all, so the
one created is the only one; and a clean-up takes only its own match away.

**A server** (`ServerProofs`). `ToldTypesHold` and `ServerIsSafe` are of `ToldSpec`,
the specification `handles` checks: handles and names, what clients are told, and
the registry.

**WorldHistory** (`EditorProofs`). `HistoryTypesHold`, `HistoryKeepsToTimeline`. The
invariant says of three pairs of stacks, those in the references, those given to
React and those rendered, that each keeps to the limit, since a late effect may
make any of them the references again. The refinement shows each step that is not
such an effect to be a step of `EditTimeline`, under the mapping that joins undo,
present and redo to one row.

**WorldDrafts** (`EditorProofs`). `DraftTypesHold`: whatever overtakes what, requests
under way keep their shape and the revisions stored keep to their limit.

**WorldPublish** (`EditorProofs`). `PublishedStaysWhole`, `ReservationsAreConsumed`.
The invariant relates the stage of each PUT and of the browser to the files: what a
PUT of that stage has left in the storage (`PutsLeave`); that a publication which has
not begun to upload has sent and stored nothing (`NothingEarly`); that reservations
are of the file system only (`Reservations`); and that, as long as both files of a
reserved world exist and no handler of it died, a PUT is still to look for them
(`TidyAhead`).
The last is why one of two PUTs that end side by side takes the reservation away.

**ChatTurns** (`EditorProofs`). `ChatsKeepApart`, `ChatsAreSaved`. The invariant
adds that each message has one chat (`OneChat`), that a turn or a load under way
belongs to the chat it was started for (`TurnsOwned`), and that the saves asked for are
in order with the last holding what is shown (`SavedInOrder`, `LastHolds`), as
long as the last write of the chat has not failed.

**The editor** (`EditorProofs`). `EditorTypesHold`, `EditorIsSafe` and
`EditorKeepsToTimeline` are of `EditorSpec`, the specification `editor` checks.

`LinksProofs` has the facts about taking a message out of a link.

Not proved, only checked: the liveness properties (`ReceivedIsReleased`,
`ControlsArrive`, `ViewsSettle`, `CalmConverges`, `GhostsVanish`,
`EveryoneReturns`, `CatchesUp`, `NoGhosts`, `SessionsEnd`, `Saves`,
`ListedBecomesWhole`), which need fairness and ENABLED; and of course the
violations.

## 5. Not modelled

Physics, geometry and interpolation (floating point), rendering, input devices,
codecs, bots, AI providers, the two clocks and deployment; see `PROJECT.json`.
The code is more than half rendering, user interface, terrain, vehicles and
tools around them, which is why the models stand for a small share of its lines.
Inside the modelled components: positions, distances and areas of interest (every
vehicle is in view, and the chunk once it has been told of), several chunks, a client
that is reset and used again (a client that leaves comes back as new), the
hysteresis of the area of interest, the reading and paging of published worlds,
the deletion of chats, and what single edits do to a world document.

Hazards seen while reading that no property covers, because what they need is left
out of the models: `dirty_edits` (`voxel_world.rs`) grows with every edit and is
drained only by tests; the round-trip estimator (`clock_sync.rs`) rejects every
sample below its estimate; `reset()` keeps `localDrivenVehicleId`; a match
whose players have all left ticks on for ever; the chunks sent on a join may
overflow the outbound queue; the statistics of a newer match are removed by the
clean-up of an older one of its id (`Unregister`); an edit lost as a datagram stays
on its author's screen until the chunk is sent again.

## 6. Plan

1. Several chunks and reconnection of one client in the modules above.
2. The parts of the liveness arguments that are safety: what a step towards the goal
   never takes back (a view that has settled, a session that has ended).
3. The deletion of chats, and a second AI run beside an aborted one.
4. The local practice session as a refinement of the match's handlers.
