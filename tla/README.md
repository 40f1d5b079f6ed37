# A verification of the networked game `space`

The repository is a small 2-D game. Each player runs a client; a relay server
brings the players of a game together and echoes their input to all of them;
every client runs the whole simulation and applies the same input in the same
frame (lockstep). A client has a window, a clock, sockets and a renderer. This
directory holds TLA+ models of that system, the configurations that check them
with TLC, and proofs checked with TLAPS.

Paths below are relative to the repository's root.

## 1. Inventory

| part | source | state | operations | modelled |
|---|---|---|---|---|
| network client | `src/network/network.cc` | `NetworkState`: own input history, received input per frame slot and player, acknowledgements | `NetworkSetup`, `GetNextInputBuffer`, `NetworkEgress`, `NetworkIngress`, `SlotReady`, `GetSlot` | `Clients` |
| relay server | `src/network/server.cc` | table of `MAX_PLAYER` `PlayerState`s, `next_game_id`, clock | accept, greet, echo, drop | `Server` |
| wire protocol | `src/network/protocol.cc` | four untagged structures | | `Protocol` |
| sockets | `src/platform/udp.h`, `unix_udp.cc`, `win32_udp.cc` | datagrams in flight, `udp_errno`, hints of `GetAddr4` | `Init`, `GetAddr4`, `Bind`, `Send`, `SendTo`, `ReceiveFrom`, `ReceiveAny` | `Network` (the medium), `LocalServer` (calls and errors) |
| main loop | `src/space.cc` | `State` | input, egress, ingress, simulation step, rendering | `Clients`, `Game` (network part), `Replica` (simulation step), `Window`, `Renderer` |
| local server thread | `server.cc` 205-224, `unix_thread.cc`, `win32_thread.cc`, `space_server.cc` | thread id, shared `udp_errno` | create, join | `LocalServer` |
| queue | `src/common/queue.cc` | two counters, storage | `Push`, `Pop`, `Count` | `Queue`, `Fifo` |
| array | `src/common/array.cc` | storage, number in use | `Use`, `Release` | `Array`, `Pool` |
| clock | `platform_clock.cc` | time stamp counter, jerk | `clock_init`, `clock_sync` | `GameClock` |
| simulation | `simulation.cc`, `entity.cc` | units, command queue, asteroids, pods, satisfied goals | `Think`, `Decide`, `Update` | `Replica` (units) |
| path search | `search.cc` | `kSearch`: marks, queue, path | `PathTo` | `Search` |
| tile map | `tilemap.cc` | types of tiles | `TileOk`, conversions, `TileOpenAdjacent`, `TileAvoidWalls`, `WorldPositionOfTile` | `Tilemap`, `Tiles` |
| cameras, commands | `camera.cc`, `space.cc` 86-164 | one camera per player, motion | `SimulationEvent`, `CoordToWorld`, `Update` | `Replica`, `Matrices` |
| window | `x11_window.cc`, `win32_window.cc`, `macosx_window.mm`, `window.cc` | the system's window and context, size, pending events | `Create`, `PollEvent`, `ShouldClose`, `GetWindowSize` | `Window` |
| renderer, text | `gfx.cc`, `src/gl`, `src/renderer` | the state of GL, the text buffer | `Initialize`, `Render...`, `PushText`, `Reset` | `Renderer` |
| math | `src/math` | | vectors, quaternions, matrices, intersection tests | `Matrices`, `Geometry` |
| options, sleep, files, intrinsics, examples | `platform_getopt.cc`, `*_sleep.cc`, `*filesystem*`, `src/example`, scripts | | | no |

How the parts interact:

    window --> ProcessInput --> input history --> NetworkEgress --Turn--> server
                                                                            |
    simulation <-- GetSlot <-- player_input <-- NetworkIngress <-NotifyTurn-+

A client greets the server until something arrives (`Handshake`), takes the
first datagram for its `NotifyStart`, and then loops: make the turn
`outgoing_sequence`, send every turn that is not acknowledged, take what has
arrived, and, if the input of every player for frame `logic_updates` is there,
simulate it. The server accepts the turns of each player strictly in order and
echoes each once to the players of the game. The echo of a player's own turn is
its acknowledgement.

What is hard in it:

- *No tags, no connection.* Datagrams are told apart by size and by what the
  receiver happens to wait for. `NotifyStart` and an empty `NotifyTurn` have
  the same size.
- *Retry one way only.* Clients re-send history; the server never re-sends.
- *Two ring buffers.* `input` is guarded by acknowledgements
  (`GetNextInputBuffer`), `player_input` only against frames that are too old.
- *Rates.* Nothing relates the rates at which clients iterate.
- *Replicas.* Every client must make the same of a turn, although each has its
  own window, its own camera and its own pace.
- *Fixed storage.* The command queue drops what does not fit; the arrays of the
  search have one entry per tile and no check; the text buffer of a frame is
  guarded by an assertion; an array moves its last element when one is released.
- *Shared globals.* A client with a server thread of its own shares `udp_errno`
  and the hints of `GetAddr4` with it, without synchronisation.
- *Counters that wrap.* Those of the queues, and the processor's, which the clock
  reads in unsigned differences.
- *State outside the program.* GL keeps what it was told; the window system has
  events, sizes and failures of its own, which differ between three systems.
- *Sessions.* Silence drops a player, a dropped player may greet again, and
  `daily.sh` restarts the server.

What makes each part correct: the client never overwrites input that may have
to be re-sent and never simulates a frame with input of another; the server's
table never gives two players of a game one id or a peer two slots; the echo is
in order and complete; together, the clients are replicas in lockstep. Clients
that have applied the same turns are in the same state. The queue is a bounded
first in, first out queue whatever its counters do; the search returns a
shortest path, if there is one, and stays within its arrays. A request to close
the window ends the program; input that was polled is in exactly one turn; a
click means the place that is drawn under it; every draw call shows what it is
meant to; the clock never runs ahead, and nobody is told to sleep too long.

## 2. Modules

| module | models | extends |
|---|---|---|
| `Protocol` | datagrams, players, inputs | |
| `Network` | the medium, and how many faults of which kind may happen | `Protocol` |
| `Server` | `server_main` | `Network` |
| `Clients` | `network.cc` and the main loop of `space.cc` | `Network` |
| `Game` | both composed; specification, properties, refinement | `Server`, `Clients` |
| `Lockstep` | what the network code promises: abstract replicas | `Protocol` |
| `Agreement` | why the replicas agree: the inductive invariant | `Game` |
| `MCGame` | instances for TLC | `Agreement` |
| `GameProofs` | proofs: operators of the medium, slots of the queues, types; history and wire | `Game` |
| `LockstepProofs` | proofs: every step preserves `AgreementInv`; the agreement theorems; the table | `GameProofs`, `Agreement` |
| `DeliveryProofs` | proofs: what acknowledgements and the echo achieve; the refinement of `Lockstep` | `LockstepProofs` |
| `Replica` | what the clients make of the turns: cameras, commands, units | |
| `MCReplica` | instances for TLC | `Replica` |
| `FoldProofs` | lemmas on folds and on sequences of sequences, for an operator as a parameter | |
| `ReplicaProofs` | proofs: cameras and commands | `Replica`; instances of `FoldProofs` |
| `Tilemap` | the tile map | |
| `Search` | `PathTo` step by step; its properties | `Tilemap` |
| `Tiles` | tiles and places in the world, the goals of units | `Tilemap` |
| `Geometry` | intersection tests | |
| `Matrices` | from the window to the world and back | |
| `MCWorld` | instances of the four for TLC | `Search`, `Tiles`, `Geometry`, `Matrices` |
| `WorldProofs` | proofs: arrays and paths of the search; tiles; clicks and lines; intersections | `Search`, `Tiles`, `Matrices`, `Geometry` |
| `Fifo`, `Pool` | what a queue, and what an array promises | |
| `Queue` | `DECLARE_QUEUE`; refinement of `Fifo` | |
| `Array` | `DECLARE_ARRAY`; refinement of `Pool` | |
| `MCSimulation` | instances of both, beside those of `Replica`, for TLC | `MCReplica`, `Queue`, `Array` |
| `ContainerProofs` | proofs: both refinements | `Queue`, `Array` |
| `LocalServer` | one process, its threads, its sockets | |
| `Window` | the window and its events on three systems | |
| `GameClock` | `platform_clock.cc` | |
| `Renderer` | GL, the text, a frame | |
| `MCHost` | instances of the four for TLC | `LocalServer`, `Window`, `GameClock`, `Renderer` |
| `HostProofs` | proofs: threads, window, clock, renderer | the same four; instances of `FoldProofs` |

`MCWorld`, `MCSimulation` and `MCHost` put parts next to each other that share
nothing. Each of their behaviours is one of a single part, named by the variable
`part`, so that the state spaces add up and do not multiply.

State corresponds to code as follows. `player` is the server's array of that
name (`last_active` is kept as the age `idle`, in ticks of which a timeout has
`Timeout`); `next_game_id` is itself. Per client, `outgoing_sequence`,
`outgoing_ack`, `input`, `player_input`, `player_received`, `player_id`,
`player_count` are the fields of `NetworkState`, `logic_updates` that of
`State`; `pc` is where the thread is, `send_count` the loop variable of
`NetworkSetup`; `turns` records the input the simulation was given, frame by frame, and stands
for the simulation's state (what becomes of it is the subject of `Replica`). `toServer` and `toClient`
are what is in flight. `roster` is a history variable: with whom, and under
which ids, a client was last greeted. `sent_as` in a datagram is a ghost: what
the server meant by it. No action's guard reads either, but for the assumption
`Abreast` below.

Each iteration of the server's loop is one action: `HandleHandshake` and
`HandleTurn` take a datagram, `DropInactive` is an iteration that finds none
waiting (the medium decides what has arrived, so it is always possible),
`ClockTick` the advance of `realtime_usec`. An iteration of a client is three
kinds of action: `Tick` (make a turn, send the history), any number of
`Ingress` (one datagram each), and `Simulate` or `Stall`. No other thread
touches a client's state between them.

`Replica` starts where the network ends. `log` is the game's turns, the same for
all clients (`TurnsAgree`); `Apply(c)` is the part of `main` between `SlotReady`
and `++logic_updates`: the events player by player, then units, then cameras.
`camera` is `player_camera` without the orientation, which nothing changes;
`commands` the content of the command queue (a queue as in `Fifo`: `Pushed` drops
what does not fit); `unit` and `satisfied_flags` are `kUnit` and the ship's
flags, as a set of units because each unit but the first has one goal of its own.
`views` is a history variable that no action reads.
How a unit walks is left to `Toward` and `Arrived`, functions of where it is and
where it goes, as in the code. A window is resized at any time (`Resize`).

`Search` has one action per turn of the loops in `PathTo`: `Pop`, `Look` (one
neighbor), `Trace` (one step back), and `NoPath` and `Return` for its ends.
`checked` and `from` are the two fields of `path_map`, `queue` and `path` the
written parts of the arrays. In `Queue`, `read` and `write` are the counters of
`DECLARE_QUEUE` modulo `Wrap`, `storage` its array. In `Array`, `element` and
`kUsed` are the variables of `DECLARE_ARRAY`; `granted` tells whether the last
`Use` returned one.

`Tiles` has a unit's place, which changes at will, and `goal`, what
`WorldPositionOfTile` found last; the operators carry the names of the functions.
`Geometry` lets four points move one at a time, and `Matrices` the camera, the
window's size, the cursor and a line: what they model are functions, and their
states the arguments.

In `LocalServer` the values of `main` and `serv` say where the two threads are: in
`GetAddr4` (`addr`, `hints`, `lookup`: its hints are cleared, then filled, then
used), in `Bind`, in a receive, between a failing receive and the test of
`udp_errno` (`check`), or ended. `errno` is there per thread, `udp_errno` and
`hints` once. `build` chooses system and program, and with it which actions are
possible: `UnixReceiveFails` and `Win32ReceiveFails`, say. A receive may also return false
without a word in `udp_errno` (`AddressMismatch`). `failed` is a history
variable.

In `Window`, `made` counts the steps of `Create` that are done, `resources` is
what they produced, `pending` what the window system has to tell. `PollEvent`
takes one of them into `input_event[slot]`; `slot` is the buffer of
`GetNextInputBuffer`, used again after `Buffers` turns. `size` is what the
system knows of the window, `pixels` `height_pixels` of `x11_window.cc`,
`projection` what `rgg` was told, and `disturbed`, `polled`, `frames` are
history. In `GameClock` `tsc` is the counter as last read, `tsc_clock`,
`frame_to_frame_tsc` and `jerk` are the fields of the clock, and one action is one
call of `clock_sync` after an arbitrary delay; `elapsed` and `steps` are history.

In `Renderer` the record `gl` is what GL remembers between calls: which programs
are linked, which one is used, which vertex array is bound and what is in it, and
the matrix of every program. `Initialize` runs step by step through `Setup`; a
frame is `Reset`, `PushText`, and one action per thing to draw in `todo`. `screen`
is what GL has drawn of this frame, `asked` what it was asked for (history).

### Abstractions

- *Input.* The events of client c in its turn s are named `<<c, s>>`; whether
  there were none is chosen by the constant `Quiet`, because an empty
  `NotifyTurn` looks like a `NotifyStart`. The 32-event limit and the sizes of
  datagrams are otherwise left out; the check for an oversized datagram
  (`network.cc` 204) cannot fail with what clients send.
- *Handshake timing.* The ten polls per `Handshake` are left to the scheduler.
- *Peers.* A peer address is the client's identity; a client that ended does
  not come back. A restarted server loses its table and what its socket holds.
- *Numbers.* Sequences do not reach 2^64. The one unsigned difference that can
  become negative, `outgoing_sequence - outgoing_ack`, is modelled by its
  effect (`Overrun`).
- *Undefined behaviour.* With `player_count` above `MAX_PLAYER`, `SlotReady`
  reads beyond the row of a slot: `Stall` and `Simulate` are then both possible.
- *Numbers of the simulation.* Positions are pairs of integers and the initial
  camera is the origin. Floating point rounding is not modelled: all clients
  run the same code on the same numbers.
- *Numbers in space.* `Geometry` and `Tiles` use integers; the fraction that the
  code cuts off first decides on no tile. `Matrices` uses fractions: a point is
  `<<x, y, z, d>>` with the denominator d, a matrix is scaled so that its entries
  are integers, a quaternion is not normalised. Signs, orders and inverses are
  exact, rounding is left out.
- *The clock.* The wrap-around is 256 instead of 2^64 and the fixed point 2^5
  instead of 2^33; they enter only as `Wrap` and `Shift`. A sample of `clock_init`
  is what it counts, in cycles and microseconds; the rate of the processor, `Rate`
  cycles per `Msec` microseconds, need be no whole number per microsecond. The
  float product of a sample is any number within one part in `Precision` of the
  true one (it takes five roundings of 2^-24 each, so 2^21 will do), and loses its
  fraction: `TscPerUsec` is the set of what may come of it. Assumed is that a
  sample takes the millisecond that the loop waits for, and that the processor
  makes two cycles per microsecond, without which the code divides by zero.
- *The window.* Of a place on the window only its distance from the upper edge is
  modelled, which is where the systems differ. Keys are those that mean
  something, and one that does not.
- *GL.* A matrix is named after what it is computed from; that the numbers are
  right is the subject of `Matrices`. Vertices are named after their shape.
- *Input of the simulation.* Only clicks of the left button and the keys that
  steer are events of `Replica`: `SimulationEvent` ignores all others.

### Pace

`Abreast` and `Timely` are guards of the composed specification that model an
assumption on the hosts and the network, not code: a client is at most
`MaxSkew` turns ahead of the others of its game, and makes at most `MaxLatency`
turns beyond the frame it waits for. The runs that make no such assumption give
them values above `MaxSeq`. Run `NoPace` shows that lockstep needs it.

### Fairness

Both programs poll in endless loops and never block: a client whose thread is
scheduled executes its next step (`WF` on `ClientStep(c)`, as a whole: it is
one thread), and the server takes each datagram that arrived (`WF` on the
handling of each client's datagrams; the kernel's socket queue is first in,
first out). Nothing is assumed of faults. A call of `PathTo` runs to its end
(`WF` on `Searching`): nothing in it waits. In `MCHost` both threads of a process
are scheduled (`WF` on `MainNext` and on `ServerThreadNext`; they wait nowhere but
in `thread_join`, whose guard is in its action), and so is the main loop
(`GameLoop`): `PollEvent` does not block. Nothing is assumed of the user, of what
arrives, or of the window system: `Stranger`, `CloseGame`, and whatever
adds events are not part of the fair actions.

## 3. Runs

The runs of `MCGame`, `MCReplica` and `MCSimulation` have two clients and the server's two slots
(`MAX_PLAYER`), which is the size the code is built with. They say
`CHECK_DEADLOCK FALSE`: a model ends at `MaxSeq` or `MaxTurns`, clients exit,
and a lost `NotifyTurn` really stops the game. So does `Host`, whose programs
end. `Paths` checks deadlock.

| run | faults | bounds | shows |
|---|---|---|---|
| `Healing` | one loss, client to server | queue 3, 4 turns | types; queue never overruns; every frame is simulated; the game implements `Lockstep` |
| `Fit` | loss and overtaking on the way up, a failing `SendTo` of the echo, a client ends, a handshake fails or is given up | queue 3, 3 turns | unique ids, history until accepted, echo in order, lockstep, received input is kept, and the inductive invariant of section 4 |
| `Sessions` | server restart, one tick (beyond a timeout of none), a duplicate on the way up | queue 2, 2 turns, 1 handshake each | the server's table; clients of a restarted server end or are in a game again |
| `Downlink` | one loss, duplicate, overtaking, server to client; greetings that are not sent | queue 2, 3 turns | history and wire stay faithful even when clients are confused |
| `Paths` | | 3 x 3 tiles of 3 x 2, walls on one tile and any of three others, none, or mines, any start and end, one of them off the map; points in a grid of 3 x 3; six orientations, two windows, five directions of lines | shortest paths, `nullptr` only if there is none, arrays suffice, calls return; tiles and places correspond; intersection tests; clicks, views and lines |
| `Simulation` | any id is released | 3 turns of 4 possible inputs, two sizes of windows, command queue of 1; queue: 4 places, counters modulo 8, two values; array: 3 elements, 4 instances | cameras agree, and rest when no key is held; commands and units agree where clicks were applied under the same views; the ring buffer implements `Fifo` across its wrap-around, the array implements `Pool` |
| `Host` | every call of the system may fail | 2 handshakes; 2 events per turn, 2 buffers, 3 arrivals, 2 heights; 3 samples of 3 kinds, 40 cycles; 32 messages, 2 frames, 9 views | threads and sockets, window, clock, renderer (see below) |
| `DuplicateIds` | one overtaking, server to client | queue 3, 3 turns | finding 1 |
| `FalseAck` | one duplicate, server to client | queue 3, 3 turns | finding 2 |
| `NoPace` | none, no pace | queue 3, 4 turns | finding 3 |
| `NoGreeting` | greetings of one game that are not sent | queue 3, 4 turns | finding 4 |
| `OwnView` | | 3 turns, cameras move | finding 5 |

What `Paths` says of space. `TilesNamePlaces`: a place on the map and its tile
name each other, a goal that is found is where a unit can get to or next to it,
and walls push inwards. `IntersectionsAreReal`: the tests of `intersection.cc`
agree with definitions by intervals, determinants and edges, for every
degenerate position of the points. `ClickIsUnderCursor`: what lies in the world
where the user clicks is drawn under the cursor, for turned and tilted cameras.
`LinesMeetTheirEnds`: a line is drawn from its start to its end.

What `Host` says of a process. `ErrorStopsServer`: a server that is alone in its
process ends when a receive of its own met an error, on unix. Nothing more can be
said of it. Its `udp_errno` may be what `GetAddr4` left, when a receive fails without
writing it; on win32 it is never the error of a socket; and a client in the same
process writes the same global, and clears the same hints. The model has these
steps, but no part of the repository says that they should do no harm.
`TurnsHoldInput`,
`ClickMeansWhatIsDrawn`, `CloseEndsProgram`: the window on three systems.
`ClickMeansWhatIsDrawn` leaves out x11, whose viewport is 15 pixels off, and what
follows a resize. `ClockNeverAhead`, `SleepsNoLonger`: the clock across its
wrap-around, late frames and jerks. In the time that `clock_init` has found, no
sleep is too long and no step too early. In true time they are off by what the
median is below the rate, and no more: less than a cycle per microsecond, since a
sample loses its fraction, and the error of its float (`OverAfter`); at 2999.9 cycles
per microsecond that is five microseconds of a frame of 16.7 ms. This is as good as
half of the samples (`MostSamplesCount`); that a sample multiplies where it should
divide (`platform_clock.cc` 58) makes the rate too high when it takes longer than a
millisecond, which lengthens the steps and shortens the sleeps.
`DrawsWhatIsMeant`, `TextFits`, `GridFillsView`: every
draw call finds the program, vertices and matrix it is meant to, and the text
buffer holds a frame's messages.

The bounds. A queue of 2 or 3 slots is the smallest in which the newest turn,
an unacknowledged one and a free slot differ, and 3 turns (frames 0 to 3) wrap
a queue of 3 once; the code's 128 only makes wrapping take longer. One fault of
each kind, at any time and place, is what distinguishes the histories the code
handles; `Sessions` has the two ticks that pass a timeout of one. In `Paths`
the four walls part the map, cut off a corner, or make the only way around twice
as long as the straight one; the static arrays keep what an earlier search left;
tiles are of odd width, as in the code, and of even height; places reach beyond
the map on every side, and goals are open, behind walls, or
walled in. A grid of three by three points has every order of three points on a
line, crossing, touching and parallel segments. In `Simulation` the counters wrap
after two rounds of the ring, and the array is once fuller than it can be. In
`Host` three events are one more than a turn takes, and two buffers are used
again by the third turn; cycles wrap 256 from a start at 240; a sample has too few
cycles, some too many, or two milliseconds, at a rate of 11 cycles in 4 microseconds;
a view has its
edges on, before and behind the origin and the lines of the grids; a second frame
finds what the first left in GL.
Three turns of the replicas let a key go down in one turn, another event happen in
the next, and the key go up in the third, while clients lag by any number of
turns. Theorems (section 4) cover every size.

Definitions whose comment begins with "(Bug: ...)" are deliberate mistakes that
a programmer could make in the definition that follows them. No specification
uses them; each shows that some property above notices the mistake.

### Findings

1. *Two players under one id* (`DuplicateIds`). `NetworkSetup` takes the first
   datagram with the size of a `NotifyStart`. If the partner's empty first turn
   overtakes it, the client takes the partner's id. `network.cc:34` calls it
   the "Unique id for this game".
2. *False acknowledgement* (`FalseAck`). A duplicated `NotifyStart` is read as
   a `NotifyTurn` whose `ack_sequence` is the player count: the client stops
   re-sending turns that the server never accepted. `network.cc:25`: "History
   is preserved until network acknowledgement".
3. *A turn for another turn* (`NoPace`). `NetworkIngress` has no upper bound on
   a frame. A client that is a queue length ahead of the frame its partner
   simulates overwrites the slot: the partner applies turn n + 3 (128 in the
   code) as turn n. `space.cc:237`: "Apply player commands for turn N".
4. *A player that nobody greeted* (`NoGreeting`). When the `SendTo` of a greeting
   fails, `server_main` prints "greet failed" and starts the game all the same
   (`server.cc` 150-154). The player is still in `NetworkSetup` and takes the first
   empty `NotifyTurn` of its partner for its `NotifyStart`, as in finding 1: now it
   has its partner's id, and as many players as the turn's `ack_sequence` says. With
   one, it does not wait for its partner and simulates turns without what that one
   did in them. `space.cc:237`: "Apply player commands for turn N".
5. *One click, many commands* (`OwnView`). A click is turned into a command with
   the camera and the window of the player who applies it, not of the player who
   clicked: `CoordToWorld` takes `GetLocalCamera` although `SimulationEvent` is
   given the other camera. As soon as the cameras of two players differ, the
   clients push different commands for one click, and the replicas are apart.
   `space.cc:237`: "Apply player commands for turn N"; `camera.cc:5` has cameras
   in the simulation so that they "are network synchronized". A window of
   another size does the same. `CommandsFollowViews`, in run `Simulation`, shows
   that nothing else parts the replicas.

## 4. Theorems

The theorems about the game hold for `Spec` of `Game`, for every set of clients,
size of the table and of the queues, number of turns, and budget of faults. The
others hold for the specification of their module: `Queue`, `Array`, `Search` and
`Replica`, and `TilesSpec`, `MatricesSpec`, `GeometrySpec`, `LocalSpec`, `WindowSpec`, `ClockSpec`
and `RendererSpec`; for every capacity, map, size of tiles and views, frequency of
the processor, set of events, players and inputs. They rest on the named
assumptions of the modules (`NoPeerAssumption`, `MaxPlayerAssumption`,
`NetQueueAssumption`: at least two slots, and so on), which TLC evaluates in
every run, and nothing else is assumed unless it is said below.

| theorem | states |
|---|---|
| `TypeCorrect` (`GameProofs`) | `TypeOK`: in particular every id given out, sent or stored indexes an array of `MAX_PLAYER` |
| `HistoryIsPreserved` (`GameProofs`) | `HistoryPreserved` |
| `WireIsFaithful` (`GameProofs`) | `WireFaithful` |
| `TurnsAgree` (`LockstepProofs`) | `FitForLockstep` implies `AppliesTurnN` |
| `ReceivedIsAlwaysKept` (`LockstepProofs`) | `FitForLockstep` implies `ReceivedIsKept` |
| `IdsAreUnique` (`LockstepProofs`) | `FitForLockstep` implies `UniqueIds` |
| `TableIsOK` (`LockstepProofs`) | `TableOK`, whatever the network and the processes do, if every client asks for at least one player |
| `AgreementHolds` (`DeliveryProofs`) | `FitForLockstep` implies `AgreementInv` |
| `EchoIsInOrder` (`DeliveryProofs`) | `FitForLockstep` implies `EchoInOrder` |
| `HistoryIsKeptUntilAccepted` (`DeliveryProofs`) | `FitForLockstep` implies `HistoryUntilAccepted` |
| `GameImplementsLockstep` (`DeliveryProofs`) | `FitForLockstep` implies `ImplementsLockstep`: every step of the game is a step of the replicas of `Lockstep` or none of theirs |
| `CamerasAlwaysAgree` (`ReplicaProofs`) | `CamerasAgree`: after equally many turns, the same cameras |
| `CommandsAlwaysFollowViews` (`ReplicaProofs`) | `CommandsFollowViews`: only different views part commands and units |
| `CamerasRest` (`ReplicaProofs`) | `RestsWhenReleased`: cameras move only while keys are down |
| `QueueKeepsCapacity` (`ContainerProofs`) | `QueueInv`: the counters are never more than the capacity apart |
| `QueueIsFifo` (`ContainerProofs`) | `ImplementsFifo`: every step of the ring buffer is a step of `Fifo` |
| `ArrayIsPool` (`ContainerProofs`) | `ImplementsPool`: every step of the array is a step of `Pool` |
| `SearchTypeCorrect` (`WorldProofs`) | `SearchTypeOK` |
| `ArraysSuffice` (`WorldProofs`) | `FitsArrays`: neither array of the search is written beyond its end |
| `PathsAreWalkable` (`WorldProofs`) | `ReturnsPath`: what is returned leads from start to end over open tiles |
| `PathsAreShortest` (`WorldProofs`) | `ReturnsShortestPath`: and no shorter path does |
| `NoPathMeansNone` (`WorldProofs`) | `NullOnlyIfNone`: `nullptr` means that there is no path |
| `TilesAlwaysNamePlaces` (`WorldProofs`) | `TilesNamePlaces` |
| `ClickIsAlwaysUnderCursor` (`WorldProofs`) | `ClickIsUnderCursor` |
| `LinesAlwaysMeetTheirEnds` (`WorldProofs`) | `LinesMeetTheirEnds` |
| `IntersectionsAlwaysReal` (`WorldProofs`) | `IntersectionsAreReal` |
| `ThreadsTypeCorrect` (`HostProofs`) | `LocalTypeOK`: the types of what the threads have |
| `TurnsAlwaysHoldInput` (`HostProofs`) | `TurnsHoldInput` |
| `ClicksMeanWhatIsDrawn` (`HostProofs`) | `ClickMeansWhatIsDrawn` |
| `ClockIsNeverAhead` (`HostProofs`) | `ClockNeverAhead` |
| `SleepsAreNoLonger` (`HostProofs`) | `SleepsNoLonger` |
| `GridAlwaysFillsView` (`HostProofs`) | `GridFillsView` |
| `AlwaysDrawsWhatIsMeant` (`HostProofs`) | `DrawsWhatIsMeant` |
| `TextAlwaysFits` (`HostProofs`) | `TextFits` |

*History.* `HistoryPreserved` alone is not inductive: a new turn could take the
slot of an unacknowledged one. `HistoryInv` adds that the unacknowledged turns
fit the queue, which `GetNextInputBuffer` checks before it takes a slot, and
that nothing is acknowledged before the handshake is over, since `LocalAck`
means another player once `player_id` is set. Then two unacknowledged turns
never share a slot (`SlotsApart`), and acknowledgements only grow. No assumption
is made on the network.

*Wire.* `OnlyFaithful` says the same as `WireFaithful` with sets of datagrams,
so that what takes, repeats or moves elements of a sequence preserves it without
further argument (`FaultsType`). A client's new datagrams are its history
(`HistoryInv`), the server's are what it received, and turns only get more.

*Agreement.* `FitForLockstep` says what the code needs from its surroundings,
each part shown necessary by a finding or a hazard: nothing that the server
sends is lost, repeated or overtaken; it neither restarts nor drops a player;
every client asks for at least one player; `MaxLatency + MaxSkew < NetQueue`.
Every greeting is sent, too (`faults["greet"]` is 0): the code goes on without it, and
finding 4 is what then happens. What clients send may still be lost, repeated and
overtaken, a `SendTo` of the echo may fail, and clients may end at any point. Under it `AgreementInv` is
inductive together with the invariants above. Its parts:

- `Seated`: the server's table and the rosters agree, and fewer players wait for
  a game than it takes. So a player that is greeted was never greeted before,
  its id is smaller than the number of players, and ids differ (`NewIdGrows`).
- `Greeted`, `Fresh`, `Mail`, `Introduced`: the first datagram to a client is
  its `NotifyStart`, all later ones are turns of its own game; until it is read
  the client is as it started. This excludes the confusions of findings 1, 2 and 4.
- `Pace`: a partner's turn is at most `MaxSkew` ahead of one's own turn, which
  is at most `MaxLatency + 1` ahead of the frame to simulate. So a frame that
  arrives is less than a queue ahead, and its slot is that of no other frame
  that still has to be simulated. This excludes finding 3.
- `Frames`, `Applied`: a received input is that of the one frame its slot
  stands for, therefore what is simulated is the turn (`SlotHoldsTurn`).

`AppliesTurnN` is then a conjunct, and `UniqueIds` follows since a roster maps
each id to one client. That `FitForLockstep` can be met, and the invariant is
not vacuous, is what run `Fit` shows: it is an instance of it.

*Delivery.* In a game that is fit for lockstep, `DeliveryInv` is inductive next to
`AgreementInv`: after the `NotifyStart`, all mail of a client is echoes; the
server has accepted every turn whose echo is on its way (`AcceptedTurns`); it is
between what a client knows to be acknowledged and what it has made (`Between`);
and a client has the acknowledgement of each turn of its own that it has received
(`OwnTurns`). So an echo's turn is newer than those on their way before it
(`EchoInOrder`), and nothing leaves the history before it is accepted. A turn that is accepted is
the next one, which `IsNext` says by the difference of two sequences.

*Refinement.* `Lockstep` has three steps. A game forms when the server greets its
players: the ids are as many as the players and differ, so they are 0 to n - 1
(`GroupOfGame`), and none of the players had a game, by `Seated`. A turn is issued by
`Tick` and by `SendFails`, whose turn counts although not all of it is sent. A turn is
applied by `Simulate`: the slot of the frame holds the turn by `AgreementInv`; that
every player had made it by then takes one more invariant, `IssuedInv`: a received
input is of a turn that its player has made. Every other step is none of the
replicas'; a server that restarts or drops somebody, and so may greet a client
twice, is excluded by `FitForLockstep`.

*Table.* `TableInv` needs no assumption on the network or the processes. Its
first part says that every request on its way asks for at least one player. The
second is `TableOK` for a table as a parameter, so that it can be shown of the
table between accepting and greeting; a game's players get as ids how many are
greeted before them, which are different for different slots, and no slot of an
earlier game has the new game's id. The third: after a greeting nobody waits who
asked for that number, and before one fewer wait than it takes.

*Replicas.* Clients apply a turn at different times, so no invariant of one state
relates two of them. `CameraInv` and `SimInv` therefore say that a record of the
past exists: of what every client in turn has made of the log so far, such that
every client's state is an entry of it. For the cameras an entry is determined by the
number of turns applied. For the simulation it is determined by that number and
the views under which clicks were applied; a step either repeats an entry
or adds one. That is an induction along behaviours, not over data, which is why
the prover can follow it.

*Queue.* The capacity is a power of two and so divides the range of the
counters (`WrapAssumption`). Therefore the place of a counter is the same before
and after it wraps (`PlaceOfWrapped`), and the places of fewer than a capacity of
consecutive counters are different (`PlacesApart`): a push changes no queued
element and appends one, a pop removes the oldest.

*Array.* The elements in use are instances, and no two are the same (`ArrayInv`).
A release with an id in use moves the last one to its place, which removes
exactly one from the set; one with an id beyond changes nothing.

*Search.* A tile is enqueued when it is marked, and only if it was not marked
before. So no tile is in the queue twice (`Marked`), and as many tiles as there
are fit it. Every tile but the first was reached from one earlier in the queue
(`Reached`); so on the way back the place in the queue decreases, as the length
of the path grows (`WayBack`), which bounds the path by the queue. `SearchInv` is
inductive. For the length, `LayersInv` says that numbers d exist, one per entry of the
queue, that count the moves from the start along `from`: they never decrease along
the queue, by at most one from the entry being expanded to the last; and whatever
was expanded has all its open neighbors in the queue, at most one move further.
Then no path can be shorter than the numbers: every tile within n moves of the
start (`Within[n]`, the reference the runs use as well) is an entry whose number
is at most n (`BallIsCovered`). This is shown of the least n that would fail, since every
nonempty set of naturals has a least member (`LeastNumber`); so is that the
recursive function `Within` is what its definition says (`BallsExist`).

*Held keys.* `HeldInv` says of every player's camera that it moves as the keys say that
are down after all events of the turns applied, whatever was pressed twice or
released twice (`Held`). Both are folds, the one turn by turn, the other over all
events at once; `FoldProofs` has what is needed of the folds of the library, with the operator
as a constant of the module, since a theorem cannot take it as a parameter.

*Threads.* Every step keeps the types, on every system and in every program.

*Window.* Until the window is resized, its height is that of
the projection and of the one from which `PollEvent` measures clicks (`ClickInv`).
`TurnsHoldInput` is inductive next to the types.

*Clock.* The counters wrap, so the invariant says that a number of cycles exists by which
the clock is behind the processor (`LagInv`) and by which the frame began earlier
(`SinceInv`), and that the counters show them modulo `Wrap`. `SleepInv`: a
fixed-point product is never rounded up, so that a sleep is no longer than the cycles
it stands for (`UsecNoLonger`); and more than half of the sorted values are up to the
median, so that it is at least the value of one of any half of the samples
(`MedianIsMiddle`), which loses less than a cycle and the error of the float
(`SampleType`). True time follows (`TrueTime`).

*Renderer.* Whoever draws has gone through all of `Setup` (`SetupInv`), and what is still
to be drawn is the end of what was asked for (`TodoInv`); next to these
`DrawsWhatIsMeant` is inductive. Characters and lines are folds (`FoldProofs`). The
lines of the grid are the multiples of its unit, which gives `GridFillsView`.

*Tiles.* With quotients rounded as the code rounds them, the tile of a place covers it
and the place of a tile has that tile, for tiles of even and odd size (`PlaceHasTile`).
That walls push inwards (`PushedInwards`) is shown of the sum after each neighbor, since
the neighbors off the map count as walls.

*Matrices.* The columns of a rotation are orthogonal and of equal length, for every
quaternion but 0. So the view takes back what `ScreenToWorldSpace` does, up to a scale.
Positions are compared as homogeneous vectors; affine maps compose, and keep places
the same that are. A line is the image of the unit line under a scale, a rotation by
its half angle and a translation; that the half angle which the code's `acos` yields
exists, follows from the one the line was made with.

*Intersections.* All tests come down to the sign of `Turn`, on which side of a line a
point is (`OrientationIs`, `TriAreaIs`). If two segments have a point in common, it is a mean
of the ends of each, so the ends of one are not on the same side of the other
(`TurnOfMean`, `EndsOnBothSides`); if they are on both sides, Cramer's rule names the point
(`MeetingsAre`), and collinear segments meet at an end (`IsOnIs`). A point is a mean of the
corners of a triangle with its turns as weights (`WeightsAreTurns`), and is inside if these
have one sign; the cases of the heights of the corners give how many edges its ray crosses
(`RayOfMean`). Coordinates are any integers below the end of the ray.

Not proved, by the limits of the prover: `Progress`, `GivesUp`, `Returns`,
`ErrorStopsServer` and `CloseEndsProgram`, which are liveness under fairness.
Nor is `NoOverrun`: the guard `Timely` keeps a client from making the turns that would
overrun its queue, which the loop of `main` does not, so a proof would restate the
assumption; run `Healing` shows that the queue then suffices while a lost turn is
sent again. Every other invariant and action property that a run checks is proved,
except where a finding says that the code violates it.

## 5. What is left

What comes next would be `Game` with three clients on two slots and with a
`num_players` of 0 or above `MAX_PLAYER` (the theorems about types, history and
wire include them, the runs do not); and units that walk `Tiles` in `Replica`.

Not modelled:

- *Option parser* (`platform_getopt.cc`): a scan of `argv` before anything else runs, without
  state that outlives it. `num_players`, the option whose value matters,
  is a constant.
- *Sleep, file system, intrinsics*: a call of the system or an instruction each.
- *Asteroids and pods*: they move by themselves, no input reaches them and they
  affect nothing else; that they are the same on all clients is as evident as that
  constants are. `VerifyIntegrity`, which should tell, always returns true.
- *Rendering as numbers*: vertices of shapes and glyphs, the parsing of the font
  and of images, what shaders compute. (`asteroid_aabb`, `gfx.cc` 60-61, takes y
  and z from the x coordinate; its box is only used for a text when hovering.)
- *Math nobody calls*: perspective and look-at matrices, `rect.h`, and the
  comparison of matrices, which compares M*N bytes (`mat.h` 85) and has no caller.
- *Rounding*: positions are exact. All clients run the same code on the same
  numbers, so that rounding cannot part clients built alike.
- *Window manager*: a close request on x11 reaches the program as the end of its
  connection, which ends the process at once; there is no step to model.
- *The text of a message and the state of GL that is set once*: messages have no text in
  `Renderer`, so that the length check of `PushText` and its copy are left out; depth test and
  blending are enabled once, by `rgg::Initialize` (`renderer.cc` 128-132), and colors
  are left out with the other uniforms that `DrawsWhatIsMeant` does not tell apart.
- *Examples and scripts*: not part of the program; `daily.sh` is where the
  restart of a server comes from.
