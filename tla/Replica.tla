------------------------------ MODULE Replica ------------------------------
(***************************************************************************)
(* What the clients of a game make of the turns they apply: ProcessSimu-   *)
(* lation of src/src/space.cc, the cameras of src/src/simulation/camera.cc *)
(* and Think, Decide and Update of src/src/simulation/simulation.cc.  The  *)
(* network gives all clients the same turns (module Lockstep); here they   *)
(* are the sequence `log', which each client applies at its own pace.      *)
(*                                                                         *)
(* Positions are pairs of integers.  How a unit walks (path search,        *)
(* normalised steps, avoidance of walls) is left to Toward and Arrived;    *)
(* asteroids and pods depend on nothing a player does and are left out.    *)
(***************************************************************************)
EXTENDS Integers, SequencesExt

CONSTANTS
  Client,
  MaxPlayer,          \* MAX_PLAYER
  PlayerId,           \* PlayerId[c]: kNetworkState.player_id of client c
  Window,             \* the sizes a window may have
  Input,              \* what a player may do in a turn: sequences of events
  MaxTurns,           \* bound of the model: turns that are played
  kMaxCommand,        \* room of the command queue
  kUsedUnit,          \* units 0 .. kUsedUnit - 1; unit 0 takes orders
  Begin,              \* Begin[u]: where unit u starts
  Goal,               \* Goal[u]: WorldPositionOfTile of unit u's goal
  kNone,              \* no command, or no such tile
  Toward(_, _),       \* where a unit is one step towards its destination
  Arrived(_, _)       \* PathTo has no further tile

Player == 0 .. MaxPlayer - 1

Unit == 0 .. kUsedUnit - 1

Click(xy) == [type |-> "click", position |-> xy]
KeyDown(k) == [type |-> "down", key |-> k]
KeyUp(k) == [type |-> "up", key |-> k]

Event == [type : {"click"}, position : Int \X Int]
           \cup [type : {"down", "up"}, key : STRING]

ASSUME PlayerIdAssumption == PlayerId \in [Client -> Player]
ASSUME InputAssumption == Input \subseteq Seq(Event)

VARIABLES
  log,              \* the turns of the game
  applied,          \* applied[c]: how many of them c has applied
  size,             \* size[c]: the size of c's window
  camera,           \* camera[c][p]: player_camera[p]
  commands,         \* commands[c]: the command queue
  unit,             \* unit[c][u]: position and command
  satisfied_flags,  \* satisfied_flags[c]: the goals that were decided on
  views             \* history: under which views c applied clicks

simulation == <<camera, commands, unit, satisfied_flags, views>>
vars == <<log, applied, size, simulation>>

Sum2(u, v) == <<u[1] + v[1], u[2] + v[2]>>

\* (The origin stands for the point that InitialCamera sets.)
InitialCamera == [position |-> <<0, 0>>, motion |-> <<0, 0>>]

Init ==
  /\ log = <<>>
  /\ applied = [c \in Client |-> 0]
  /\ size \in [Client -> Window]
  /\ camera = [c \in Client |-> [p \in Player |-> InitialCamera]]
  /\ commands = [c \in Client |-> <<>>]
  /\ unit = [c \in Client |->
               [u \in Unit |-> [position |-> Begin[u], command |-> kNone]]]
  /\ satisfied_flags = [c \in Client |-> {}]
  /\ views = [c \in Client |-> <<>>]

-----------------------------------------------------------------------------
(* The events of a turn: SimulationEvent. *)

IsClick(e) == e.type = "click"

\* The axis of a key, and its direction along it.
Axis == [w |-> 2, a |-> 1, s |-> 2, d |-> 1]
Direction == [w |-> 1, a |-> -1, s |-> -1, d |-> 1]

\* No other key means anything.
IsKey(e) == e.type \in {"down", "up"} /\ e.key \in DOMAIN Axis

\* (Bug: releasing a key leaves the motion as it is.)
SteerOn(motion, e) ==
  IF IsKey(e) /\ e.type = "down"
    THEN [motion EXCEPT ![Axis[e.key]] = Direction[e.key]]
    ELSE motion

\* A key that goes down sets the motion along its axis, and one that goes up
\* resets it.
Steer(motion, e) ==
  IF IsKey(e)
    THEN [motion EXCEPT ![Axis[e.key]] =
                          IF e.type = "down" THEN Direction[e.key] ELSE 0]
    ELSE motion

MotionAfter(motion, events) == FoldLeft(Steer, motion, events)

\* (Bug: every camera is moved by the local player.)
LocalEvents(c, turn, p) == turn[PlayerId[c]]

\* The events that steer camera p on client c.
CameraEvents(c, turn, p) == turn[p]

\* What a client sees: with the camera of the local player, in its window.
View(c) == [at |-> camera[c][PlayerId[c]].position, size |-> size[c]]

CoordToWorld(c, xy) ==
  LET middle == <<View(c).size[1] \div 2, View(c).size[2] \div 2>>
      screen == <<xy[1] - middle[1], xy[2] - middle[2]>>
  IN  Sum2(View(c).at, screen)

\* The clicks of a turn, player by player.
Clicks(turn) ==
  SelectSeq(FlattenSeq([k \in 1 .. MaxPlayer |-> turn[k - 1]]), IsClick)

\* (Bug: a client pushes its own player's clicks only.)
PushedLocally(c, turn) ==
  LET clicks == SelectSeq(turn[PlayerId[c]], IsClick)
      all == commands[c] \o
               [k \in 1 .. Len(clicks) |-> CoordToWorld(c, clicks[k].position)]
  IN  SubSeq(all, 1, IF Len(all) < kMaxCommand THEN Len(all) ELSE kMaxCommand)

\* The command queue once every click was pushed: a full queue takes no more.
Pushed(c, turn) ==
  LET clicks == Clicks(turn)
      all == commands[c] \o
               [k \in 1 .. Len(clicks) |-> CoordToWorld(c, clicks[k].position)]
  IN  SubSeq(all, 1, IF Len(all) < kMaxCommand THEN Len(all) ELSE kMaxCommand)

-----------------------------------------------------------------------------
(* Think, Decide and Update. *)

Obedient(u) == u = 0

Idle(c, u) == unit[c][u].command = kNone

\* The obedient unit takes its next order, if there is one.
TakesOrder(c, u, queue) == Idle(c, u) /\ Obedient(u) /\ queue # <<>>

\* The others take to their goal, once.
TakesGoal(c, u) == Idle(c, u) /\ ~Obedient(u) /\ u \notin satisfied_flags[c]

Decided(c, u, queue) ==
  IF TakesOrder(c, u, queue) THEN Head(queue)
  ELSE IF TakesGoal(c, u) THEN Goal[u]
  ELSE unit[c][u].command

\* A unit with a command moves on, and forgets the command when it is there.
Moved(position, command) ==
  IF command = kNone THEN [position |-> position, command |-> kNone]
  ELSE IF Arrived(position, command) THEN [position |-> position, command |-> kNone]
  ELSE [position |-> Toward(position, command), command |-> command]

\* An iteration of the main loop that finds its slot ready.
Apply(c) ==
  /\ applied[c] < Len(log)
  /\ LET turn == log[applied[c] + 1]
         queue == Pushed(c, turn)
     IN  /\ commands' = [commands EXCEPT ![c] =
                           IF \E u \in Unit : TakesOrder(c, u, queue)
                             THEN Tail(queue) ELSE queue]
         /\ unit' = [unit EXCEPT ![c] =
                       [u \in Unit |->
                          Moved(unit[c][u].position, Decided(c, u, queue))]]
         /\ satisfied_flags' = [satisfied_flags EXCEPT ![c] =
                                  @ \cup {u \in Unit : TakesGoal(c, u)}]
         /\ views' = IF Clicks(turn) = <<>> THEN views
                     ELSE [views EXCEPT ![c] = Append(@, View(c))]
         /\ camera' = [camera EXCEPT ![c] =
              [p \in Player |->
                 LET motion == MotionAfter(@[p].motion, CameraEvents(c, turn, p))
                 IN  [position |-> Sum2(@[p].position, motion),
                      motion |-> motion]]]
  /\ applied' = [applied EXCEPT ![c] = @ + 1]
  /\ UNCHANGED <<log, size>>

\* The user resizes a window.
Resize(c) ==
  /\ \E s \in Window \ {size[c]} : size' = [size EXCEPT ![c] = s]
  /\ UNCHANGED <<log, applied, simulation>>

-----------------------------------------------------------------------------
(* The turns that are played. *)

\* The keys that are down after an event, and after some events.
Hold(held, e) ==
  IF e.type = "down" THEN held \cup {e.key}
  ELSE IF e.type = "up" THEN held \ {e.key} ELSE held

KeysDown(events) == FoldLeft(Hold, {}, events)

\* The events of player p in the first n turns.
Played(p, n) == FlattenSeq([k \in 1 .. n |-> log[k][p]])

\* A key that goes up was down.
Possible(p, events) ==
  \A k \in 1 .. Len(events) :
    events[k].type = "up" =>
      events[k].key \in
        KeysDown(Played(p, Len(log)) \o SubSeq(events, 1, k - 1))

Play ==
  /\ Len(log) < MaxTurns
  /\ \E turn \in [Player -> Input] :
       /\ \A p \in Player : Possible(p, turn[p])
       /\ log' = Append(log, turn)
  /\ UNCHANGED <<applied, size, simulation>>

Next == Play \/ \E c \in Client : Apply(c) \/ Resize(c)

Spec == Init /\ [][Next]_vars

-----------------------------------------------------------------------------
(* Properties.                                                             *)

Together(c, d) == applied[c] = applied[d]

\* "player cameras are network synchronized" (camera.cc:5): clients that have
\* applied the same turns have the same cameras of all players.
CamerasAgree == \A c, d \in Client : Together(c, d) => camera[c] = camera[d]

SameSimulation(c, d) ==
  /\ commands[c] = commands[d]
  /\ unit[c] = unit[d]
  /\ satisfied_flags[c] = satisfied_flags[d]

\* "Apply player commands for turn N" (space.cc:237): clients that have applied
\* the same turns have given the same commands, to the same units.
CommandsAgree ==
  \A c, d \in Client : Together(c, d) => SameSimulation(c, d)

\* They do if each click was applied under the same view: at whatever pace, and
\* however full the command queue was, nothing else parts them.
CommandsFollowViews ==
  \A c, d \in Client :
    Together(c, d) /\ views[c] = views[d] => SameSimulation(c, d)

\* A player who holds no key has a camera at rest: no order of presses and
\* releases, in whatever turns, leaves a motion behind.
RestsWhenReleased ==
  \A c \in Client, p \in Player :
    KeysDown(Played(p, applied[c])) = {} => camera[c][p].motion = <<0, 0>>
=============================================================================
