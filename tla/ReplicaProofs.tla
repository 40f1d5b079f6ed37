--------------------------- MODULE ReplicaProofs ---------------------------
(***************************************************************************)
(* Why the clients of a game make the same of the turns they apply.        *)
(*                                                                         *)
(* A client that is ahead has done what a client behind it will do.  The   *)
(* proofs keep, next to the state, what the clients have gone through:     *)
(* the invariants say that such a record exists in which the turns applied *)
(* determine the cameras, and the turns applied and the views determine    *)
(* the commands and the units.                                             *)
(***************************************************************************)
EXTENDS Replica, SequenceTheorems, TLAPS

-----------------------------------------------------------------------------
(* Cameras. *)

\* What a turn makes of the cameras of all players.
CamerasAfter(cams, turn) ==
  [p \in Player |->
     LET motion == MotionAfter(cams[p].motion, turn[p])
     IN  [position |-> Sum2(cams[p].position, motion), motion |-> motion]]

\* past[n] are the cameras of whoever has applied n turns.
CameraPast(past) ==
  /\ DOMAIN past = 0 .. Len(log)
  /\ past[0] = [p \in Player |-> InitialCamera]
  /\ \A n \in 1 .. Len(log) : past[n] = CamerasAfter(past[n - 1], log[n])
  /\ \A c \in Client : camera[c] = past[applied[c]]

ShapeOK ==
  /\ log \in Seq([Player -> Input])
  /\ applied \in [Client -> 0 .. Len(log)]
  /\ DOMAIN camera = Client

CameraInv == ShapeOK /\ \E past : CameraPast(past)

LEMMA CameraInit == Init => CameraInv
<1> SUFFICES ASSUME Init PROVE CameraInv
  OBVIOUS
<1>1. ShapeOK
  BY DEF Init, ShapeOK
<1>2. CameraPast([n \in 0 .. 0 |-> [p \in Player |-> InitialCamera]])
  BY DEF Init, CameraPast
<1> QED
  BY <1>1, <1>2 DEF CameraInv

LEMMA CameraApply ==
  ASSUME CameraInv, NEW c \in Client, Apply(c)
  PROVE  CameraInv'
<1>1. PICK past : CameraPast(past)
  BY DEF CameraInv
<1>2. ShapeOK /\ applied[c] \in 0 .. Len(log) /\ Len(log) \in Nat
  BY DEF CameraInv, ShapeOK
<1>3. /\ applied[c] < Len(log) /\ log' = log
      /\ applied' = [applied EXCEPT ![c] = @ + 1]
      /\ camera' = [camera EXCEPT ![c] = CamerasAfter(@, log[applied[c] + 1])]
  BY DEF Apply, CamerasAfter, CameraEvents
<1>4. applied'[c] = applied[c] + 1 /\ applied'[c] \in 1 .. Len(log)
      /\ \A d \in Client : d # c => applied'[d] = applied[d]
  BY <1>2, <1>3 DEF ShapeOK
<1>5. ShapeOK'
  BY <1>2, <1>3 DEF ShapeOK
<1>6. \A d \in Client : camera'[d] = past[applied'[d]]
  BY <1>1, <1>2, <1>3, <1>4 DEF CameraPast, ShapeOK
<1>7. CameraPast(past)'
  BY <1>1, <1>3, <1>6 DEF CameraPast
<1> QED
  BY <1>5, <1>7 DEF CameraInv

LEMMA CameraPlay ==
  ASSUME CameraInv, Play
  PROVE  CameraInv'
<1>1. PICK past : CameraPast(past)
  BY DEF CameraInv
<1>2. PICK turn \in [Player -> Input] : log' = Append(log, turn)
  BY DEF Play
<1>3. ShapeOK /\ UNCHANGED <<applied, camera>>
  BY DEF CameraInv, Play, simulation
<1>4. /\ log' \in Seq([Player -> Input]) /\ Len(log') = Len(log) + 1
      /\ Len(log) \in Nat
      /\ \A n \in 1 .. Len(log) : log'[n] = log[n]
  BY <1>2, <1>3 DEF ShapeOK
<1>5. ShapeOK'
  BY <1>3, <1>4 DEF ShapeOK
<1> DEFINE longer == [n \in 0 .. Len(log) + 1 |->
                        IF n <= Len(log) THEN past[n]
                        ELSE CamerasAfter(past[Len(log)], turn)]
<1>6. PICK new : new = longer
  OBVIOUS
<1>7. log'[Len(log) + 1] = turn
  BY <1>2, <1>3 DEF ShapeOK
<1>8. new[0] = past[0]
  BY <1>4, <1>6
<1>9. ASSUME NEW n \in 1 .. Len(log')
      PROVE  new[n] = CamerasAfter(new[n - 1], log'[n])
  <2>1. CASE n <= Len(log)
    <3>1. new[n] = past[n] /\ new[n - 1] = past[n - 1] /\ log'[n] = log[n]
      BY <1>4, <1>6, <2>1
    <3> QED
      BY <1>1, <1>4, <2>1, <3>1 DEF CameraPast
  <2>2. CASE n = Len(log) + 1
    <3>1. new[n] = CamerasAfter(past[Len(log)], log'[n])
          /\ new[n - 1] = past[Len(log)]
      BY <1>4, <1>6, <1>7, <2>2
    <3> QED
      BY <3>1
  <2> QED
    BY <1>4, <2>1, <2>2
<1>10. \A d \in Client : camera'[d] = new[applied'[d]]
  <2>1. ASSUME NEW d \in Client
        PROVE  new[applied[d]] = past[applied[d]]
    BY <1>3, <1>4, <1>6 DEF ShapeOK
  <2> QED
    BY <1>1, <1>3, <2>1 DEF CameraPast
<1>11. DOMAIN new = 0 .. Len(log')
  BY <1>4, <1>6
<1>12. CameraPast(new)'
  BY <1>1, <1>8, <1>9, <1>10, <1>11 DEF CameraPast
<1> QED
  BY <1>5, <1>12 DEF CameraInv

\* Clients that have applied the same turns have the same cameras of all
\* players ("player cameras are network synchronized", camera.cc:5), whatever
\* the players do, at whatever pace the clients go and however they resize
\* their windows.
THEOREM CamerasAlwaysAgree == Spec => []CamerasAgree
<1>1. CameraInv /\ [Next]_vars => CameraInv'
  <2> SUFFICES ASSUME CameraInv, [Next]_vars PROVE CameraInv'
    OBVIOUS
  <2>1. CASE UNCHANGED <<log, applied, camera>>
    BY <2>1 DEF CameraInv, ShapeOK, CameraPast
  <2>2. UNCHANGED <<log, applied, camera>> \/ Play \/ \E c \in Client : Apply(c)
    BY DEF Next, Resize, vars, simulation
  <2> QED
    BY <2>1, <2>2, CameraApply, CameraPlay
<1>2. CameraInv => CamerasAgree
  BY DEF CameraInv, CameraPast, CamerasAgree, Together
<1> QED
  BY <1>1, <1>2, CameraInit, PTL DEF Spec

-----------------------------------------------------------------------------
(* Commands and units.                                                     *)

\* The simulation of a client as one value, and what a turn makes of it when
\* its clicks are applied under a view.
Sim(c) == [commands |-> commands[c], unit |-> unit[c],
           satisfied |-> satisfied_flags[c]]

Start == [commands |-> <<>>, satisfied |-> {},
          unit |-> [u \in Unit |-> [position |-> Begin[u], command |-> kNone]]]

WorldUnder(view, xy) ==
  LET middle == <<view.size[1] \div 2, view.size[2] \div 2>>
      screen == <<xy[1] - middle[1], xy[2] - middle[2]>>
  IN  Sum2(view.at, screen)

QueueUnder(queue, view, turn) ==
  LET clicks == Clicks(turn)
      all == queue \o [k \in 1 .. Len(clicks) |->
                         WorldUnder(view, clicks[k].position)]
  IN  SubSeq(all, 1, IF Len(all) < kMaxCommand THEN Len(all) ELSE kMaxCommand)

Orders(s, queue, u) ==
  s.unit[u].command = kNone /\ Obedient(u) /\ queue # <<>>

Goals(s, u) ==
  s.unit[u].command = kNone /\ ~Obedient(u) /\ u \notin s.satisfied

SimWith(s, queue) ==
  [commands |-> IF \E u \in Unit : Orders(s, queue, u) THEN Tail(queue)
                                                      ELSE queue,
   unit |-> [u \in Unit |->
               Moved(s.unit[u].position,
                     IF Orders(s, queue, u) THEN Head(queue)
                     ELSE IF Goals(s, u) THEN Goal[u]
                     ELSE s.unit[u].command)],
   satisfied |-> s.satisfied \cup {u \in Unit : Goals(s, u)}]

SimAfter(s, view, turn) == SimWith(s, QueueUnder(s.commands, view, turn))

\* The views under which clicks were applied, one turn on.
ViewsAfter(seen, view, turn) ==
  IF Clicks(turn) = <<>> THEN seen ELSE Append(seen, view)

\* A record of clients that had applied x[1] turns, clicks under the views
\* x[2], with the simulation x[3]: it holds every client, whoever is in it came
\* from somebody in it by a turn of the game, and turns and views determine the
\* simulation.
SimPast(past, Seen) ==
  /\ \A x \in past : x[1] \in 0 .. Len(log) /\ x[2] \in Seq(Seen)
  /\ \A x, y \in past : x[1] = y[1] /\ x[2] = y[2] => x[3] = y[3]
  /\ \A x \in past :
       x[1] # 0 =>
         \E y \in past, view \in Seen :
           /\ x[1] = y[1] + 1
           /\ x[2] = ViewsAfter(y[2], view, log[x[1]])
           /\ x[3] = SimAfter(y[3], view, log[x[1]])
  /\ \A c \in Client : <<applied[c], views[c], Sim(c)>> \in past

SimShapeOK ==
  /\ log \in Seq([Player -> Input])
  /\ applied \in [Client -> 0 .. Len(log)]
  /\ DOMAIN commands = Client /\ DOMAIN unit = Client
  /\ DOMAIN satisfied_flags = Client /\ DOMAIN views = Client

SimInv == SimShapeOK /\ \E past, Seen : SimPast(past, Seen)

\* Without clicks the view does not matter.
LEMMA QuietTurn ==
  ASSUME NEW s, NEW turn, Clicks(turn) = <<>>, NEW v, NEW w
  PROVE  SimAfter(s, v, turn) = SimAfter(s, w, turn)
<1>1. [k \in 1 .. Len(Clicks(turn)) |-> WorldUnder(v, Clicks(turn)[k].position)]
        = [k \in 1 .. Len(Clicks(turn)) |-> WorldUnder(w, Clicks(turn)[k].position)]
  <2>1. 1 .. Len(Clicks(turn)) = {}
    OBVIOUS
  <2> QED
    BY <2>1
<1>2. QueueUnder(s.commands, v, turn) = QueueUnder(s.commands, w, turn)
  BY <1>1 DEF QueueUnder
<1> QED
  BY <1>2 DEF SimAfter

\* Apply is SimAfter.
LEMMA ApplySim ==
  ASSUME SimShapeOK, NEW c \in Client, Apply(c)
  PROVE  /\ Sim(c)' = SimAfter(Sim(c), View(c), log[applied[c] + 1])
         /\ views'[c] = ViewsAfter(views[c], View(c), log[applied[c] + 1])
         /\ \A d \in Client : d # c => Sim(d)' = Sim(d) /\ views'[d] = views[d]
         /\ SimShapeOK'
<1> DEFINE turn == log[applied[c] + 1]
           queue == Pushed(c, turn)
<1>1. /\ log' = log /\ applied[c] < Len(log)
      /\ applied' = [applied EXCEPT ![c] = @ + 1]
      /\ commands' = [commands EXCEPT ![c] =
                        IF \E u \in Unit : TakesOrder(c, u, queue)
                          THEN Tail(queue) ELSE queue]
      /\ unit' = [unit EXCEPT ![c] =
                    [u \in Unit |->
                       Moved(unit[c][u].position, Decided(c, u, queue))]]
      /\ satisfied_flags' = [satisfied_flags EXCEPT ![c] =
                               @ \cup {u \in Unit : TakesGoal(c, u)}]
      /\ views' = IF Clicks(turn) = <<>> THEN views
                  ELSE [views EXCEPT ![c] = Append(@, View(c))]
  BY DEF Apply
<1>2. queue = QueueUnder(Sim(c).commands, View(c), turn)
  BY DEF Pushed, QueueUnder, CoordToWorld, WorldUnder, Sim
<1> HIDE DEF queue, turn
<1>3. \A u \in Unit : /\ TakesOrder(c, u, queue) <=> Orders(Sim(c), queue, u)
                      /\ TakesGoal(c, u) <=> Goals(Sim(c), u)
  BY DEF TakesOrder, TakesGoal, Idle, Orders, Goals, Sim
<1>4. commands'[c] = SimWith(Sim(c), queue).commands
  BY <1>1, <1>3 DEF SimWith, SimShapeOK
<1>5. unit'[c] = SimWith(Sim(c), queue).unit
  <2>1. \A u \in Unit :
          Decided(c, u, queue) = IF Orders(Sim(c), queue, u) THEN Head(queue)
                                 ELSE IF Goals(Sim(c), u) THEN Goal[u]
                                 ELSE Sim(c).unit[u].command
    BY <1>3 DEF Decided, Sim
  <2>2. unit'[c] = [u \in Unit |->
                      Moved(unit[c][u].position, Decided(c, u, queue))]
    BY <1>1 DEF SimShapeOK
  <2>3. Sim(c).unit = unit[c]
    BY DEF Sim
  <2> QED
    BY <2>1, <2>2, <2>3 DEF SimWith
<1>6. satisfied_flags'[c] = SimWith(Sim(c), queue).satisfied
  <2>1. {u \in Unit : TakesGoal(c, u)} = {u \in Unit : Goals(Sim(c), u)}
    BY <1>3
  <2> QED
    BY <1>1, <2>1 DEF SimWith, SimShapeOK, Sim
<1>7. Sim(c)' = SimAfter(Sim(c), View(c), turn)
  BY <1>2, <1>4, <1>5, <1>6 DEF Sim, SimAfter, SimWith
<1>8. views'[c] = ViewsAfter(views[c], View(c), turn)
  BY <1>1 DEF ViewsAfter, SimShapeOK
<1>9. \A d \in Client : d # c => Sim(d)' = Sim(d) /\ views'[d] = views[d]
  BY <1>1 DEF Sim, SimShapeOK
<1>10. SimShapeOK'
  <2>1. applied[c] \in 0 .. Len(log) /\ Len(log) \in Nat
    BY DEF SimShapeOK
  <2>2. applied' \in [Client -> 0 .. Len(log)]
    BY <1>1, <2>1 DEF SimShapeOK
  <2> QED
    BY <1>1, <2>2 DEF SimShapeOK
<1> QED
  BY <1>7, <1>8, <1>9, <1>10 DEF turn

LEMMA SimApply ==
  ASSUME SimInv, NEW c \in Client, Apply(c)
  PROVE  SimInv'
<1> DEFINE turn == log[applied[c] + 1]
<1>1. PICK past, Seen : SimPast(past, Seen)
  BY DEF SimInv
<1>2. /\ SimShapeOK /\ SimShapeOK'
      /\ Sim(c)' = SimAfter(Sim(c), View(c), turn)
      /\ views'[c] = ViewsAfter(views[c], View(c), turn)
      /\ \A d \in Client : d # c => Sim(d)' = Sim(d) /\ views'[d] = views[d]
  BY ApplySim DEF SimInv
<1>3. /\ log' = log /\ applied[c] < Len(log)
      /\ applied' = [applied EXCEPT ![c] = @ + 1]
  BY DEF Apply
<1>4. /\ applied[c] \in Nat /\ applied'[c] = applied[c] + 1 /\ Len(log) \in Nat
      /\ applied'[c] \in 1 .. Len(log)
      /\ \A d \in Client : d # c => applied'[d] = applied[d]
  BY <1>2, <1>3 DEF SimShapeOK
<1> HIDE DEF turn
<1>5. PICK step : step = <<applied'[c], views'[c], Sim(c)'>>
  OBVIOUS
<1>6. PICK more : more = past \cup {step}
  OBVIOUS
<1>7. PICK All : All = Seen \cup {View(c)}
  OBVIOUS
<1>8. /\ <<applied[c], views[c], Sim(c)>> \in past
      /\ views[c] \in Seq(Seen)
  BY <1>1 DEF SimPast
<1>9. Seq(Seen) \subseteq Seq(All) /\ View(c) \in All
  BY <1>7
<1>10. views'[c] \in Seq(All)
  <2>1. Append(views[c], View(c)) \in Seq(All) /\ views[c] \in Seq(All)
    BY <1>8, <1>9
  <2> QED
    BY <1>2, <2>1 DEF ViewsAfter
<1>11. \A x \in more : x[1] \in 0 .. Len(log) /\ x[2] \in Seq(All)
  BY <1>1, <1>4, <1>5, <1>6, <1>9, <1>10 DEF SimPast
<1>12. ASSUME NEW x \in past, x[1] = step[1], x[2] = step[2]
       PROVE  x[3] = step[3]
  <2>1. x[1] = applied[c] + 1 /\ x[2] = views'[c]
    BY <1>4, <1>5, <1>12
  <2>2. log[x[1]] = turn
    BY <2>1 DEF turn
  <2>3. PICK y \in past, view \in Seen :
               /\ x[1] = y[1] + 1 /\ y[1] \in 0 .. Len(log)
               /\ y[2] \in Seq(Seen)
               /\ x[2] = ViewsAfter(y[2], view, turn)
               /\ x[3] = SimAfter(y[3], view, turn)
    BY <1>1, <1>4, <2>1, <2>2 DEF SimPast
  <2>4. y[1] = applied[c]
    BY <1>4, <2>1, <2>3
  <2>5. ViewsAfter(y[2], view, turn) = ViewsAfter(views[c], View(c), turn)
    BY <1>2, <2>1, <2>3
  <2>6. CASE Clicks(turn) = <<>>
    <3>1. y[2] = views[c]
      BY <2>5, <2>6 DEF ViewsAfter
    <3>2. y[3] = Sim(c)
      BY <1>1, <1>8, <2>4, <3>1 DEF SimPast
    <3> QED
      BY <1>2, <1>5, <2>3, <2>6, <3>2, QuietTurn
  <2>7. CASE Clicks(turn) # <<>>
    <3>1. Append(y[2], view) = Append(views[c], View(c))
      BY <2>5, <2>7 DEF ViewsAfter
    <3>2. /\ y[2] \in Seq(All) /\ views[c] \in Seq(All)
          /\ view \in All /\ View(c) \in All
      BY <1>7, <1>8, <1>9, <2>3
    <3>3. y[2] = views[c] /\ view = View(c)
      BY <3>1, <3>2, AppendInjective
    <3>4. y[3] = Sim(c)
      BY <1>1, <1>8, <2>4, <3>3 DEF SimPast
    <3> QED
      BY <1>2, <1>5, <2>3, <3>3, <3>4
  <2> QED
    BY <2>6, <2>7
<1>13. \A x, y \in more : x[1] = y[1] /\ x[2] = y[2] => x[3] = y[3]
  BY <1>1, <1>6, <1>12 DEF SimPast
<1>14. ASSUME NEW x \in more, x[1] # 0
       PROVE  \E y \in more, view \in All :
                /\ x[1] = y[1] + 1
                /\ x[2] = ViewsAfter(y[2], view, log[x[1]])
                /\ x[3] = SimAfter(y[3], view, log[x[1]])
  <2>1. CASE x \in past
    BY <1>1, <1>6, <1>7, <1>14, <2>1 DEF SimPast
  <2>2. CASE x = step
    <3>1. /\ step[1] = applied[c] + 1 /\ log[step[1]] = turn
          /\ step[2] = ViewsAfter(views[c], View(c), turn)
          /\ step[3] = SimAfter(Sim(c), View(c), turn)
      BY <1>2, <1>4, <1>5 DEF turn
    <3>2. PICK y \in more : /\ y[1] = applied[c] /\ y[2] = views[c]
                            /\ y[3] = Sim(c)
      BY <1>6, <1>8
    <3> QED
      BY <1>9, <2>2, <3>1, <3>2
  <2> QED
    BY <1>6, <2>1, <2>2
<1>15. ASSUME NEW d \in Client
       PROVE  <<applied'[d], views'[d], Sim(d)'>> \in more
  <2>1. CASE d = c
    BY <1>5, <1>6, <2>1
  <2>2. CASE d # c
    BY <1>1, <1>2, <1>4, <1>6, <2>2 DEF SimPast
  <2> QED
    BY <2>1, <2>2
<1>16. SimPast(more, All)'
  BY <1>3, <1>11, <1>13, <1>14, <1>15 DEF SimPast
<1> QED
  BY <1>2, <1>16 DEF SimInv

LEMMA SimPlay ==
  ASSUME SimInv, Play
  PROVE  SimInv'
<1>1. PICK past, Seen : SimPast(past, Seen)
  BY DEF SimInv
<1>2. PICK turn \in [Player -> Input] : log' = Append(log, turn)
  BY DEF Play
<1>3. SimShapeOK
      /\ UNCHANGED <<applied, commands, unit, satisfied_flags, views>>
  BY DEF SimInv, Play, simulation
<1>4. /\ log' \in Seq([Player -> Input]) /\ Len(log') = Len(log) + 1
      /\ Len(log) \in Nat
      /\ \A n \in 1 .. Len(log) : log'[n] = log[n]
  BY <1>2, <1>3 DEF SimShapeOK
<1>5. SimShapeOK'
  BY <1>3, <1>4 DEF SimShapeOK
<1>6. \A x \in past : x[1] \in 0 .. Len(log') /\ x[2] \in Seq(Seen)
  BY <1>1, <1>4 DEF SimPast
<1>7. ASSUME NEW x \in past, x[1] # 0
      PROVE  log'[x[1]] = log[x[1]]
  BY <1>1, <1>4, <1>7 DEF SimPast
<1>8. \A d \in Client : Sim(d)' = Sim(d)
  BY <1>3 DEF Sim
<1>9. SimPast(past, Seen)'
  BY <1>1, <1>3, <1>6, <1>7, <1>8 DEF SimPast
<1> QED
  BY <1>5, <1>9 DEF SimInv

LEMMA SimInit == Init => SimInv
<1> SUFFICES ASSUME Init PROVE SimInv
  OBVIOUS
<1>1. SimShapeOK
  BY DEF Init, SimShapeOK
<1>2. \A c \in Client : Sim(c) = Start /\ applied[c] = 0 /\ views[c] = <<>>
  BY DEF Init, Sim, Start
<1>3. Len(log) = 0
  BY DEF Init
<1>4. SimPast({<<0, <<>>, Start>>}, {})
  BY <1>2, <1>3 DEF SimPast
<1> QED
  BY <1>1, <1>4 DEF SimInv

\* Clients that have applied the same turns, with their clicks under the same
\* views, have given the same commands to the same units (space.cc:237), at
\* whatever pace they go and however full the command queue was: the view is
\* all that can part them.
THEOREM CommandsAlwaysFollowViews == Spec => []CommandsFollowViews
<1>1. SimInv /\ [Next]_vars => SimInv'
  <2> SUFFICES ASSUME SimInv, [Next]_vars PROVE SimInv'
    OBVIOUS
  <2>1. CASE UNCHANGED <<log, applied, commands, unit, satisfied_flags, views>>
    <3>1. PICK past, Seen : SimPast(past, Seen)
      BY DEF SimInv
    <3>2. SimShapeOK' /\ \A c \in Client : Sim(c)' = Sim(c)
      BY <2>1 DEF SimInv, SimShapeOK, Sim
    <3>3. SimPast(past, Seen)'
      BY <2>1, <3>1, <3>2 DEF SimPast
    <3> QED
      BY <3>2, <3>3 DEF SimInv
  <2>2. \/ UNCHANGED <<log, applied, commands, unit, satisfied_flags, views>>
        \/ Play \/ \E c \in Client : Apply(c)
    BY DEF Next, Resize, vars, simulation
  <2> QED
    BY <2>1, <2>2, SimApply, SimPlay
<1>2. SimInv => CommandsFollowViews
  <2> SUFFICES ASSUME SimInv, NEW c \in Client, NEW d \in Client,
                      applied[c] = applied[d], views[c] = views[d]
               PROVE  SameSimulation(c, d)
    BY DEF CommandsFollowViews, Together
  <2>1. PICK past, Seen : SimPast(past, Seen)
    BY DEF SimInv
  <2>2. Sim(c) = Sim(d)
    BY <2>1 DEF SimPast
  <2> QED
    BY <2>2 DEF Sim, SameSimulation
<1> QED
  BY <1>1, <1>2, SimInit, PTL DEF Spec

-----------------------------------------------------------------------------
(* Keys and motion. *)

Steering == INSTANCE FoldProofs WITH op <- Steer
Holding == INSTANCE FoldProofs WITH op <- Hold

\* A camera moves along an axis only if a key of that axis is held.
Held(motion, held) ==
  /\ motion \in [1 .. 2 -> Int]
  /\ \A a \in 1 .. 2 : motion[a] # 0 => \E k \in held \cap DOMAIN Axis : Axis[k] = a

\* Every event keeps that: a key that goes up stops the motion along its axis,
\* even if the opposite key is still held.
LEMMA SteerHeld ==
  ASSUME NEW motion, NEW held, NEW e \in Event, Held(motion, held)
  PROVE  Held(Steer(motion, e), Hold(held, e))
<1>1. \A k \in DOMAIN Axis : Axis[k] \in 1 .. 2 /\ Direction[k] \in Int
  BY DEF Axis, Direction
<1>2. CASE IsKey(e) /\ e.type = "down"
  <2>1. Steer(motion, e) = [motion EXCEPT ![Axis[e.key]] = Direction[e.key]]
    BY <1>2 DEF Steer
  <2>2. Hold(held, e) = held \cup {e.key} /\ e.key \in DOMAIN Axis
    BY <1>2 DEF Hold, IsKey
  <2> QED
    BY <1>1, <2>1, <2>2 DEF Held
<1>3. CASE IsKey(e) /\ e.type = "up"
  <2>1. Steer(motion, e) = [motion EXCEPT ![Axis[e.key]] = 0]
    BY <1>3 DEF Steer
  <2>2. Hold(held, e) = held \ {e.key} /\ e.key \in DOMAIN Axis
    BY <1>3 DEF Hold, IsKey
  <2> QED
    BY <1>1, <2>1, <2>2 DEF Held
<1>4. CASE ~IsKey(e)
  <2>1. Steer(motion, e) = motion
    BY <1>4 DEF Steer
  <2>2. held \cap DOMAIN Axis \subseteq Hold(held, e) \cap DOMAIN Axis
    BY <1>4 DEF IsKey, Hold
  <2> QED
    BY <2>1, <2>2 DEF Held
<1> QED
  BY <1>2, <1>3, <1>4 DEF IsKey

\* The folds of the model, one event at a time.
LEMMA MotionStep ==
  ASSUME NEW motion, NEW s \in Seq(Event), NEW n \in Nat, n + 1 <= Len(s)
  PROVE  MotionAfter(motion, SubSeq(s, 1, n + 1))
           = Steer(MotionAfter(motion, SubSeq(s, 1, n)), s[n + 1])
<1>1. \A m, t : MotionAfter(m, t) = Steering!Fold(m, t)
  BY DEF MotionAfter, FoldLeft, MapThenFoldSet, Max, Steering!Fold,
         Steering!FoldLeft, Steering!MapThenFoldSet, Steering!Max
<1> QED
  BY <1>1, Steering!FoldPrefix

LEMMA MotionStart == \A motion : MotionAfter(motion, <<>>) = motion
  BY Steering!FoldEmpty
  DEF MotionAfter, FoldLeft, MapThenFoldSet, Max, Steering!Fold,
      Steering!FoldLeft, Steering!MapThenFoldSet, Steering!Max

LEMMA HoldingIsFold == \A t : KeysDown(t) = Holding!Fold({}, t)
  BY DEF KeysDown, FoldLeft, MapThenFoldSet, Max, Holding!Fold,
         Holding!FoldLeft, Holding!MapThenFoldSet, Holding!Max

\* What is true after some events is true after some more.
LEMMA EventsHeld ==
  ASSUME NEW before \in Seq(Event), NEW s \in Seq(Event), NEW motion,
         Held(motion, KeysDown(before))
  PROVE  Held(MotionAfter(motion, s), KeysDown(before \o s))
<1> DEFINE part(n) == SubSeq(s, 1, n)
           N == {n \in Nat : n <= Len(s) =>
                   Held(MotionAfter(motion, part(n)), KeysDown(before \o part(n)))}
<1>1. 0 \in N
  <2>1. part(0) = <<>> /\ before \o part(0) = before
    OBVIOUS
  <2> QED
    BY <2>1, MotionStart
<1>2. ASSUME NEW n \in Nat, n \in N, n + 1 <= Len(s)
      PROVE  Held(MotionAfter(motion, part(n + 1)), KeysDown(before \o part(n + 1)))
  <2>1. /\ part(n) \in Seq(Event)
        /\ s[n + 1] \in Event
        /\ before \o part(n) \in Seq(Event)
        /\ before \o part(n + 1) = Append(before \o part(n), s[n + 1])
    BY <1>2
  <2>2. MotionAfter(motion, part(n + 1)) = Steer(MotionAfter(motion, part(n)), s[n + 1])
    BY <1>2, MotionStep
  <2> HIDE DEF part
  <2>3. KeysDown(before \o part(n + 1)) = Hold(KeysDown(before \o part(n)), s[n + 1])
    <3> DEFINE b == before \o part(n)
               e == s[n + 1]
    <3>1. b \in Seq(Event) /\ e \in Event /\ before \o part(n + 1) = Append(b, e)
      BY <2>1
    <3> HIDE DEF b, e
    <3>2. Holding!Fold({}, Append(b, e)) = Hold(Holding!Fold({}, b), e)
      BY <3>1, Holding!FoldAppend
    <3>3. KeysDown(Append(b, e)) = Hold(KeysDown(b), e)
      BY <3>2, HoldingIsFold
    <3> QED
      BY <3>1, <3>3 DEF b, e
  <2>4. Held(MotionAfter(motion, part(n)), KeysDown(before \o part(n)))
    BY <1>2
  <2> QED
    BY <2>1, <2>2, <2>3, <2>4, SteerHeld
<1>3. Nat \subseteq N
  <2>1. \A n \in Nat : n \in N => n + 1 \in N
    BY <1>2
  <2> HIDE DEF N
  <2> QED
    BY <1>1, <2>1, Holding!NatSetInduction
<1>4. part(Len(s)) = s /\ Len(s) \in Nat
  OBVIOUS
<1>5. Held(MotionAfter(motion, part(Len(s))), KeysDown(before \o part(Len(s))))
  BY <1>3, <1>4
<1> HIDE DEF part
<1> QED
  BY <1>4, <1>5

\* The events of a player in one more turn.
LEMMA PlayedStep ==
  ASSUME NEW p \in Player, NEW n \in Nat, n + 1 <= Len(log),
         log \in Seq([Player -> Input])
  PROVE  /\ Played(p, n) \in Seq(Event)
         /\ Played(p, n + 1) = Played(p, n) \o log[n + 1][p]
         /\ log[n + 1][p] \in Seq(Event)
<1> DEFINE turns(m) == [k \in 1 .. m |-> log[k][p]]
<1>1. \A k \in 1 .. n + 1 : log[k][p] \in Seq(Event)
  <2>1. \A k \in 1 .. n + 1 : log[k] \in [Player -> Input]
    OBVIOUS
  <2> QED
    BY <2>1, InputAssumption
<1>2. /\ turns(n) \in Seq(Seq(Event))
      /\ turns(n + 1) = Append(turns(n), log[n + 1][p])
  BY <1>1
<1>3. \A t : FlattenSeq(t) = Holding!FlattenSeq(t)
  BY DEF FlattenSeq, Holding!FlattenSeq
<1>4. Played(p, n) = FlattenSeq(turns(n)) /\ Played(p, n + 1) = FlattenSeq(turns(n + 1))
  BY DEF Played
<1> HIDE DEF turns
<1>5. n + 1 \in 1 .. n + 1
  OBVIOUS
<1> QED
  BY <1>1, <1>2, <1>3, <1>4, <1>5, Holding!FlattenAppend, Holding!FlattenType

HeldInv ==
  /\ ShapeOK
  /\ \A c \in Client, p \in Player :
       Held(camera[c][p].motion, KeysDown(Played(p, applied[c])))

LEMMA HeldInit == Init => HeldInv
<1> SUFFICES ASSUME Init PROVE HeldInv
  OBVIOUS
<1>1. ShapeOK
  BY DEF Init, ShapeOK
<1>2. \A p \in Player : Played(p, 0) = <<>>
  <2>1. \A p : [k \in 1 .. 0 |-> log[k][p]] = <<>>
    OBVIOUS
  <2> QED
    BY <2>1 DEF Played, FlattenSeq
<1>3. KeysDown(<<>>) = {}
  BY HoldingIsFold, Holding!FoldEmpty
<1>4. \A c \in Client, p \in Player :
        camera[c][p].motion = <<0, 0>> /\ applied[c] = 0
  BY DEF Init, InitialCamera
<1>5. Held(<<0, 0>>, {})
  BY DEF Held
<1> QED
  BY <1>1, <1>2, <1>3, <1>4, <1>5 DEF HeldInv

LEMMA HeldApply ==
  ASSUME HeldInv, NEW c \in Client, Apply(c)
  PROVE  HeldInv'
<1>1. /\ log \in Seq([Player -> Input])
      /\ applied[c] \in Nat
      /\ applied[c] + 1 <= Len(log)
      /\ Len(log) \in Nat
  BY DEF HeldInv, ShapeOK, Apply
<1>2. /\ log' = log
      /\ applied' = [applied EXCEPT ![c] = @ + 1]
      /\ camera' = [camera EXCEPT ![c] = CamerasAfter(@, log[applied[c] + 1])]
  BY DEF Apply, CamerasAfter, CameraEvents
<1>3. ShapeOK'
  BY <1>1, <1>2 DEF HeldInv, ShapeOK
<1>4. ASSUME NEW d \in Client, NEW p \in Player
      PROVE  Played(p, applied[d])' = Played(p, applied'[d])
  BY <1>2 DEF Played
<1>5. ASSUME NEW p \in Player
      PROVE  Held(camera'[c][p].motion, KeysDown(Played(p, applied[c])'))
  <2> DEFINE n == applied[c]
             motion == camera[c][p].motion
             turn == log[n + 1][p]
  <2>1. camera'[c][p].motion = MotionAfter(motion, turn) /\ applied'[c] = n + 1
    BY <1>1, <1>2 DEF HeldInv, ShapeOK, CamerasAfter
  <2>2. /\ Played(p, n) \in Seq(Event)
        /\ Played(p, n + 1) = Played(p, n) \o turn
        /\ turn \in Seq(Event)
    BY <1>1, PlayedStep
  <2>3. Held(motion, KeysDown(Played(p, n)))
    BY DEF HeldInv
  <2> HIDE DEF n, motion, turn
  <2>4. Held(MotionAfter(motion, turn), KeysDown(Played(p, n) \o turn))
    BY <2>2, <2>3, EventsHeld
  <2> QED
    BY <1>4, <2>1, <2>2, <2>4
<1>6. ASSUME NEW d \in Client, d # c
      PROVE  camera'[d] = camera[d] /\ applied'[d] = applied[d]
  BY <1>2, <1>6 DEF HeldInv, ShapeOK
<1>7. ASSUME NEW d \in Client, NEW p \in Player
      PROVE  Held(camera'[d][p].motion, KeysDown(Played(p, applied[d])'))
  <2>1. CASE d = c
    BY <1>5, <2>1
  <2>2. CASE d # c
    <3>1. Held(camera[d][p].motion, KeysDown(Played(p, applied[d])))
      BY DEF HeldInv
    <3> QED
      BY <1>4, <1>6, <2>2, <3>1
  <2> QED
    BY <2>1, <2>2
<1> QED
  BY <1>3, <1>7 DEF HeldInv, KeysDown, Held

LEMMA HeldPlay ==
  ASSUME HeldInv, Play
  PROVE  HeldInv'
<1>1. PICK turn \in [Player -> Input] : log' = Append(log, turn)
  BY DEF Play
<1>2. ShapeOK /\ UNCHANGED <<applied, camera>>
  BY DEF HeldInv, Play, simulation
<1>3. ShapeOK'
  BY <1>1, <1>2 DEF ShapeOK
<1>4. ASSUME NEW c \in Client, NEW p \in Player
      PROVE  Played(p, applied[c])' = Played(p, applied[c])
  <2>1. \A k \in 1 .. applied[c] : log'[k] = log[k]
    BY <1>1, <1>2 DEF ShapeOK
  <2> QED
    BY <1>2, <2>1 DEF Played
<1> QED
  BY <1>2, <1>3, <1>4 DEF HeldInv

\* A player who holds no key has a camera at rest, on every client, after every
\* turn: SimulationEvent of space.cc resets what it has set, whatever the order
\* of presses and releases.
THEOREM CamerasRest == Spec => []RestsWhenReleased
<1>1. HeldInv /\ [Next]_vars => HeldInv'
  <2> SUFFICES ASSUME HeldInv, [Next]_vars PROVE HeldInv'
    OBVIOUS
  <2>1. CASE UNCHANGED <<log, applied, camera>>
    BY <2>1 DEF HeldInv, ShapeOK, Played
  <2>2. UNCHANGED <<log, applied, camera>> \/ Play \/ \E c \in Client : Apply(c)
    BY DEF Next, Resize, vars, simulation
  <2> QED
    BY <2>1, <2>2, HeldApply, HeldPlay
<1>2. HeldInv => RestsWhenReleased
  <2> SUFFICES ASSUME HeldInv, NEW c \in Client, NEW p \in Player,
                      KeysDown(Played(p, applied[c])) = {}
               PROVE  camera[c][p].motion = <<0, 0>>
    BY DEF RestsWhenReleased
  <2>1. Held(camera[c][p].motion, {})
    BY DEF HeldInv
  <2> QED
    BY <2>1 DEF Held
<1> QED
  BY <1>1, <1>2, HeldInit, PTL DEF Spec
=============================================================================
