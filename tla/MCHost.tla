-------------------------------- MODULE MCHost --------------------------------
(***************************************************************************)
(* Small instances for TLC of the parts of a process that surround the     *)
(* game: its threads and sockets, its window, its clock and its renderer.  *)
(* Each behaviour is one of a single part; the others rest in one of their *)
(* initial states.                                                         *)
(***************************************************************************)
EXTENDS LocalServer, Window, GameClock, Renderer

VARIABLE part

Part == {"threads", "window", "clock", "renderer"}

\* Samples of clock_init: one that began within a tick of clock(), one of a
\* millisecond that counts some cycles more, and one that took two.
Sample(cycles, usec) == [cycles |-> cycles, usec |-> usec]

Fair == Sample(12, 4)

SomeSamples == {Sample(8, 4), Fair, Sample(24, 8)}

Init ==
  /\ part \in Part
  /\ LocalInit /\ WindowInit /\ ClockInit /\ RendererInit
  /\ part = "threads" \/ build = [system |-> "unix", program |-> "client"]
  /\ part = "window" \/ platform = "x11"
  /\ part = "clock" \/ (Range(samples) = {Fair} /\ median_tsc_per_usec = 3 /\ tsc = 0)
  /\ part = "renderer" \/ view = CHOOSE v \in Views : TRUE

Next ==
  /\ UNCHANGED part
  /\ \/ /\ part = "threads" /\ LocalNext
        /\ UNCHANGED <<window, clockvars, renderer>>
     \/ /\ part = "window" /\ WindowNext
        /\ UNCHANGED <<process, clockvars, renderer>>
     \/ /\ part = "clock" /\ ClockNext
        /\ UNCHANGED <<process, window, renderer>>
     \/ /\ part = "renderer" /\ RendererNext
        /\ UNCHANGED <<process, window, clockvars>>

\* Both threads run: neither waits but in WaitForNetworkServer.  So does the
\* program with its window, which nobody has to use.
Spec ==
  /\ Init
  /\ [][Next]_<<part, process, window, clockvars, renderer>>
  /\ WF_process(part = "threads" /\ MainNext)
  /\ WF_process(part = "threads" /\ ServerThreadNext)
  /\ WF_window(part = "window" /\ GameLoop)

-----------------------------------------------------------------------------
(* What the window system may tell: keys the game knows and one it does not, *)
(* clicks near both edges, and what has no meaning to it.                    *)

SystemEvent(kind, key, top) == [kind |-> kind, key |-> key, top |-> top]

AllEvents ==
  {SystemEvent("key_down", "w", 0), SystemEvent("key_up", "q", 0),
   SystemEvent("mouse_down", "left", 1), SystemEvent("mouse_down", "right", 3),
   SystemEvent("motion", "none", 0), SystemEvent("close", "none", 0),
   SystemEvent("drag", "none", 0)}

-----------------------------------------------------------------------------
(* What there is to draw. *)

ShapeItem(shape, matrix) ==
  [kind |-> "shape", shape |-> shape, matrix |-> <<matrix>>]

SomeMatrices ==
  {<<m>> : m \in {"unit", "asteroid", "pod", "circle", "triangle", "line", "tile"}}

\* Nothing; units, an asteroid and a pod; and shapes of every program.
SomeScenes ==
  {<<>>,
   <<ShapeItem("rectangle", "unit"), ShapeItem("asteroid", "asteroid"),
     ShapeItem("pod", "pod")>>,
   <<[kind |-> "circle", matrix |-> <<"circle">>], ShapeItem("triangle", "triangle"),
     ShapeItem("line", "line"), ShapeItem("rectangle", "tile")>>}

\* Views across the origin, on it, and beside it.
SomeViews == {[min |-> <<x, y>>, max |-> <<x + 5, y + 4>>] : x, y \in {-3, 0, 2}}

TwoGrids == <<4, 2>>
==============================================================================
