-------------------------------- MODULE Window --------------------------------
(***************************************************************************)
(* The window and its events: Create, PollEvent, ShouldClose and           *)
(* GetWindowSize of x11_window.cc, win32_window.cc and macosx_window.mm,   *)
(* and what space.cc makes of them: the main loop's test of ShouldClose,   *)
(* ProcessWindowInput, the projection and the place of a click.  Of a      *)
(* place on the window only its distance from the upper edge is modelled.  *)
(***************************************************************************)
EXTENDS Integers, Sequences, SequencesExt

CONSTANTS
  MaxTickEvents,  \* MAX_TICK_EVENTS: input events of one turn (32)
  Buffers,        \* MAX_NETQUEUE: buffers, used again in turn
  Sizes,          \* the heights the window may have; the first is StartSize
  StartSize,
  ViewportInset,  \* of glViewport on x11 (15)
  SystemEvents,   \* what the window system may have to tell
  MaxArrivals     \* bound of the model: how often it has something to tell

ASSUME WindowAssumption ==
  /\ MaxTickEvents \in Nat \ {0}
  /\ Buffers \in Nat \ {0}
  /\ StartSize \in Sizes
  /\ Sizes \subseteq Nat
  /\ ViewportInset \in Nat
  /\ \A e \in SystemEvents : e.top \in Int

VARIABLES
  platform,     \* "x11", "win32" or "macosx"
  at,           \* where the program is
  made,         \* steps of Create that are done
  resources,    \* what they have produced
  size,         \* the window's height
  pixels,       \* height_pixels of x11_window.cc
  projection,   \* the height kObserver.projection was made for
  pending,      \* events of the window system that were not polled
  arrivals,     \* how many there have been
  should_close,
  slot,         \* the buffer of this turn
  input_event,  \* per buffer, with what earlier turns left in it
  used,         \* event_count, and used_input_event after it
  polled,       \* history: the input events that were polled
  frames,       \* history: the input events of every turn that has any
  disturbed     \* history: the window was resized, or moved with the mouse

window == <<platform, at, made, resources, size, pixels, projection, pending,
            arrivals, should_close, slot, input_event, used, polled, frames,
            disturbed>>

looking == <<platform, made, resources, size, pixels, projection, arrivals>>

WindowEnded == {"abort", "exit1", "exit2", "closed"}

NoEvent == [type |-> "not_implemented", key |-> "0", y |-> 0, from |-> "none"]

WindowInit ==
  /\ platform \in {"x11", "win32", "macosx"}
  /\ at = "create"
  /\ made = 0
  /\ resources = {}
  /\ size = StartSize
  /\ pixels = 0
  /\ projection = 0
  /\ pending = <<>>
  /\ arrivals = 0
  /\ should_close = FALSE
  /\ slot = 0
  /\ input_event = [b \in 0 .. Buffers - 1 |->
                      [i \in 1 .. MaxTickEvents |-> NoEvent]]
  /\ used = 0
  /\ polled = <<>>
  /\ frames = <<>>
  /\ disturbed = FALSE

-----------------------------------------------------------------------------
(* Create: the steps, what each needs of the earlier ones, and what becomes of *)
(* its failure.  assert("...") on win32 never fires: the failure is ignored.   *)
(* eglMakeCurrent is not checked, but eglSwapInterval fails after it did.      *)

Gives(resource, needs, otherwise) ==
  [resource |-> resource, needs |-> needs, otherwise |-> otherwise]

X11Create ==
  <<Gives("display", {}, "abort"),
    Gives("egl", {"display"}, "return"),
    Gives("configs", {"egl"}, "return"),
    Gives("api", {"egl"}, "return"),
    Gives("context", {"api", "configs"}, "return"),
    Gives("window", {"display"}, "return"),
    Gives("surface", {"window", "configs"}, "return"),
    Gives("current", {"surface", "context"}, "ignore"),
    Gives("interval", {"current"}, "return")>>

Win32Create ==
  <<Gives("class", {}, "ignore"),
    Gives("window", {"class"}, "ignore"),
    Gives("dummy_window", {}, "ignore"),
    Gives("dummy_context", {"dummy_window"}, "ignore"),
    Gives("extensions", {"dummy_context"}, "abort"),
    Gives("format", {"window", "extensions"}, "ignore"),
    Gives("context", {"format"}, "ignore"),
    Gives("current", {"context"}, "ignore"),
    Gives("functions", {"current"}, "abort")>>

MacosxCreate ==
  <<Gives("format", {}, "abort"),
    Gives("context", {"format"}, "abort"),
    Gives("window", {}, "ignore"),
    Gives("current", {"context"}, "ignore")>>

CreateSteps == [x11 |-> X11Create, win32 |-> Win32Create,
                macosx |-> MacosxCreate][platform]

CreateGoesOn ==
  /\ made' = made + 1
  /\ at' = IF made' = Len(CreateSteps) THEN "initialize" ELSE "create"

CreateSucceeds(step) ==
  /\ step.needs \subseteq resources
  /\ resources' = resources \cup {step.resource}
  /\ pixels' = IF step.resource = "surface" THEN size ELSE pixels
  /\ CreateGoesOn

\* gfx::Initialize does not look at what Create returns.
CreateFails(step) ==
  /\ UNCHANGED <<resources, pixels>>
  /\ \/ step.otherwise = "abort" /\ at' = "abort" /\ UNCHANGED made
     \/ step.otherwise = "return" /\ at' = "initialize" /\ UNCHANGED made
     \/ step.otherwise = "ignore" /\ CreateGoesOn

Create ==
  /\ at = "create"
  /\ LET step == CreateSteps[made + 1]
     IN  CreateSucceeds(step) \/ CreateFails(step)
  /\ UNCHANGED <<platform, size, projection, pending, arrivals, should_close,
                 slot, input_event, used, polled, frames, disturbed>>

GetWindowSize == IF platform = "x11" THEN pixels ELSE size

\* rgg::Initialize compiles shaders, which fails without a current context;
\* then the rest of main before the loop.
InitializeDisplay ==
  /\ at = "initialize"
  /\ \/ "current" \in resources /\ at' = "top" /\ projection' = GetWindowSize
     \/ at' = "exit1" /\ UNCHANGED projection
  /\ UNCHANGED <<platform, made, resources, size, pixels, pending, arrivals,
                 should_close, slot, input_event, used, polled, frames,
                 disturbed>>

-----------------------------------------------------------------------------
(* The window system. *)

Arrive(e) ==
  /\ "window" \in resources
  /\ at \in {"top", "poll"}
  /\ arrivals < MaxArrivals
  /\ e.kind = "close" => platform # "x11"
  /\ e.kind = "drag" => platform = "win32"
  /\ arrivals' = arrivals + 1
  /\ pending' = Append(pending, e)
  /\ UNCHANGED <<platform, at, made, resources, size, pixels, projection,
                 should_close, slot, input_event, used, polled, frames,
                 disturbed>>

Resize(s) ==
  /\ at \in {"top", "poll"}
  /\ arrivals < MaxArrivals
  /\ s # size
  /\ size' = s
  /\ disturbed' = TRUE
  /\ arrivals' = arrivals + 1
  /\ UNCHANGED <<platform, at, made, resources, pixels, projection, pending,
                 should_close, slot, input_event, used, polled, frames>>

-----------------------------------------------------------------------------
(* PollEvent: what becomes of an event, given what the caller's PlatformEvent *)
(* holds already.                                                             *)

\* HandleKeyEvent knows four keys; of another one only that it is a key.
HandleKeyEvent(event, e) ==
  [event EXCEPT !.type = e.kind,
                !.key = IF e.key \in {"w", "a", "s", "d"} THEN e.key ELSE @,
                !.from = e]

\* (Bug: places are measured from the upper edge.)
HandleMouseFromTop(event, e) ==
  [event EXCEPT !.type = e.kind, !.key = e.key, !.y = e.top, !.from = e]

HandleMouseEvent(event, e) ==
  [event EXCEPT !.type = e.kind, !.key = e.key, !.y = size - e.top,
                !.from = e]

IsKey(e) == e.kind \in {"key_down", "key_up"}

IsMouse(e) == e.kind \in {"mouse_down", "mouse_up"}

\* Win32 reports the left button only.
WindowProc(event, e) ==
  CASE IsKey(e) -> HandleKeyEvent(event, e)
    [] IsMouse(e) /\ e.key = "left" -> HandleMouseEvent(event, e)
    [] OTHER -> event

\* X11 reports every button, and the place of everything from the lower edge
\* the window had when it was made.
X11Event(e) ==
  IF IsKey(e) \/ IsMouse(e)
    THEN [type |-> e.kind, key |-> e.key, y |-> pixels - e.top, from |-> e]
    ELSE [NoEvent EXCEPT !.y = pixels]

TranslateEvent(e) ==
  IF IsKey(e) THEN [NoEvent EXCEPT !.type = e.kind, !.key = e.key, !.from = e]
  ELSE IF IsMouse(e) /\ e.key = "left" THEN HandleMouseEvent(NoEvent, e)
  ELSE NoEvent

\* The events that one call of PollEvent takes: one, but while the user drags a
\* window of win32 DefWindowProc dispatches more itself.
Taken == IF Head(pending).kind = "drag" THEN 1 .. Len(pending) ELSE {1}

Translate(events) ==
  [x11 |-> X11Event(Head(events)),
   win32 |-> FoldLeft(WindowProc, NoEvent, events),
   macosx |-> TranslateEvent(Head(events))][platform]

\* The four types that ProcessWindowInput keeps.
IsInput(event) == event.type # "not_implemented"

\* (Bug: every event takes a place, the ones without a meaning as well.)
CountAll(event) == used + 1

CountInput(event) == IF IsInput(event) THEN used + 1 ELSE used

Keep(event) ==
  /\ input_event' = IF IsInput(event)
                    THEN [input_event EXCEPT ![slot][used + 1] = event]
                    ELSE input_event
  /\ used' = CountInput(event)
  /\ polled' = IF IsInput(event) THEN Append(polled, event) ELSE polled

\* A closed window of macosx takes the application with it.
PollEvent ==
  /\ at = "poll"
  /\ used < MaxTickEvents
  /\ pending # <<>>
  /\ \E n \in Taken :
       LET events == SubSeq(pending, 1, n)
           closes == \E i \in 1 .. n : events[i].kind = "close"
       IN  /\ Keep(Translate(events))
           /\ pending' = SubSeq(pending, n + 1, Len(pending))
           /\ should_close' = (should_close \/ (platform = "win32" /\ closes))
           /\ at' = IF platform = "macosx" /\ closes THEN "closed" ELSE "poll"
           /\ disturbed' = (disturbed \/ events[1].kind = "drag")
  /\ UNCHANGED <<looking, slot, frames>>

-----------------------------------------------------------------------------
(* The main loop. *)

\* (Bug: the loop does not ask.)
NeverClose == FALSE

ShouldClose == platform = "win32" /\ should_close

LeaveLoop ==
  /\ at = "top"
  /\ ShouldClose
  /\ at' = "closed"
  /\ UNCHANGED <<looking, pending, should_close, slot, input_event, used,
                 polled, frames, disturbed>>

\* GetNextInputBuffer gives the next buffer, or ends the program; event_count
\* starts at 0, what the buffer holds stays.
ProcessInput ==
  /\ at = "top"
  /\ ~ShouldClose
  /\ \/ at' = "poll" /\ slot' = (slot + 1) % Buffers /\ used' = 0
     \/ at' = "exit2" /\ UNCHANGED <<slot, used>>
  /\ UNCHANGED <<looking, pending, should_close, input_event, polled, frames,
                 disturbed>>

\* The loop of ProcessWindowInput ends; the rest of the frame sends and, some
\* time, simulates what the buffer holds.
Frame ==
  /\ at = "poll"
  /\ used = MaxTickEvents \/ pending = <<>>
  /\ at' = "top"
  /\ frames' = IF used = 0 THEN frames
               ELSE Append(frames, SubSeq(input_event[slot], 1, used))
  /\ UNCHANGED <<looking, pending, should_close, slot, input_event, used,
                 polled, disturbed>>

WindowSystem == (\E e \in SystemEvents : Arrive(e)) \/ \E s \in Sizes : Resize(s)

GameLoop ==
  \/ Create \/ InitializeDisplay \/ LeaveLoop \/ ProcessInput \/ PollEvent
  \/ Frame

WindowNext == GameLoop \/ WindowSystem

WindowSpec == WindowInit /\ [][WindowNext]_window

-----------------------------------------------------------------------------
(* Where a click on the place of `from' lies in the world, and what is drawn  *)
(* there, both doubled and relative to the camera: CoordToScreen, and the     *)
(* inverse of CreateOrthographicMatrix over the viewport, which is the first  *)
(* window (x11: without its upper ViewportInset pixels) and is never resized. *)
CoordToScreen(event) == 2 * event.y - GetWindowSize

Viewport == IF platform = "x11" THEN pixels - ViewportInset ELSE StartSize

\* Times the height of the viewport.
DrawnAt(event) == projection * (2 * (size - event.from.top) - Viewport)

-----------------------------------------------------------------------------
(* Properties. *)

\* The turns hold every input event that was polled, once and in its order: the
\* limit of a turn loses none, events without a meaning leave no hole, and what
\* earlier turns left in a buffer does not come back.
TurnsHoldInput ==
  polled = FlattenSeq(frames) \o
             (IF at = "poll" \/ (at = "closed" /\ platform = "macosx")
                THEN SubSeq(input_event[slot], 1, used) ELSE <<>>)

\* On win32 and macosx a click means the place in the world that is drawn where
\* the user clicked, until the window is resized, or moved with the mouse.
ClickMeansWhatIsDrawn ==
  ~disturbed /\ platform # "x11" =>
    \A i \in DOMAIN polled :
      IsMouse(polled[i].from) =>
        Viewport * CoordToScreen(polled[i]) = DrawnAt(polled[i])

\* A request to close the window ends the program, however many events wait
\* before it and whatever turns it needs to take them.
CloseEndsProgram ==
  (\E i \in DOMAIN pending : pending[i].kind = "close") ~> at \in WindowEnded
==============================================================================
