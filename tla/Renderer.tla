------------------------------- MODULE Renderer -------------------------------
(***************************************************************************)
(* What is drawn: rgg::Initialize and the Render functions of renderer.cc, *)
(* the text of ui.cc, the helpers of gl/, and gfx.cc, which asks for them  *)
(* in every frame.  GL is a state machine that every call works on: what a *)
(* draw call shows depends on all the calls before it.                     *)
(***************************************************************************)
EXTENDS Integers, Sequences, SequencesExt

CONSTANTS
  kMaxTextCount,  \* 32
  kMaxAsteroid,   \* 8
  Matrix,         \* the matrices of units, asteroids, pods and tiles
  Scenes,         \* what there may be to draw but the text and the grid
  Views,          \* where the local camera may look: rectangles of the world
  Spacing,        \* the grids, <<50, 25>>
  MaxRendered     \* bound of the model: the frames of a behaviour

Program == {"geometry", "circle", "font"}

Shape == {"triangle", "rectangle", "line", "asteroid", "pod"}

\* What the scene is made of.
SceneItem == [kind : {"shape"}, shape : Shape, matrix : Matrix]
               \cup [kind : {"circle"}, matrix : Matrix]

\* There is room for three messages and one for every asteroid.
ASSUME RendererAssumption ==
  /\ kMaxTextCount \in Nat
  /\ kMaxAsteroid \in Nat
  /\ kMaxAsteroid + 3 < kMaxTextCount
  /\ Scenes \subseteq Seq(SceneItem)
  /\ Views \subseteq [min : Int \X Int, max : Int \X Int]
  /\ Spacing \in Seq(Nat \ {0})

VARIABLES
  setup,     \* the next step of gfx::Initialize
  status,    \* what rgg::Initialize returned
  phase,     \* "setup", "frame", "render", "exit1" or "abort"
  gl,        \* the state of GL
  text,      \* kGfx.text up to text_count
  view,      \* visible_world of this frame
  todo,      \* what Render has still to draw
  screen,    \* history: what GL has drawn in this frame
  asked,     \* history: what Render was asked to draw in this frame
  messages,  \* history: how many messages were pushed in this frame
  rendered   \* history: the frames that are finished

renderer == <<setup, status, phase, gl, text, view, todo, screen, asked,
              messages, rendered>>

\* The steps of gfx::Initialize: those of rgg::Initialize, then two renderables.
Setup == <<"geometry", "circle", "triangle", "rectangle", "line", "font",
           "asteroid", "pod">>

FirstRenderable == 7

RendererInit ==
  /\ setup = 1
  /\ status = TRUE
  /\ phase = "setup"
  /\ gl = [program |-> "none", vao |-> "none", array_buffer |-> "none",
           source |-> [v \in Shape \cup {"font"} |-> "none"],
           data |-> [b \in Shape \cup {"font"} |-> "nothing"],
           matrix |-> [p \in Program |-> <<>>],
           linked |-> {}]
  /\ text = <<>>
  /\ view \in Views
  /\ todo = <<>>
  /\ screen = <<>>
  /\ asked = <<>>
  /\ messages = 0
  /\ rendered = 0

-----------------------------------------------------------------------------
(* GL. *)

UseProgram(g, p) == [g EXCEPT !.program = p]

BindVertexArray(g, v) == [g EXCEPT !.vao = v]

BindBuffer(g, b) == [g EXCEPT !.array_buffer = b]

\* Into the buffer that is bound.
BufferData(g, d) == [g EXCEPT !.data[g.array_buffer] = d]

\* The vertex array that is bound takes its vertices from the buffer that is
\* bound now.
VertexAttribPointer(g) == [g EXCEPT !.source[g.vao] = g.array_buffer]

\* Of the program in use.
Uniform(g, m) == [g EXCEPT !.matrix[g.program] = m]

DrawArrays(g) ==
  [program |-> g.program, shape |-> g.data[g.source[g.vao]],
   matrix |-> g.matrix[g.program]]

-----------------------------------------------------------------------------
(* gfx::Initialize. *)

CreateGeometryVAO(g, name) ==
  LET filled == BufferData(BindBuffer(g, name), name)
      bound  == BindVertexArray(filled, name)
  IN  VertexAttribPointer(BindBuffer(bound, name))

\* SetupUI also makes a buffer for the text, empty as yet.
CreateFontVAO(g) ==
  VertexAttribPointer(BindBuffer(BindVertexArray(g, "font"), "font"))

NextStep(s) ==
  /\ setup' = s
  /\ phase' = IF s <= Len(Setup) THEN "setup"
              ELSE IF status' THEN "frame" ELSE "exit1"

\* CompileShader, twice, and LinkShaders.  If one fails rgg::Initialize returns
\* false, which its caller heeds only after it has created its renderables.  A
\* uniform that is not there fails an assertion, a font that cannot be read ends
\* the program.
SetupProgram ==
  /\ phase = "setup"
  /\ Setup[setup] \in Program
  /\ \/ /\ gl' = LET linked == [gl EXCEPT !.linked = @ \cup {Setup[setup]}]
                 IN  IF Setup[setup] = "font" THEN CreateFontVAO(linked)
                                              ELSE linked
        /\ NextStep(setup + 1)
        /\ UNCHANGED status
     \/ status' = FALSE /\ NextStep(FirstRenderable) /\ UNCHANGED gl
     \/ phase' = "abort" /\ UNCHANGED <<setup, status, gl>>
  /\ UNCHANGED <<text, view, todo, screen, asked, messages, rendered>>

\* The basic shapes, and CreateRenderable.
SetupShape ==
  /\ phase = "setup"
  /\ Setup[setup] \in Shape
  /\ gl' = CreateGeometryVAO(gl, Setup[setup])
  /\ UNCHANGED status
  /\ NextStep(setup + 1)
  /\ UNCHANGED <<text, view, todo, screen, asked, messages, rendered>>

-----------------------------------------------------------------------------
(* The text of a frame. *)

\* (Bug: the messages of the last frame stay.)
KeepText == text

Reset == <<>>

\* Three messages, and one for every asteroid under the mouse; PushText asserts
\* that there is room, and without assertions drops what has none.  One place of
\* kGfx.text is never used.
PushText(hovered) ==
  LET free == kMaxTextCount - 1 - Len(Reset)
      pushed == Reset \o [k \in 1 .. 3 + hovered |-> <<"a", "b">>]
  IN  /\ messages' = 3 + hovered
      /\ text' = SubSeq(pushed, 1, Len(Reset) + (IF messages' <= free
                                                 THEN messages' ELSE free))
      /\ phase' = IF messages' <= free THEN "render" ELSE "abort"

-----------------------------------------------------------------------------
(* The grid: lines at <<"x", n>> and <<"y", n>>, from one edge to the other. *)

\* The remainder has the sign of the dividend.
Fmod(a, b) == IF a >= 0 THEN a % b ELSE -((-a) % b)

\* (Bug: the grid begins where the view does.)
NoAlignment(min, grid) == min

AlignToGrid(min, grid) == min - (Fmod(min, grid) + grid)

LinesFrom(min, max, grid) ==
  [k \in 1 .. (IF max > min THEN (max - min + grid - 1) \div grid ELSE 0) |->
     min + (k - 1) * grid]

\* The matrix of a line tells where it starts and ends.
LineFromTo(start, end) == <<view, start, end>>

\* Horizontal lines first.
GridLines(grid) ==
  LET left   == AlignToGrid(view.min[1], grid)
      bottom == AlignToGrid(view.min[2], grid)
      ys == LinesFrom(bottom, view.max[2], grid)
      xs == LinesFrom(left, view.max[1], grid)
  IN  [k \in DOMAIN ys |-> LineFromTo(<<left, ys[k]>>, <<view.max[1], ys[k]>>)]
      \o
      [k \in DOMAIN xs |-> LineFromTo(<<xs[k], bottom>>, <<xs[k], view.max[2]>>)]

-----------------------------------------------------------------------------
(* The Render functions: what each does to GL, and what it draws. *)

\* (Bug: the characters go to whatever buffer is bound.)
DrawAnywhere(g, c) == BufferData(g, c)

DrawCharacter(g, c) == BufferData(BindBuffer(g, "font"), c)

\* For all characters alike: where they are is in their vertices.
PrepareText(g) ==
  Uniform(BindVertexArray(UseProgram(g, "font"), "font"), <<"window">>)

NextCharacter(r, c) ==
  LET drawn == DrawCharacter(r.gl, c)
  IN  [gl |-> drawn, screen |-> Append(r.screen, DrawArrays(drawn))]

RenderText(g, msg) ==
  FoldLeft(NextCharacter, [gl |-> PrepareText(g), screen |-> <<>>], msg)

\* RenderTriangle, RenderRectangle, RenderTag, and RenderLine.
RenderShape(g, item) ==
  LET ready == BindVertexArray(UseProgram(g, "geometry"), item.shape)
      done  == Uniform(ready, item.matrix)
  IN  [gl |-> done, screen |-> <<DrawArrays(done)>>]

\* A circle is a rectangle that the circle program makes round.
RenderCircle(g, item) ==
  LET ready == BindVertexArray(UseProgram(g, "circle"), "rectangle")
      done  == Uniform(ready, item.matrix)
  IN  [gl |-> done, screen |-> <<DrawArrays(done)>>]

PrepareGrid(g) == BindVertexArray(UseProgram(g, "geometry"), "line")

\* The program and the vertex array stay the same, the matrix changes.
NextLine(r, m) ==
  LET drawn == Uniform(r.gl, m)
  IN  [gl |-> drawn, screen |-> Append(r.screen, DrawArrays(drawn))]

RenderGrid(g, grid) ==
  FoldLeft(NextLine, [gl |-> PrepareGrid(g), screen |-> <<>>], GridLines(grid))

RenderItem(item) ==
  CASE item.kind = "text"   -> RenderText(gl, item.msg)
    [] item.kind = "shape"  -> RenderShape(gl, item)
    [] item.kind = "circle" -> RenderCircle(gl, item)
    [] item.kind = "grid"   -> RenderGrid(gl, item.grid)

-----------------------------------------------------------------------------
(* A frame. *)

TextItems == [k \in DOMAIN text' |-> [kind |-> "text", msg |-> text'[k]]]

GridItems == [k \in DOMAIN Spacing |-> [kind |-> "grid", grid |-> Spacing[k]]]

\* gfx::Reset, PushText, and the beginning of gfx::Render: text, then the units,
\* asteroids, pods and tiles of the scene, then two grids.
BeginFrame(scene, v, hovered) ==
  /\ phase = "frame"
  /\ rendered < MaxRendered
  /\ PushText(hovered)
  /\ view' = v
  /\ todo' = TextItems \o scene \o GridItems
  /\ asked' = todo'
  /\ screen' = <<>>
  /\ UNCHANGED <<setup, status, gl, rendered>>

Render ==
  /\ phase = "render"
  /\ todo # <<>>
  /\ LET r == RenderItem(Head(todo))
     IN  gl' = r.gl /\ screen' = screen \o r.screen
  /\ todo' = Tail(todo)
  /\ UNCHANGED <<setup, status, phase, text, view, asked, messages, rendered>>

EndFrame ==
  /\ phase = "render"
  /\ todo = <<>>
  /\ phase' = "frame"
  /\ rendered' = rendered + 1
  /\ UNCHANGED <<setup, status, gl, text, view, todo, screen, asked, messages>>

RendererNext ==
  \/ SetupProgram \/ SetupShape \/ Render \/ EndFrame
  \/ \E scene \in Scenes, v \in Views, hovered \in 0 .. kMaxAsteroid :
       BeginFrame(scene, v, hovered)

RendererSpec == RendererInit /\ [][RendererNext]_renderer

-----------------------------------------------------------------------------
(* Properties. *)

Picture(program, shape, matrix) ==
  [program |-> program, shape |-> shape, matrix |-> matrix]

Meant(item) ==
  CASE item.kind = "text" ->
         [k \in DOMAIN item.msg |-> Picture("font", item.msg[k], <<"window">>)]
    [] item.kind = "shape" ->
         <<Picture("geometry", item.shape, item.matrix)>>
    [] item.kind = "circle" -> <<Picture("circle", "rectangle", item.matrix)>>
    [] item.kind = "grid" ->
         [k \in DOMAIN GridLines(item.grid) |->
            Picture("geometry", "line", GridLines(item.grid)[k])]

\* Every draw call shows what it is meant to, with the program, the vertices and
\* the matrix it is meant to, whatever was set up or drawn before it.
DrawsWhatIsMeant ==
  phase \in {"render", "frame"} =>
    screen = FlattenSeq([k \in 1 .. Len(asked) - Len(todo) |-> Meant(asked[k])])

\* The text of a frame is that frame's messages, all of them; and who draws has
\* linked every program.
TextFits ==
  /\ phase = "render" => Len(text) = messages
  /\ phase = "abort" => rendered = 0 /\ screen = <<>> /\ setup <= Len(Setup)
  /\ phase \in {"render", "frame"} => gl.linked = Program

\* The grid has a line at every multiple of its spacing in the view, across the
\* whole view, and no other line.
GridFillsView ==
  \A k \in DOMAIN Spacing, axis \in 1 .. 2 :
    LET lines == {GridLines(Spacing[k])[n] : n \in DOMAIN GridLines(Spacing[k])}
        along == {l \in lines : l[2][axis] = l[3][axis]}
        across == 3 - axis
    IN  /\ \A l \in along : l[2][axis] % Spacing[k] = 0
        /\ \A z \in view.min[axis] .. view.max[axis] - 1 :
             z % Spacing[k] = 0 =>
               \E l \in along : /\ l[2][axis] = z
                                /\ l[2][across] <= view.min[across]
                                /\ l[3][across] >= view.max[across]
==============================================================================
