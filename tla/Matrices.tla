------------------------------- MODULE Matrices -------------------------------
(***************************************************************************)
(* From a place on the window to the world and back: vec.h, mat.h, quat.h  *)
(* and mat_ops.h of src/src/math, with camera.cc and space.cc, which turn  *)
(* a click into a place in the world, and the matrices of renderer.cc,     *)
(* which turn a place in the world into one on the window.                 *)
(*                                                                         *)
(* Real numbers are fractions.  A point is <<x, y, z, d>> and stands for   *)
(* <<x / d, y / d, z / d>>; a matrix is scaled so that its entries are     *)
(* integers and its last one is the denominator of them all (1 in the      *)
(* code).  A quaternion <<w, x, y, z>> is not normalised: the code's is    *)
(* divided by its length.                                                  *)
(***************************************************************************)
EXTENDS Integers, Sequences

CONSTANTS
  Positions,     \* of the camera
  Orientations,  \* of the camera: quaternions
  WindowSizes,
  Ends,          \* of lines
  Direction      \* of lines: <<w, z>>, half of their angle

\* A fraction's denominator is not 0; nor are a quaternion and a direction.
Place == Int \X Int \X Int \X (Int \ {0})

ASSUME MatricesAssumption ==
  /\ Positions \subseteq Place
  /\ Orientations \subseteq (Int \X Int \X Int \X Int) \ {<<0, 0, 0, 0>>}
  /\ WindowSizes \subseteq Nat \X Nat
  /\ Ends \subseteq Place
  /\ Direction \subseteq (Int \X Int) \ {<<0, 0>>}

VARIABLES
  cam,     \* position and orientation of the local camera
  dims,    \* window::GetWindowSize
  cursor,  \* a place on the window
  line     \* what CreateLineTransform is asked for

views == <<cam, dims, cursor, line>>

Pixels(size) == (0 .. size[1]) \X (0 .. size[2])

-----------------------------------------------------------------------------
(* Vec3 and Mat. *)

Vec3f(x, y, z) == <<x, y, z, 1>>

Add(u, v) ==
  [k \in 1 .. 4 |-> IF k = 4 THEN u[4] * v[4] ELSE u[k] * v[4] + v[k] * u[4]]

Negative(u) == <<-u[1], -u[2], -u[3], u[4]>>

Over(u, n) == <<u[1], u[2], u[3], u[4] * n>>

SamePlace(u, v) == \A k \in 1 .. 3 : u[k] * v[4] = v[k] * u[4]

Entry(f(_, _)) ==
  LET row(i) == <<f(i, 1), f(i, 2), f(i, 3), f(i, 4)>>
  IN  <<row(1), row(2), row(3), row(4)>>

Transpose(m) == Entry(LAMBDA i, j : m[j][i])

MatMat(a, b) ==
  Entry(LAMBDA i, j : a[i][1] * b[1][j] + a[i][2] * b[2][j]
                        + a[i][3] * b[3][j] + a[i][4] * b[4][j])

\* The vector is augmented with a 1.
MatVec(m, v) ==
  LET row(i) == m[i][1] * v[1] + m[i][2] * v[2] + m[i][3] * v[3] + m[i][4] * v[4]
  IN  <<row(1), row(2), row(3), m[4][4] * v[4]>>

-----------------------------------------------------------------------------
(* mat_ops.h *)

Diagonal(v) == Entry(LAMBDA i, j : IF i = j THEN v[i] ELSE 0)

CreateTranslationMatrix(t) ==
  Entry(LAMBDA i, j : IF j = 4 THEN t[i] ELSE IF i = j THEN t[4] ELSE 0)

CreateScaleMatrix(s) == Diagonal(s)

\* The rows of these are the columns of the code, and the code's 1 is the
\* square of the quaternion's length.
CreateRotationMatrix(q) ==
  LET w == q[1]  x == q[2]  y == q[3]  z == q[4]
      one == w * w + x * x + y * y + z * z
  IN  Transpose(
        << <<one - 2 * y * y - 2 * z * z, 2 * x * y - 2 * w * z, 2 * x * z + 2 * w * y, 0>>,
           <<2 * x * y + 2 * w * z, one - 2 * x * x - 2 * z * z, 2 * y * z - 2 * w * x, 0>>,
           <<2 * x * z - 2 * w * y, 2 * y * z + 2 * w * x, one - 2 * x * x - 2 * y * y, 0>>,
           <<0, 0, 0, one>> >>)

\* (Bug: the rotation is not undone.)
CreateRotatedView(t, q) ==
  LET mat == CreateRotationMatrix(q)
  IN  Entry(LAMBDA i, j : IF j = 4 /\ i # 4 THEN -t[i] * mat[4][4]
                          ELSE mat[i][j] * t[4])

\* What the rotation makes of a place, minus the translation.
CreateViewMatrix(t, q) ==
  LET mat == Transpose(CreateRotationMatrix(q))
  IN  Entry(LAMBDA i, j : IF j = 4 /\ i # 4 THEN -t[i] * mat[4][4]
                          ELSE mat[i][j] * t[4])

NotZero(n) == IF n = 0 THEN 1 ELSE n

\* With the common denominator w * h * d.
CreateOrthographicMatrix(right, left, top, bottom, far, near) ==
  LET w == NotZero(right - left)
      h == NotZero(top - bottom)
      d == NotZero(far - near)
  IN  Diagonal(<<2 * h * d, 2 * w * d, -2 * w * h, w * h * d>>)

CreateOrthographicMatrix2(right, left, top, bottom, far, near) ==
  LET w == NotZero(right - left)
      h == NotZero(top - bottom)
      d == NotZero(far - near)
  IN  << <<2 * h * d, 0, 0, -(right + left) * h * d>>,
         <<0, 2 * w * d, 0, -(top + bottom) * w * d>>,
         <<0, 0, -2 * w * h, -(near + far) * w * h>>,
         <<0, 0, 0, w * h * d>> >>

-----------------------------------------------------------------------------
(* camera.cc and space.cc: from the window to the world. *)

CoordToScreen(xy) == <<2 * xy[1] - dims[1], 2 * xy[2] - dims[2], 0, 2>>

ScreenToWorldSpace(screen) ==
  MatVec(MatMat(CreateRotationMatrix(cam.orientation),
                CreateTranslationMatrix(cam.position)), screen)

CoordToWorld(xy) == ScreenToWorldSpace(CoordToScreen(xy))

(* From the world to the window, in the units of GL: -1 to 1. *)

SetProjection == CreateOrthographicMatrix(dims[1], 0, dims[2], 0, 0, 0)

SetView == CreateViewMatrix(cam.position, cam.orientation)

\* How text is placed: the origin is the lower left corner.
TextProjection == CreateOrthographicMatrix2(dims[1], 0, dims[2], 0, 0, 0)

-----------------------------------------------------------------------------
(* renderer.cc: a line is made of the one from <<-1, 0, 0>> to <<1, 0, 0>>. *)

\* A point in direction <<cos, sin>> of twice the half angle.
Doubled(half) ==
  <<half[1] * half[1] - half[2] * half[2], 2 * half[1] * half[2]>>

\* Half of atan2(diff.y, diff.x).
HalfAngle(diff) ==
  CHOOSE h \in Direction :
    /\ diff[2] * Doubled(h)[1] = diff[1] * Doubled(h)[2]
    /\ diff[1] * Doubled(h)[1] + diff[2] * Doubled(h)[2] > 0

\* (Bug: the axis points to the viewer.)
LineTurnedBack(half) == <<half[1], 0, 0, half[2]>>

\* Rotations are about the axis <<0, 0, -1>>, which makes up for the sense of
\* CreateRotationMatrix.
LineOrientation(half) == <<half[1], 0, 0, -half[2]>>

\* Times the length of Doubled(half), the distance is the product of the two.
CreateLineTransform(start, end) ==
  LET translation == Over(Add(start, end), 2)
      diff == Add(end, Negative(start))
      half == HalfAngle(diff)
      unit == half[1] * half[1] + half[2] * half[2]
      distance == (diff[1] * Doubled(half)[1] + diff[2] * Doubled(half)[2])
  IN  MatMat(MatMat(CreateTranslationMatrix(translation),
                    CreateScaleMatrix(<<distance, distance, 2 * unit * diff[4],
                                        2 * unit * diff[4]>>)),
             CreateRotationMatrix(LineOrientation(half)))

-----------------------------------------------------------------------------
(* The user moves the mouse, the camera moves, and lines are drawn.  (What    *)
(* happens when the window is resized is in module Window.)                   *)

Lines == [start : Ends, half : Direction, length : 1 .. 2]

\* The end of a line whose length is a fraction.
LineEnd(l) ==
  Add(l.start, <<l.length * Doubled(l.half)[1], l.length * Doubled(l.half)[2], 0, 1>>)

MatricesInit ==
  /\ cam \in [position : Positions, orientation : Orientations]
  /\ dims \in WindowSizes
  /\ cursor = <<0, 0>>
  /\ line \in Lines

Update(motion) ==
  /\ cam' = [cam EXCEPT !.position = Add(@, motion)]
  /\ cam'.position \in Positions
  /\ UNCHANGED <<dims, cursor, line>>

OrientCamera(q) == cam' = [cam EXCEPT !.orientation = q] /\ UNCHANGED <<dims, cursor, line>>

MoveCursor(xy) == cursor' = xy /\ UNCHANGED <<cam, dims, line>>

DrawLine(l) == line' = l /\ UNCHANGED <<cam, dims, cursor>>

MatricesNext ==
  \/ \E motion \in {Vec3f(1, 0, 0), Vec3f(-1, 0, 0), Vec3f(0, 1, 0), Vec3f(0, -1, 0)} :
       Update(motion)
  \/ \E q \in Orientations : OrientCamera(q)
  \/ \E xy \in Pixels(dims) : MoveCursor(xy)
  \/ \E l \in Lines : DrawLine(l)

MatricesSpec == MatricesInit /\ [][MatricesNext]_views

-----------------------------------------------------------------------------
(* Properties. *)

\* What lies in the world where the user clicks is drawn, wherever the camera is
\* and however it is turned, at the place of the window he clicked, where text
\* for that place would be: ScreenToWorldSpace is the inverse of SetView, and
\* CoordToScreen and the two projections agree on the window.
ClickIsUnderCursor ==
  SamePlace(MatVec(SetProjection, MatVec(SetView, CoordToWorld(cursor))),
            MatVec(TextProjection, Vec3f(cursor[1], cursor[2], 0)))

\* A line is drawn from where it starts to where it ends, whatever its length and
\* direction and whatever the view.
LinesMeetTheirEnds ==
  LET end == LineEnd(line)
      seen(p) == MatVec(SetProjection, MatVec(SetView, p))
      matrix == MatMat(MatMat(SetProjection, SetView),
                       CreateLineTransform(line.start, end))
  IN  /\ SamePlace(MatVec(matrix, Vec3f(-1, 0, 0)), seen(line.start))
      /\ SamePlace(MatVec(matrix, Vec3f(1, 0, 0)), seen(end))
===============================================================================
