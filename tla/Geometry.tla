------------------------------- MODULE Geometry -------------------------------
(***************************************************************************)
(* src/src/math/intersection.cc on the Vec2 of vec.h.  Coordinates are     *)
(* integers, for which floats are exact.  The state is four points, one of *)
(* which moves at a time: two segments, or a triangle and a point.         *)
(***************************************************************************)
EXTENDS Integers, Sequences, FiniteSets

CONSTANTS
  Coordinate,  \* of the points
  kFar         \* the greatest float, where a ray ends

ASSUME GeometryAssumption ==
  Coordinate \subseteq Int /\ kFar \in Int /\ \A x \in Coordinate : x < kFar

VARIABLE point   \* point[1 .. 4]

Point == Coordinate \X Coordinate

GeometryInit == point \in [1 .. 4 -> Point]

GeometryNext ==
  \E k \in 1 .. 4, p \in Point : point' = [point EXCEPT ![k] = p]

GeometrySpec == GeometryInit /\ [][GeometryNext]_point

-----------------------------------------------------------------------------
(* Vec2, component by component. *)

Plus(u, v) == <<u[1] + v[1], u[2] + v[2]>>

Minus(u, v) == <<u[1] - v[1], u[2] - v[2]>>

Times(u, n) == <<u[1] * n, u[2] * n>>

-----------------------------------------------------------------------------
(* intersection.cc *)

Signed2DTriArea(a, b, c) ==
  (a[1] - c[1]) * (b[2] - c[2]) - (a[2] - c[2]) * (b[1] - c[1])

Between(x, y, z) == (x <= y /\ y <= z) \/ (z <= y /\ y <= x)

\* Of three collinear points, the one in the middle.
OnSegment(p, q, r) == Between(p[1], q[1], r[1]) /\ Between(p[2], q[2], r[2])

\* 0 for collinear points, 1 clockwise, 2 counterclockwise.
Orientation(p, q, r) ==
  LET val == (q[2] - p[2]) * (r[1] - q[1]) - (q[1] - p[1]) * (r[2] - q[2])
  IN  IF val = 0 THEN 0 ELSE IF val > 0 THEN 1 ELSE 2

\* (Bug: collinear points are taken for an intersection wherever they are.)
DoIntersectAnywhere(p1, q1, p2, q2) ==
  \/ /\ Orientation(p1, q1, p2) # Orientation(p1, q1, q2)
     /\ Orientation(p2, q2, p1) # Orientation(p2, q2, q1)
  \/ Orientation(p1, q1, p2) = 0 /\ Orientation(p1, q1, q2) = 0

DoIntersect(p1, q1, p2, q2) ==
  LET o1 == Orientation(p1, q1, p2)
      o2 == Orientation(p1, q1, q2)
      o3 == Orientation(p2, q2, p1)
      o4 == Orientation(p2, q2, q1)
  IN  \/ o1 # o2 /\ o3 # o4
      \/ o1 = 0 /\ OnSegment(p1, p2, q1)
      \/ o2 = 0 /\ OnSegment(p1, q2, q1)
      \/ o3 = 0 /\ OnSegment(p2, p1, q2)
      \/ o4 = 0 /\ OnSegment(p2, q1, q2)

\* Whether the segments cross, and where: time is the fraction num / den, and so
\* den times the position is an integer vector.
LineSegmentsIntersect(a_start, a_end, b_start, b_end) ==
  LET a1 == Signed2DTriArea(a_start, a_end, b_end)
      a2 == Signed2DTriArea(a_start, a_end, b_start)
      a3 == Signed2DTriArea(b_start, b_end, a_start)
      a4 == a3 + a2 - a1
      den == a3 - a4
  IN  IF a1 * a2 >= 0 \/ a3 * a4 >= 0
        THEN [hit |-> FALSE]
        ELSE [hit |-> TRUE, num |-> a3, den |-> den,
              position |-> Plus(Times(a_start, den),
                                Times(Minus(a_end, a_start), a3))]

\* The edges that the ray to the right of p meets, up to the first with which p
\* is collinear; that one decides.
PointInPolygon(p, polygon) ==
  LET size == Len(polygon)
      next(k) == polygon[(k % size) + 1]
      extreme == <<kFar, p[2]>>
      met == {k \in 1 .. size : DoIntersect(polygon[k], next(k), p, extreme)}
      level == {k \in met : Orientation(polygon[k], p, next(k)) = 0}
  IN  IF size < 3 THEN FALSE
      ELSE IF level = {} THEN Cardinality(met) % 2 = 1
      ELSE LET first == CHOOSE k \in level : \A l \in level : k <= l
           IN  OnSegment(polygon[first], p, next(first))

PointInRect(p, rect) ==
  /\ p[1] > rect.min[1] /\ p[1] < rect.max[1]
  /\ p[2] > rect.min[2] /\ p[2] < rect.max[2]

-----------------------------------------------------------------------------
(* What the four functions are about: the points of a segment or a triangle,  *)
(* as combinations of its ends.                                               *)

Magnitude(n) == IF n < 0 THEN -n ELSE n

\* c is a point of the segment from a to b: a fraction of the way, which is a
\* multiple of one step of the way along the axes.
IsOn(c, a, b) ==
  LET way == Magnitude(b[1] - a[1]) + Magnitude(b[2] - a[2])
      n == IF way = 0 THEN 1 ELSE way
  IN  \E i \in 0 .. n : Times(c, n) = Plus(Times(a, n - i), Times(b, i))

Determinant(u, v) == u[1] * v[2] - u[2] * v[1]

\* Where segments that are not parallel meet: fractions of both with the
\* determinant of their directions as denominator.
Meetings(p1, q1, p2, q2) ==
  LET d == Determinant(Minus(q1, p1), Minus(q2, p2))
      n == Magnitude(d)
  IN  {m \in (0 .. n) \X (0 .. n) :
         /\ n > 0
         /\ Plus(Times(p1, n), Times(Minus(q1, p1), m[1])) =
              Plus(Times(p2, n), Times(Minus(q2, p2), m[2]))}

Parallel(p1, q1, p2, q2) == Determinant(Minus(q1, p1), Minus(q2, p2)) = 0

\* Parallel segments meet at an end of one of them, if at all.
Meet(p1, q1, p2, q2) ==
  IF Parallel(p1, q1, p2, q2)
    THEN IsOn(p1, p2, q2) \/ IsOn(q1, p2, q2) \/ IsOn(p2, p1, q1) \/ IsOn(q2, p1, q1)
    ELSE Meetings(p1, q1, p2, q2) # {}

\* p is a weighted mean of the corners.
InTriangle(p, a, b, c) ==
  LET n == Determinant(Minus(b, a), Minus(c, a))
      s == Determinant(Minus(p, a), Minus(c, a))
      t == Determinant(Minus(b, a), Minus(p, a))
  IN  IF n > 0 THEN s >= 0 /\ t >= 0 /\ s + t <= n
               ELSE s <= 0 /\ t <= 0 /\ s + t >= n

-----------------------------------------------------------------------------
(* Properties. *)

Corners(rect) ==
  <<rect.min, <<rect.max[1], rect.min[2]>>, rect.max, <<rect.min[1], rect.max[2]>>>>

\* DoIntersect finds the segments that have a point in common, degenerate,
\* touching and overlapping ones included; LineSegmentsIntersect those that cross
\* within both, and where.
SegmentsMeet ==
  LET a == point[1]  b == point[2]  c == point[3]  d == point[4]
      crossing == LineSegmentsIntersect(a, b, c, d)
      size == Magnitude(Determinant(Minus(b, a), Minus(d, c)))
      inner == {m \in Meetings(a, b, c, d) : {m[1], m[2]} \cap {0, size} = {}}
  IN  /\ DoIntersect(a, b, c, d) <=> Meet(a, b, c, d)
      /\ crossing.hit <=> inner # {}
      /\ crossing.hit =>
           \E m \in inner :
             Times(crossing.position, size) =
               Times(Plus(Times(a, size), Times(Minus(b, a), m[1])), crossing.den)

\* PointInPolygon finds the points of a triangle, its edges included, unless the
\* ray to the right of the point meets a corner, which counts for two edges; and
\* PointInRect what PointInPolygon finds within the edges of the rectangle.
PointsAreInside ==
  LET a == point[1]  b == point[2]  c == point[3]  d == point[4]
      rect == [min |-> a, max |-> b]
      edge == {k \in 1 .. 4 : IsOn(c, Corners(rect)[k], Corners(rect)[(k % 4) + 1])}
  IN  /\ /\ Determinant(Minus(b, a), Minus(c, a)) # 0
         /\ \A v \in {a, b, c} : v[2] = d[2] => v[1] < d[1]
         => (PointInPolygon(d, <<a, b, c>>) <=> InTriangle(d, a, b, c))
      /\ a[1] < b[1] /\ a[2] < b[2] /\ c[2] \notin {a[2], b[2]}
         => (PointInRect(c, rect) <=>
               edge = {} /\ PointInPolygon(c, Corners(rect)))

IntersectionsAreReal == SegmentsMeet /\ PointsAreInside
===============================================================================
