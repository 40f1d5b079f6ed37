----------------------------- MODULE WorldProofs -----------------------------
(***************************************************************************)
(* What is proved of space.  For every map, PathTo stays within its arrays *)
(* and returns a shortest path, or finds that there is none.  For tiles of *)
(* every size, tile positions name places in the world and Avoidance moves *)
(* units away from walls.  For every position and orientation of the       *)
(* camera, a click means the place under the cursor, and lines are drawn   *)
(* from end to end.  For all points, segments meet and points are inside   *)
(* where intersection.cc finds that they do.                               *)
(***************************************************************************)
EXTENDS Search, Tiles, Matrices, Geometry, SequenceTheorems, FiniteSetTheorems,
        WellFoundedInduction, TLAPS

-----------------------------------------------------------------------------
(* The search. *)

\* Tiles are enqueued once, when they are marked as checked.
Marked ==
  /\ \A j, k \in 1 .. Len(queue) : queue[j] = queue[k] => j = k
  /\ checked = {queue[k] : k \in 1 .. Len(queue)}

\* All tiles but the first were reached from an earlier one.
Reached ==
  \A k \in 2 .. Len(queue) :
    /\ Open(queue[k])
    /\ \E j \in 1 .. k - 1 : from[queue[k]] = queue[j] /\ Adjacent(queue[j], queue[k])

\* The way back is at a tile of the queue; each further tile is an earlier one.
WayBack(p) ==
  /\ p # <<>> /\ p[1] = end
  /\ \E k \in 1 .. Len(queue) : p[Len(p)] = queue[k] /\ Len(p) + k <= Len(queue) + 1
  /\ \A k \in 1 .. Len(p) - 1 : Open(p[k]) /\ Adjacent(p[k + 1], p[k])

Progressing ==
  /\ pc # "idle" => queue # <<>> /\ queue[1] = start
  /\ pc # "idle" => ~found
  /\ pc = "look" => queue_ptr > 0
  /\ pc = "trace" => WayBack(path)

SearchInv ==
  /\ SearchTypeOK
  /\ Marked
  /\ Reached
  /\ Progressing
  /\ Len(path) <= Room
  /\ ReturnsPath

-----------------------------------------------------------------------------
(* The map and the arrays.                                                 *)

\* What kNeighbor lists are the eight positions around a position.
LEMMA NeighborAdjacent ==
  ASSUME NEW t \in Tile, NEW k \in 1 .. kMaxNeighbor, Neighbor(t, k) \in Tile
  PROVE  Adjacent(t, Neighbor(t, k))
<1>1. t[1] \in Int /\ t[2] \in Int
  BY MapSizeAssumption DEF Tile
<1>2. k \in {1, 2, 3, 4, 5, 6, 7, 8}
  BY DEF kMaxNeighbor
<1>3. \E dx \in -1 .. 1, dy \in -1 .. 1 :
        Neighbor(t, k) = <<t[1] + dx, t[2] + dy>> /\ ~(dx = 0 /\ dy = 0)
  <2>1. /\ kNeighbor[k][1] \in -1 .. 1 /\ kNeighbor[k][2] \in -1 .. 1
        /\ ~(kNeighbor[k][1] = 0 /\ kNeighbor[k][2] = 0)
    BY <1>2 DEF kNeighbor
  <2> QED
    BY <2>1 DEF Neighbor
<1> QED
  BY <1>1, <1>3 DEF Adjacent

\* As many tiles as the arrays have room for.
LEMMA TilesHaveRoom == IsFiniteSet(Tile) /\ Cardinality(Tile) = Room
<1> DEFINE X == 0 .. kMapWidth - 1
           Y == 0 .. kMapHeight - 1
<1>1. IsFiniteSet(X) /\ Cardinality(X) = kMapWidth
  BY MapSizeAssumption, FS_Interval
<1>2. IsFiniteSet(Y) /\ Cardinality(Y) = kMapHeight
  BY MapSizeAssumption, FS_Interval
<1>3. Tile = X \X Y
  BY DEF Tile
<1> HIDE DEF X, Y
<1>4. IsFiniteSet(X \X Y) /\ Cardinality(X \X Y) = Cardinality(X) * Cardinality(Y)
  BY <1>1, <1>2, FS_Product
<1> QED
  BY <1>1, <1>2, <1>3, <1>4 DEF Room

\* A queue without repetitions has room.
LEMMA QueueHasRoom ==
  ASSUME NEW q \in Seq(Tile),
         \A j, k \in 1 .. Len(q) : q[j] = q[k] => j = k
  PROVE  Len(q) <= Room
<1>1. Len(q) \in Nat /\ q \in [1 .. Len(q) -> Tile]
  BY LenProperties
<1>2. q \in Injection(1 .. Len(q), Tile)
  BY <1>1 DEF Injection, IsInjective
<1>3. Cardinality(1 .. Len(q)) <= Cardinality(Tile)
  BY <1>2, TilesHaveRoom, FS_Injection
<1>4. Cardinality(1 .. Len(q)) = Len(q)
  <2>1. \A n \in Nat : Cardinality(1 .. n) = n
    BY FS_Interval
  <2> QED
    BY <1>1, <2>1
<1>5. Cardinality(Tile) = Room
  BY TilesHaveRoom
<1> QED
  BY ONLY <1>3, <1>4, <1>5

-----------------------------------------------------------------------------
(* The steps of the search.                                                *)

\* The neighbor that is looked at, and the tile the search is at.
LEMMA AtNode ==
  ASSUME SearchInv, pc = "look"
  PROVE  /\ queue_ptr \in 1 .. Len(queue) /\ node = queue[queue_ptr]
         /\ node \in Tile
         /\ IsNew(Neighbor(node, i)) => /\ Neighbor(node, i) \in Tile
                                        /\ Adjacent(node, Neighbor(node, i))
<1>1. queue_ptr \in 1 .. Len(queue) /\ queue \in Seq(Tile) /\ i \in 1 .. kMaxNeighbor
  <2>1. Len(queue) \in Nat
    BY LenProperties DEF SearchInv, SearchTypeOK
  <2> QED
    BY <2>1 DEF SearchInv, SearchTypeOK, Progressing
<1>2. node = queue[queue_ptr] /\ node \in Tile
  BY <1>1, ElementOfSeq DEF node
<1>3. ASSUME IsNew(Neighbor(node, i))
      PROVE  Neighbor(node, i) \in Tile
  BY <1>3 DEF IsNew, Open, TileTypeSafe, TileOk, kTileOpen, kTileBlock
<1> QED
  BY <1>1, <1>2, <1>3, NeighborAdjacent

\* A new neighbor is enqueued behind all tiles of the queue.
LEMMA LookInv ==
  ASSUME SearchInv, Look
  PROVE  SearchInv'
<1> DEFINE t == Neighbor(node, i)
<1>1. /\ queue \in Seq(Tile) /\ Len(queue) \in Nat /\ checked \subseteq Tile
      /\ from \in [Tile -> Tile] /\ path \in Seq(Tile)
  BY LenProperties DEF SearchInv, SearchTypeOK
<1>2. /\ pc = "look" /\ pc' \in {"look", "pop"} /\ i' \in 1 .. kMaxNeighbor
      /\ UNCHANGED <<kTilemap, start, end, queue_ptr, path, found>>
  BY DEF Look, SearchInv, SearchTypeOK, kMaxNeighbor
<1>3. ReturnsPath'
  BY <1>2 DEF SearchInv, ReturnsPath, IsPath, Open, TileTypeSafe
<1>4. CASE ~IsNew(t)
  <2>1. UNCHANGED <<checked, from, queue>>
    BY <1>4 DEF Look
  <2>2. SearchTypeOK'
    BY <1>2, <2>1 DEF SearchInv, SearchTypeOK
  <2>3. Marked' /\ Reached'
    BY <1>2, <2>1 DEF SearchInv, Marked, Reached, Open, TileTypeSafe
  <2>4. Progressing'
    BY <1>2, <2>1 DEF SearchInv, Progressing
  <2> QED
    BY <1>2, <1>3, <2>2, <2>3, <2>4 DEF SearchInv
<1>5. CASE IsNew(t)
  <2>1. /\ checked' = checked \cup {t}
        /\ from' = [from EXCEPT ![t] = node]
        /\ queue' = Append(queue, t)
    BY <1>5 DEF Look
  <2>2. /\ queue_ptr \in 1 .. Len(queue) /\ node = queue[queue_ptr]
        /\ node \in Tile /\ t \in Tile /\ Adjacent(node, t)
        /\ Open(t) /\ t \notin checked
    BY <1>2, <1>5, AtNode DEF IsNew
  <2> HIDE DEF t
  <2>3. /\ queue' \in Seq(Tile) /\ Len(queue') = Len(queue) + 1
        /\ \A k \in 1 .. Len(queue) : queue'[k] = queue[k]
        /\ queue'[Len(queue) + 1] = t
    BY <1>1, <2>1, <2>2
  <2>4. \A k \in 1 .. Len(queue) : queue[k] # t /\ queue[k] \in Tile
    BY <1>1, <2>2, ElementOfSeq DEF SearchInv, Marked
  <2>5. SearchTypeOK'
    <3>1. /\ checked' \subseteq Tile /\ from' \in [Tile -> Tile]
          /\ queue_ptr' \in 0 .. Len(queue')
      BY <1>1, <1>2, <2>1, <2>2, <2>3
    <3> QED
      BY <1>2, <2>3, <3>1 DEF SearchInv, SearchTypeOK
  <2>6. Marked'
    <3>1. \A j, k \in 1 .. Len(queue') : queue'[j] = queue'[k] => j = k
      BY <1>1, <2>3, <2>4 DEF SearchInv, Marked
    <3>2. checked' = {queue'[k] : k \in 1 .. Len(queue')}
      <4>1. checked = {queue[k] : k \in 1 .. Len(queue)}
        BY DEF SearchInv, Marked
      <4>2. 1 .. Len(queue') = (1 .. Len(queue)) \cup {Len(queue) + 1}
        BY <1>1, <2>3
      <4>3. \A k \in 1 .. Len(queue') : queue'[k] \in checked'
        BY <2>1, <2>3, <4>1, <4>2
      <4>4. \A u \in checked' : \E k \in 1 .. Len(queue') : u = queue'[k]
        BY <2>1, <2>3, <4>1, <4>2
      <4> QED
        BY ONLY <4>3, <4>4
    <3> QED
      BY <3>1, <3>2 DEF Marked
  <2>7. Reached'
    <3>1. SUFFICES ASSUME NEW k \in 2 .. Len(queue')
                   PROVE  /\ queue'[k] \in Tile /\ kTilemap[queue'[k]] = kTileOpen
                          /\ \E j \in 1 .. k - 1 :
                               /\ from'[queue'[k]] = queue'[j]
                               /\ Adjacent(queue'[j], queue'[k])
      BY <1>2 DEF Reached, Open, TileTypeSafe, TileOk, Adjacent
    <3>2. \A p \in Tile : Open(p) => kTilemap[p] = kTileOpen
      BY DEF Open, TileTypeSafe, TileOk
    <3>3. CASE k = Len(queue) + 1
      BY <1>1, <2>1, <2>2, <2>3, <3>2, <3>3
    <3>4. CASE k \in 2 .. Len(queue)
      <4>1. PICK j \in 1 .. k - 1 :
              from[queue[k]] = queue[j] /\ Adjacent(queue[j], queue[k])
        BY <3>4 DEF SearchInv, Reached
      <4>2. queue'[k] = queue[k] /\ queue'[j] = queue[j]
        <5>1. k \in 1 .. Len(queue) /\ j \in 1 .. Len(queue)
          BY <1>1, <3>4
        <5> QED
          BY <2>3, <5>1
      <4>3. from'[queue[k]] = from[queue[k]]
        BY <1>1, <2>1, <2>4, <3>4
      <4>4. Open(queue[k])
        BY <3>4 DEF SearchInv, Reached
      <4> QED
        BY <2>4, <3>2, <3>4, <4>1, <4>2, <4>3, <4>4
    <3> QED
      BY <1>1, <2>3, <3>3, <3>4
  <2>8. Progressing'
    <3>1. queue' # <<>> /\ queue'[1] = start' /\ ~found'
      <4>1. queue # <<>> /\ queue[1] = start /\ ~found
        BY <1>2 DEF SearchInv, Progressing
      <4>2. 1 \in 1 .. Len(queue)
        BY <1>1, <4>1, EmptySeq
      <4> QED
        BY <1>1, <1>2, <2>3, <4>1, <4>2
    <3> QED
      BY <1>2, <2>2, <3>1 DEF Progressing
  <2> QED
    BY <1>2, <1>3, <2>5, <2>6, <2>7, <2>8 DEF SearchInv
<1> QED
  BY <1>4, <1>5

\* A call starts with its start as the only tile of the queue.
LEMMA PathToInv ==
  ASSUME SearchInv, NEW s \in Position, NEW e \in Position, PathTo(s, e)
  PROVE  SearchInv'
<1>1. /\ pc = "idle" /\ start' = s /\ end' = e /\ found' = FALSE
      /\ UNCHANGED <<kTilemap, i>>
  BY DEF PathTo
<1>2. ReturnsPath'
  BY <1>1 DEF ReturnsPath
<1>3. CASE TileOk(s) /\ TileOk(e)
  <2>1. /\ pc' = "pop" /\ checked' = {s}
        /\ from' = [t \in Tile |-> IF t = s THEN s ELSE <<0, 0>>]
        /\ queue' = <<s>> /\ queue_ptr' = 0 /\ path' = <<>>
    BY <1>3 DEF PathTo
  <2>2. s \in Tile /\ <<0, 0>> \in Tile /\ Room \in Nat
    BY <1>3, MapSizeAssumption DEF TileOk, Tile, Room
  <2>3. queue' \in Seq(Tile) /\ Len(queue') = 1 /\ queue'[1] = s
    BY <2>1, <2>2
  <2>4. SearchTypeOK'
    <3>1. from' \in [Tile -> Tile] /\ path' \in Seq(Tile)
      BY <2>1, <2>2
    <3>2. /\ kTilemap' \in [Tile -> TileType] /\ i' \in 1 .. kMaxNeighbor
          /\ start' \in Position /\ end' \in Position /\ found' \in BOOLEAN
      BY <1>1 DEF SearchInv, SearchTypeOK
    <3>3. checked' \subseteq Tile /\ queue_ptr' \in 0 .. Len(queue')
      BY <2>1, <2>2, <2>3
    <3> QED
      BY <2>1, <2>3, <3>1, <3>2, <3>3 DEF SearchTypeOK
  <2>5. Marked'
    BY <2>1, <2>3 DEF Marked
  <2>6. Reached'
    BY <2>3 DEF Reached
  <2>7. Progressing'
    BY <1>1, <2>1, <2>3 DEF Progressing
  <2>8. Len(path') <= Room
    BY <2>1, <2>2
  <2> QED
    BY <1>2, <2>4, <2>5, <2>6, <2>7, <2>8 DEF SearchInv
<1>4. CASE ~(TileOk(s) /\ TileOk(e))
  <2>1. UNCHANGED <<pc, checked, from, queue, queue_ptr, path>>
    BY <1>4 DEF PathTo
  <2>2. SearchTypeOK'
    BY <1>1, <2>1 DEF SearchInv, SearchTypeOK
  <2>3. Marked' /\ Reached'
    BY <1>1, <2>1 DEF SearchInv, Marked, Reached, Open, TileTypeSafe
  <2> QED
    BY <1>1, <1>2, <2>1, <2>2, <2>3 DEF SearchInv, Progressing
<1> QED
  BY <1>3, <1>4

\* A tile is taken from the queue: the end, where the way back begins, or one
\* whose neighbors are to be looked at.
LEMMA PopInv ==
  ASSUME SearchInv, Pop
  PROVE  SearchInv'
<1>1. /\ pc = "pop" /\ queue_ptr' = queue_ptr + 1 /\ queue_ptr < Len(queue)
      /\ UNCHANGED <<kTilemap, start, end, checked, from, queue, found>>
  BY DEF Pop
<1>2. /\ queue \in Seq(Tile) /\ Len(queue) \in Nat /\ queue_ptr \in Nat
      /\ Room \in Nat /\ Len(queue) <= Room
  <2>1. queue \in Seq(Tile) /\ Len(queue) \in Nat
    BY LenProperties DEF SearchInv, SearchTypeOK
  <2>2. Len(queue) <= Room
    BY <2>1, QueueHasRoom DEF SearchInv, Marked
  <2>3. queue_ptr \in Nat /\ Room \in Nat
    BY <2>1, MapSizeAssumption DEF SearchInv, SearchTypeOK, Room
  <2> QED
    BY <2>1, <2>2, <2>3
<1>3. Marked' /\ Reached'
  BY <1>1 DEF SearchInv, Marked, Reached, Open, TileTypeSafe
<1>4. pc # "idle" /\ queue # <<>> /\ queue[1] = start /\ found = FALSE
  BY <1>1 DEF SearchInv, SearchTypeOK, Progressing
<1>5. CASE queue[queue_ptr + 1] = end
  <2>1. pc' = "trace" /\ path' = <<end>> /\ i' = i
    BY <1>5 DEF Pop
  <2>2. end \in Tile
    BY <1>1, <1>2, <1>5, ElementOfSeq, queue_ptr + 1 \in 1 .. Len(queue)
  <2>3. SearchTypeOK'
    <3>1. path' \in Seq(Tile) /\ queue_ptr' \in 0 .. Len(queue')
      BY <1>1, <1>2, <2>1, <2>2
    <3> QED
      BY <1>1, <2>1, <3>1 DEF SearchInv, SearchTypeOK
  <2>4. Len(path') = 1 /\ path'[1] = end
    BY <2>1
  <2>5. WayBack(path)'
    <3>1. /\ queue_ptr + 1 \in 1 .. Len(queue')
          /\ path'[Len(path')] = queue'[queue_ptr + 1]
          /\ Len(path') + (queue_ptr + 1) <= Len(queue') + 1
      BY <1>1, <1>2, <1>5, <2>1, <2>4
    <3>2. path' # <<>> /\ path'[1] = end'
      BY <1>1, <2>1, <2>4
    <3>3. \A k \in 1 .. Len(path') - 1 : FALSE
      BY <2>4
    <3> QED
      BY <3>1, <3>2, <3>3 DEF WayBack
  <2>6. Progressing'
    BY <1>1, <1>4, <2>1, <2>5 DEF Progressing
  <2>7. Len(path') <= Room
    BY <1>1, <1>2, <2>4
  <2>8. ReturnsPath'
    <3>1. found' = FALSE
      BY <1>1, <1>4
    <3> QED
      BY <3>1 DEF ReturnsPath
  <2> QED
    BY <1>3, <2>3, <2>6, <2>7, <2>8 DEF SearchInv
<1>6. CASE queue[queue_ptr + 1] # end
  <2>1. pc' = "look" /\ i' = 1 /\ path' = path
    BY <1>6 DEF Pop
  <2>2. SearchTypeOK'
    BY <1>1, <1>2, <2>1 DEF SearchInv, SearchTypeOK, kMaxNeighbor
  <2>3. Progressing'
    BY <1>1, <1>2, <1>4, <2>1 DEF Progressing
  <2>4. ReturnsPath'
    BY <1>1, <2>1 DEF SearchInv, ReturnsPath, IsPath, Open, TileTypeSafe
  <2> QED
    BY <1>3, <2>1, <2>2, <2>3, <2>4 DEF SearchInv
<1> QED
  BY <1>5, <1>6

\* The way back goes on to the tile the last one was reached from.
LEMMA TraceInv ==
  ASSUME SearchInv, Trace
  PROVE  SearchInv'
<1> DEFINE n == Len(path)
           t == path[n]
<1>1. /\ pc = "trace" /\ t # start /\ path' = Append(path, from[t])
      /\ UNCHANGED <<kTilemap, pc, start, end, search, found>>
  BY DEF Trace
<1>2. /\ queue \in Seq(Tile) /\ Len(queue) \in Nat /\ path \in Seq(Tile) /\ n \in Nat
      /\ from \in [Tile -> Tile]
  BY LenProperties DEF SearchInv, SearchTypeOK
<1>3. WayBack(path) /\ queue[1] = start /\ ~found
  BY <1>1 DEF SearchInv, Progressing
<1>4. PICK k \in 1 .. Len(queue) : t = queue[k] /\ n + k <= Len(queue) + 1
  BY <1>3 DEF WayBack
<1>5. n >= 1 /\ path[1] = end
  BY <1>2, <1>3, EmptySeq DEF WayBack
<1> HIDE DEF n, t
<1>6. k \in 2 .. Len(queue)
  BY <1>1, <1>2, <1>3, <1>4
<1>7. PICK j \in 1 .. k - 1 : from[t] = queue[j] /\ Adjacent(queue[j], t)
  BY <1>4, <1>6 DEF SearchInv, Reached
<1>8. Open(t) /\ t \in Tile
  BY <1>2, <1>4, <1>6, ElementOfSeq DEF SearchInv, Reached
<1>9. /\ path' \in Seq(Tile) /\ Len(path') = n + 1
      /\ \A m \in 1 .. n : path'[m] = path[m]
      /\ path'[n + 1] = from[t]
  BY <1>1, <1>2, <1>8 DEF n
<1>10. WayBack(path)'
  <2>1. path' # <<>> /\ path'[1] = end'
    BY <1>1, <1>2, <1>5, <1>9 DEF search
  <2>2. /\ j \in 1 .. Len(queue') /\ path'[Len(path')] = queue'[j]
        /\ Len(path') + j <= Len(queue') + 1
    BY <1>1, <1>2, <1>4, <1>6, <1>7, <1>9 DEF search
  <2>3. ASSUME NEW m \in 1 .. Len(path') - 1
        PROVE  /\ TileTypeSafe(path'[m]) = kTileOpen
               /\ Adjacent(path'[m + 1], path'[m])
    <3>1. CASE m = n
      BY <1>2, <1>5, <1>7, <1>8, <1>9, <3>1 DEF Open, t
    <3>2. CASE m # n
      <4>1. m \in 1 .. n - 1 /\ m \in 1 .. n /\ m + 1 \in 1 .. n
        BY <1>2, <1>9, <3>2
      <4>2. path'[m] = path[m] /\ path'[m + 1] = path[m + 1]
        BY <1>9, <4>1
      <4>3. Open(path[m]) /\ Adjacent(path[m + 1], path[m])
        BY <1>3, <4>1 DEF WayBack, n
      <4> QED
        BY <4>2, <4>3 DEF Open
    <3> QED
      BY <3>1, <3>2
  <2> QED
    BY <1>1, <2>1, <2>2, <2>3 DEF WayBack, Open, TileTypeSafe, Adjacent
<1>11. Len(path') <= Room
  <2>1. Len(queue) <= Room
    BY <1>2, QueueHasRoom DEF SearchInv, Marked
  <2>2. Room \in Nat
    BY MapSizeAssumption DEF Room
  <2> QED
    BY <1>2, <1>4, <1>6, <1>9, <2>1, <2>2
<1>12. SearchTypeOK'
  BY <1>1, <1>9 DEF SearchInv, SearchTypeOK, search
<1>13. Marked' /\ Reached'
  <2>1. UNCHANGED <<kTilemap, checked, from, queue>>
    BY <1>1 DEF search
  <2> QED
    BY <2>1 DEF SearchInv, Marked, Reached, Open, TileTypeSafe
<1>14. Progressing'
  BY <1>1, <1>10 DEF SearchInv, Progressing, search
<1>15. ReturnsPath'
  BY <1>1, <1>3 DEF ReturnsPath
<1> QED
  BY <1>11, <1>12, <1>13, <1>14, <1>15 DEF SearchInv

\* The way back, reversed, is a path.
LEMMA ReturnInv ==
  ASSUME SearchInv, Return
  PROVE  SearchInv'
<1> DEFINE n == Len(path)
<1>1. /\ pc = "trace" /\ path[n] = start /\ pc' = "idle" /\ found' = TRUE
      /\ path' = [k \in 1 .. n |-> path[n + 1 - k]]
      /\ UNCHANGED <<kTilemap, start, end, search>>
  BY DEF Return
<1>2. path \in Seq(Tile) /\ n \in Nat /\ path \in [1 .. n -> Tile]
  BY LenProperties DEF SearchInv, SearchTypeOK
<1>3. WayBack(path)
  BY <1>1 DEF SearchInv, Progressing
<1>4. n >= 1 /\ path[1] = end
  BY <1>2, <1>3, EmptySeq DEF WayBack
<1>5. /\ path' \in Seq(Tile) /\ Len(path') = n
      /\ \A k \in 1 .. n : path'[k] = path[n + 1 - k]
  <2>1. path' \in [1 .. n -> Tile]
    <3>1. \A k \in 1 .. n : path[n + 1 - k] \in Tile
      BY <1>2
    <3> QED
      BY <1>1, <3>1
  <2>2. path' \in Seq(Tile)
    BY <1>2, <2>1, SeqDef
  <2>3. Len(path') = n
    BY <1>2, <2>1, <2>2, LenProperties
  <2> QED
    BY <1>1, <2>2, <2>3
<1>6. \A m \in 1 .. n - 1 : Open(path[m]) /\ Adjacent(path[m + 1], path[m])
  BY <1>3 DEF WayBack
<1> HIDE DEF n
<1>7. path'[1] = start /\ path'[n] = end
  BY <1>1, <1>2, <1>4, <1>5
<1>8. ASSUME NEW k \in 1 .. n - 1
      PROVE  Open(path'[k + 1]) /\ Adjacent(path'[k], path'[k + 1])
  <2>1. k \in 1 .. n /\ k + 1 \in 1 .. n /\ n - k \in 1 .. n - 1
    BY <1>2
  <2>2. path'[k] = path[(n - k) + 1] /\ path'[k + 1] = path[n - k]
    <3>1. path'[k] = path[n + 1 - k] /\ path'[k + 1] = path[n + 1 - (k + 1)]
      BY <1>5, <2>1
    <3>2. n + 1 - k = (n - k) + 1 /\ n + 1 - (k + 1) = n - k
      BY <1>2
    <3> QED
      BY <3>1, <3>2
  <2>3. Open(path[n - k]) /\ Adjacent(path[(n - k) + 1], path[n - k])
    BY <1>6, <2>1
  <2> QED
    BY <2>2, <2>3
<1>9. IsPath(path)'
  <2>1. start' = start /\ end' = end /\ kTilemap' = kTilemap
    BY <1>1
  <2>2. path'[1] = start' /\ path'[Len(path')] = end'
    BY <1>5, <1>7, <2>1
  <2>3. ASSUME NEW k \in 1 .. Len(path') - 1
        PROVE  Open(path[k + 1])' /\ Adjacent(path[k], path[k + 1])'
    <3>1. Open(path'[k + 1]) /\ Adjacent(path'[k], path'[k + 1])
      BY <1>5, <1>8
    <3>2. Open(path[k + 1])' <=> Open(path'[k + 1])
      BY <2>1 DEF Open, TileTypeSafe
    <3>3. Adjacent(path[k], path[k + 1])' <=> Adjacent(path'[k], path'[k + 1])
      BY DEF Adjacent
    <3> QED
      BY ONLY <3>1, <3>2, <3>3
  <2> QED
    BY ONLY <2>2, <2>3 DEF IsPath
<1>10. ReturnsPath'
  BY <1>9 DEF ReturnsPath
<1>11. SearchTypeOK'
  <2>1. UNCHANGED <<kTilemap, start, end, checked, from, queue, queue_ptr, i>>
    BY <1>1 DEF search
  <2>2. SearchTypeOK
    BY DEF SearchInv
  <2> QED
    BY ONLY <1>1, <1>5, <2>1, <2>2 DEF SearchTypeOK
<1>12. Marked' /\ Reached'
  <2>1. UNCHANGED <<kTilemap, checked, from, queue>>
    BY <1>1 DEF search
  <2>2. Marked /\ Reached
    BY DEF SearchInv
  <2>3. Marked'
    BY ONLY <2>1, <2>2 DEF Marked
  <2>4. Reached'
    BY ONLY <2>1, <2>2 DEF Reached, Open, TileTypeSafe
  <2> QED
    BY ONLY <2>3, <2>4
<1> QED
  BY <1>1, <1>5, <1>10, <1>11, <1>12 DEF SearchInv, Progressing, n

-----------------------------------------------------------------------------
(* The invariant of the search and what follows from it.                    *)

LEMMA SearchInitInv == Init => SearchInv
<1>1. SUFFICES ASSUME Init PROVE SearchInv
  OBVIOUS
<1>2. <<0, 0>> \in Tile /\ Room \in Nat
  BY MapSizeAssumption DEF Tile, Room
<1>3. SearchTypeOK
  <2>1. kTilemap \in [Tile -> TileType]
    BY <1>1, MapsAssumption DEF Init
  <2>2. from \in [Tile -> Tile] /\ queue \in Seq(Tile) /\ path \in Seq(Tile)
    BY <1>1, <1>2 DEF Init
  <2>3. queue_ptr \in 0 .. Len(queue) /\ i \in 1 .. kMaxNeighbor
    BY <1>1, EmptySeq DEF Init, kMaxNeighbor
  <2> QED
    BY <1>1, <1>2, <2>1, <2>2, <2>3, PositionAssumption DEF Init, SearchTypeOK
<1>4. Marked /\ Reached
  BY <1>1 DEF Init, Marked, Reached
<1> QED
  BY <1>1, <1>2, <1>3, <1>4 DEF Init, SearchInv, Progressing, ReturnsPath

LEMMA SearchNextInv == SearchInv /\ [Next]_vars => SearchInv'
<1>1. SUFFICES ASSUME SearchInv, [Next]_vars PROVE SearchInv'
  OBVIOUS
<1>2. ASSUME pc' = "idle" \/ pc' = pc,
             UNCHANGED <<kTilemap, start, end, search, path, found>>
      PROVE  SearchInv'
  <2>1. SearchTypeOK'
    BY <1>1, <1>2 DEF SearchInv, SearchTypeOK, search
  <2>2. Marked' /\ Reached'
    BY <1>1, <1>2 DEF SearchInv, Marked, Reached, Open, TileTypeSafe, search
  <2>3. Progressing'
    BY <1>1, <1>2 DEF SearchInv, Progressing, WayBack, Open, TileTypeSafe, search
  <2>4. ReturnsPath'
    BY <1>1, <1>2 DEF SearchInv, ReturnsPath, IsPath, Open, TileTypeSafe
  <2> QED
    BY <1>1, <1>2, <2>1, <2>2, <2>3, <2>4 DEF SearchInv
<1>3. CASE UNCHANGED vars
  BY <1>2, <1>3 DEF vars
<1>4. CASE NoPath
  BY <1>2, <1>4 DEF NoPath
<1>5. CASE Pop
  BY <1>1, <1>5, PopInv
<1>6. CASE Look
  BY <1>1, <1>6, LookInv
<1>7. CASE Trace
  BY <1>1, <1>7, TraceInv
<1>8. CASE Return
  BY <1>1, <1>8, ReturnInv
<1>9. CASE \E s, e \in Position : PathTo(s, e)
  BY <1>1, <1>9, PathToInv
<1> QED
  BY <1>1, <1>3, <1>4, <1>5, <1>6, <1>7, <1>8, <1>9 DEF Next, Searching

LEMMA SearchInvariant == Spec => []SearchInv
  BY SearchInitInv, SearchNextInv, PTL DEF Spec

\* For every map, whatever is asked for, PathTo writes neither its queue nor
\* its path beyond the end of the array.
THEOREM ArraysSuffice == Spec => []FitsArrays
<1>1. SearchInv => FitsArrays
  <2>1. SUFFICES ASSUME SearchInv PROVE FitsArrays
    OBVIOUS
  <2>2. queue \in Seq(Tile)
    BY <2>1 DEF SearchInv, SearchTypeOK
  <2> QED
    BY <2>1, <2>2, QueueHasRoom DEF SearchInv, Marked, FitsArrays
<1> QED
  BY <1>1, SearchInvariant, PTL

\* For every map, what PathTo returns leads over open tiles from the start to
\* the end that were asked for.
THEOREM PathsAreWalkable == Spec => []ReturnsPath
<1>1. SearchInv => ReturnsPath
  BY DEF SearchInv
<1> QED
  BY <1>1, SearchInvariant, PTL

-----------------------------------------------------------------------------
(* The balls of tiles within n moves of the start, as Search defines them.  *)

\* Every nonempty set of naturals has a least member.
LEMMA LeastNumber ==
  ASSUME NEW T, T \subseteq Nat, T # {}
  PROVE  \E n \in T : \A m \in T : n <= m
<1> DEFINE R == {ss \in Nat \X Nat : ss[1] < ss[2]}
<1>1. IsWellFoundedOn(R, Nat)
  BY NatLessThanWellFounded DEF OpToRel
<1>2. PICK n \in T : \A m \in T : ~ (<<m, n>> \in R)
  BY <1>1, WFMin
<1>3. \A m \in T : ~ (m < n)
  BY <1>2
<1> QED
  BY <1>3

\* The ball that is one move larger.
Grown(ball) == ball \cup {t \in Tile : Open(t) /\ \E s \in ball : Adjacent(s, t)}

\* f is the recursive function Within is chosen as, up to m moves.
IsBall(f, m) == f = [n \in 0 .. m |-> IF n = 0 THEN {start} ELSE Grown(f[n - 1])]

\* There is such a function: the one for n - 1 moves extends to n.
LEMMA BallsExist ==
  ASSUME NEW m \in Nat
  PROVE  \E f : IsBall(f, m)
<1> DEFINE T == {n \in Nat : ~ \E f : IsBall(f, n)}
<1>1. SUFFICES ASSUME T # {} PROVE FALSE
  OBVIOUS
<1>2. PICK n \in T : \A k \in T : n <= k
  BY <1>1, LeastNumber
<1>3. CASE n = 0
  <2>1. IsBall([k \in 0 .. n |-> {start}], n)
    BY <1>3 DEF IsBall
  <2> QED
    BY <1>2, <2>1
<1>4. CASE n # 0
  <2>1. n - 1 \in Nat /\ n - 1 \notin T
    BY <1>2, <1>4
  <2>2. PICK f : IsBall(f, n - 1)
    BY <2>1
  <2> DEFINE g == [k \in 0 .. n |-> IF k = n THEN Grown(f[n - 1]) ELSE f[k]]
  <2>3. \A k \in 0 .. n - 1 : f[k] = IF k = 0 THEN {start} ELSE Grown(f[k - 1])
    BY <2>2 DEF IsBall
  <2>4. ASSUME NEW k \in 0 .. n
        PROVE  g[k] = IF k = 0 THEN {start} ELSE Grown(g[k - 1])
    <3>1. CASE k = n
      <4>1. g[k] = Grown(f[n - 1])
        BY <3>1
      <4>2. g[k - 1] = f[n - 1]
        BY <2>1, <3>1
      <4> QED
        BY <1>4, <3>1, <4>1, <4>2
    <3>2. CASE k # n
      <4>1. k \in 0 .. n - 1 /\ g[k] = f[k]
        BY <3>2, <2>1
      <4>2. k # 0 => g[k - 1] = f[k - 1]
        BY <4>1, <2>1
      <4> QED
        BY <2>3, <4>1, <4>2
    <3> QED
      BY <3>1, <3>2
  <2>5. g = [k \in 0 .. n |-> IF k = 0 THEN {start} ELSE Grown(g[k - 1])]
    BY <2>4
  <2>6. IsBall(g, n)
    BY <2>5 DEF IsBall
  <2> QED
    BY <1>2, <2>6
<1> QED
  BY <1>3, <1>4

\* Within is what its definition says it is.
LEMMA WithinIsBall ==
  /\ Within[0] = {start}
  /\ \A n \in 1 .. Room : Within[n] = Grown(Within[n - 1])
<1>1. Room \in Nat
  BY MapSizeAssumption DEF Room
<1>2. \E f : IsBall(f, Room)
  BY <1>1, BallsExist
<1>3. Within = CHOOSE f : IsBall(f, Room)
  BY DEF Within, IsBall, Grown
<1>4. IsBall(Within, Room)
  BY <1>2, <1>3
<1>5. \A n \in 0 .. Room :
        Within[n] = IF n = 0 THEN {start} ELSE Grown(Within[n - 1])
  <2> DEFINE e(n) == IF n = 0 THEN {start} ELSE Grown(Within[n - 1])
  <2>1. Within = [n \in 0 .. Room |-> e(n)]
    BY <1>4 DEF IsBall
  <2> HIDE DEF e
  <2>2. \A n \in 0 .. Room : Within[n] = e(n)
    BY <2>1
  <2> QED
    BY <2>2 DEF e
<1> QED
  BY <1>1, <1>5

\* kNeighbor leaves out none of the positions around a tile.
LEMMA NeighborsAreAdjacent ==
  ASSUME NEW s \in Tile, NEW t \in Tile, Adjacent(s, t)
  PROVE  \E n \in 1 .. kMaxNeighbor : t = Neighbor(s, n)
<1>1. /\ s[1] \in Int /\ s[2] \in Int /\ t[1] \in Int /\ t[2] \in Int
      /\ s = <<s[1], s[2]>> /\ t = <<t[1], t[2]>>
  BY MapSizeAssumption DEF Tile
<1> DEFINE dx == t[1] - s[1]
           dy == t[2] - s[2]
<1>2. dx \in -1 .. 1 /\ dy \in -1 .. 1 /\ ~(dx = 0 /\ dy = 0)
  BY <1>1 DEF Adjacent
<1>3. t[1] = s[1] + dx /\ t[2] = s[2] + dy
  BY <1>1
<1> HIDE DEF dx, dy
<1>4. PICK n \in 1 .. kMaxNeighbor : kNeighbor[n] = <<dx, dy>>
  BY <1>2 DEF kNeighbor, kMaxNeighbor
<1> QED
  BY <1>1, <1>3, <1>4 DEF Neighbor

-----------------------------------------------------------------------------
(* The queue grows in layers: in the order of the moves from the start.    *)

\* The entries of the queue whose neighbors were all looked at, as far as they
\* matter to what the search will return or has returned.
Expanded ==
  IF pc = "pop" THEN 1 .. queue_ptr
  ELSE IF pc # "idle" \/ found THEN 1 .. queue_ptr - 1
  ELSE IF TileOk(start) /\ TileOk(end) THEN 1 .. queue_ptr ELSE {}

\* d tells how many moves from the start each entry of the queue is: as many as
\* it takes along `from', never fewer than those before it, and at most one more
\* than those that are still to be expanded.
Layers(d) ==
  /\ d \in [1 .. Len(queue) -> Nat]
  /\ queue # <<>> => d[1] = 0
  /\ \A j, k \in 1 .. Len(queue) : j <= k => d[j] <= d[k]
  /\ \A k \in 2 .. Len(queue) :
       \E j \in 1 .. k - 1 : from[queue[k]] = queue[j] /\ d[k] = d[j] + 1
  /\ \A j, k \in 1 .. Len(queue) : queue_ptr <= j => d[k] <= d[j] + 1

\* The n-th neighbor of entry k is in the queue, at most one move further.
Covers(d, k, n) ==
  Open(Neighbor(queue[k], n)) =>
    \E m \in 1 .. Len(queue) : queue[m] = Neighbor(queue[k], n) /\ d[m] <= d[k] + 1

\* The neighbors that were looked at are in the queue.
Expansion(d) ==
  /\ \A k \in Expanded, n \in 1 .. kMaxNeighbor : Covers(d, k, n)
  /\ pc = "look" => \A n \in 1 .. i - 1 : Covers(d, queue_ptr, n)

\* The end is the entry that was popped last, or not among those popped.
Arrival(d) ==
  /\ \A k \in Expanded : queue[k] # end
  /\ pc = "look" => queue[queue_ptr] # end
  /\ pc = "trace" =>
       \E k \in 1 .. Len(queue) :
         path[Len(path)] = queue[k] /\ Len(path) - 1 + d[k] = d[queue_ptr]
  /\ pc = "trace" \/ (pc = "idle" /\ found) =>
       /\ queue_ptr \in 1 .. Len(queue)
       /\ queue[queue_ptr] = end /\ queue[1] = start
  /\ pc = "idle" /\ found => Len(path) - 1 = d[queue_ptr]
  /\ pc = "idle" /\ ~found /\ TileOk(start) /\ TileOk(end) /\ checked # {} =>
       queue_ptr = Len(queue) /\ queue # <<>> /\ queue[1] = start

\* The strengthening that makes shortest paths inductive.
LayersInv == \E d : Layers(d) /\ Expansion(d) /\ Arrival(d)

\* What the lemmas below use of the type invariant.
LEMMA QueueTypes ==
  ASSUME SearchInv
  PROVE  /\ queue \in Seq(Tile) /\ Len(queue) \in Nat /\ queue_ptr \in 0 .. Len(queue)
         /\ path \in Seq(Tile) /\ Len(path) \in Nat /\ i \in 1 .. 8
         /\ (queue # <<>> => Len(queue) >= 1)
  BY LenProperties, EmptySeq DEF SearchInv, SearchTypeOK, kMaxNeighbor

\* Popping asks less of the layers.
LEMMA LayersKept ==
  ASSUME NEW d, Layers(d), UNCHANGED <<queue, from>>,
         Len(queue) \in Nat, queue_ptr \in Nat, queue_ptr' \in Nat, queue_ptr' >= queue_ptr
  PROVE  Layers(d)'
  BY DEF Layers

\* Nothing leaves the queue.
LEMMA CoversKept ==
  ASSUME NEW d, NEW k, NEW n, Covers(d, k, n), UNCHANGED <<kTilemap, queue>>
  PROVE  Covers(d, k, n)'
  BY DEF Covers, Open, TileTypeSafe, TileOk, Neighbor

\* Steps at which the queue stays what it is.
LEMMA ExpansionKept ==
  ASSUME NEW d, Expansion(d), UNCHANGED <<kTilemap, queue>>,
         Expanded' \subseteq Expanded, pc' # "look"
  PROVE  Expansion(d)'
  BY CoversKept DEF Expansion

\* A call starts with the start in a layer of its own.
LEMMA PathToLayers ==
  ASSUME SearchInv, LayersInv, NEW s \in Position, NEW e \in Position, PathTo(s, e)
  PROVE  LayersInv'
<1>1. pc = "idle" /\ start' = s /\ end' = e /\ found' = FALSE /\ kTilemap' = kTilemap
  BY DEF PathTo
<1>2. CASE TileOk(s) /\ TileOk(e)
  <2>1. /\ pc' = "pop" /\ checked' = {s} /\ queue' = <<s>> /\ queue_ptr' = 0
    BY <1>2 DEF PathTo
  <2> DEFINE d == [k \in 1 .. 1 |-> 0]
  <2>2. Len(queue') = 1 /\ 1 .. Len(queue') = {1} /\ 2 .. Len(queue') = {}
    BY <2>1
  <2>3. Layers(d)'
    BY <2>1, <2>2 DEF Layers
  <2>4. Expanded' = {}
    BY <2>1 DEF Expanded
  <2>5. Expansion(d)' /\ Arrival(d)'
    BY <2>1, <2>4 DEF Expansion, Arrival
  <2> QED
    BY <2>3, <2>5 DEF LayersInv
<1>3. CASE ~(TileOk(s) /\ TileOk(e))
  <2>1. UNCHANGED <<pc, checked, from, queue, queue_ptr, path>>
    BY <1>3 DEF PathTo
  <2>2. PICK d : Layers(d) /\ Expansion(d) /\ Arrival(d)
    BY DEF LayersInv
  <2>3. Expanded' = {}
    BY <1>1, <1>3, <2>1 DEF Expanded, TileOk
  <2>4. Layers(d)'
    BY <2>1, <2>2, LayersKept, QueueTypes
  <2>5. Expansion(d)'
    BY <1>1, <2>1, <2>3 DEF Expansion
  <2>6. Arrival(d)'
    BY <1>1, <1>3, <2>1, <2>3 DEF Arrival, TileOk
  <2> QED
    BY <2>4, <2>5, <2>6 DEF LayersInv
<1> QED
  BY <1>2, <1>3

\* When the queue has run out, all of its entries were expanded.
LEMMA NoPathLayers ==
  ASSUME SearchInv, LayersInv, NoPath
  PROVE  LayersInv'
<1>1. /\ pc = "pop" /\ queue_ptr = Len(queue) /\ pc' = "idle"
      /\ UNCHANGED <<kTilemap, start, end, checked, from, queue, queue_ptr, path, found>>
  BY DEF NoPath, search
<1>2. ~found /\ queue # <<>> /\ queue[1] = start
  BY <1>1 DEF SearchInv, Progressing
<1>3. PICK d : Layers(d) /\ Expansion(d) /\ Arrival(d)
  BY DEF LayersInv
<1>4. Expanded' \subseteq Expanded
  BY <1>1, <1>2 DEF Expanded
<1>5. Layers(d)'
  BY <1>1, <1>3, LayersKept, QueueTypes
<1>6. Expansion(d)'
  BY <1>1, <1>3, <1>4, ExpansionKept
<1>7. Arrival(d)'
  BY <1>1, <1>2, <1>3, <1>4 DEF Arrival
<1> QED
  BY <1>5, <1>6, <1>7 DEF LayersInv

\* What is popped is as far away as everything that is still to be popped, or
\* nearer.
LEMMA PopLayers ==
  ASSUME SearchInv, LayersInv, Pop
  PROVE  LayersInv'
<1>1. /\ pc = "pop" /\ queue_ptr' = queue_ptr + 1 /\ queue_ptr < Len(queue)
      /\ UNCHANGED <<kTilemap, start, end, checked, from, queue, found>>
  BY DEF Pop
<1>2. queue # <<>> /\ queue[1] = start
  BY <1>1 DEF SearchInv, Progressing
<1>3. PICK d : Layers(d) /\ Expansion(d) /\ Arrival(d)
  BY DEF LayersInv
<1>4. Layers(d)'
  BY <1>1, <1>3, LayersKept, QueueTypes
<1>5. queue_ptr' \in 1 .. Len(queue) /\ queue_ptr' - 1 = queue_ptr
  BY <1>1, QueueTypes
<1>6. CASE queue[queue_ptr + 1] = end
  <2>1. pc' = "trace" /\ path' = <<end>>
    BY <1>6 DEF Pop
  <2>2. Expanded' = Expanded
    BY <1>1, <1>5, <2>1 DEF Expanded
  <2>3. Expansion(d)'
    BY <1>1, <1>3, <2>1, <2>2, ExpansionKept
  <2>4. Len(path') = 1 /\ path'[1] = end
    BY <2>1
  <2>5. d[queue_ptr'] \in Nat
    BY <1>3, <1>5 DEF Layers
  <2>6. path'[Len(path')] = queue'[queue_ptr'] /\ Len(path') - 1 + d[queue_ptr'] = d[queue_ptr']
    BY <1>1, <1>6, <2>4, <2>5
  <2>7. Arrival(d)'
    BY <1>1, <1>2, <1>3, <1>5, <1>6, <2>1, <2>2, <2>6 DEF Arrival
  <2> QED
    BY <1>4, <2>3, <2>7 DEF LayersInv
<1>7. CASE queue[queue_ptr + 1] # end
  <2>1. pc' = "look" /\ i' = 1
    BY <1>7 DEF Pop
  <2>2. Expanded' = Expanded
    BY <1>1, <1>5, <2>1 DEF Expanded
  <2>3. Expansion(d)'
    BY <1>1, <1>3, <2>1, <2>2, CoversKept DEF Expansion
  <2>4. Arrival(d)'
    BY <1>1, <1>3, <1>7, <2>1, <2>2 DEF Arrival
  <2> QED
    BY <1>4, <2>3, <2>4 DEF LayersInv
<1> QED
  BY <1>6, <1>7

\* One tile more of the way back is one move less from the start.
LEMMA TraceLayers ==
  ASSUME SearchInv, LayersInv, Trace
  PROVE  LayersInv'
<1> DEFINE t == path[Len(path)]
<1>1. /\ pc = "trace" /\ pc' = "trace" /\ t # start /\ path' = Append(path, from[t])
      /\ UNCHANGED <<kTilemap, start, end, checked, from, queue, queue_ptr, found>>
  BY DEF Trace, search
<1>2. PICK d : Layers(d) /\ Expansion(d) /\ Arrival(d)
  BY DEF LayersInv
<1>3. PICK k \in 1 .. Len(queue) : t = queue[k] /\ Len(path) - 1 + d[k] = d[queue_ptr]
  BY <1>1, <1>2 DEF Arrival
<1>4. k \in 2 .. Len(queue)
  BY <1>1, <1>2, <1>3, QueueTypes DEF Arrival
<1>5. PICK j \in 1 .. k - 1 : from[t] = queue[j] /\ d[k] = d[j] + 1
  BY <1>2, <1>3, <1>4 DEF Layers
<1>6. t \in Tile /\ from[t] \in Tile
  BY <1>3, QueueTypes, ElementOfSeq DEF SearchInv, SearchTypeOK
<1> HIDE DEF t
<1>7. Len(path') = Len(path) + 1 /\ path'[Len(path')] = queue[j]
  BY <1>1, <1>5, <1>6, QueueTypes
<1>8. /\ j \in 1 .. Len(queue) /\ d[j] \in Nat /\ d[k] \in Nat
      /\ queue_ptr \in 1 .. Len(queue) /\ d[queue_ptr] \in Nat
  <2>1. queue_ptr \in 1 .. Len(queue) /\ d \in [1 .. Len(queue) -> Nat]
    BY <1>1, <1>2 DEF Layers, Arrival
  <2>2. j \in 1 .. Len(queue)
    BY <1>4, QueueTypes
  <2> QED
    BY <2>1, <2>2
<1>9. Expanded' = Expanded
  BY <1>1 DEF Expanded
<1>10. Layers(d)'
  BY <1>1, <1>2, LayersKept, QueueTypes
<1>11. Expansion(d)'
  BY <1>1, <1>2, <1>9, ExpansionKept
<1>12. Len(path') - 1 + d[j] = d[queue_ptr]
  BY <1>3, <1>5, <1>7, <1>8, QueueTypes
<1>13. Arrival(d)'
  BY <1>1, <1>2, <1>7, <1>8, <1>9, <1>12 DEF Arrival
<1> QED
  BY <1>10, <1>11, <1>13 DEF LayersInv

\* The way back has arrived at the start: it is as long as the end is far.
LEMMA ReturnLayers ==
  ASSUME SearchInv, LayersInv, Return
  PROVE  LayersInv'
<1>1. /\ pc = "trace" /\ path[Len(path)] = start /\ pc' = "idle" /\ found' = TRUE
      /\ path' = [k \in 1 .. Len(path) |-> path[Len(path) + 1 - k]]
      /\ UNCHANGED <<kTilemap, start, end, checked, from, queue, queue_ptr>>
  BY DEF Return, search
<1>2. PICK d : Layers(d) /\ Expansion(d) /\ Arrival(d)
  BY DEF LayersInv
<1>3. PICK k \in 1 .. Len(queue) :
        path[Len(path)] = queue[k] /\ Len(path) - 1 + d[k] = d[queue_ptr]
  BY <1>1, <1>2 DEF Arrival
<1>4. k = 1 /\ d[k] = 0
  <2>1. queue # <<>> /\ queue[1] = start /\ 1 \in 1 .. Len(queue)
    BY <1>1, <1>3, QueueTypes DEF SearchInv, Progressing
  <2> QED
    BY <1>1, <1>2, <1>3, <2>1 DEF SearchInv, Marked, Layers
<1>5. Len(path') = Len(path)
  <2>1. path' \in [1 .. Len(path) -> Tile]
    <3>1. path \in [1 .. Len(path) -> Tile]
      BY QueueTypes, LenProperties
    <3>2. \A n \in 1 .. Len(path) : Len(path) + 1 - n \in 1 .. Len(path)
      BY QueueTypes
    <3> QED
      BY <1>1, <3>1, <3>2
  <2>2. path' \in Seq(Tile)
    BY <2>1, QueueTypes, SeqDef
  <2> QED
    BY <2>1, <2>2, QueueTypes, LenProperties
<1>6. Expanded' = Expanded
  BY <1>1 DEF Expanded
<1>7. Layers(d)'
  BY <1>1, <1>2, LayersKept, QueueTypes
<1>8. Expansion(d)'
  BY <1>1, <1>2, <1>6, ExpansionKept
<1>9. Len(path') - 1 = d[queue_ptr]
  BY <1>3, <1>4, <1>5, QueueTypes
<1>10. Arrival(d)'
  BY <1>1, <1>2, <1>6, <1>9 DEF Arrival
<1> QED
  BY <1>7, <1>8, <1>10 DEF LayersInv

\* A new neighbor is one move further than the tile that is expanded; one that
\* was there before is no further.
LEMMA LookLayers ==
  ASSUME SearchInv, LayersInv, Look
  PROVE  LayersInv'
<1> DEFINE t == Neighbor(node, i)
<1>1. /\ pc = "look" /\ UNCHANGED <<kTilemap, start, end, queue_ptr, path, found>>
      /\ IF i < kMaxNeighbor THEN i' = i + 1 /\ pc' = "look" ELSE pc' = "pop"
  BY DEF Look
<1>2. /\ queue_ptr \in 1 .. Len(queue) /\ node = queue[queue_ptr]
      /\ IsNew(t) => t \in Tile
  BY <1>1, AtNode
<1>3. PICK d : Layers(d) /\ Expansion(d) /\ Arrival(d)
  BY DEF LayersInv
<1>4. PICK l, p, n : l = Len(queue) /\ p = queue_ptr /\ n = i
  OBVIOUS
<1>5. l \in Nat /\ p \in 1 .. l /\ n \in 1 .. kMaxNeighbor /\ queue' # <<>>
  <2>1. queue' = queue \/ queue' = Append(queue, t)
    BY DEF Look
  <2>2. queue # <<>>
    BY <1>1 DEF SearchInv, Progressing
  <2> HIDE DEF t
  <2> QED
    BY <1>2, <1>4, <2>1, <2>2, QueueTypes DEF kMaxNeighbor
<1>6. ASSUME NEW e,
             Layers(e)',
             \A k \in 1 .. p, m \in 1 .. kMaxNeighbor :
               Covers(d, k, m) => Covers(e, k, m)',
             Covers(e, p, n)',
             \A k \in 1 .. p : queue'[k] = queue[k]
      PROVE  LayersInv'
  <2>1. Expanded = 1 .. p - 1
    BY <1>1, <1>4 DEF Expanded
  <2>2. \A k \in 1 .. p - 1 : queue[k] # end /\ \A m \in 1 .. kMaxNeighbor : Covers(d, k, m)
    BY <1>3, <2>1 DEF Expansion, Arrival
  <2>3. \A m \in 1 .. n - 1 : Covers(d, p, m)
    BY <1>1, <1>3, <1>4 DEF Expansion
  <2>4. \A k \in 1 .. p - 1 : k \in 1 .. p
    BY <1>5
  <2>5. \A m \in 1 .. n : Covers(e, p, m)'
    <3>1. \A m \in 1 .. n : m = n \/ (m \in 1 .. n - 1 /\ m \in 1 .. kMaxNeighbor)
      BY <1>5 DEF kMaxNeighbor
    <3>2. p \in 1 .. p
      BY <1>5
    <3> QED
      BY <1>6, <2>3, <3>1, <3>2
  <2>6. \A k \in 1 .. p - 1, m \in 1 .. kMaxNeighbor : Covers(e, k, m)'
    BY <1>6, <2>2, <2>4
  <2>7. \A k \in 1 .. p : queue'[k] # end'
    <3>1. queue[p] # end
      BY <1>1, <1>3, <1>4 DEF Arrival
    <3>2. \A k \in 1 .. p : k = p \/ k \in 1 .. p - 1
      BY <1>5
    <3> QED
      BY <1>1, <1>6, <2>2, <3>1, <3>2
  <2>8. CASE n < kMaxNeighbor
    <3>1. pc' = "look" /\ i' = n + 1 /\ i' - 1 = n /\ queue_ptr' = p
      BY <1>1, <1>4, <1>5, <2>8
    <3>2. Expanded' = 1 .. p - 1
      BY <3>1 DEF Expanded
    <3>3. Expansion(e)'
      BY <2>5, <2>6, <3>1, <3>2 DEF Expansion
    <3>4. p \in 1 .. p
      BY <1>5
    <3>5. Arrival(e)'
      BY <2>4, <2>7, <3>1, <3>2, <3>4 DEF Arrival
    <3> QED
      BY <1>6, <3>3, <3>5 DEF LayersInv
  <2>9. CASE n = kMaxNeighbor
    <3>1. pc' = "pop" /\ queue_ptr' = p
      BY <1>1, <1>4, <2>9 DEF kMaxNeighbor
    <3>2. Expanded' = 1 .. p
      BY <3>1 DEF Expanded
    <3>3. Expansion(e)'
      <4>1. \A k \in 1 .. p : k = p \/ k \in 1 .. p - 1
        BY <1>5
      <4> QED
        BY <2>5, <2>6, <2>9, <3>1, <3>2, <4>1 DEF Expansion
    <3>4. Arrival(e)'
      BY <2>7, <3>1, <3>2 DEF Arrival
    <3> QED
      BY <1>6, <3>3, <3>4 DEF LayersInv
  <2> QED
    BY <1>5, <2>8, <2>9 DEF kMaxNeighbor
<1>7. CASE ~IsNew(t)
  <2>1. UNCHANGED <<checked, from, queue>>
    BY <1>7 DEF Look
  <2>2. Layers(d)'
    BY <1>1, <1>3, <2>1, LayersKept, QueueTypes
  <2>3. Covers(d, p, n)
    <3>1. SUFFICES ASSUME Open(t)
                   PROVE  \E m \in 1 .. Len(queue) : queue[m] = t /\ d[m] <= d[p] + 1
      BY <1>2, <1>4 DEF Covers
    <3>2. t \in checked
      BY <1>7, <3>1 DEF IsNew
    <3>3. PICK m \in 1 .. Len(queue) : queue[m] = t
      BY <3>2 DEF SearchInv, Marked
    <3> HIDE DEF t
    <3>4. queue_ptr <= queue_ptr /\ queue_ptr \in 1 .. Len(queue)
      BY <1>2, QueueTypes
    <3>5. d[m] <= d[queue_ptr] + 1
      BY <1>3, <3>3, <3>4 DEF Layers
    <3> QED
      BY <1>4, <3>3, <3>5
  <2>4. \A k \in 1 .. p, m \in 1 .. kMaxNeighbor :
          Covers(d, k, m) => Covers(d, k, m)'
    BY <1>1, <2>1, CoversKept
  <2>5. Covers(d, p, n)'
    BY <1>1, <2>1, <2>3, CoversKept
  <2> QED
    BY <1>6, <2>1, <2>2, <2>4, <2>5
<1>8. CASE IsNew(t)
  <2>1. /\ from' = [from EXCEPT ![t] = node] /\ queue' = Append(queue, t)
        /\ t \in Tile /\ t \notin checked
    BY <1>2, <1>8 DEF Look, IsNew
  <2>2. /\ Len(queue') = l + 1 /\ queue'[l + 1] = t
        /\ \A k \in 1 .. l : queue'[k] = queue[k] /\ queue[k] # t /\ queue[k] \in Tile
    <3>1. \A k \in 1 .. l : queue[k] # t /\ queue[k] \in Tile
      BY <1>4, <2>1, QueueTypes, ElementOfSeq DEF SearchInv, Marked
    <3> HIDE DEF t
    <3> QED
      BY <1>4, <2>1, <3>1, QueueTypes
  <2>3. /\ d \in [1 .. l -> Nat] /\ (1 \in 1 .. l => d[1] = 0)
        /\ \A j, k \in 1 .. l : j <= k => d[j] <= d[k]
        /\ \A k \in 2 .. l :
             \E j \in 1 .. k - 1 : from[queue[k]] = queue[j] /\ d[k] = d[j] + 1
        /\ \A j, k \in 1 .. l : p <= j => d[k] <= d[j] + 1
    <3>1. 1 \in 1 .. l => queue # <<>>
      BY <1>1 DEF SearchInv, Progressing
    <3> QED
      BY <1>3, <1>4, <3>1 DEF Layers
  <2>4. PICK e : e = [k \in 1 .. l + 1 |-> IF k = l + 1 THEN d[p] + 1 ELSE d[k]]
    OBVIOUS
  <2>5. /\ e \in [1 .. l + 1 -> Nat] /\ e[l + 1] = d[p] + 1
        /\ \A k \in 1 .. l : e[k] = d[k]
        /\ p <= p /\ d[p] \in Nat
    BY <1>5, <2>3, <2>4
  <2> HIDE DEF t
  <2>6. Layers(e)'
    <3>1. e[1] = 0
      BY <1>5, <2>3, <2>5
    <3>2. ASSUME NEW j \in 1 .. l + 1, NEW k \in 1 .. l + 1
          PROVE  /\ j <= k => e[j] <= e[k]
                 /\ p <= j => e[k] <= e[j] + 1
      <4>1. \A m \in 1 .. l : d[m] <= d[p] + 1 /\ d[m] \in Nat
        BY <1>5, <2>3, <2>5
      <4>2. \A m \in 1 .. l : p <= m => d[p] <= d[m]
        BY <1>5, <2>3
      <4>3. CASE j \in 1 .. l /\ k \in 1 .. l
        BY <2>3, <2>5, <4>3
      <4>4. CASE j = l + 1 /\ k \in 1 .. l
        BY <1>5, <2>5, <4>1, <4>4
      <4>5. CASE j \in 1 .. l /\ k = l + 1
        BY <1>5, <2>5, <4>1, <4>2, <4>5
      <4>6. CASE j = l + 1 /\ k = l + 1
        BY <2>5, <4>6
      <4>7. (j \in 1 .. l \/ j = l + 1) /\ (k \in 1 .. l \/ k = l + 1)
        BY <1>5
      <4> QED
        BY <4>3, <4>4, <4>5, <4>6, <4>7
    <3>3. ASSUME NEW k \in 2 .. l + 1
          PROVE  \E j \in 1 .. k - 1 : from'[queue'[k]] = queue'[j] /\ e[k] = e[j] + 1
      <4>1. CASE k = l + 1
        <5>1. from'[queue'[k]] = node
          BY <2>1, <2>2, <4>1 DEF SearchInv, SearchTypeOK
        <5>2. queue'[p] = node /\ e[k] = e[p] + 1 /\ p \in 1 .. k - 1
          BY <1>2, <1>4, <1>5, <2>2, <2>5, <4>1
        <5> QED
          BY <5>1, <5>2
      <4>2. CASE k \in 2 .. l
        <5>1. PICK j \in 1 .. k - 1 : from[queue[k]] = queue[j] /\ d[k] = d[j] + 1
          BY <2>3, <4>2
        <5>2. j \in 1 .. l /\ k \in 1 .. l
          BY <1>5, <4>2
        <5>3. from'[queue[k]] = from[queue[k]]
          BY <2>1, <2>2, <5>2 DEF SearchInv, SearchTypeOK
        <5> QED
          BY <2>2, <2>5, <5>1, <5>2, <5>3
      <4> QED
        BY <1>5, <4>1, <4>2
    <3>4. queue_ptr' = p
      BY <1>1, <1>4
    <3> QED
      BY <2>2, <2>5, <3>1, <3>2, <3>3, <3>4 DEF Layers
  <2>7. ASSUME NEW k \in 1 .. p, NEW m \in 1 .. kMaxNeighbor, Covers(d, k, m)
        PROVE  Covers(e, k, m)'
    <3>1. k \in 1 .. l /\ queue'[k] = queue[k] /\ e[k] = d[k] /\ d[k] \in Nat
      BY <1>5, <2>2, <2>3, <2>5
    <3>2. ASSUME Open(Neighbor(queue[k], m))
          PROVE  \E j \in 1 .. l + 1 :
                   queue'[j] = Neighbor(queue[k], m) /\ e[j] <= e[k] + 1
      <4>1. PICK j \in 1 .. l : queue[j] = Neighbor(queue[k], m) /\ d[j] <= d[k] + 1
        BY <1>4, <2>7, <3>2 DEF Covers
      <4>2. queue'[j] = queue[j] /\ e[j] = d[j] /\ j \in 1 .. l + 1
        BY <1>5, <2>2, <2>5
      <4> QED
        BY <3>1, <4>1, <4>2
    <3>3. Open(Neighbor(queue[k], m))' => Open(Neighbor(queue[k], m))
      BY <1>1, <3>1 DEF Open, TileTypeSafe, TileOk, Neighbor
    <3>4. Neighbor(queue[k], m) = Neighbor(queue[k], m)'
      BY <3>1 DEF Neighbor
    <3> QED
      BY <2>2, <3>2, <3>3, <3>4 DEF Covers
  <2>8. Covers(e, p, n)'
    <3>1. Neighbor(queue[p], n)' = t
      BY <1>2, <1>4, <1>5, <2>2 DEF t, Neighbor
    <3>2. l + 1 \in 1 .. Len(queue') /\ e[l + 1] <= e[p] + 1
      BY <1>5, <2>2, <2>5
    <3> QED
      BY <2>2, <3>1, <3>2 DEF Covers
  <2>9. \A k \in 1 .. p : queue'[k] = queue[k]
    BY <1>5, <2>2
  <2> QED
    BY <1>6, <2>6, <2>7, <2>8, <2>9
<1> QED
  BY <1>7, <1>8

\* Before the first call the queue has no entries.
LEMMA LayersInit == Init => LayersInv
<1>1. SUFFICES ASSUME Init PROVE LayersInv
  OBVIOUS
<1> DEFINE d == [k \in 1 .. 0 |-> 0]
<1>2. /\ queue = <<>> /\ Len(queue) = 0 /\ queue_ptr = 0
      /\ 1 .. Len(queue) = {} /\ 2 .. Len(queue) = {} /\ checked = {}
      /\ pc = "idle" /\ ~found
  BY <1>1 DEF Init
<1>3. Layers(d)
  BY <1>2 DEF Layers
<1>4. Expanded = {}
  BY <1>2 DEF Expanded
<1>5. Expansion(d) /\ Arrival(d)
  BY <1>2, <1>4 DEF Expansion, Arrival
<1> QED
  BY <1>3, <1>5 DEF LayersInv

\* Every step keeps the layers.
LEMMA LayersNext == SearchInv /\ LayersInv /\ [Next]_vars => LayersInv'
<1>1. SUFFICES ASSUME SearchInv, LayersInv, [Next]_vars PROVE LayersInv'
  OBVIOUS
<1>2. CASE UNCHANGED vars
  <2>1. UNCHANGED <<kTilemap, pc, start, end, checked, from, queue, queue_ptr, i, path, found>>
    BY <1>2 DEF vars, search
  <2>2. PICK d : Layers(d) /\ Expansion(d) /\ Arrival(d)
    BY <1>1 DEF LayersInv
  <2>3. Expanded' = Expanded
    BY <2>1 DEF Expanded, TileOk
  <2>4. Layers(d)'
    BY <2>1, <2>2 DEF Layers
  <2>5. Expansion(d)'
    BY <2>1, <2>2, <2>3, CoversKept DEF Expansion
  <2>6. Arrival(d)'
    BY <2>1, <2>2, <2>3 DEF Arrival, TileOk
  <2> QED
    BY <2>4, <2>5, <2>6 DEF LayersInv
<1>3. CASE NoPath
  BY <1>1, <1>3, NoPathLayers
<1>4. CASE Pop
  BY <1>1, <1>4, PopLayers
<1>5. CASE Look
  BY <1>1, <1>5, LookLayers
<1>6. CASE Trace
  BY <1>1, <1>6, TraceLayers
<1>7. CASE Return
  BY <1>1, <1>7, ReturnLayers
<1>8. CASE \E s, e \in Position : PathTo(s, e)
  BY <1>1, <1>8, PathToLayers
<1> QED
  BY <1>1, <1>2, <1>3, <1>4, <1>5, <1>6, <1>7, <1>8 DEF Next, Searching

\* The layers are an invariant of the search.
LEMMA LayersInvariant == Spec => []LayersInv
  BY LayersInit, LayersNext, SearchInvariant, PTL DEF Spec

\* What was expanded covers the balls: if all entries that are less than b moves
\* away were expanded, then the tiles within n < b moves, or within n <= b, are
\* entries at most n moves away.
LEMMA BallIsCovered ==
  ASSUME SearchInv, NEW d, Layers(d), NEW b \in Nat,
         queue # <<>>, queue[1] = start,
         \A k \in 1 .. Len(queue) : d[k] < b =>
           \A n \in 1 .. kMaxNeighbor : Covers(d, k, n),
         NEW n \in 0 .. Room, n <= b, NEW t \in Within[n]
  PROVE  \E m \in 1 .. Len(queue) : queue[m] = t /\ d[m] <= n
<1> DEFINE In(k) == \A u \in Within[k] :
                      \E m \in 1 .. Len(queue) : queue[m] = u /\ d[m] <= k
           T == {k \in Nat : k \in 0 .. Room /\ k <= b /\ ~In(k)}
<1>1. SUFFICES ASSUME T # {} PROVE FALSE
  BY DEF T
<1>2. PICK k \in T : \A m \in T : k <= m
  BY <1>1, LeastNumber
<1>3. 1 \in 1 .. Len(queue) /\ d[1] = 0 /\ d \in [1 .. Len(queue) -> Nat] /\ Room \in Nat
  BY QueueTypes, MapSizeAssumption DEF Layers, Room
<1>4. CASE k = 0
  <2>1. In(k)
    BY <1>3, <1>4, WithinIsBall
  <2> QED
    BY <1>2, <2>1
<1>5. CASE k # 0
  <2>1. k \in 1 .. Room /\ k - 1 \in Nat /\ k - 1 \in 0 .. Room /\ k - 1 < b
    BY <1>2, <1>3, <1>5
  <2>2. In(k - 1)
    BY <1>2, <2>1
  <2>3. Within[k] = Grown(Within[k - 1])
    BY <2>1, WithinIsBall
  <2>4. ASSUME NEW u \in Within[k]
        PROVE  \E m \in 1 .. Len(queue) : queue[m] = u /\ d[m] <= k
    <3>1. CASE u \in Within[k - 1]
      <4>1. PICK m \in 1 .. Len(queue) : queue[m] = u /\ d[m] <= k - 1
        BY <2>2, <3>1
      <4>2. d[m] <= k
        BY <1>3, <2>1, <4>1
      <4> QED
        BY <4>1, <4>2
    <3>2. CASE u \notin Within[k - 1]
      <4>1. u \in Tile /\ Open(u) /\ \E s \in Within[k - 1] : Adjacent(s, u)
        BY <2>3, <2>4, <3>2 DEF Grown
      <4>2. PICK j \in 1 .. Len(queue) : Adjacent(queue[j], u) /\ d[j] <= k - 1
        BY <2>2, <4>1
      <4>3. queue[j] \in Tile /\ d[j] \in Nat
        BY <1>3, <4>2, QueueTypes, ElementOfSeq
      <4>4. PICK v \in 1 .. kMaxNeighbor : u = Neighbor(queue[j], v)
        BY <4>1, <4>2, <4>3, NeighborsAreAdjacent
      <4>5. Covers(d, j, v)
        BY <2>1, <4>2, <4>3
      <4>6. PICK m \in 1 .. Len(queue) : queue[m] = u /\ d[m] <= d[j] + 1
        BY <4>1, <4>4, <4>5 DEF Covers
      <4>7. d[m] <= k
        BY <1>3, <2>1, <4>2, <4>3, <4>6
      <4> QED
        BY <4>6, <4>7
    <3> QED
      BY <3>1, <3>2
  <2>5. In(k)
    BY <2>4
  <2> QED
    BY <1>2, <2>5
<1> QED
  BY <1>4, <1>5

-----------------------------------------------------------------------------
\* For every map, the arrays of PathTo hold tiles of the map only, and its
\* indices point into them.
THEOREM SearchTypeCorrect == Spec => []SearchTypeOK
<1>1. SearchInv => SearchTypeOK
  BY DEF SearchInv
<1> QED
  BY <1>1, SearchInvariant, PTL

\* For every map, no path with fewer moves than the one PathTo returns leads
\* from the start to the end: the tiles come from its queue in the order of
\* their distance.
THEOREM PathsAreShortest == Spec => []ReturnsShortestPath
<1>1. SearchInv /\ LayersInv => ReturnsShortestPath
  <2>1. SUFFICES ASSUME SearchInv, LayersInv, found,
                        NEW n \in 0 .. Room, n < Len(path) - 1, end \in Within[n]
                 PROVE  FALSE
    BY DEF SearchInv, ReturnsShortestPath
  <2>2. PICK d : Layers(d) /\ Expansion(d) /\ Arrival(d)
    BY <2>1 DEF LayersInv
  <2>3. pc = "idle"
    BY <2>1 DEF SearchInv, Progressing, SearchTypeOK
  <2>4. /\ queue_ptr \in 1 .. Len(queue) /\ queue[queue_ptr] = end /\ queue[1] = start
        /\ Len(path) - 1 = d[queue_ptr]
    BY <2>1, <2>2, <2>3 DEF Arrival
  <2>5. d \in [1 .. Len(queue) -> Nat] /\ Len(queue) \in Nat /\ queue # <<>> /\ Room \in Nat
    BY <2>1, <2>2, <2>4, QueueTypes, EmptySeq, MapSizeAssumption DEF Layers, Room
  <2>6. ASSUME NEW k \in 1 .. Len(queue), d[k] < d[queue_ptr], NEW v \in 1 .. kMaxNeighbor
        PROVE  Covers(d, k, v)
    <3>1. k < queue_ptr
      <4>1. queue_ptr <= k => d[queue_ptr] <= d[k]
        BY <2>2, <2>4 DEF Layers
      <4>2. d[queue_ptr] \in Nat /\ d[k] \in Nat /\ queue_ptr \in Nat /\ k \in Nat
        BY <2>4, <2>5
      <4> QED
        BY <2>6, <4>1, <4>2
    <3>2. k \in Expanded
      BY <2>1, <2>3, <2>4, <2>5, <3>1 DEF Expanded
    <3> QED
      BY <2>2, <3>2 DEF Expansion
  <2>7. d[queue_ptr] \in Nat /\ n <= d[queue_ptr]
    BY <2>1, <2>4, <2>5
  <2>8. PICK m \in 1 .. Len(queue) : queue[m] = end /\ d[m] <= n
    <3> DEFINE b == d[queue_ptr]
    <3>1. b \in Nat /\ n <= b /\ \A k \in 1 .. Len(queue) : d[k] < b =>
            \A v \in 1 .. kMaxNeighbor : Covers(d, k, v)
      BY <2>6, <2>7
    <3> HIDE DEF b
    <3> QED
      BY <2>1, <2>2, <2>4, <2>5, <3>1, BallIsCovered
  <2>9. m = queue_ptr
    BY <2>1, <2>4, <2>8 DEF SearchInv, Marked
  <2> QED
    BY <2>1, <2>4, <2>5, <2>8, <2>9, QueueTypes
<1> QED
  BY <1>1, SearchInvariant, LayersInvariant, PTL

\* For every map, PathTo returns nullptr only where the end cannot be reached
\* from the start at all.
THEOREM NoPathMeansNone == Spec => []NullOnlyIfNone
<1>1. SearchInv /\ LayersInv => NullOnlyIfNone
  <2>1. SUFFICES ASSUME SearchInv, LayersInv, pc = "idle", ~found, TileOk(start),
                        TileOk(end), checked # {}, end \in Within[Room]
                 PROVE  FALSE
    BY DEF NullOnlyIfNone
  <2>2. PICK d : Layers(d) /\ Expansion(d) /\ Arrival(d)
    BY <2>1 DEF LayersInv
  <2>3. queue_ptr = Len(queue) /\ queue # <<>> /\ queue[1] = start
    BY <2>1, <2>2 DEF Arrival
  <2>4. Expanded = 1 .. Len(queue)
    BY <2>1, <2>3 DEF Expanded
  <2>5. Room \in Nat /\ Room \in 0 .. Room /\ Room <= Room
    BY MapSizeAssumption DEF Room
  <2>6. \A k \in 1 .. Len(queue) : d[k] < Room =>
          \A v \in 1 .. kMaxNeighbor : Covers(d, k, v)
    BY <2>2, <2>4 DEF Expansion
  <2>7. PICK m \in 1 .. Len(queue) : queue[m] = end
    BY <2>1, <2>2, <2>3, <2>5, <2>6, BallIsCovered
  <2> QED
    BY <2>2, <2>4, <2>7 DEF Arrival
<1> QED
  BY <1>1, SearchInvariant, LayersInvariant, PTL

-----------------------------------------------------------------------------
(* Tiles and places in the world.                                           *)

LEMMA Quotient ==
  ASSUME NEW width \in Nat \ {0}, NEW n \in Int
  PROVE  /\ n \div width \in Int
         /\ n % width \in 0 .. width - 1
         /\ n = width * (n \div width) + (n % width)
OBVIOUS

LEMMA QuotientNat ==
  ASSUME NEW width \in Nat \ {0}, NEW n \in Nat
  PROVE  \E q \in Nat, r \in 0 .. width - 1 : n \div width = q /\ n = width * q + r
<1> DEFINE q == n \div width
           r == n % width
<1>1. q \in Int /\ r \in 0 .. width - 1 /\ n = width * q + r
  BY Quotient
<1> HIDE DEF q, r
<1>2. q >= 0
  <2>1. SUFFICES ASSUME q <= -1 PROVE FALSE
    BY <1>1
  <2>2. width * q <= width * (-1)
    BY <1>1, <2>1
  <2> QED
    BY <1>1, <2>2
<1> QED
  BY <1>1, <1>2 DEF q

\* The quotient and the remainder, towards zero.
LEMMA TruncatedIs ==
  ASSUME NEW width \in Nat \ {0}, NEW n \in Int
  PROVE  \E q \in Nat, r \in 0 .. width - 1 :
           \/ n >= 0 /\ Truncated(n, width) = q /\ n = width * q + r
           \/ n < 0 /\ Truncated(n, width) = -q /\ -n = width * q + r
<1>1. CASE n >= 0
  <2>1. PICK q \in Nat, r \in 0 .. width - 1 : n \div width = q /\ n = width * q + r
    BY <1>1, n \in Nat, QuotientNat
  <2>2. Truncated(n, width) = q
    BY <1>1, <2>1 DEF Truncated
  <2> QED
    BY <1>1, <2>1, <2>2
<1>2. CASE n < 0
  <2>1. PICK q \in Nat, r \in 0 .. width - 1 : (-n) \div width = q /\ -n = width * q + r
    BY <1>2, -n \in Nat, QuotientNat
  <2>2. Truncated(n, width) = -q
    BY <1>2, <2>1 DEF Truncated
  <2> QED
    BY <1>2, <2>1, <2>2
<1> QED
  BY <1>1, <1>2

LEMMA SmallerFactor ==
  ASSUME NEW a \in Int, NEW b \in Int, NEW width \in Nat \ {0}, a <= b
  PROVE  width * a <= width * b
OBVIOUS

\* Half a tile.
LEMMA Half ==
  ASSUME NEW width \in Nat \ {0, 1}
  PROVE  \E h \in Nat \ {0} : /\ width \div 2 = h
                              /\ h < width
                              /\ \/ width = 2 * h /\ (width + 1) \div 2 = h
                                 \/ width = 2 * h + 1 /\ (width + 1) \div 2 = h + 1
OBVIOUS

\* Along one axis: what has a tile on the map, and how far its middle is.
LEMMA AxisHasTile ==
  ASSUME NEW width \in Nat \ {0, 1}, NEW size \in Nat \ {0}, NEW n \in Int, NEW tile,
         tile = Truncated(n, width)
  PROVE  /\ tile \in 0 .. size - 1 <=> -width < n /\ n < size * width
         /\ n >= 0 => (tile * width + width \div 2) - n
                         \in 1 - (width + 1) \div 2 .. width \div 2
<1>1. PICK q \in Nat, r \in 0 .. width - 1 :
         \/ n >= 0 /\ tile = q /\ n = width * q + r
         \/ n < 0 /\ tile = -q /\ -n = width * q + r
  <2>1. \E q \in Nat, r \in 0 .. width - 1 :
           \/ n >= 0 /\ Truncated(n, width) = q /\ n = width * q + r
           \/ n < 0 /\ Truncated(n, width) = -q /\ -n = width * q + r
    BY TruncatedIs
  <2> QED
    BY <2>1
<1>2. CASE n >= 0
  <2>1. tile = q /\ n = width * q + r
    BY <1>1, <1>2
  <2>2. q <= size - 1 => n < size * width
    <3>1. SUFFICES ASSUME q + 1 <= size PROVE n < size * width
      OBVIOUS
    <3>2. width * (q + 1) <= width * size
      BY <3>1, SmallerFactor
    <3> QED
      BY <2>1, <3>2
  <2>3. q >= size => n >= size * width
    <3>1. SUFFICES ASSUME size <= q PROVE n >= size * width
      OBVIOUS
    <3>2. width * size <= width * q
      BY <3>1, SmallerFactor
    <3> QED
      BY <2>1, <3>2
  <2>4. (tile * width + width \div 2) - n = width \div 2 - r
    BY <2>1
  <2>5. PICK h \in Nat \ {0} : /\ width \div 2 = h
                               /\ h < width
                               /\ \/ width = 2 * h /\ (width + 1) \div 2 = h
                                  \/ width = 2 * h + 1 /\ (width + 1) \div 2 = h + 1
    BY Half
  <2>6. width \div 2 - r \in 1 - (width + 1) \div 2 .. width \div 2
    BY <2>5
  <2> QED
    BY <1>2, <2>1, <2>2, <2>3, <2>4, <2>6
<1>3. CASE n < 0
  <2>1. tile = -q /\ -n = width * q + r
    BY <1>1, <1>3
  <2>2. q = 0 => -width < n
    BY <2>1
  <2>3. q # 0 => n <= -width
    <3>1. SUFFICES ASSUME 1 <= q PROVE n <= -width
      OBVIOUS
    <3>2. width * 1 <= width * q
      BY <3>1, SmallerFactor
    <3> QED
      BY <2>1, <3>2
  <2>4. n < size * width
    BY <1>3
  <2>5. tile \in 0 .. size - 1 <=> q = 0
    BY <2>1
  <2> QED
    BY <1>3, <2>2, <2>3, <2>4, <2>5
<1> QED
  BY <1>2, <1>3

LEMMA PlacesHaveTiles == ASSUME place \in Int \X Int PROVE PlaceHasTile
<1> DEFINE tile == WorldToTilePos(place)
           x == place[1]
           y == place[2]
<1>1. x \in Int /\ y \in Int /\ tile[1] = Truncated(x, kTileWidth)
      /\ tile[2] = Truncated(y, kTileHeight) /\ tile = <<tile[1], tile[2]>>
  BY DEF WorldToTilePos
<1>2. kTileWidth \in Nat \ {0, 1} /\ kTileHeight \in Nat \ {0, 1}
      /\ kMapWidth \in Nat \ {0} /\ kMapHeight \in Nat \ {0}
  BY TileSizeAssumption, MapSizeAssumption
<1>3. TileOk(tile) <=> tile[1] \in 0 .. kMapWidth - 1 /\ tile[2] \in 0 .. kMapHeight - 1
  BY <1>1 DEF TileOk, Tile
<1>4. /\ TilePosToWorld(tile)[1] = tile[1] * kTileWidth + kTileWidth \div 2
      /\ TilePosToWorld(tile)[2] = tile[2] * kTileHeight + kTileHeight \div 2
  BY DEF TilePosToWorld
<1> DEFINE a == tile[1]
           b == tile[2]
<1>5. /\ a \in 0 .. kMapWidth - 1 <=> -kTileWidth < x /\ x < kMapWidth * kTileWidth
      /\ x >= 0 => (a * kTileWidth + kTileWidth \div 2) - x
                      \in 1 - (kTileWidth + 1) \div 2 .. kTileWidth \div 2
  <2> HIDE DEF a, x
  <2> QED
    BY <1>1, <1>2, AxisHasTile DEF a
<1>6. /\ b \in 0 .. kMapHeight - 1 <=> -kTileHeight < y /\ y < kMapHeight * kTileHeight
      /\ y >= 0 => (b * kTileHeight + kTileHeight \div 2) - y
                      \in 1 - (kTileHeight + 1) \div 2 .. kTileHeight \div 2
  <2> HIDE DEF b, y
  <2> QED
    BY <1>1, <1>2, AxisHasTile DEF b
<1> QED
  BY <1>3, <1>4, <1>5, <1>6 DEF PlaceHasTile

\* From a tile to its middle and back; the middle of kInvalidTile is in tile 0.
LEMMA MiddleIsInTile ==
  ASSUME NEW width \in Nat \ {0, 1}, NEW tile \in Nat \cup {-1}
  PROVE  Truncated(tile * width + width \div 2, width) = IF tile = -1 THEN 0 ELSE tile
<1>1. PICK h \in Nat \ {0} : /\ width \div 2 = h
                             /\ h < width
                             /\ \/ width = 2 * h /\ (width + 1) \div 2 = h
                                \/ width = 2 * h + 1 /\ (width + 1) \div 2 = h + 1
  BY Half
<1> DEFINE n == tile * width + h
<1>2. n \in Int /\ n = width * tile + h /\ (tile = -1 => n < 0) /\ (tile # -1 => n >= 0)
  BY <1>1
<1> HIDE DEF n
<1>3. PICK q \in Nat, r \in 0 .. width - 1 :
         \/ n >= 0 /\ Truncated(n, width) = q /\ n = width * q + r
         \/ n < 0 /\ Truncated(n, width) = -q /\ -n = width * q + r
  <2>1. width \in Nat \ {0} /\ n \in Int
    BY <1>2
  <2>2. \E q \in Nat, r \in 0 .. width - 1 :
           \/ n >= 0 /\ Truncated(n, width) = q /\ n = width * q + r
           \/ n < 0 /\ Truncated(n, width) = -q /\ -n = width * q + r
    BY ONLY <2>1, TruncatedIs
  <2> QED
    BY <2>2
<1>4. CASE tile = -1
  <2>1. Truncated(n, width) = -q /\ -n = width * q + r /\ -n < width
    BY <1>1, <1>2, <1>3, <1>4
  <2>2. q = 0
    <3>1. SUFFICES ASSUME 1 <= q PROVE FALSE
      OBVIOUS
    <3>2. width * 1 <= width * q
      BY <3>1, SmallerFactor
    <3> QED
      BY <2>1, <3>2
  <2> QED
    BY <1>1, <1>4, <2>1, <2>2 DEF n
<1>5. CASE tile # -1
  <2>1. Truncated(n, width) = q /\ n = width * q + r /\ tile \in Nat
    BY <1>2, <1>3, <1>5
  <2>2. q <= tile
    <3>1. SUFFICES ASSUME tile + 1 <= q PROVE FALSE
      BY <2>1
    <3>2. width * (tile + 1) <= width * q
      BY <2>1, <3>1, SmallerFactor
    <3> QED
      BY <1>1, <1>2, <2>1, <3>2
  <2>3. tile <= q
    <3>1. SUFFICES ASSUME q + 1 <= tile PROVE FALSE
      BY <2>1
    <3>2. width * (q + 1) <= width * tile
      BY <2>1, <3>1, SmallerFactor
    <3> QED
      BY <1>1, <1>2, <2>1, <3>2
  <2> QED
    BY <1>1, <1>5, <2>1, <2>2, <2>3 DEF n
<1> QED
  BY <1>4, <1>5

LEMMA GoalFound ==
  ASSUME NEW type, WorldPositionOfTile(type)
  PROVE  GoalIsNear'
<1> DEFINE tiles_of == {t \in Tile : kDefaultMap[t] = type}
           near(t) == {t} \cup {Neighbor(t, v) : v \in 1 .. kMaxNeighbor}
           sought == {t \in Tile : kTilemap[t] = type}
<1>1. CASE tiles_of = {}
  BY <1>1 DEF WorldPositionOfTile, GoalIsNear
<1>2. CASE tiles_of # {}
  <2>1. PICK first \in tiles_of :
           /\ kTilemap' = [t \in Tile |-> IF Before(t, first) THEN kDefaultMap[t]
                                          ELSE kTilemap[t]]
           /\ goal' = <<type, TilePosToWorld(TileOpenAdjacent(first))'>>
    BY <1>2, Zenon DEF WorldPositionOfTile
  <2>a. PICK at : at = TileOpenAdjacent(first)'
    OBVIOUS
  <2>2. first \in Tile /\ kTilemap'[first] = type
    <3>1. first \in Tile /\ kDefaultMap[first] = type
      OBVIOUS
    <3>2. first[1] \in Int
      BY <3>1, MapSizeAssumption DEF Tile
    <3>3. Before(first, first)
      BY <3>2 DEF Before
    <3> QED
      BY <2>1, <3>1, <3>3
  <2>3. goal'[1] = type /\ goal'[2] = TilePosToWorld(at)
    BY <2>1, <2>a DEF TilePosToWorld
  <2>4. \/ at \in near(first) /\ Open(at)' /\ at \in Tile
        \/ at = kInvalidTile /\ \A n \in near(first) : ~Open(n)'
    <3>1. CASE Open(first)'
      BY <2>2, <2>a, <3>1 DEF TileOpenAdjacent
    <3>2. CASE ~Open(first)' /\ OpenNeighbors(first)' = {}
      BY <2>a, <3>2 DEF TileOpenAdjacent, OpenNeighbors
    <3>3. CASE ~Open(first)' /\ OpenNeighbors(first)' # {}
      <4> DEFINE N == OpenNeighbors(first)'
      <4>1. N \subseteq Nat /\ N # {} /\ N \subseteq 1 .. kMaxNeighbor
        BY <3>3 DEF OpenNeighbors
      <4>2. Min(N) \in N
        <5> HIDE DEF N
        <5> QED
          BY <4>1, LeastNumber DEF Min
      <4>3. at = Neighbor(first, Min(N))
        BY <2>a, <3>3 DEF TileOpenAdjacent
      <4>4. Open(at)'
        BY <4>2, <4>3 DEF OpenNeighbors
      <4>5. at \in Tile
        BY <4>4 DEF Open, TileTypeSafe, TileOk, kTileBlock, kTileOpen
      <4> QED
        BY <4>1, <4>2, <4>3, <4>4, <4>5
    <3> QED
      BY <3>1, <3>2, <3>3
  <2>5. at \in Tile => WorldToTilePos(TilePosToWorld(at)) = at
    <3>1. SUFFICES ASSUME at \in Tile PROVE WorldToTilePos(TilePosToWorld(at)) = at
      OBVIOUS
    <3>2. at = <<at[1], at[2]>> /\ at[1] \in Nat /\ at[2] \in Nat
      BY <3>1, MapSizeAssumption DEF Tile
    <3> DEFINE a == at[1]
               b == at[2]
    <3>3. Truncated(a * kTileWidth + kTileWidth \div 2, kTileWidth) = a
      <4> HIDE DEF a
      <4> QED
        BY <3>2, MiddleIsInTile, TileSizeAssumption DEF a
    <3>4. Truncated(b * kTileHeight + kTileHeight \div 2, kTileHeight) = b
      <4> HIDE DEF b
      <4> QED
        BY <3>2, MiddleIsInTile, TileSizeAssumption DEF b
    <3> QED
      BY <3>2, <3>3, <3>4 DEF WorldToTilePos, TilePosToWorld
  <2>6. WorldToTilePos(TilePosToWorld(kInvalidTile)) = <<0, 0>>
    <3>1. Truncated((-1) * kTileWidth + kTileWidth \div 2, kTileWidth) = 0
      BY MiddleIsInTile, TileSizeAssumption
    <3>2. Truncated((-1) * kTileHeight + kTileHeight \div 2, kTileHeight) = 0
      BY MiddleIsInTile, TileSizeAssumption
    <3> QED
      BY <3>1, <3>2 DEF WorldToTilePos, TilePosToWorld, kInvalidTile
  <2>7. (WorldToTilePos(goal[2]))' = WorldToTilePos(TilePosToWorld(at))
    BY <2>3 DEF WorldToTilePos
  <2>8. \/ at \in near(first) /\ Open(at)' /\ (WorldToTilePos(goal[2]))' = at
        \/ (WorldToTilePos(goal[2]))' = <<0, 0>> /\ \A n \in near(first) : ~Open(n)'
    BY <2>4, <2>5, <2>6, <2>7
  <2> QED
    BY <2>2, <2>3, <2>8 DEF GoalIsNear
<1> QED
  BY <1>1, <1>2

\* avoidance is what TileAvoidWalls has summed up after every neighbor.
IsAvoidance(avoidance, open) ==
  avoidance = [k \in 0 .. kMaxNeighbor |->
                 IF k = 0 THEN <<0, 0>>
                 ELSE IF k \in open THEN avoidance[k - 1]
                 ELSE Away(avoidance[k - 1], k)]

\* There is such a sum.
LEMMA AvoidanceExists ==
  ASSUME NEW open
  PROVE  \E avoidance : IsAvoidance(avoidance, open)
<1> DEFINE step(a, k) == IF k \in open THEN a ELSE Away(a, k)
           a1 == step(<<0, 0>>, 1)
           a2 == step(a1, 2)
           a3 == step(a2, 3)
           a4 == step(a3, 4)
           a5 == step(a4, 5)
           a6 == step(a5, 6)
           a7 == step(a6, 7)
           a8 == step(a7, 8)
           f == [k \in 0 .. 8 |->
                   IF k = 0 THEN <<0, 0>> ELSE IF k = 1 THEN a1 ELSE IF k = 2 THEN a2
                   ELSE IF k = 3 THEN a3 ELSE IF k = 4 THEN a4 ELSE IF k = 5 THEN a5
                   ELSE IF k = 6 THEN a6 ELSE IF k = 7 THEN a7 ELSE a8]
           g == [k \in 0 .. 8 |-> IF k = 0 THEN <<0, 0>>
                                  ELSE IF k \in open THEN f[k - 1]
                                  ELSE Away(f[k - 1], k)]
<1>1. /\ f[0] = <<0, 0>> /\ f[1] = a1 /\ f[2] = a2 /\ f[3] = a3 /\ f[4] = a4
      /\ f[5] = a5 /\ f[6] = a6 /\ f[7] = a7 /\ f[8] = a8
  <2> HIDE DEF a1, a2, a3, a4, a5, a6, a7, a8
  <2> QED
    OBVIOUS
<1>2. /\ a1 = step(<<0, 0>>, 1) /\ a2 = step(a1, 2) /\ a3 = step(a2, 3)
      /\ a4 = step(a3, 4) /\ a5 = step(a4, 5) /\ a6 = step(a5, 6)
      /\ a7 = step(a6, 7) /\ a8 = step(a7, 8)
  <2> HIDE DEF step
  <2> QED
    OBVIOUS
<1> HIDE DEF a1, a2, a3, a4, a5, a6, a7, a8
<1>3. ASSUME NEW k \in 0 .. 8
      PROVE  f[k] = g[k]
  <2> HIDE DEF f
  <2>1. g[k] = IF k = 0 THEN <<0, 0>> ELSE step(f[k - 1], k)
    OBVIOUS
  <2> HIDE DEF g, step
  <2>2. k = 0 \/ k = 1 \/ k = 2 \/ k = 3 \/ k = 4 \/ k = 5 \/ k = 6 \/ k = 7 \/ k = 8
    OBVIOUS
  <2> QED
    BY <1>1, <1>2, <2>1, <2>2
<1>4. f = g
  <2>1. f = [k \in 0 .. 8 |-> f[k]] /\ g = [k \in 0 .. 8 |-> g[k]]
    OBVIOUS
  <2> HIDE DEF f, g
  <2> QED
    BY <1>3, <2>1
<1> QED
  BY <1>4 DEF IsAvoidance, kMaxNeighbor

LEMMA WallsPushInwards == PushedInwards
<1> DEFINE tile == WorldToTilePos(place)
           open == OpenNeighbors(tile)
           push == TileAvoidWalls(tile)
<1> SUFFICES ASSUME TileOk(tile)
             PROVE  /\ tile[1] = 0 => push[1] >= 0
                    /\ tile[2] = 0 => push[2] >= 0
                    /\ tile[1] = kMapWidth - 1 => push[1] <= 0
                    /\ tile[2] = kMapHeight - 1 => push[2] <= 0
  BY DEF PushedInwards
<1>1. PICK avoidance : IsAvoidance(avoidance, open) /\ push = avoidance[8]
  <2>1. \E avoidance : IsAvoidance(avoidance, open)
    BY AvoidanceExists
  <2>2. push = (CHOOSE avoidance : IsAvoidance(avoidance, open))[8]
    BY DEF TileAvoidWalls, IsAvoidance, kMaxNeighbor
  <2> QED
    BY <2>1, <2>2
<1>2. tile \in Tile /\ tile[1] \in Int /\ tile[2] \in Int
  BY MapSizeAssumption DEF TileOk, Tile
<1>3. \A v \in open : v \in 1 .. 8 /\ Neighbor(tile, v) \in Tile
  BY DEF OpenNeighbors, Open, TileTypeSafe, TileOk, kTileBlock, kTileOpen, kMaxNeighbor
<1> HIDE DEF tile, open, push
<1>7. /\ kNeighbor[1] = <<-1, 0>> /\ kNeighbor[2] = <<1, 0>> /\ kNeighbor[3] = <<0, 1>>
      /\ kNeighbor[4] = <<0, -1>> /\ kNeighbor[5] = <<1, 1>> /\ kNeighbor[6] = <<-1, 1>>
      /\ kNeighbor[7] = <<1, -1>> /\ kNeighbor[8] = <<-1, -1>>
  BY DEF kNeighbor
<1>4. /\ tile[1] = 0 => 1 \notin open /\ 6 \notin open /\ 8 \notin open
      /\ tile[2] = 0 => 4 \notin open /\ 7 \notin open /\ 8 \notin open
      /\ tile[1] = kMapWidth - 1 => 2 \notin open /\ 5 \notin open /\ 7 \notin open
      /\ tile[2] = kMapHeight - 1 => 3 \notin open /\ 5 \notin open /\ 6 \notin open
  <2>1. ASSUME NEW v \in open
        PROVE  /\ v \in 1 .. 8
               /\ tile[1] + kNeighbor[v][1] \in 0 .. kMapWidth - 1
               /\ tile[2] + kNeighbor[v][2] \in 0 .. kMapHeight - 1
    <3>1. Neighbor(tile, v) \in Tile /\ v \in 1 .. 8
      BY <1>3
    <3> QED
      BY <3>1 DEF Neighbor, Tile
  <2>2. kMapWidth \in Nat /\ kMapHeight \in Nat
    BY MapSizeAssumption
  <2> QED
    BY <1>2, <1>7, <2>1, <2>2
<1> DEFINE a(k) == avoidance[k]
           dx(k) == IF k \in open THEN 0 ELSE kNeighbor[k][1]
           dy(k) == IF k \in open THEN 0 ELSE kNeighbor[k][2]
<1>5. /\ a(0) = <<0, 0>>
      /\ \A k \in 1 .. 8 : a(k) = IF k \in open THEN a(k - 1) ELSE Away(a(k - 1), k)
  BY <1>1 DEF IsAvoidance, kMaxNeighbor
<1>6. \A k \in 1 .. 8 : kNeighbor[k][1] \in -1 .. 1 /\ kNeighbor[k][2] \in -1 .. 1
  BY DEF kNeighbor
<1> HIDE DEF a
<1>8. ASSUME NEW k \in 1 .. 8, a(k - 1)[1] \in Int, a(k - 1)[2] \in Int
      PROVE  /\ a(k)[1] \in Int /\ a(k)[1] = a(k - 1)[1] - dx(k)
             /\ a(k)[2] \in Int /\ a(k)[2] = a(k - 1)[2] - dy(k)
  BY <1>5, <1>6, <1>8 DEF Away
<1>9. a(0)[1] = 0 /\ a(0)[2] = 0
  BY <1>5
<1> HIDE DEF dx, dy
<1>10. /\ a(1)[1] \in Int /\ a(1)[1] = a(0)[1] - dx(1)
       /\ a(1)[2] \in Int /\ a(1)[2] = a(0)[2] - dy(1)
  BY <1>8, <1>9
<1>11. /\ a(2)[1] \in Int /\ a(2)[1] = a(1)[1] - dx(2)
       /\ a(2)[2] \in Int /\ a(2)[2] = a(1)[2] - dy(2)
  BY <1>8, <1>10
<1>12. /\ a(3)[1] \in Int /\ a(3)[1] = a(2)[1] - dx(3)
       /\ a(3)[2] \in Int /\ a(3)[2] = a(2)[2] - dy(3)
  BY <1>8, <1>11
<1>13. /\ a(4)[1] \in Int /\ a(4)[1] = a(3)[1] - dx(4)
       /\ a(4)[2] \in Int /\ a(4)[2] = a(3)[2] - dy(4)
  BY <1>8, <1>12
<1>14. /\ a(5)[1] \in Int /\ a(5)[1] = a(4)[1] - dx(5)
       /\ a(5)[2] \in Int /\ a(5)[2] = a(4)[2] - dy(5)
  BY <1>8, <1>13
<1>15. /\ a(6)[1] \in Int /\ a(6)[1] = a(5)[1] - dx(6)
       /\ a(6)[2] \in Int /\ a(6)[2] = a(5)[2] - dy(6)
  BY <1>8, <1>14
<1>16. /\ a(7)[1] \in Int /\ a(7)[1] = a(6)[1] - dx(7)
       /\ a(7)[2] \in Int /\ a(7)[2] = a(6)[2] - dy(7)
  BY <1>8, <1>15
<1>17. /\ a(8)[1] \in Int /\ a(8)[1] = a(7)[1] - dx(8)
       /\ a(8)[2] \in Int /\ a(8)[2] = a(7)[2] - dy(8)
  BY <1>8, <1>16
<1>18. /\ dx(1) \in -1 .. 0 /\ dx(2) \in 0 .. 1 /\ dx(3) = 0 /\ dx(4) = 0
       /\ dx(5) \in 0 .. 1 /\ dx(6) \in -1 .. 0 /\ dx(7) \in 0 .. 1 /\ dx(8) \in -1 .. 0
  BY <1>7 DEF dx
<1>19. /\ dy(1) = 0 /\ dy(2) = 0 /\ dy(3) \in 0 .. 1 /\ dy(4) \in -1 .. 0
       /\ dy(5) \in 0 .. 1 /\ dy(6) \in 0 .. 1 /\ dy(7) \in -1 .. 0 /\ dy(8) \in -1 .. 0
  BY <1>7 DEF dy
<1>20. /\ tile[1] = 0 => dx(1) = -1 /\ dx(6) = -1 /\ dx(8) = -1
       /\ tile[1] = kMapWidth - 1 => dx(2) = 1 /\ dx(5) = 1 /\ dx(7) = 1
  BY <1>4, <1>7 DEF dx
<1>21. /\ tile[2] = 0 => dy(4) = -1 /\ dy(7) = -1 /\ dy(8) = -1
       /\ tile[2] = kMapHeight - 1 => dy(3) = 1 /\ dy(5) = 1 /\ dy(6) = 1
  BY <1>4, <1>7 DEF dy
<1>22. /\ push[1] = -(dx(1) + dx(2) + dx(5) + dx(6) + dx(7) + dx(8))
       /\ push[2] = -(dy(3) + dy(4) + dy(5) + dy(6) + dy(7) + dy(8))
  <2>1. a(2)[1] = -(dx(1) + dx(2)) /\ a(2)[2] = 0
    BY <1>9, <1>10, <1>11, <1>18, <1>19
  <2>2. a(4)[1] = a(2)[1] /\ a(4)[2] = -(dy(3) + dy(4))
    BY <1>11, <1>12, <1>13, <1>18, <1>19, <2>1
  <2>3. /\ a(6)[1] = a(2)[1] - dx(5) - dx(6)
        /\ a(6)[2] = a(4)[2] - dy(5) - dy(6)
    BY <1>13, <1>14, <1>15, <1>18, <1>19, <2>2
  <2>4. /\ a(8)[1] = a(6)[1] - dx(7) - dx(8)
        /\ a(8)[2] = a(6)[2] - dy(7) - dy(8)
    BY <1>15, <1>16, <1>17, <1>18, <1>19
  <2>5. a(8)[1] = -(dx(1) + dx(2) + dx(5) + dx(6) + dx(7) + dx(8))
    BY <1>18, <2>1, <2>3, <2>4
  <2>6. a(8)[2] = -(dy(3) + dy(4) + dy(5) + dy(6) + dy(7) + dy(8))
    BY <1>19, <2>2, <2>3, <2>4
  <2> QED
    BY <1>1, <2>5, <2>6 DEF a
<1> QED
  BY <1>18, <1>19, <1>20, <1>21, <1>22

\* On every map, with tiles of every size, and wherever units go.
THEOREM TilesAlwaysNamePlaces == TilesSpec => []TilesNamePlaces
<1> DEFINE Inv == place \in Int \X Int /\ GoalIsNear
<1>1. TilesInit => Inv
  BY TileSizeAssumption DEF TilesInit, GoalIsNear
<1>2. Inv /\ [TilesNext]_<<kTilemap, tiles>> => Inv'
  <2> SUFFICES ASSUME Inv, [TilesNext]_<<kTilemap, tiles>> PROVE Inv'
    OBVIOUS
  <2>1. CASE Walk \/ UNCHANGED <<kTilemap, tiles>>
    <3>1. place' \in Int \X Int /\ UNCHANGED <<kTilemap, goal>>
      BY <2>1, TileSizeAssumption DEF Walk, tiles
    <3> QED
      BY <3>1 DEF GoalIsNear, Open, TileTypeSafe
  <2>2. CASE \E type \in TileType \ {kTileOpen, kTileBlock} : WorldPositionOfTile(type)
    <3>1. PICK type : WorldPositionOfTile(type)
      BY <2>2
    <3>2. place' = place
      BY <3>1 DEF WorldPositionOfTile
    <3> QED
      BY <3>1, <3>2, GoalFound
  <2> QED
    BY <2>1, <2>2 DEF TilesNext
<1>3. Inv => TilesNamePlaces
  BY PlacesHaveTiles, WallsPushInwards DEF TilesNamePlaces
<1> QED
  BY <1>1, <1>2, <1>3, PTL DEF TilesSpec

-----------------------------------------------------------------------------
(* Vectors and matrices, entry by entry.                                    *)

LEMMA TransposeEntries ==
  ASSUME NEW m, NEW k \in 1 .. 4, NEW l \in 1 .. 4
  PROVE  Transpose(m)[k][l] = m[l][k]
BY DEF Transpose, Entry

LEMMA MatMatEntries ==
  ASSUME NEW a, NEW b, NEW k \in 1 .. 4, NEW l \in 1 .. 4
  PROVE  MatMat(a, b)[k][l] = a[k][1] * b[1][l] + a[k][2] * b[2][l]
                                + a[k][3] * b[3][l] + a[k][4] * b[4][l]
<1> DEFINE e(n, j) == a[n][1] * b[1][j] + a[n][2] * b[2][j]
                        + a[n][3] * b[3][j] + a[n][4] * b[4][j]
<1>1. MatMat(a, b) = << <<e(1, 1), e(1, 2), e(1, 3), e(1, 4)>>,
                        <<e(2, 1), e(2, 2), e(2, 3), e(2, 4)>>,
                        <<e(3, 1), e(3, 2), e(3, 3), e(3, 4)>>,
                        <<e(4, 1), e(4, 2), e(4, 3), e(4, 4)>> >>
  BY Zenon DEF MatMat, Entry
<1> HIDE DEF e
<1>2. MatMat(a, b)[k][l] = e(k, l)
  BY <1>1
<1> QED
  BY <1>2, ZenonT(40) DEF e

LEMMA TranslationEntries ==
  ASSUME NEW t, NEW k \in 1 .. 4, NEW l \in 1 .. 4
  PROVE  CreateTranslationMatrix(t)[k][l]
           = IF l = 4 THEN t[k] ELSE IF k = l THEN t[4] ELSE 0
BY DEF CreateTranslationMatrix, Entry

LEMMA DiagonalEntries ==
  ASSUME NEW v, NEW k \in 1 .. 4, NEW l \in 1 .. 4
  PROVE  Diagonal(v)[k][l] = IF k = l THEN v[k] ELSE 0
BY DEF Diagonal, Entry

LEMMA ViewEntries ==
  ASSUME NEW t, NEW q, NEW k \in 1 .. 4, NEW l \in 1 .. 4
  PROVE  CreateViewMatrix(t, q)[k][l]
           = IF l = 4 /\ k # 4 THEN -t[k] * Transpose(CreateRotationMatrix(q))[4][4]
             ELSE Transpose(CreateRotationMatrix(q))[k][l] * t[4]
<1> DEFINE mat == Transpose(CreateRotationMatrix(q))
<1>1. CreateViewMatrix(t, q) = Entry(LAMBDA i_, j_ : IF j_ = 4 /\ i_ # 4 THEN -t[i_] * mat[4][4]
                                                    ELSE mat[i_][j_] * t[4])
  BY DEF CreateViewMatrix
<1> HIDE DEF mat
<1> QED
  BY <1>1 DEF Entry, mat

LEMMA RotationEntries ==
  ASSUME NEW q, NEW w, NEW x, NEW y, NEW z, w = q[1], x = q[2], y = q[3], z = q[4],
         NEW n, n = w * w + x * x + y * y + z * z,
         NEW r, r = CreateRotationMatrix(q)
  PROVE  /\ r[1][1] = n - 2 * y * y - 2 * z * z
         /\ r[2][1] = 2 * x * y - 2 * w * z
         /\ r[3][1] = 2 * x * z + 2 * w * y
         /\ r[4][1] = 0
         /\ r[1][2] = 2 * x * y + 2 * w * z
         /\ r[2][2] = n - 2 * x * x - 2 * z * z
         /\ r[3][2] = 2 * y * z - 2 * w * x
         /\ r[4][2] = 0
         /\ r[1][3] = 2 * x * z - 2 * w * y
         /\ r[2][3] = 2 * y * z + 2 * w * x
         /\ r[3][3] = n - 2 * x * x - 2 * y * y
         /\ r[4][3] = 0
         /\ r[1][4] = 0 /\ r[2][4] = 0 /\ r[3][4] = 0 /\ r[4][4] = n
<1> DEFINE a == n - 2 * y * y - 2 * z * z
           b == 2 * x * y - 2 * w * z
           c == 2 * x * z + 2 * w * y
           d == 2 * x * y + 2 * w * z
           e == n - 2 * x * x - 2 * z * z
           f == 2 * y * z - 2 * w * x
           g == 2 * x * z - 2 * w * y
           h == 2 * y * z + 2 * w * x
           o == n - 2 * x * x - 2 * y * y
           m == << <<a, b, c, 0>>, <<d, e, f, 0>>, <<g, h, o, 0>>, <<0, 0, 0, n>> >>
<1>1. r = Transpose(m)
  BY DEF CreateRotationMatrix
<1> HIDE DEF a, b, c, d, e, f, g, h, o
<1>2. \A k \in 1 .. 4, l \in 1 .. 4 : r[k][l] = m[l][k]
  <2> HIDE DEF m
  <2> QED
    BY <1>1, TransposeEntries
<1>3. /\ r[1][1] = a /\ r[2][1] = b /\ r[3][1] = c /\ r[4][1] = 0
      /\ r[1][2] = d /\ r[2][2] = e /\ r[3][2] = f /\ r[4][2] = 0
      /\ r[1][3] = g /\ r[2][3] = h /\ r[3][3] = o /\ r[4][3] = 0
      /\ r[1][4] = 0 /\ r[2][4] = 0 /\ r[3][4] = 0 /\ r[4][4] = n
  BY <1>2
<1> QED
  BY <1>3 DEF a, b, c, d, e, f, g, h, o

\* Turned by a quaternion of length n, a vector is n times as long.
IsRotation(r, n) ==
  /\ n \in Int
  /\ \A k, l \in 1 .. 3 : r[k][l] \in Int
  /\ \A k \in 1 .. 3 : r[k][4] = 0 /\ r[4][k] = 0
  /\ r[4][4] = n
  /\ \A k, l \in 1 .. 3 :
       r[1][k] * r[1][l] + r[2][k] * r[2][l] + r[3][k] * r[3][l]
         = IF k = l THEN n * n ELSE 0

Quaternion == Int \X Int \X Int \X Int

Length(q) == q[1] * q[1] + q[2] * q[2] + q[3] * q[3] + q[4] * q[4]

LEMMA ColumnsAreOrthogonal ==
  ASSUME NEW w \in Int, NEW x \in Int, NEW y \in Int, NEW z \in Int,
         NEW n, n = w * w + x * x + y * y + z * z,
         NEW a, a = n - 2 * y * y - 2 * z * z,
         NEW b, b = 2 * x * y - 2 * w * z,
         NEW c, c = 2 * x * z + 2 * w * y,
         NEW d, d = 2 * x * y + 2 * w * z,
         NEW e, e = n - 2 * x * x - 2 * z * z,
         NEW f, f = 2 * y * z - 2 * w * x,
         NEW g, g = 2 * x * z - 2 * w * y,
         NEW h, h = 2 * y * z + 2 * w * x,
         NEW o, o = n - 2 * x * x - 2 * y * y
  PROVE  /\ a * a + b * b + c * c = n * n
         /\ d * d + e * e + f * f = n * n
         /\ g * g + h * h + o * o = n * n
         /\ a * d + b * e + c * f = 0
         /\ a * g + b * h + c * o = 0
         /\ d * g + e * h + f * o = 0
<1>1. a * a + b * b + c * c = n * n
  OBVIOUS
<1>2. d * d + e * e + f * f = n * n
  OBVIOUS
<1>3. g * g + h * h + o * o = n * n
  OBVIOUS
<1>4. a * d + b * e + c * f = 0
  OBVIOUS
<1>5. a * g + b * h + c * o = 0
  OBVIOUS
<1>6. d * g + e * h + f * o = 0
  OBVIOUS
<1> QED
  BY <1>1, <1>2, <1>3, <1>4, <1>5, <1>6

LEMMA RotationIsOrthogonal ==
  ASSUME NEW q \in Quaternion
  PROVE  IsRotation(CreateRotationMatrix(q), Length(q))
<1> DEFINE w == q[1]
           x == q[2]
           y == q[3]
           z == q[4]
           n == w * w + x * x + y * y + z * z
           r == CreateRotationMatrix(q)
           a == r[1][1]
           b == r[2][1]
           c == r[3][1]
           d == r[1][2]
           e == r[2][2]
           f == r[3][2]
           g == r[1][3]
           h == r[2][3]
           o == r[3][3]
<1>1. w \in Int /\ x \in Int /\ y \in Int /\ z \in Int
  BY DEF Quaternion
<1>2. n = Length(q)
  BY DEF Length
<1>3. /\ a = n - 2 * y * y - 2 * z * z
      /\ b = 2 * x * y - 2 * w * z
      /\ c = 2 * x * z + 2 * w * y
      /\ d = 2 * x * y + 2 * w * z
      /\ e = n - 2 * x * x - 2 * z * z
      /\ f = 2 * y * z - 2 * w * x
      /\ g = 2 * x * z - 2 * w * y
      /\ h = 2 * y * z + 2 * w * x
      /\ o = n - 2 * x * x - 2 * y * y
      /\ \A k \in 1 .. 3 : r[k][4] = 0 /\ r[4][k] = 0
      /\ r[4][4] = n
  <2> HIDE DEF r
  <2> QED
    BY RotationEntries DEF r
<1> HIDE DEF w, x, y, z, r
<1>n. n \in Int
  BY <1>1
<1>4. n = w * w + x * x + y * y + z * z
  OBVIOUS
<1> HIDE DEF n
<1>5. /\ a \in Int /\ b \in Int /\ c \in Int /\ d \in Int /\ e \in Int
      /\ f \in Int /\ g \in Int /\ h \in Int /\ o \in Int
  BY <1>1, <1>3, <1>n
<1>6. /\ a * a + b * b + c * c = n * n
      /\ d * d + e * e + f * f = n * n
      /\ g * g + h * h + o * o = n * n
      /\ a * d + b * e + c * f = 0
      /\ a * g + b * h + c * o = 0
      /\ d * g + e * h + f * o = 0
  <2> HIDE DEF a, b, c, d, e, f, g, h, o
  <2> QED
    BY <1>1, <1>3, <1>4, ColumnsAreOrthogonal
<1>7. \A k, l \in 1 .. 3 : r[k][l] \in Int
  BY <1>5
<1>8. ASSUME NEW k \in 1 .. 3, NEW l \in 1 .. 3
      PROVE  r[1][k] * r[1][l] + r[2][k] * r[2][l] + r[3][k] * r[3][l]
               = IF k = l THEN n * n ELSE 0
  <2>1. /\ d * a + e * b + f * c = 0
        /\ g * a + h * b + o * c = 0
        /\ g * d + h * e + o * f = 0
    <3> HIDE DEF a, b, c, d, e, f, g, h, o
    <3> QED
      BY <1>5, <1>6
  <2> QED
    BY <1>6, <2>1
<1>9. IsRotation(r, n)
  BY <1>n, <1>3, <1>7, <1>8 DEF IsRotation
<1> QED
  BY <1>2, <1>9 DEF r

\* A place that is turned and moved.
LEMMA TurnedAndMoved ==
  ASSUME NEW r, NEW n, IsRotation(r, n),
         NEW p \in Place, NEW v \in Place, NEW u,
         u = MatVec(MatMat(r, CreateTranslationMatrix(p)), v)
  PROVE  /\ \A k \in 1 .. 3 :
              u[k] = r[k][1] * (p[4] * v[1] + p[1] * v[4])
                       + r[k][2] * (p[4] * v[2] + p[2] * v[4])
                       + r[k][3] * (p[4] * v[3] + p[3] * v[4])
         /\ u[4] = n * p[4] * v[4]
<1> DEFINE t == CreateTranslationMatrix(p)
           m == MatMat(r, t)
           d == p[4]
<1>1. /\ p[1] \in Int /\ p[2] \in Int /\ p[3] \in Int /\ d \in Int
      /\ v[1] \in Int /\ v[2] \in Int /\ v[3] \in Int /\ v[4] \in Int
  BY DEF Place
<1>2. /\ t[1][1] = d /\ t[1][2] = 0 /\ t[1][3] = 0 /\ t[1][4] = p[1]
      /\ t[2][1] = 0 /\ t[2][2] = d /\ t[2][3] = 0 /\ t[2][4] = p[2]
      /\ t[3][1] = 0 /\ t[3][2] = 0 /\ t[3][3] = d /\ t[3][4] = p[3]
      /\ t[4][1] = 0 /\ t[4][2] = 0 /\ t[4][3] = 0 /\ t[4][4] = d
  <2> HIDE DEF t
  <2> QED
    BY TranslationEntries DEF t
<1> HIDE DEF t
<1>3. \A k, l \in 1 .. 4 : m[k][l] = r[k][1] * t[1][l] + r[k][2] * t[2][l]
                                       + r[k][3] * t[3][l] + r[k][4] * t[4][l]
  <2> HIDE DEF m
  <2> QED
    BY MatMatEntries DEF m
<1> HIDE DEF m
<1>4. /\ n \in Int /\ r[4][4] = n
      /\ \A k, l \in 1 .. 3 : r[k][l] \in Int
      /\ \A k \in 1 .. 3 : r[k][4] = 0 /\ r[4][k] = 0
  BY DEF IsRotation
<1>5. ASSUME NEW k \in 1 .. 3
      PROVE  u[k] = r[k][1] * (d * v[1] + p[1] * v[4])
                      + r[k][2] * (d * v[2] + p[2] * v[4])
                      + r[k][3] * (d * v[3] + p[3] * v[4])
  <2>1. u[k] = m[k][1] * v[1] + m[k][2] * v[2] + m[k][3] * v[3] + m[k][4] * v[4]
    BY DEF MatVec, m, t
  <2> DEFINE a == r[k][1]
             b == r[k][2]
             c == r[k][3]
  <2>2. a \in Int /\ b \in Int /\ c \in Int /\ r[k][4] = 0
    BY <1>4
  <2> HIDE DEF a, b, c
  <2>3. /\ m[k][1] = a * t[1][1] + b * t[2][1] + c * t[3][1] + 0 * t[4][1]
        /\ m[k][2] = a * t[1][2] + b * t[2][2] + c * t[3][2] + 0 * t[4][2]
        /\ m[k][3] = a * t[1][3] + b * t[2][3] + c * t[3][3] + 0 * t[4][3]
        /\ m[k][4] = a * t[1][4] + b * t[2][4] + c * t[3][4] + 0 * t[4][4]
    BY <1>3, <2>2 DEF a, b, c
  <2>4. /\ m[k][1] = a * d /\ m[k][2] = b * d /\ m[k][3] = c * d
        /\ m[k][4] = a * p[1] + b * p[2] + c * p[3]
    BY <1>1, <1>2, <2>2, <2>3
  <2>5. u[k] = a * d * v[1] + b * d * v[2] + c * d * v[3]
                 + (a * p[1] + b * p[2] + c * p[3]) * v[4]
    BY <2>1, <2>4
  <2>6. u[k] = a * (d * v[1] + p[1] * v[4]) + b * (d * v[2] + p[2] * v[4])
                 + c * (d * v[3] + p[3] * v[4])
    BY <1>1, <2>2, <2>5
  <2> QED
    BY <2>6 DEF a, b, c
<1>6. u[4] = n * d * v[4]
  <2>1. u[4] = m[4][4] * v[4]
    BY DEF MatVec, m, t
  <2>2. m[4][4] = 0 * p[1] + 0 * p[2] + 0 * p[3] + n * d
    BY <1>2, <1>3, <1>4
  <2>3. m[4][4] = n * d
    BY <1>1, <1>4, <2>2
  <2> QED
    BY <2>1, <2>3
<1> QED
  BY <1>5, <1>6

\* A place that is seen: moved and turned back.
LEMMA Seen ==
  ASSUME NEW q, NEW n, NEW r, r = CreateRotationMatrix(q), IsRotation(r, n),
         NEW p \in Place,
         NEW u, u[1] \in Int, u[2] \in Int, u[3] \in Int, u[4] \in Int,
         NEW v, v = MatVec(CreateViewMatrix(p, q), u)
  PROVE  /\ \A k \in 1 .. 3 :
              v[k] = p[4] * (r[1][k] * u[1] + r[2][k] * u[2] + r[3][k] * u[3])
                       - n * p[k] * u[4]
         /\ v[4] = n * p[4] * u[4]
<1> DEFINE m == CreateViewMatrix(p, q)
           d == p[4]
<1>1. /\ \A k \in 1 .. 3 : p[k] \in Int
      /\ d \in Int
  BY DEF Place
<1>2. /\ n \in Int /\ r[4][4] = n
      /\ \A k, l \in 1 .. 3 : r[k][l] \in Int
  BY DEF IsRotation
<1>3. \A k, l \in 1 .. 4 : Transpose(r)[k][l] = r[l][k]
  BY TransposeEntries
<1>4. \A k, l \in 1 .. 4 : m[k][l] = IF l = 4 /\ k # 4 THEN -p[k] * r[4][4]
                                     ELSE r[l][k] * d
  <2> HIDE DEF m
  <2> QED
    BY <1>3, ViewEntries DEF m
<1>v. v = MatVec(m, u)
  OBVIOUS
<1> HIDE DEF m
<1>5. ASSUME NEW k \in 1 .. 3
      PROVE  v[k] = d * (r[1][k] * u[1] + r[2][k] * u[2] + r[3][k] * u[3])
                      - n * p[k] * u[4]
  <2>1. v[k] = m[k][1] * u[1] + m[k][2] * u[2] + m[k][3] * u[3] + m[k][4] * u[4]
    BY <1>v DEF MatVec
  <2> DEFINE a == r[1][k]
             b == r[2][k]
             c == r[3][k]
             e == p[k]
  <2>2. a \in Int /\ b \in Int /\ c \in Int /\ e \in Int
    BY <1>1, <1>2
  <2>3. /\ m[k][1] = a * d /\ m[k][2] = b * d /\ m[k][3] = c * d
        /\ m[k][4] = -e * n
    BY <1>2, <1>4
  <2> HIDE DEF a, b, c, e
  <2>4. v[k] = a * d * u[1] + b * d * u[2] + c * d * u[3] + (-e * n) * u[4]
    BY <2>1, <2>3
  <2>5. v[k] = d * (a * u[1] + b * u[2] + c * u[3]) - n * e * u[4]
    BY <1>1, <1>2, <2>2, <2>4
  <2> QED
    BY <2>5 DEF a, b, c, e
<1>6. v[4] = n * d * u[4]
  <2>1. v[4] = m[4][4] * u[4]
    BY <1>v DEF MatVec
  <2>2. m[4][4] = n * d
    BY <1>2, <1>4
  <2> QED
    BY <2>1, <2>2
<1> QED
  BY <1>5, <1>6


\* What is turned and moved into the world is seen where it was.
LEMMA SeenWhereItWas ==
  ASSUME NEW q \in Quaternion, NEW p \in Place, NEW v \in Place, NEW w,
         w = MatVec(CreateViewMatrix(p, q),
                    MatVec(MatMat(CreateRotationMatrix(q), CreateTranslationMatrix(p)), v)),
         NEW s, s = p[4] * p[4] * Length(q) * Length(q)
  PROVE  /\ s \in Int
         /\ \A k \in 1 .. 4 : w[k] = s * v[k]
<1> DEFINE n == Length(q)
           r == CreateRotationMatrix(q)
           u == MatVec(MatMat(r, CreateTranslationMatrix(p)), v)
           d == p[4]
<1>1. /\ \A k \in 1 .. 4 : v[k] \in Int
      /\ \A k \in 1 .. 3 : p[k] \in Int
      /\ d \in Int
  BY DEF Place
<1>2. IsRotation(r, n)
  BY RotationIsOrthogonal
<1>3. /\ n \in Int
      /\ \A k, l \in 1 .. 3 : r[k][l] \in Int
  BY <1>2 DEF IsRotation
<1>4. s = d * d * n * n /\ s \in Int
  BY <1>1, <1>3
<1> DEFINE t(k) == d * v[k] + p[k] * v[4]
<1>5. /\ \A k \in 1 .. 3 : u[k] = r[k][1] * t(1) + r[k][2] * t(2) + r[k][3] * t(3)
      /\ u[4] = n * d * v[4]
  <2> HIDE DEF n, r, u
  <2> QED
    BY <1>2, TurnedAndMoved DEF u
<1>6. \A k \in 1 .. 3 : t(k) \in Int
  BY <1>1
<1> DEFINE t1 == t(1)
           t2 == t(2)
           t3 == t(3)
<1>7. t1 \in Int /\ t2 \in Int /\ t3 \in Int
  BY <1>6
<1>8. \A k \in 1 .. 3 : u[k] = r[k][1] * t1 + r[k][2] * t2 + r[k][3] * t3
  BY <1>5
<1> HIDE DEF n, t1, t2, t3, u
<1>9. u[1] \in Int /\ u[2] \in Int /\ u[3] \in Int /\ u[4] \in Int
  BY <1>1, <1>3, <1>5, <1>7, <1>8
<1>10. /\ \A k \in 1 .. 3 :
            w[k] = d * (r[1][k] * u[1] + r[2][k] * u[2] + r[3][k] * u[3]) - n * p[k] * u[4]
       /\ w[4] = n * d * u[4]
  <2>1. w = MatVec(CreateViewMatrix(p, q), u)
    BY DEF u
  <2> HIDE DEF r
  <2> QED
    BY <1>2, <1>9, <2>1, Seen DEF r
<1> DEFINE a1 == r[1][1]
           a2 == r[1][2]
           a3 == r[1][3]
           b1 == r[2][1]
           b2 == r[2][2]
           b3 == r[2][3]
           c1 == r[3][1]
           c2 == r[3][2]
           c3 == r[3][3]
<1>11. /\ a1 \in Int /\ a2 \in Int /\ a3 \in Int /\ b1 \in Int /\ b2 \in Int
       /\ b3 \in Int /\ c1 \in Int /\ c2 \in Int /\ c3 \in Int
  BY <1>3
<1>12. /\ u[1] = a1 * t1 + a2 * t2 + a3 * t3
       /\ u[2] = b1 * t1 + b2 * t2 + b3 * t3
       /\ u[3] = c1 * t1 + c2 * t2 + c3 * t3
  BY <1>8
<1>13. ASSUME NEW k \in 1 .. 3
       PROVE  w[k] = s * v[k]
  <2> DEFINE a == r[1][k]
             b == r[2][k]
             c == r[3][k]
             k1 == a * a1 + b * b1 + c * c1
             k2 == a * a2 + b * b2 + c * c2
             k3 == a * a3 + b * b3 + c * c3
             e == p[k]
             f == v[k]
             g == v[4]
  <2>1. a \in Int /\ b \in Int /\ c \in Int /\ e \in Int /\ f \in Int /\ g \in Int
    BY <1>1, <1>3
  <2>2. /\ k1 = IF k = 1 THEN n * n ELSE 0
        /\ k2 = IF k = 2 THEN n * n ELSE 0
        /\ k3 = IF k = 3 THEN n * n ELSE 0
    BY <1>2 DEF IsRotation
  <2>3. w[k] = d * (a * u[1] + b * u[2] + c * u[3]) - n * e * u[4]
    BY <1>10
  <2>4. a * u[1] + b * u[2] + c * u[3] = k1 * t1 + k2 * t2 + k3 * t3
    <3> HIDE DEF a, b, c, a1, a2, a3, b1, b2, b3, c1, c2, c3, r
    <3> QED
      BY <1>7, <1>11, <1>12, <2>1
  <2>5. k1 * t1 + k2 * t2 + k3 * t3 = n * n * (d * f + e * g)
    <3>1. n * n \in Int
      BY <1>3
    <3> HIDE DEF a, b, c, a1, a2, a3, b1, b2, b3, c1, c2, c3, r, k1, k2, k3
    <3>2. k1 * t1 + k2 * t2 + k3 * t3
            = n * n * (IF k = 1 THEN t1 ELSE IF k = 2 THEN t2 ELSE t3)
      BY <1>7, <2>2, <3>1
    <3>3. (IF k = 1 THEN t1 ELSE IF k = 2 THEN t2 ELSE t3) = d * f + e * g
      BY DEF t1, t2, t3
    <3> QED
      BY <3>2, <3>3
  <2> HIDE DEF a, b, c, a1, a2, a3, b1, b2, b3, c1, c2, c3, r, k1, k2, k3, e, f, g
  <2>6. w[k] = d * (n * n * (d * f + e * g)) - n * e * (n * d * g)
    BY <1>5, <2>3, <2>4, <2>5 DEF g
  <2>7. w[k] = (d * d * n * n) * f
    BY <1>1, <1>3, <2>1, <2>6
  <2> QED
    BY <1>4, <2>7 DEF f
<1>14. w[4] = s * v[4]
  <2> DEFINE g == v[4]
  <2>1. w[4] = n * d * (n * d * g) /\ g \in Int
    BY <1>1, <1>5, <1>10
  <2> HIDE DEF g
  <2>2. w[4] = (d * d * n * n) * g
    BY <1>1, <1>3, <2>1
  <2> QED
    BY <1>4, <2>2 DEF g
<1> QED
  BY <1>4, <1>13, <1>14

LEMMA NotZeroIsInt ==
  ASSUME NEW n \in Int
  PROVE  NotZero(n) \in Int \ {0}
BY DEF NotZero

\* The place in the middle of the window is at the origin, and the window is two
\* units wide and high.
LEMMA Projected ==
  ASSUME dims \in Nat \X Nat,
         NEW w, w = NotZero(dims[1]), NEW h, h = NotZero(dims[2]),
         NEW v, v[1] \in Int, v[2] \in Int, v[3] \in Int, v[4] \in Int,
         NEW u, u = MatVec(SetProjection, v)
  PROVE  /\ u[1] = 2 * h * v[1] /\ u[2] = 2 * w * v[2] /\ u[3] = -2 * w * h * v[3]
         /\ u[4] = w * h * v[4]
<1> DEFINE m == SetProjection
           a == 2 * h * 1
           b == 2 * w * 1
           c == -2 * w * h
           e == w * h * 1
<1>1. w \in Int /\ h \in Int
  BY NotZeroIsInt
<1>2. /\ dims[1] - 0 = dims[1] /\ dims[2] - 0 = dims[2]
      /\ 0 - 0 = 0 /\ NotZero(0) = 1
  BY DEF NotZero
<1>3. m = Diagonal(<<a, b, c, e>>)
  BY <1>2 DEF SetProjection, CreateOrthographicMatrix
<1>4. /\ a \in Int /\ b \in Int /\ c \in Int /\ e \in Int
      /\ a = 2 * h /\ b = 2 * w /\ e = w * h
  BY <1>1
<1>u. u = MatVec(m, v)
  OBVIOUS
<1> HIDE DEF a, b, c, e, m
<1>5. \A k, l \in 1 .. 4 : m[k][l] = IF k = l THEN <<a, b, c, e>>[k] ELSE 0
  BY <1>3, DiagonalEntries
<1>6. /\ m[1][1] = a /\ m[1][2] = 0 /\ m[1][3] = 0 /\ m[1][4] = 0
      /\ m[2][1] = 0 /\ m[2][2] = b /\ m[2][3] = 0 /\ m[2][4] = 0
      /\ m[3][1] = 0 /\ m[3][2] = 0 /\ m[3][3] = c /\ m[3][4] = 0
      /\ m[4][4] = e
  BY <1>5
<1>7. /\ u[1] = m[1][1] * v[1] + m[1][2] * v[2] + m[1][3] * v[3] + m[1][4] * v[4]
      /\ u[2] = m[2][1] * v[1] + m[2][2] * v[2] + m[2][3] * v[3] + m[2][4] * v[4]
      /\ u[3] = m[3][1] * v[1] + m[3][2] * v[2] + m[3][3] * v[3] + m[3][4] * v[4]
      /\ u[4] = m[4][4] * v[4]
  BY <1>u DEF MatVec
<1>8. u[1] = a * v[1] /\ u[2] = b * v[2] /\ u[3] = c * v[3] /\ u[4] = e * v[4]
  BY <1>4, <1>6, <1>7
<1> QED
  BY <1>1, <1>4, <1>8 DEF c

LEMMA TextProjected ==
  ASSUME dims \in Nat \X Nat,
         NEW w, w = NotZero(dims[1]), NEW h, h = NotZero(dims[2]),
         NEW x \in Int, NEW y \in Int,
         NEW right, right = 2 * x - dims[1], NEW up, up = 2 * y - dims[2],
         NEW v, v[1] = x, v[2] = y, v[3] = 0, v[4] = 1,
         NEW u, u = MatVec(TextProjection, v)
  PROVE  /\ u[1] = h * right /\ u[2] = w * up
         /\ u[3] = 0 /\ u[4] = w * h
<1>1. w \in Int /\ h \in Int /\ dims[1] \in Int /\ dims[2] \in Int
  BY NotZeroIsInt
<1>2. /\ dims[1] - 0 = dims[1] /\ dims[2] - 0 = dims[2]
      /\ dims[1] + 0 = dims[1] /\ dims[2] + 0 = dims[2]
      /\ 0 - 0 = 0 /\ 0 + 0 = 0 /\ NotZero(0) = 1
  BY <1>1 DEF NotZero
<1> DEFINE a == 2 * h * 1
           b == 2 * w * 1
           c == -2 * w * h
           e == w * h * 1
           f == -dims[1] * h * 1
           g == -dims[2] * w * 1
           o == -0 * w * h
           m == << <<a, 0, 0, f>>, <<0, b, 0, g>>, <<0, 0, c, o>>, <<0, 0, 0, e>> >>
<1>3. TextProjection = m
  BY <1>2 DEF TextProjection, CreateOrthographicMatrix2
<1>4. /\ a \in Int /\ b \in Int /\ c \in Int /\ e \in Int /\ f \in Int /\ g \in Int
      /\ a = 2 * h /\ b = 2 * w /\ e = w * h /\ o = 0
      /\ f = -dims[1] * h /\ g = -dims[2] * w
  BY <1>1
<1> HIDE DEF a, b, c, e, f, g, o
<1>5. /\ u[1] = a * x + 0 * y + 0 * 0 + f * 1
      /\ u[2] = 0 * x + b * y + 0 * 0 + g * 1
      /\ u[3] = 0 * x + 0 * y + c * 0 + o * 1
      /\ u[4] = e * 1
  BY <1>3 DEF MatVec
<1>6. /\ u[1] = a * x + f /\ u[2] = b * y + g /\ u[3] = 0 /\ u[4] = e
  BY <1>4, <1>5
<1> DEFINE i_ == dims[1]
           j_ == dims[2]
<1>7. /\ u[1] = 2 * h * x + (-i_ * h) /\ u[2] = 2 * w * y + (-j_ * w)
      /\ i_ \in Int /\ j_ \in Int
  BY <1>1, <1>4, <1>6
<1> HIDE DEF i_, j_
<1>8. /\ u[1] = h * (2 * x - i_) /\ u[2] = w * (2 * y - j_)
  BY <1>1, <1>7
<1>9. right = 2 * x - i_ /\ up = 2 * y - j_
  BY DEF i_, j_
<1> QED
  BY <1>4, <1>6, <1>8, <1>9

MatricesTypeOK ==
  /\ cam \in [position : Positions, orientation : Orientations]
  /\ dims \in Nat \X Nat
  /\ cursor \in Nat \X Nat
  /\ line \in Lines

LEMMA MatricesTyped == MatricesSpec => []MatricesTypeOK
<1>1. MatricesInit => MatricesTypeOK
  BY MatricesAssumption DEF MatricesInit, MatricesTypeOK
<1>2. ASSUME MatricesTypeOK, [MatricesNext]_views
      PROVE  MatricesTypeOK'
  <2> USE DEF MatricesTypeOK
  <2>1. ASSUME NEW motion, Update(motion)
        PROVE  MatricesTypeOK'
    BY <1>2, <2>1 DEF Update
  <2>2. ASSUME NEW q \in Orientations, OrientCamera(q)
        PROVE  MatricesTypeOK'
    BY <1>2, <2>2 DEF OrientCamera
  <2>3. ASSUME NEW xy \in Pixels(dims), MoveCursor(xy)
        PROVE  MatricesTypeOK'
    <3>1. xy \in Nat \X Nat
      BY <1>2 DEF Pixels
    <3> QED
      BY <1>2, <2>3, <3>1 DEF MoveCursor
  <2>4. ASSUME NEW l \in Lines, DrawLine(l)
        PROVE  MatricesTypeOK'
    BY <1>2, <2>4 DEF DrawLine
  <2>5. CASE UNCHANGED views
    BY <1>2, <2>5 DEF views
  <2> QED
    BY <1>2, <2>1, <2>2, <2>3, <2>4, <2>5 DEF MatricesNext
<1> QED
  BY <1>1, <1>2, PTL DEF MatricesSpec

\* space.cc, mat_ops.h: ScreenToWorldSpace is the inverse of SetView at every
\* position and for every orientation of the camera, and the projections agree,
\* whatever the size of the window is.
THEOREM ClickIsAlwaysUnderCursor == MatricesSpec => []ClickIsUnderCursor
<1>1. ASSUME MatricesTypeOK
      PROVE  ClickIsUnderCursor
  <2> DEFINE p == cam.position
             q == cam.orientation
             x == cursor[1]
             y == cursor[2]
             w == NotZero(dims[1])
             h == NotZero(dims[2])
             v == CoordToScreen(cursor)
             s == p[4] * p[4] * Length(q) * Length(q)
             seen == MatVec(SetView, CoordToWorld(cursor))
             a == MatVec(SetProjection, seen)
             b == MatVec(TextProjection, Vec3f(x, y, 0))
  <2>1. /\ p \in Place /\ q \in Quaternion
        /\ x \in Int /\ y \in Int /\ dims \in Nat \X Nat
        /\ w \in Int /\ h \in Int
    BY <1>1, MatricesAssumption, NotZeroIsInt DEF MatricesTypeOK, Quaternion
  <2>2. /\ v[1] = 2 * x - dims[1] /\ v[2] = 2 * y - dims[2] /\ v[3] = 0 /\ v[4] = 2
        /\ v \in Place
    BY <2>1 DEF CoordToScreen, Place
  <2>3. /\ s \in Int
        /\ \A k \in 1 .. 4 : seen[k] = s * v[k]
    <3>1. seen = MatVec(CreateViewMatrix(p, q),
                        MatVec(MatMat(CreateRotationMatrix(q), CreateTranslationMatrix(p)), v))
      BY DEF SetView, CoordToWorld, ScreenToWorldSpace
    <3> HIDE DEF p, q, v, seen
    <3> QED
      BY <2>1, <2>2, <3>1, SeenWhereItWas
  <2> HIDE DEF p, q, x, y, v, s, seen
  <2> DEFINE v1 == v[1]
             v2 == v[2]
  <2>4. /\ v1 \in Int /\ v2 \in Int
        /\ seen[1] = s * v1 /\ seen[2] = s * v2 /\ seen[3] = s * 0 /\ seen[4] = s * 2
    BY <2>1, <2>2, <2>3
  <2> HIDE DEF v1, v2
  <2>5. /\ seen[1] \in Int /\ seen[2] \in Int /\ seen[3] \in Int /\ seen[4] \in Int
    BY <2>3, <2>4
  <2>6. /\ a[1] = 2 * h * seen[1] /\ a[2] = 2 * w * seen[2] /\ a[3] = -2 * w * h * seen[3]
        /\ a[4] = w * h * seen[4]
    BY <2>1, <2>5, Projected
  <2>7. /\ b[1] = h * v1 /\ b[2] = w * v2 /\ b[3] = 0 /\ b[4] = w * h
    <3> DEFINE shown == Vec3f(x, y, 0)
    <3>1. v1 = 2 * x - dims[1] /\ v2 = 2 * y - dims[2]
      BY <2>2 DEF v1, v2
    <3>2. /\ w = NotZero(dims[1]) /\ h = NotZero(dims[2])
          /\ b = MatVec(TextProjection, Vec3f(x, y, 0))
      OBVIOUS
    <3> HIDE DEF w, h, b
    <3>3. x \in Int /\ y \in Int /\ dims \in Nat \X Nat
      BY <2>1
    <3>4. /\ shown[1] = x /\ shown[2] = y /\ shown[3] = 0 /\ shown[4] = 1
          /\ b = MatVec(TextProjection, shown)
      BY <3>2 DEF Vec3f
    <3> HIDE DEF shown
    <3> QED
      BY <3>1, <3>2, <3>3, <3>4, TextProjected
  <2> HIDE DEF a, b, w, h
  <2>8. /\ a[1] * b[4] = b[1] * a[4]
        /\ a[2] * b[4] = b[2] * a[4]
        /\ a[3] * b[4] = b[3] * a[4]
    <3>1. /\ a[1] = 2 * h * (s * v1) /\ a[2] = 2 * w * (s * v2) /\ a[3] = 0
          /\ a[4] = w * h * (s * 2)
      BY <2>1, <2>3, <2>4, <2>6
    <3>2. 2 * h * (s * v1) * (w * h) = (h * v1) * (w * h * (s * 2))
      BY <2>1, <2>3, <2>4
    <3>3. 2 * w * (s * v2) * (w * h) = (w * v2) * (w * h * (s * 2))
      BY <2>1, <2>3, <2>4
    <3>4. 0 * (w * h) = 0 * (w * h * (s * 2))
      BY <2>1, <2>3
    <3> QED
      BY <2>7, <3>1, <3>2, <3>3, <3>4
  <2>9. SamePlace(a, b)
    BY <2>8 DEF SamePlace
  <2> QED
    BY <2>9 DEF ClickIsUnderCursor, a, b, seen, x, y
<1> QED
  BY <1>1, MatricesTyped, PTL

-----------------------------------------------------------------------------
(* Affine maps. *)

Vector(v) == \A k \in 1 .. 4 : v[k] \in Int

Affine(m) ==
  /\ \A k, l \in 1 .. 4 : m[k][l] \in Int
  /\ \A l \in 1 .. 3 : m[4][l] = 0

LEMMA MatVecEntries ==
  ASSUME NEW m, NEW v, NEW u, u = MatVec(m, v)
  PROVE  /\ \A k \in 1 .. 3 :
              u[k] = m[k][1] * v[1] + m[k][2] * v[2] + m[k][3] * v[3] + m[k][4] * v[4]
         /\ u[4] = m[4][4] * v[4]
         /\ u = <<u[1], u[2], u[3], u[4]>>
BY DEF MatVec

LEMMA AffineKeepsVectors ==
  ASSUME NEW m, Affine(m), NEW v, Vector(v)
  PROVE  Vector(MatVec(m, v))
<1> DEFINE u == MatVec(m, v)
<1>1. /\ \A k \in 1 .. 3 :
            u[k] = m[k][1] * v[1] + m[k][2] * v[2] + m[k][3] * v[3] + m[k][4] * v[4]
      /\ u[4] = m[4][4] * v[4]
  BY MatVecEntries
<1> HIDE DEF u
<1>2. /\ v[1] \in Int /\ v[2] \in Int /\ v[3] \in Int /\ v[4] \in Int
  BY DEF Vector
<1>3. ASSUME NEW k \in 1 .. 3
      PROVE  u[k] \in Int
  <2>1. m[k][1] \in Int /\ m[k][2] \in Int /\ m[k][3] \in Int /\ m[k][4] \in Int
    BY DEF Affine
  <2> QED
    BY <1>1, <1>2, <2>1
<1>4. u[4] \in Int
  <2>1. m[4][4] \in Int
    BY DEF Affine
  <2> QED
    BY <1>1, <1>2, <2>1
<1>5. Vector(u)
  BY <1>3, <1>4 DEF Vector
<1> QED
  BY <1>5 DEF u

LEMMA ComposedEntries ==
  ASSUME NEW a, Affine(a), NEW b, Affine(b), NEW m, m = MatMat(a, b)
  PROVE  /\ \A k \in 1 .. 4, l \in 1 .. 3 :
              m[k][l] = a[k][1] * b[1][l] + a[k][2] * b[2][l] + a[k][3] * b[3][l]
         /\ \A k \in 1 .. 4 :
              m[k][4] = a[k][1] * b[1][4] + a[k][2] * b[2][4] + a[k][3] * b[3][4]
                          + a[k][4] * b[4][4]
         /\ m[4][4] = a[4][4] * b[4][4]
         /\ Affine(m)
<1>1. ASSUME NEW k \in 1 .. 4, NEW l \in 1 .. 4
      PROVE  /\ m[k][l] = a[k][1] * b[1][l] + a[k][2] * b[2][l] + a[k][3] * b[3][l]
                            + a[k][4] * b[4][l]
             /\ m[k][l] \in Int
  <2>1. m[k][l] = a[k][1] * b[1][l] + a[k][2] * b[2][l] + a[k][3] * b[3][l]
                    + a[k][4] * b[4][l]
    BY MatMatEntries
  <2>2. /\ a[k][1] \in Int /\ a[k][2] \in Int /\ a[k][3] \in Int /\ a[k][4] \in Int
        /\ b[1][l] \in Int /\ b[2][l] \in Int /\ b[3][l] \in Int /\ b[4][l] \in Int
    BY DEF Affine
  <2> QED
    BY <2>1, <2>2
<1>2. ASSUME NEW k \in 1 .. 4, NEW l \in 1 .. 3
      PROVE  m[k][l] = a[k][1] * b[1][l] + a[k][2] * b[2][l] + a[k][3] * b[3][l]
  <2>1. m[k][l] = a[k][1] * b[1][l] + a[k][2] * b[2][l] + a[k][3] * b[3][l]
                    + a[k][4] * b[4][l]
    BY <1>1
  <2>2. /\ a[k][1] \in Int /\ a[k][2] \in Int /\ a[k][3] \in Int /\ a[k][4] \in Int
        /\ b[1][l] \in Int /\ b[2][l] \in Int /\ b[3][l] \in Int /\ b[4][l] = 0
    BY DEF Affine
  <2> QED
    BY <2>1, <2>2
<1>3. \A l \in 1 .. 3 : m[4][l] = 0
  <2> SUFFICES ASSUME NEW l \in 1 .. 3
               PROVE  m[4][l] = 0
    OBVIOUS
  <2>1. m[4][l] = a[4][1] * b[1][l] + a[4][2] * b[2][l] + a[4][3] * b[3][l]
    BY <1>2
  <2>2. /\ a[4][1] = 0 /\ a[4][2] = 0 /\ a[4][3] = 0
        /\ b[1][l] \in Int /\ b[2][l] \in Int /\ b[3][l] \in Int
    BY DEF Affine
  <2> QED
    BY <2>1, <2>2
<1>4. m[4][4] = a[4][4] * b[4][4]
  <2>1. m[4][4] = a[4][1] * b[1][4] + a[4][2] * b[2][4] + a[4][3] * b[3][4]
                    + a[4][4] * b[4][4]
    BY <1>1
  <2>2. /\ a[4][1] = 0 /\ a[4][2] = 0 /\ a[4][3] = 0 /\ a[4][4] \in Int
        /\ b[1][4] \in Int /\ b[2][4] \in Int /\ b[3][4] \in Int /\ b[4][4] \in Int
    BY DEF Affine
  <2> QED
    BY <2>1, <2>2
<1> QED
  BY <1>1, <1>2, <1>3, <1>4 DEF Affine

\* A product of matrices does what they do one after the other.
LEMMA Composed ==
  ASSUME NEW a, Affine(a), NEW b, Affine(b), NEW v, Vector(v)
  PROVE  MatVec(MatMat(a, b), v) = MatVec(a, MatVec(b, v))
<1> DEFINE m == MatMat(a, b)
           u == MatVec(b, v)
           x == MatVec(m, v)
           y == MatVec(a, u)
<1>1. /\ \A k \in 1 .. 4, l \in 1 .. 3 :
            m[k][l] = a[k][1] * b[1][l] + a[k][2] * b[2][l] + a[k][3] * b[3][l]
      /\ \A k \in 1 .. 4 :
            m[k][4] = a[k][1] * b[1][4] + a[k][2] * b[2][4] + a[k][3] * b[3][4]
                        + a[k][4] * b[4][4]
      /\ m[4][4] = a[4][4] * b[4][4]
  BY ComposedEntries
<1> HIDE DEF m
<1>2. /\ \A k \in 1 .. 3 :
            u[k] = b[k][1] * v[1] + b[k][2] * v[2] + b[k][3] * v[3] + b[k][4] * v[4]
      /\ u[4] = b[4][4] * v[4]
  BY MatVecEntries
<1> HIDE DEF u
<1>3. /\ \A k \in 1 .. 3 :
            x[k] = m[k][1] * v[1] + m[k][2] * v[2] + m[k][3] * v[3] + m[k][4] * v[4]
      /\ x[4] = m[4][4] * v[4]
      /\ x = <<x[1], x[2], x[3], x[4]>>
  BY MatVecEntries
<1>4. /\ \A k \in 1 .. 3 :
            y[k] = a[k][1] * u[1] + a[k][2] * u[2] + a[k][3] * u[3] + a[k][4] * u[4]
      /\ y[4] = a[4][4] * u[4]
      /\ y = <<y[1], y[2], y[3], y[4]>>
  BY MatVecEntries
<1> HIDE DEF x, y
<1> DEFINE v1 == v[1]
           v2 == v[2]
           v3 == v[3]
           v4 == v[4]
<1>5. v1 \in Int /\ v2 \in Int /\ v3 \in Int /\ v4 \in Int
  BY DEF Vector
<1>6. ASSUME NEW k \in 1 .. 3
      PROVE  x[k] = y[k]
  <2> DEFINE a1 == a[k][1]
             a2 == a[k][2]
             a3 == a[k][3]
             a4 == a[k][4]
             b11 == b[1][1]
             b12 == b[1][2]
             b13 == b[1][3]
             b14 == b[1][4]
             b21 == b[2][1]
             b22 == b[2][2]
             b23 == b[2][3]
             b24 == b[2][4]
             b31 == b[3][1]
             b32 == b[3][2]
             b33 == b[3][3]
             b34 == b[3][4]
             b44 == b[4][4]
  <2>1. /\ a1 \in Int /\ a2 \in Int /\ a3 \in Int /\ a4 \in Int
        /\ b11 \in Int /\ b12 \in Int /\ b13 \in Int /\ b14 \in Int
        /\ b21 \in Int /\ b22 \in Int /\ b23 \in Int /\ b24 \in Int
        /\ b31 \in Int /\ b32 \in Int /\ b33 \in Int /\ b34 \in Int /\ b44 \in Int
    BY DEF Affine
  <2>2. x[k] = (a1 * b11 + a2 * b21 + a3 * b31) * v1
                 + (a1 * b12 + a2 * b22 + a3 * b32) * v2
                 + (a1 * b13 + a2 * b23 + a3 * b33) * v3
                 + (a1 * b14 + a2 * b24 + a3 * b34 + a4 * b44) * v4
    BY <1>1, <1>3
  <2>3. y[k] = a1 * (b11 * v1 + b12 * v2 + b13 * v3 + b14 * v4)
                 + a2 * (b21 * v1 + b22 * v2 + b23 * v3 + b24 * v4)
                 + a3 * (b31 * v1 + b32 * v2 + b33 * v3 + b34 * v4)
                 + a4 * (b44 * v4)
    BY <1>2, <1>4
  <2> HIDE DEF a1, a2, a3, a4, b11, b12, b13, b14, b21, b22, b23, b24, b31, b32, b33, b34,
               b44, v1, v2, v3, v4
  <2>4. (a1 * b11 + a2 * b21 + a3 * b31) * v1
          + (a1 * b12 + a2 * b22 + a3 * b32) * v2
          + (a1 * b13 + a2 * b23 + a3 * b33) * v3
          + (a1 * b14 + a2 * b24 + a3 * b34 + a4 * b44) * v4
        = a1 * (b11 * v1 + b12 * v2 + b13 * v3 + b14 * v4)
            + a2 * (b21 * v1 + b22 * v2 + b23 * v3 + b24 * v4)
            + a3 * (b31 * v1 + b32 * v2 + b33 * v3 + b34 * v4)
            + a4 * (b44 * v4)
    BY <1>5, <2>1
  <2> QED
    BY <2>2, <2>3, <2>4
<1>7. x[4] = y[4]
  <2> DEFINE c == a[4][4]
             d == b[4][4]
  <2>1. c \in Int /\ d \in Int
    BY DEF Affine
  <2>2. x[4] = (c * d) * v4 /\ y[4] = c * (d * v4)
    BY <1>1, <1>2, <1>3, <1>4
  <2> HIDE DEF c, d, v4
  <2> QED
    BY <1>5, <2>1, <2>2
<1>8. x = y
  BY <1>3, <1>4, <1>6, <1>7
<1> QED
  BY <1>8 DEF x, y, m, u

LEMMA SamePlaceSeen ==
  ASSUME NEW a, Affine(a), NEW u, Vector(u), NEW v, Vector(v), SamePlace(u, v)
  PROVE  SamePlace(MatVec(a, u), MatVec(a, v))
<1> DEFINE x == MatVec(a, u)
           y == MatVec(a, v)
           u4 == u[4]
           v4 == v[4]
           e == a[4][4]
<1>1. /\ \A k \in 1 .. 3 :
            x[k] = a[k][1] * u[1] + a[k][2] * u[2] + a[k][3] * u[3] + a[k][4] * u4
      /\ x[4] = e * u4
  BY MatVecEntries
<1>2. /\ \A k \in 1 .. 3 :
            y[k] = a[k][1] * v[1] + a[k][2] * v[2] + a[k][3] * v[3] + a[k][4] * v4
      /\ y[4] = e * v4
  BY MatVecEntries
<1> HIDE DEF x, y
<1>3. u4 \in Int /\ v4 \in Int /\ e \in Int
  BY DEF Vector, Affine
<1>4. ASSUME NEW k \in 1 .. 3
      PROVE  x[k] * y[4] = y[k] * x[4]
  <2> DEFINE a1 == a[k][1]
             a2 == a[k][2]
             a3 == a[k][3]
             a4 == a[k][4]
             u1 == u[1]
             u2 == u[2]
             u3 == u[3]
             v1 == v[1]
             v2 == v[2]
             v3 == v[3]
  <2>1. /\ a1 \in Int /\ a2 \in Int /\ a3 \in Int /\ a4 \in Int
        /\ u1 \in Int /\ u2 \in Int /\ u3 \in Int
        /\ v1 \in Int /\ v2 \in Int /\ v3 \in Int
    BY DEF Vector, Affine
  <2>2. u1 * v4 = v1 * u4 /\ u2 * v4 = v2 * u4 /\ u3 * v4 = v3 * u4
    BY DEF SamePlace
  <2>3. /\ x[k] = a1 * u1 + a2 * u2 + a3 * u3 + a4 * u4 /\ x[4] = e * u4
        /\ y[k] = a1 * v1 + a2 * v2 + a3 * v3 + a4 * v4 /\ y[4] = e * v4
    BY <1>1, <1>2
  <2> HIDE DEF a1, a2, a3, a4, e, u1, u2, u3, u4, v1, v2, v3, v4
  <2>4. (a1 * u1 + a2 * u2 + a3 * u3 + a4 * u4) * (e * v4)
          = e * (a1 * (u1 * v4) + a2 * (u2 * v4) + a3 * (u3 * v4) + a4 * (u4 * v4))
    BY <1>3, <2>1
  <2>5. (a1 * v1 + a2 * v2 + a3 * v3 + a4 * v4) * (e * u4)
          = e * (a1 * (v1 * u4) + a2 * (v2 * u4) + a3 * (v3 * u4) + a4 * (u4 * v4))
    BY <1>3, <2>1
  <2> QED
    BY <2>2, <2>3, <2>4, <2>5
<1> QED
  BY <1>4 DEF SamePlace, x, y

-----------------------------------------------------------------------------
(* A line between two places. *)

LEMMA RotationIsAffine ==
  ASSUME NEW q \in Quaternion
  PROVE  Affine(CreateRotationMatrix(q))
<1> DEFINE r == CreateRotationMatrix(q)
<1>1. IsRotation(r, Length(q))
  BY RotationIsOrthogonal
<1> HIDE DEF r
<1>2. /\ \A k, l \in 1 .. 3 : r[k][l] \in Int
      /\ \A k \in 1 .. 3 : r[k][4] = 0 /\ r[4][k] = 0
      /\ r[4][4] \in Int
  BY <1>1 DEF IsRotation
<1>3. Affine(r)
  BY <1>2 DEF Affine
<1> QED
  BY <1>3 DEF r

LEMMA TranslationIsAffine ==
  ASSUME NEW t, Vector(t)
  PROVE  Affine(CreateTranslationMatrix(t))
<1> DEFINE m == CreateTranslationMatrix(t)
<1>1. \A k, l \in 1 .. 4 : m[k][l] = IF l = 4 THEN t[k] ELSE IF k = l THEN t[4] ELSE 0
  BY TranslationEntries
<1> HIDE DEF m
<1>2. Affine(m)
  BY <1>1 DEF Affine, Vector
<1> QED
  BY <1>2 DEF m

LEMMA DiagonalIsAffine ==
  ASSUME NEW v, Vector(v)
  PROVE  Affine(Diagonal(v))
<1> DEFINE m == Diagonal(v)
<1>1. \A k, l \in 1 .. 4 : m[k][l] = IF k = l THEN v[k] ELSE 0
  BY DiagonalEntries
<1> HIDE DEF m
<1>2. Affine(m)
  BY <1>1 DEF Affine, Vector
<1> QED
  BY <1>2 DEF m

LEMMA ViewIsAffine ==
  ASSUME NEW p \in Place, NEW q \in Quaternion
  PROVE  Affine(CreateViewMatrix(p, q))
<1> DEFINE m == CreateViewMatrix(p, q)
           r == CreateRotationMatrix(q)
<1>1. /\ \A k, l \in 1 .. 4 : r[k][l] \in Int
      /\ \A k \in 1 .. 3 : r[k][4] = 0
  <2>1. Affine(r)
    BY RotationIsAffine
  <2>2. IsRotation(r, Length(q))
    BY RotationIsOrthogonal
  <2> QED
    BY <2>1, <2>2 DEF Affine, IsRotation
<1>2. \A k, l \in 1 .. 4 : Transpose(r)[k][l] = r[l][k]
  BY TransposeEntries
<1>3. \A k, l \in 1 .. 4 : m[k][l] = IF l = 4 /\ k # 4 THEN -p[k] * r[4][4]
                                     ELSE r[l][k] * p[4]
  <2> HIDE DEF m
  <2> QED
    BY <1>2, ViewEntries DEF m, r
<1> HIDE DEF m, r
<1>4. \A k \in 1 .. 4 : p[k] \in Int
  BY DEF Place
<1>5. ASSUME NEW k \in 1 .. 4, NEW l \in 1 .. 4
      PROVE  m[k][l] \in Int
  <2>1. p[k] \in Int /\ p[4] \in Int /\ r[4][4] \in Int /\ r[l][k] \in Int
    BY <1>1, <1>4
  <2>2. -p[k] * r[4][4] \in Int /\ r[l][k] * p[4] \in Int
    BY <2>1
  <2> QED
    BY <1>3, <2>2
<1>6. ASSUME NEW l \in 1 .. 3
      PROVE  m[4][l] = 0
  <2>1. m[4][l] = r[l][4] * p[4] /\ r[l][4] = 0 /\ p[4] \in Int
    BY <1>1, <1>3, <1>4
  <2> QED
    BY <2>1
<1>7. Affine(m)
  BY <1>5, <1>6 DEF Affine
<1> QED
  BY <1>7 DEF m

LEMMA ProjectionIsAffine ==
  ASSUME dims \in Nat \X Nat
  PROVE  Affine(SetProjection)
<1> DEFINE w == NotZero(dims[1] - 0)
           h == NotZero(dims[2] - 0)
           d == NotZero(0 - 0)
           v == <<2 * h * d, 2 * w * d, -2 * w * h, w * h * d>>
<1>1. w \in Int /\ h \in Int /\ d \in Int
  BY NotZeroIsInt
<1>2. SetProjection = Diagonal(v)
  BY DEF SetProjection, CreateOrthographicMatrix
<1> HIDE DEF w, h, d
<1>3. /\ 2 * h * d \in Int /\ 2 * w * d \in Int /\ -2 * w * h \in Int /\ w * h * d \in Int
  BY <1>1
<1>4. Vector(v)
  BY <1>3 DEF Vector
<1> HIDE DEF v
<1> QED
  BY <1>2, <1>4, DiagonalIsAffine

\* A unit to the right or to the left of the origin, turned.
LEMMA UnitTurned ==
  ASSUME NEW q, q[1] \in Int, q[2] = 0, q[3] = 0, q[4] \in Int,
         NEW v, v[1] \in Int, v[2] = 0, v[3] = 0, v[4] = 1,
         NEW u, u = MatVec(CreateRotationMatrix(q), v)
  PROVE  /\ u[1] = v[1] * (q[1] * q[1] - q[4] * q[4])
         /\ u[2] = v[1] * (2 * q[1] * (-q[4]))
         /\ u[3] = 0
         /\ u[4] = q[1] * q[1] + q[4] * q[4]
<1> DEFINE r == CreateRotationMatrix(q)
           a == q[1]
           x == q[2]
           o == q[3]
           y == q[4]
           e == v[1]
           n == a * a + y * y
<1>1. /\ a \in Int /\ x = 0 /\ o = 0 /\ y \in Int /\ e \in Int
      /\ n \in Int /\ n = a * a + x * x + o * o + y * y
  OBVIOUS
<1>2. /\ r[1][1] = n - 2 * o * o - 2 * y * y
      /\ r[2][1] = 2 * x * o - 2 * a * y
      /\ r[3][1] = 2 * x * y + 2 * a * o
      /\ r[1][2] = 2 * x * o + 2 * a * y
      /\ r[2][2] = n - 2 * x * x - 2 * y * y
      /\ r[3][2] = 2 * o * y - 2 * a * x
      /\ r[1][3] = 2 * x * y - 2 * a * o
      /\ r[2][3] = 2 * o * y + 2 * a * x
      /\ r[3][3] = n - 2 * x * x - 2 * o * o
      /\ r[1][4] = 0 /\ r[2][4] = 0 /\ r[3][4] = 0 /\ r[4][4] = n
  <2> HIDE DEF r
  <2> QED
    BY <1>1, RotationEntries DEF r
<1>u. u = MatVec(r, v)
  OBVIOUS
<1>n. n = a * a + y * y
  OBVIOUS
<1> HIDE DEF r, a, x, o, y, e, n
<1>3. /\ r[1][1] = n - 2 * 0 * 0 - 2 * y * y
      /\ r[2][1] = 2 * 0 * 0 - 2 * a * y
      /\ r[3][1] = 2 * 0 * y + 2 * a * 0
      /\ r[1][2] = 2 * 0 * 0 + 2 * a * y
      /\ r[2][2] = n - 2 * 0 * 0 - 2 * y * y
      /\ r[3][2] = 2 * 0 * y - 2 * a * 0
      /\ r[1][3] = 2 * 0 * y - 2 * a * 0
      /\ r[2][3] = 2 * 0 * y + 2 * a * 0
      /\ r[3][3] = n - 2 * 0 * 0 - 2 * 0 * 0
      /\ r[1][4] = 0 /\ r[2][4] = 0 /\ r[3][4] = 0 /\ r[4][4] = n
  BY ONLY <1>1, <1>2
<1>4. /\ r[1][1] \in Int /\ r[1][2] \in Int /\ r[1][3] \in Int
      /\ r[2][1] \in Int /\ r[2][2] \in Int /\ r[2][3] \in Int
      /\ r[3][1] = 0 /\ r[3][2] \in Int /\ r[3][3] \in Int
      /\ r[1][4] = 0 /\ r[2][4] = 0 /\ r[3][4] = 0 /\ r[4][4] = n
      /\ r[1][1] = n - 2 * y * y /\ r[2][1] = -2 * a * y
  BY ONLY <1>1, <1>3
<1>5. /\ u[1] = r[1][1] * e + r[1][2] * 0 + r[1][3] * 0 + r[1][4] * 1
      /\ u[2] = r[2][1] * e + r[2][2] * 0 + r[2][3] * 0 + r[2][4] * 1
      /\ u[3] = r[3][1] * e + r[3][2] * 0 + r[3][3] * 0 + r[3][4] * 1
      /\ u[4] = r[4][4] * 1
  BY <1>u, MatVecEntries DEF e
<1>6. /\ u[1] = r[1][1] * e /\ u[2] = r[2][1] * e /\ u[3] = 0 /\ u[4] = n
  BY ONLY <1>1, <1>4, <1>5
<1>7. (n - 2 * y * y) * e = e * (a * a - y * y)
  BY ONLY <1>1, <1>n
<1>8. (-2 * a * y) * e = e * (2 * a * (-y))
  BY ONLY <1>1
<1>9. u[1] = e * (a * a - y * y) /\ u[2] = e * (2 * a * (-y)) /\ u[3] = 0 /\ u[4] = a * a + y * y
  BY ONLY <1>4, <1>6, <1>7, <1>8, <1>n
<1> QED
  BY <1>9 DEF a, y, e

LEMMA Scaled ==
  ASSUME NEW v, Vector(v), NEW u, Vector(u), NEW x, x = MatVec(Diagonal(v), u)
  PROVE  x[1] = v[1] * u[1] /\ x[2] = v[2] * u[2] /\ x[3] = v[3] * u[3] /\ x[4] = v[4] * u[4]
<1> DEFINE m == Diagonal(v)
<1>1. /\ m[1][1] = v[1] /\ m[1][2] = 0 /\ m[1][3] = 0 /\ m[1][4] = 0
      /\ m[2][1] = 0 /\ m[2][2] = v[2] /\ m[2][3] = 0 /\ m[2][4] = 0
      /\ m[3][1] = 0 /\ m[3][2] = 0 /\ m[3][3] = v[3] /\ m[3][4] = 0
      /\ m[4][4] = v[4]
  <2> HIDE DEF m
  <2> QED
    BY DiagonalEntries DEF m
<1>x. x = MatVec(m, u)
  OBVIOUS
<1> HIDE DEF m
<1>2. /\ x[1] = m[1][1] * u[1] + m[1][2] * u[2] + m[1][3] * u[3] + m[1][4] * u[4]
      /\ x[2] = m[2][1] * u[1] + m[2][2] * u[2] + m[2][3] * u[3] + m[2][4] * u[4]
      /\ x[3] = m[3][1] * u[1] + m[3][2] * u[2] + m[3][3] * u[3] + m[3][4] * u[4]
      /\ x[4] = m[4][4] * u[4]
  BY <1>x, MatVecEntries
<1>3. /\ u[1] \in Int /\ u[2] \in Int /\ u[3] \in Int /\ u[4] \in Int
      /\ v[1] \in Int /\ v[2] \in Int /\ v[3] \in Int /\ v[4] \in Int
  BY DEF Vector
<1> QED
  BY <1>1, <1>2, <1>3

LEMMA Translated ==
  ASSUME NEW t, Vector(t), NEW u, Vector(u), NEW x, x = MatVec(CreateTranslationMatrix(t), u)
  PROVE  /\ x[1] = t[4] * u[1] + t[1] * u[4]
         /\ x[2] = t[4] * u[2] + t[2] * u[4]
         /\ x[3] = t[4] * u[3] + t[3] * u[4]
         /\ x[4] = t[4] * u[4]
<1> DEFINE m == CreateTranslationMatrix(t)
<1>1. /\ m[1][1] = t[4] /\ m[1][2] = 0 /\ m[1][3] = 0 /\ m[1][4] = t[1]
      /\ m[2][1] = 0 /\ m[2][2] = t[4] /\ m[2][3] = 0 /\ m[2][4] = t[2]
      /\ m[3][1] = 0 /\ m[3][2] = 0 /\ m[3][3] = t[4] /\ m[3][4] = t[3]
      /\ m[4][4] = t[4]
  <2> HIDE DEF m
  <2> QED
    BY TranslationEntries DEF m
<1>x. x = MatVec(m, u)
  OBVIOUS
<1> HIDE DEF m
<1>2. /\ x[1] = m[1][1] * u[1] + m[1][2] * u[2] + m[1][3] * u[3] + m[1][4] * u[4]
      /\ x[2] = m[2][1] * u[1] + m[2][2] * u[2] + m[2][3] * u[3] + m[2][4] * u[4]
      /\ x[3] = m[3][1] * u[1] + m[3][2] * u[2] + m[3][3] * u[3] + m[3][4] * u[4]
      /\ x[4] = m[4][4] * u[4]
  BY <1>x, MatVecEntries
<1>3. /\ u[1] \in Int /\ u[2] \in Int /\ u[3] \in Int /\ u[4] \in Int
      /\ t[1] \in Int /\ t[2] \in Int /\ t[3] \in Int /\ t[4] \in Int
  BY DEF Vector
<1> QED
  BY <1>1, <1>2, <1>3

LEMMA DistanceAlong ==
  ASSUME NEW g1 \in Int, NEW g2 \in Int, NEW c \in Int, NEW s \in Int,
         NEW m, m = c * c + s * s, g2 * c = g1 * s,
         NEW d, d = g1 * c + g2 * s
  PROVE  d * c = g1 * m /\ d * s = g2 * m
<1>1. d * c = g1 * c * c + (g2 * c) * s
  OBVIOUS
<1>2. d * c = g1 * c * c + (g1 * s) * s
  BY <1>1
<1>3. d * s = (g1 * s) * c + g2 * s * s
  OBVIOUS
<1>4. d * s = (g2 * c) * c + g2 * s * s
  BY <1>3
<1> QED
  BY <1>2, <1>4

\* One coordinate of an end, b if e is 1 and a if it is -1: g is the difference, t
\* the sum, m the square of the length, and k the product of the denominators.
LEMMA EndReached ==
  ASSUME NEW a \in Int, NEW b \in Int, NEW a4 \in Int, NEW b4 \in Int, NEW m \in Int,
         NEW k, k = a4 * b4,
         NEW g, g = b * a4 - a * b4,
         NEW t, t = a * b4 + b * a4
  PROVE  /\ ((2 * k) * (g * m) + t * (2 * k * m)) * b4 = b * ((2 * k) * (2 * k * m))
         /\ ((2 * k) * (-(g * m)) + t * (2 * k * m)) * a4 = a * ((2 * k) * (2 * k * m))
<1>1. g + t = 2 * (b * a4) /\ t - g = 2 * (a * b4)
  OBVIOUS
<1>2. ((2 * k) * (g * m) + t * (2 * k * m)) * b4 = 2 * k * m * (g + t) * b4
  OBVIOUS
<1>3. ((2 * k) * (-(g * m)) + t * (2 * k * m)) * a4 = 2 * k * m * (t - g) * a4
  OBVIOUS
<1>4. 2 * k * m * (2 * (b * a4)) * b4 = b * (2 * (a4 * b4) * (2 * k * m))
  OBVIOUS
<1>5. 2 * k * m * (2 * (a * b4)) * a4 = a * (2 * (a4 * b4) * (2 * k * m))
  OBVIOUS
<1> QED
  BY <1>1, <1>2, <1>3, <1>4, <1>5

LEMMA LineReaches ==
  ASSUME NEW a \in Place, NEW b \in Place,
         NEW diff, diff = Add(b, Negative(a)), diff[3] = 0,
         NEW w \in Int, NEW z \in Int, HalfAngle(diff) = <<w, z>>,
         diff[2] * (w * w - z * z) = diff[1] * (2 * w * z),
         NEW e \in {-1, 1}, NEW l, l = CreateLineTransform(a, b)
  PROVE  /\ Affine(l)
         /\ SamePlace(MatVec(l, Vec3f(e, 0, 0)), IF e = 1 THEN b ELSE a)
<1> DEFINE a4 == a[4]
           b4 == b[4]
           k == a4 * b4
           c == w * w - z * z
           s == 2 * w * z
           n == w * w + z * z
           m == n * n
           g1 == diff[1]
           g2 == diff[2]
           d == g1 * c + g2 * s
           t == Over(Add(a, b), 2)
           sc == <<d, d, 2 * n * diff[4], 2 * n * diff[4]>>
           T == CreateTranslationMatrix(t)
           S == Diagonal(sc)
           q == <<w, 0, 0, -z>>
           R == CreateRotationMatrix(q)
           v == Vec3f(e, 0, 0)
           u == MatVec(R, v)
           x == MatVec(S, u)
           y == MatVec(T, x)
<1>1. /\ a[1] \in Int /\ a[2] \in Int /\ a[3] \in Int /\ a4 \in Int
      /\ b[1] \in Int /\ b[2] \in Int /\ b[3] \in Int /\ b4 \in Int
      /\ e \in Int
  BY DEF Place
<1>2. /\ t[1] = a[1] * b4 + b[1] * a4 /\ t[2] = a[2] * b4 + b[2] * a4
      /\ t[3] = a[3] * b4 + b[3] * a4 /\ t[4] = k * 2
  BY DEF Over, Add
<1>3. /\ diff[1] = b[1] * a4 + (-a[1]) * b4 /\ diff[2] = b[2] * a4 + (-a[2]) * b4
      /\ diff[3] = b[3] * a4 + (-a[3]) * b4 /\ diff[4] = b4 * a4
  <2> DEFINE back == Negative(a)
  <2>1. /\ back[1] = -a[1] /\ back[2] = -a[2] /\ back[3] = -a[3] /\ back[4] = a4
    BY DEF Negative
  <2> HIDE DEF back
  <2>2. /\ diff[1] = b[1] * back[4] + back[1] * b4 /\ diff[2] = b[2] * back[4] + back[2] * b4
        /\ diff[3] = b[3] * back[4] + back[3] * b4 /\ diff[4] = b4 * back[4]
    BY DEF Add, back
  <2> QED
    BY <2>1, <2>2
<1>4. l = MatMat(MatMat(T, S), R)
  <2> DEFINE half == HalfAngle(diff)
  <2>1. half[1] = w /\ half[2] = z
    OBVIOUS
  <2> HIDE DEF half
  <2>2. Doubled(half)[1] = c /\ Doubled(half)[2] = s
    BY <2>1 DEF Doubled
  <2>3. LineOrientation(half) = q
    BY <2>1 DEF LineOrientation
  <2>4. half[1] * half[1] + half[2] * half[2] = n
    BY <2>1
  <2> HIDE DEF c, s, n, t, q
  <2>5. CreateLineTransform(a, b)
          = LET unit == half[1] * half[1] + half[2] * half[2]
                distance == diff[1] * Doubled(half)[1] + diff[2] * Doubled(half)[2]
            IN  MatMat(MatMat(CreateTranslationMatrix(t),
                              Diagonal(<<distance, distance, 2 * unit * diff[4],
                                         2 * unit * diff[4]>>)),
                       CreateRotationMatrix(LineOrientation(half)))
    BY DEF CreateLineTransform, CreateScaleMatrix, half, t
  <2> QED
    BY <2>2, <2>3, <2>4, <2>5
<1> DEFINE p1 == a[1]
           p2 == a[2]
           p3 == a[3]
           q1 == b[1]
           q2 == b[2]
           q3 == b[3]
<1>5. /\ p1 \in Int /\ p2 \in Int /\ p3 \in Int /\ q1 \in Int /\ q2 \in Int /\ q3 \in Int
      /\ g1 = q1 * a4 + (-p1) * b4 /\ g2 = q2 * a4 + (-p2) * b4
      /\ 0 = q3 * a4 + (-p3) * b4 /\ diff[4] = b4 * a4
      /\ t[1] = p1 * b4 + q1 * a4 /\ t[2] = p2 * b4 + q2 * a4
      /\ t[3] = p3 * b4 + q3 * a4 /\ t[4] = k * 2
  BY <1>1, <1>2, <1>3
<1> HIDE DEF p1, p2, p3, q1, q2, q3, a4, b4, g1, g2, t
<1>6. /\ g1 \in Int /\ g2 \in Int /\ k \in Int
      /\ g1 = q1 * a4 - p1 * b4 /\ g2 = q2 * a4 - p2 * b4
      /\ 0 = q3 * a4 - p3 * b4 /\ diff[4] = k
      /\ t[1] \in Int /\ t[2] \in Int /\ t[3] \in Int /\ t[4] \in Int /\ t[4] = 2 * k
  BY <1>1, <1>5
<1>7. /\ c \in Int /\ s \in Int /\ n \in Int /\ m \in Int
      /\ m = c * c + s * s
  OBVIOUS
<1>8. g2 * c = g1 * s
  BY DEF g1, g2
<1> HIDE DEF k, c, s, n
<1>9. d \in Int /\ m \in Int /\ d * c = g1 * m /\ d * s = g2 * m
  <2> HIDE DEF m
  <2>1. d = g1 * c + g2 * s
    OBVIOUS
  <2>2. d \in Int
    BY <1>6, <1>7
  <2> HIDE DEF d
  <2>3. g1 \in Int /\ g2 \in Int /\ c \in Int /\ s \in Int /\ m = c * c + s * s
    BY <1>6, <1>7
  <2>4. d * c = g1 * m /\ d * s = g2 * m
    BY ONLY <1>8, <2>1, <2>3, DistanceAlong
  <2> QED
    BY <1>7, <2>2, <2>4
<1>10. Vector(t)
  BY <1>6 DEF Vector
<1> HIDE DEF d
<1>11. Vector(sc) /\ sc[1] = d /\ sc[2] = d /\ sc[3] = 2 * n * k /\ sc[4] = 2 * n * k
  <2>1. 2 * n * k \in Int
    BY <1>6, <1>7
  <2> QED
    BY <1>6, <1>9, <2>1 DEF Vector
<1>12. /\ v[1] = e /\ v[2] = 0 /\ v[3] = 0 /\ v[4] = 1 /\ Vector(v)
  BY <1>1 DEF Vec3f, Vector
<1> HIDE DEF sc, v
<1>13. Affine(T) /\ Affine(S) /\ Affine(R)
  <2>1. q \in Quaternion
    BY DEF Quaternion
  <2> QED
    BY <1>10, <1>11, <2>1, TranslationIsAffine, DiagonalIsAffine, RotationIsAffine
<1>14. Affine(l) /\ MatVec(l, v) = y
  <2>1. Affine(MatMat(T, S)) /\ Vector(u)
    BY <1>12, <1>13, ComposedEntries, AffineKeepsVectors
  <2> HIDE DEF T, S, R
  <2>2. Affine(l) /\ MatVec(l, v) = MatVec(MatMat(T, S), u)
    BY <1>4, <1>12, <1>13, <2>1, Composed, ComposedEntries
  <2>3. MatVec(MatMat(T, S), u) = y
    BY <1>13, <2>1, Composed
  <2> QED
    BY <2>2, <2>3
<1>15. u[1] = e * c /\ u[2] = e * s /\ u[3] = 0 /\ u[4] = n /\ Vector(u)
  <2>1. Vector(u)
    BY <1>12, <1>13, AffineKeepsVectors
  <2>2. q[1] = w /\ q[2] = 0 /\ q[3] = 0 /\ q[4] = -z
    OBVIOUS
  <2>3. u = MatVec(CreateRotationMatrix(q), v)
    OBVIOUS
  <2>4. c = w * w - z * z /\ s = 2 * w * z /\ n = w * w + z * z
    BY DEF c, s, n
  <2> HIDE DEF u, q, R
  <2>5. /\ u[1] = v[1] * (q[1] * q[1] - q[4] * q[4])
        /\ u[2] = v[1] * (2 * q[1] * (-q[4]))
        /\ u[3] = 0 /\ u[4] = q[1] * q[1] + q[4] * q[4]
    <3>1. /\ q[1] \in Int /\ q[2] = 0 /\ q[3] = 0 /\ q[4] \in Int
          /\ v[1] \in Int /\ v[2] = 0 /\ v[3] = 0 /\ v[4] = 1
      BY <1>1, <1>12, <2>2
    <3> HIDE DEF v
    <3> QED
      BY ONLY <2>3, <3>1, UnitTurned
  <2>6. /\ u[1] = e * (w * w - (-z) * (-z)) /\ u[2] = e * (2 * w * (-(-z)))
        /\ u[3] = 0 /\ u[4] = w * w + (-z) * (-z)
    BY ONLY <1>12, <2>2, <2>5
  <2>7. (-z) * (-z) = z * z /\ -(-z) = z
    OBVIOUS
  <2> QED
    BY ONLY <2>1, <2>4, <2>6, <2>7
<1> HIDE DEF u
<1>16. /\ x[1] = d * (e * c) /\ x[2] = d * (e * s) /\ x[3] = 2 * n * k * 0
       /\ x[4] = 2 * n * k * n /\ Vector(x)
  <2>1. Vector(x)
    BY <1>13, <1>15, AffineKeepsVectors
  <2>2. /\ x[1] = sc[1] * u[1] /\ x[2] = sc[2] * u[2] /\ x[3] = sc[3] * u[3]
        /\ x[4] = sc[4] * u[4]
    BY <1>11, <1>15, Scaled
  <2> QED
    BY <1>11, <1>15, <2>1, <2>2
<1> HIDE DEF x
<1>17. /\ x[1] = e * (g1 * m) /\ x[2] = e * (g2 * m) /\ x[3] = 0 /\ x[4] = 2 * k * m
  <2>1. d * (e * c) = e * (d * c) /\ d * (e * s) = e * (d * s)
    BY <1>1, <1>7, <1>9
  <2>2. 2 * n * k * 0 = 0 /\ 2 * n * k * n = 2 * k * m
    BY <1>6, <1>7
  <2> QED
    BY <1>9, <1>16, <2>1, <2>2
<1>18. /\ y[1] = (2 * k) * x[1] + t[1] * x[4]
       /\ y[2] = (2 * k) * x[2] + t[2] * x[4]
       /\ y[3] = (2 * k) * x[3] + t[3] * x[4]
       /\ y[4] = (2 * k) * x[4]
  BY <1>6, <1>10, <1>16, Translated
<1> HIDE DEF y, m
<1>19. CASE e = 1
  <2>1. /\ y[1] = (2 * k) * (g1 * m) + t[1] * (2 * k * m)
        /\ y[2] = (2 * k) * (g2 * m) + t[2] * (2 * k * m)
        /\ y[3] = (2 * k) * (0 * m) + t[3] * (2 * k * m)
        /\ y[4] = (2 * k) * (2 * k * m)
    BY <1>6, <1>9, <1>17, <1>18, <1>19
  <2>2. /\ y[1] * b4 = q1 * y[4]
        /\ y[2] * b4 = q2 * y[4]
        /\ y[3] * b4 = q3 * y[4]
    BY <1>1, <1>5, <1>6, <1>9, <2>1, EndReached DEF k
  <2>3. SamePlace(y, b)
    BY <2>2 DEF SamePlace, b4, q1, q2, q3
  <2> QED
    BY <1>14, <1>19, <2>3 DEF v
<1>20. CASE e = -1
  <2>1. /\ y[1] = (2 * k) * (-(g1 * m)) + t[1] * (2 * k * m)
        /\ y[2] = (2 * k) * (-(g2 * m)) + t[2] * (2 * k * m)
        /\ y[3] = (2 * k) * (-(0 * m)) + t[3] * (2 * k * m)
        /\ y[4] = (2 * k) * (2 * k * m)
    BY <1>6, <1>9, <1>17, <1>18, <1>20
  <2>2. /\ y[1] * a4 = p1 * y[4]
        /\ y[2] * a4 = p2 * y[4]
        /\ y[3] * a4 = p3 * y[4]
    BY <1>1, <1>5, <1>6, <1>9, <2>1, EndReached DEF k
  <2>3. SamePlace(y, a)
    BY <2>2 DEF SamePlace, a4, p1, p2, p3
  <2> QED
    BY <1>14, <1>20, <2>3 DEF v
<1> QED
  BY <1>19, <1>20

LEMMA SquareIsPositive ==
  ASSUME NEW a \in Int, a # 0
  PROVE  a * a > 0
<1>1. CASE a > 0
  BY <1>1
<1>2. CASE a < 0
  BY <1>2
<1> QED
  BY <1>1, <1>2

LEMMA ProductIsPositive ==
  ASSUME NEW a \in Int, a > 0, NEW b \in Int, b > 0
  PROVE  a * b > 0
OBVIOUS

\* Every line has a half angle that is a direction: its own is one.
LEMMA HalfAngleFits ==
  ASSUME NEW l \in Lines, NEW diff, diff = Add(LineEnd(l), Negative(l.start))
  PROVE  /\ LineEnd(l) \in Place
         /\ diff[3] = 0
         /\ HalfAngle(diff) \in Direction
         /\ diff[2] * Doubled(HalfAngle(diff))[1] = diff[1] * Doubled(HalfAngle(diff))[2]
<1> DEFINE p == l.start
           h == l.half
           n == l.length
           p1 == p[1]
           p2 == p[2]
           p3 == p[3]
           p4 == p[4]
           w == h[1]
           z == h[2]
           c == w * w - z * z
           s == 2 * w * z
           along == <<n * c, n * s, 0, 1>>
           q == LineEnd(l)
           back == Negative(p)
<1>1. /\ p \in Place /\ h \in Direction /\ n \in 1 .. 2
  BY MatricesAssumption DEF Lines
<1>2. /\ p1 \in Int /\ p2 \in Int /\ p3 \in Int /\ p4 \in Int /\ p4 # 0
      /\ n \in Int /\ n > 0
  BY <1>1 DEF Place
<1>3. /\ w \in Int /\ z \in Int /\ (w # 0 \/ z # 0)
  BY <1>1, MatricesAssumption
<1>4. /\ Doubled(h)[1] = c /\ Doubled(h)[2] = s
  BY DEF Doubled
<1>5. q = Add(p, along)
  BY <1>4 DEF LineEnd
<1> HIDE DEF p, h, n, w, z
<1>6. c \in Int /\ s \in Int
  BY <1>3
<1>7. c * c + s * s > 0
  <2>1. c * c + s * s = (w * w + z * z) * (w * w + z * z)
    BY <1>3
  <2>2. w * w + z * z > 0
    <3>1. w * w >= 0 /\ z * z >= 0
      BY <1>3, SquareIsPositive
    <3>2. w * w > 0 \/ z * z > 0
      BY <1>3, SquareIsPositive
    <3> QED
      BY <1>3, <3>1, <3>2
  <2> QED
    BY <1>3, <2>1, <2>2, ProductIsPositive
<1> HIDE DEF c, s
<1> DEFINE nc == n * c
           ns == n * s
<1>8. nc \in Int /\ ns \in Int
  BY <1>2, <1>6
<1>9. /\ q[1] = p1 * 1 + nc * p4 /\ q[2] = p2 * 1 + ns * p4 /\ q[3] = p3 * 1 + 0 * p4
      /\ q[4] = p4 * 1 /\ q = <<q[1], q[2], q[3], q[4]>>
  <2>1. along[1] = nc /\ along[2] = ns /\ along[3] = 0 /\ along[4] = 1
    OBVIOUS
  <2> HIDE DEF along, nc, ns, q
  <2>2. /\ q[1] = p[1] * along[4] + along[1] * p[4]
        /\ q[2] = p[2] * along[4] + along[2] * p[4]
        /\ q[3] = p[3] * along[4] + along[3] * p[4]
        /\ q[4] = p[4] * along[4]
        /\ q \in [1 .. 4 -> {q[1], q[2], q[3], q[4]}]
    BY <1>5 DEF Add
  <2>3. q = <<q[1], q[2], q[3], q[4]>>
    BY <2>2
  <2> QED
    BY <2>1, <2>2, <2>3
<1>10. /\ back[1] = -p1 /\ back[2] = -p2 /\ back[3] = -p3 /\ back[4] = p4
  BY DEF Negative
<1> HIDE DEF along, nc, ns, q, back, p1, p2, p3, p4
<1>11. /\ q[1] = p1 + nc * p4 /\ q[2] = p2 + ns * p4 /\ q[3] = p3 /\ q[4] = p4
       /\ q[1] \in Int /\ q[2] \in Int
  BY <1>2, <1>8, <1>9
<1>12. q \in Place
  BY <1>2, <1>9, <1>11 DEF Place
<1>13. /\ diff[1] = q[1] * back[4] + back[1] * q[4]
       /\ diff[2] = q[2] * back[4] + back[2] * q[4]
       /\ diff[3] = q[3] * back[4] + back[3] * q[4]
  BY DEF Add, q, back, p
<1>14. /\ diff[1] = nc * (p4 * p4) /\ diff[2] = ns * (p4 * p4) /\ diff[3] = 0
  <2>1. /\ diff[1] = (p1 + nc * p4) * p4 + (-p1) * p4
        /\ diff[2] = (p2 + ns * p4) * p4 + (-p2) * p4
        /\ diff[3] = p3 * p4 + (-p3) * p4
    BY ONLY <1>10, <1>11, <1>13
  <2> QED
    BY ONLY <1>2, <1>8, <2>1
<1> DEFINE pp == p4 * p4
<1>15. pp \in Int /\ pp > 0
  BY <1>2, SquareIsPositive
<1> HIDE DEF pp
<1>16. diff[1] = n * c * pp /\ diff[2] = n * s * pp
  BY <1>14 DEF nc, ns, pp
<1>17. diff[2] * c = diff[1] * s
  <2>1. (n * s * pp) * c = (n * c * pp) * s
    BY ONLY <1>2, <1>6, <1>15
  <2> QED
    BY ONLY <1>16, <2>1
<1>18. diff[1] * c + diff[2] * s > 0
  <2>1. (n * c * pp) * c + (n * s * pp) * s = (n * pp) * (c * c + s * s)
    BY ONLY <1>2, <1>6, <1>15
  <2>2. n * pp \in Int /\ n * pp > 0 /\ c * c + s * s \in Int
    BY <1>2, <1>6, <1>15, ProductIsPositive
  <2>3. (n * pp) * (c * c + s * s) > 0
    BY <1>7, <2>2, ProductIsPositive
  <2> QED
    BY ONLY <1>16, <2>1, <2>3
<1>19. \E o \in Direction : /\ diff[2] * Doubled(o)[1] = diff[1] * Doubled(o)[2]
                            /\ diff[1] * Doubled(o)[1] + diff[2] * Doubled(o)[2] > 0
  BY <1>1, <1>4, <1>17, <1>18
<1>20. /\ HalfAngle(diff) \in Direction
       /\ diff[2] * Doubled(HalfAngle(diff))[1] = diff[1] * Doubled(HalfAngle(diff))[2]
  BY <1>19 DEF HalfAngle
<1> QED
  BY <1>12, <1>14, <1>20 DEF q

\* renderer.cc and mat_ops.h: CreateLineTransform takes the line of unit ends to
\* the ends it is asked for, whatever they are, and every view and projection
\* shows it there.
THEOREM LinesAlwaysMeetTheirEnds == MatricesSpec => []LinesMeetTheirEnds
<1>1. ASSUME MatricesTypeOK
      PROVE  LinesMeetTheirEnds
  <2> DEFINE a == line.start
             b == LineEnd(line)
             diff == Add(b, Negative(a))
             half == HalfAngle(diff)
             w == half[1]
             z == half[2]
             P == SetProjection
             V == SetView
             L == CreateLineTransform(a, b)
             matrix == MatMat(MatMat(P, V), L)
  <2>1. /\ a \in Place /\ line \in Lines
        /\ cam.position \in Place /\ cam.orientation \in Quaternion
        /\ dims \in Nat \X Nat
    BY <1>1, MatricesAssumption DEF MatricesTypeOK, Lines, Quaternion
  <2>2. /\ b \in Place /\ diff[3] = 0 /\ half \in Direction
        /\ diff[2] * Doubled(half)[1] = diff[1] * Doubled(half)[2]
    BY <2>1, HalfAngleFits
  <2>3. w \in Int /\ z \in Int /\ half = <<w, z>>
    BY <2>2, MatricesAssumption
  <2>4. diff[2] * (w * w - z * z) = diff[1] * (2 * w * z)
    BY <2>2 DEF Doubled
  <2>5. Affine(P) /\ Affine(V) /\ Affine(MatMat(P, V))
    BY <2>1, ProjectionIsAffine, ViewIsAffine, ComposedEntries DEF SetView
  <2> HIDE DEF a, b, P, V
  <2>6. ASSUME NEW e \in {-1, 1}
        PROVE  /\ Affine(L)
               /\ SamePlace(MatVec(L, Vec3f(e, 0, 0)), IF e = 1 THEN b ELSE a)
    <3>1. HalfAngle(diff) = <<w, z>>
      BY <2>3
    <3> HIDE DEF diff, half, w, z, L
    <3> QED
      BY <2>1, <2>2, <2>3, <2>4, <3>1, LineReaches DEF diff, L
  <2> HIDE DEF L
  <2>7. ASSUME NEW e \in {-1, 1}, NEW p \in Place, SamePlace(MatVec(L, Vec3f(e, 0, 0)), p)
        PROVE  SamePlace(MatVec(matrix, Vec3f(e, 0, 0)), MatVec(P, MatVec(V, p)))
    <3> DEFINE v == Vec3f(e, 0, 0)
               u == MatVec(L, v)
    <3>1. Vector(v) /\ Vector(p) /\ Affine(L)
      BY <2>6 DEF Vector, Vec3f, Place
    <3> HIDE DEF v
    <3>2. Vector(u)
      BY <3>1, AffineKeepsVectors
    <3>3. MatVec(matrix, v) = MatVec(MatMat(P, V), u)
      BY <2>5, <3>1, Composed
    <3> HIDE DEF u
    <3>4. MatVec(MatMat(P, V), u) = MatVec(P, MatVec(V, u))
      BY <2>5, <3>2, Composed
    <3>5. /\ SamePlace(MatVec(V, u), MatVec(V, p))
          /\ Vector(MatVec(V, u)) /\ Vector(MatVec(V, p))
      BY <2>5, <2>7, <3>1, <3>2, SamePlaceSeen, AffineKeepsVectors DEF u, v
    <3>6. SamePlace(MatVec(P, MatVec(V, u)), MatVec(P, MatVec(V, p)))
      BY <2>5, <3>5, SamePlaceSeen
    <3> QED
      BY <3>3, <3>4, <3>6 DEF v
  <2>8. /\ SamePlace(MatVec(matrix, Vec3f(-1, 0, 0)), MatVec(P, MatVec(V, a)))
        /\ SamePlace(MatVec(matrix, Vec3f(1, 0, 0)), MatVec(P, MatVec(V, b)))
    <3>1. /\ SamePlace(MatVec(L, Vec3f(-1, 0, 0)), a)
          /\ SamePlace(MatVec(L, Vec3f(1, 0, 0)), b)
      BY <2>6
    <3> HIDE DEF matrix
    <3> QED
      BY <2>1, <2>2, <2>7, <3>1
  <2> QED
    BY <2>8 DEF LinesMeetTheirEnds, a, b, P, V, L
<1> QED
  BY <1>1, MatricesTyped, PTL

-----------------------------------------------------------------------------
(* Segments. *)

Plane == Int \X Int

\* More than 0 if r is to the left of the line from p to q, less if to the right.
Turn(p, q, r) == Determinant(Minus(q, p), Minus(r, p))

LEMMA TurnIs ==
  ASSUME NEW p \in Plane, NEW q \in Plane, NEW r \in Plane
  PROVE  /\ Turn(p, q, r) \in Int
         /\ Turn(p, q, r) = (q[1] - p[1]) * (r[2] - p[2]) - (q[2] - p[2]) * (r[1] - p[1])
BY DEF Turn, Determinant, Minus, Plane

\* The tests of intersection.cc are about the turn.
LEMMA OrientationIs ==
  ASSUME NEW p \in Plane, NEW q \in Plane, NEW r \in Plane
  PROVE  /\ Orientation(p, q, r) = 0 <=> Turn(p, q, r) = 0
         /\ Orientation(p, q, r) = 1 <=> Turn(p, q, r) < 0
         /\ Orientation(p, q, r) = 2 <=> Turn(p, q, r) > 0
         /\ Orientation(p, q, r) \in {0, 1, 2}
<1> DEFINE val == (q[2] - p[2]) * (r[1] - q[1]) - (q[1] - p[1]) * (r[2] - q[2])
           t == Turn(p, q, r)
<1>1. /\ p[1] \in Int /\ p[2] \in Int /\ q[1] \in Int /\ q[2] \in Int
      /\ r[1] \in Int /\ r[2] \in Int
  BY DEF Plane
<1>2. \A a, b, c, d, e, f \in Int :
        (d - b) * (e - c) - (c - a) * (f - d) = -((c - a) * (f - b) - (d - b) * (e - a))
  OBVIOUS
<1>3. val = -t /\ t \in Int
  BY <1>1, <1>2, TurnIs
<1>4. Orientation(p, q, r) = IF val = 0 THEN 0 ELSE IF val > 0 THEN 1 ELSE 2
  BY DEF Orientation
<1> HIDE DEF val, t
<1>5. /\ Orientation(p, q, r) = 0 <=> t = 0
      /\ Orientation(p, q, r) = 1 <=> t < 0
      /\ Orientation(p, q, r) = 2 <=> t > 0
      /\ Orientation(p, q, r) \in {0, 1, 2}
  BY <1>3, <1>4
<1> QED
  BY <1>5 DEF t

LEMMA TriAreaIs ==
  ASSUME NEW p \in Plane, NEW q \in Plane, NEW r \in Plane
  PROVE  Signed2DTriArea(p, q, r) = Turn(p, q, r)
<1>1. /\ p[1] \in Int /\ p[2] \in Int /\ q[1] \in Int /\ q[2] \in Int
      /\ r[1] \in Int /\ r[2] \in Int
  BY DEF Plane
<1>2. \A a, b, c, d, e, f \in Int :
        (a - e) * (d - f) - (b - f) * (c - e) = (c - a) * (f - b) - (d - b) * (e - a)
  OBVIOUS
<1> QED
  BY <1>1, <1>2, TurnIs DEF Signed2DTriArea

\* The ends of two segments: their turns differ by the determinant of the
\* directions.
LEMMA TurnsOfEnds ==
  ASSUME NEW a \in Plane, NEW b \in Plane, NEW c \in Plane, NEW d \in Plane,
         NEW n, n = Determinant(Minus(b, a), Minus(d, c))
  PROVE  /\ n \in Int
         /\ Turn(a, b, d) = Turn(a, b, c) + n
         /\ Turn(c, d, b) = Turn(c, d, a) - n
<1>1. /\ a[1] \in Int /\ a[2] \in Int /\ b[1] \in Int /\ b[2] \in Int
      /\ c[1] \in Int /\ c[2] \in Int /\ d[1] \in Int /\ d[2] \in Int
  BY DEF Plane
<1>2. n = (b[1] - a[1]) * (d[2] - c[2]) - (b[2] - a[2]) * (d[1] - c[1])
  BY DEF Determinant, Minus
<1>3. \A a1, a2, b1, b2, c1, c2, d1, d2 \in Int :
        /\ (b1 - a1) * (d2 - a2) - (b2 - a2) * (d1 - a1)
             = (b1 - a1) * (c2 - a2) - (b2 - a2) * (c1 - a1)
                 + ((b1 - a1) * (d2 - c2) - (b2 - a2) * (d1 - c1))
        /\ (d1 - c1) * (b2 - c2) - (d2 - c2) * (b1 - c1)
             = (d1 - c1) * (a2 - c2) - (d2 - c2) * (a1 - c1)
                 - ((b1 - a1) * (d2 - c2) - (b2 - a2) * (d1 - c1))
  OBVIOUS
<1>4. n \in Int
  BY <1>1, <1>2
<1> QED
  BY <1>1, <1>2, <1>3, <1>4, TurnIs

LEMMA Weighted ==
  ASSUME NEW k \in Int, NEW j \in Int, NEW x \in Int, NEW y \in Int, NEW z \in Int
  PROVE  x * k = y * (k - j) + z * j <=> k * (x - y) = j * (z - y)
<1> DEFINE p == x * k
           q == y * (k - j) + z * j
           r == k * (x - y)
           s == j * (z - y)
<1>1. p \in Int /\ q \in Int /\ r \in Int /\ s \in Int /\ p - q = r - s
  OBVIOUS
<1> HIDE DEF p, q, r, s
<1>2. p = q <=> r = s
  BY <1>1
<1> QED
  BY <1>2 DEF p, q, r, s

\* A point of a segment between two points of the plane.
LEMMA IsOnIs ==
  ASSUME NEW a \in Plane, NEW b \in Plane, NEW c \in Plane
  PROVE  IsOn(c, a, b) <=> Turn(a, b, c) = 0 /\ OnSegment(a, c, b)
<1> DEFINE u1 == b[1] - a[1]
           u2 == b[2] - a[2]
           w1 == c[1] - a[1]
           w2 == c[2] - a[2]
           way == Magnitude(u1) + Magnitude(u2)
           n == IF way = 0 THEN 1 ELSE way
<1>1. /\ a[1] \in Int /\ a[2] \in Int /\ b[1] \in Int /\ b[2] \in Int
      /\ c[1] \in Int /\ c[2] \in Int
  BY DEF Plane
<1>2. u1 \in Int /\ u2 \in Int /\ w1 \in Int /\ w2 \in Int
  BY <1>1
<1>3. Turn(a, b, c) = u1 * w2 - u2 * w1
  BY TurnIs
<1>4. OnSegment(a, c, b) <=> /\ (0 <= w1 /\ w1 <= u1) \/ (u1 <= w1 /\ w1 <= 0)
                             /\ (0 <= w2 /\ w2 <= u2) \/ (u2 <= w2 /\ w2 <= 0)
  BY <1>1 DEF OnSegment, Between
<1>5. way \in Nat /\ n \in Nat \ {0}
  BY <1>2 DEF Magnitude
<1>6. ASSUME NEW frac \in 0 .. n
      PROVE  Times(c, n) = Plus(Times(a, n - frac), Times(b, frac))
               <=> n * w1 = frac * u1 /\ n * w2 = frac * u2
  <2>1. Times(c, n) = Plus(Times(a, n - frac), Times(b, frac))
          <=> /\ c[1] * n = a[1] * (n - frac) + b[1] * frac
              /\ c[2] * n = a[2] * (n - frac) + b[2] * frac
    BY DEF Times, Plus
  <2>3. n \in Int /\ frac \in Int
    BY <1>5
  <2> HIDE DEF n
  <2>4. ASSUME NEW k \in {1, 2}
        PROVE  c[k] * n = a[k] * (n - frac) + b[k] * frac
                 <=> n * (c[k] - a[k]) = frac * (b[k] - a[k])
    <3> DEFINE x == c[k]
               y == a[k]
               z == b[k]
    <3>1. x \in Int /\ y \in Int /\ z \in Int
      BY <1>1
    <3> HIDE DEF x, y, z
    <3>2. x * n = y * (n - frac) + z * frac <=> n * (x - y) = frac * (z - y)
      BY ONLY <2>3, <3>1, Weighted
    <3> QED
      BY <3>2 DEF x, y, z
  <2> QED
    BY ONLY <2>1, <2>4 DEF u1, u2, w1, w2
<1>7. IsOn(c, a, b) <=> \E frac \in 0 .. n : n * w1 = frac * u1 /\ n * w2 = frac * u2
  BY <1>6 DEF IsOn
<1>8. ASSUME NEW frac \in 0 .. n, n * w1 = frac * u1, n * w2 = frac * u2
      PROVE  Turn(a, b, c) = 0 /\ OnSegment(a, c, b)
  <2> HIDE DEF u1, u2, w1, w2, n
  <2>1. frac \in Int /\ n \in Int /\ n > 0 /\ 0 <= frac /\ frac <= n
    BY <1>5
  <2>2. n * (u1 * w2 - u2 * w1) = 0
    <3>1. n * (u1 * w2 - u2 * w1) = u1 * (n * w2) - u2 * (n * w1)
      BY <1>2, <2>1
    <3>2. u1 * (frac * u2) - u2 * (frac * u1) = 0
      BY <1>2, <2>1
    <3> QED
      BY <1>8, <3>1, <3>2
  <2>3. u1 * w2 - u2 * w1 = 0
    BY <1>2, <2>1, <2>2
  <2>4. \A w, u \in Int : n * w = frac * u =>
                            (0 <= w /\ w <= u) \/ (u <= w /\ w <= 0)
    <3> SUFFICES ASSUME NEW w \in Int, NEW u \in Int, n * w = frac * u
                 PROVE  (0 <= w /\ w <= u) \/ (u <= w /\ w <= 0)
      OBVIOUS
    <3>1. CASE u >= 0
      <4>1. 0 <= frac * u /\ frac * u <= n * u
        BY <2>1, <3>1
      <4>2. 0 <= n * w /\ n * w <= n * u
        BY <4>1
      <4>3. 0 <= w
        <5>1. SUFFICES ASSUME w <= -1 PROVE FALSE
          OBVIOUS
        <5>2. n * w <= n * (-1)
          BY <2>1, <5>1
        <5> QED
          BY <2>1, <4>2, <5>2
      <4>4. w <= u
        <5>1. SUFFICES ASSUME u + 1 <= w PROVE FALSE
          OBVIOUS
        <5>2. n * (u + 1) <= n * w
          BY <2>1, <5>1
        <5>3. n * (u + 1) = n * u + n
          BY <2>1
        <5> QED
          BY <2>1, <4>2, <5>2, <5>3
      <4> QED
        BY <4>3, <4>4
    <3>2. CASE u < 0
      <4>1. frac * u <= 0 /\ n * u <= frac * u
        BY <2>1, <3>2
      <4>2. n * w <= 0 /\ n * u <= n * w
        BY <4>1
      <4>3. w <= 0
        <5>1. SUFFICES ASSUME 1 <= w PROVE FALSE
          OBVIOUS
        <5>2. n * 1 <= n * w
          BY <2>1, <5>1
        <5> QED
          BY <2>1, <4>2, <5>2
      <4>4. u <= w
        <5>1. SUFFICES ASSUME w <= u - 1 PROVE FALSE
          OBVIOUS
        <5>2. n * w <= n * (u - 1)
          BY <2>1, <5>1
        <5>3. n * (u - 1) = n * u - n
          BY <2>1
        <5> QED
          BY <2>1, <4>2, <5>2, <5>3
      <4> QED
        BY <4>3, <4>4
    <3> QED
      BY <3>1, <3>2
  <2> QED
    BY <1>2, <1>3, <1>4, <1>8, <2>3, <2>4
<1>9. ASSUME Turn(a, b, c) = 0, OnSegment(a, c, b)
      PROVE  \E frac \in 0 .. n : n * w1 = frac * u1 /\ n * w2 = frac * u2
  <2> HIDE DEF u1, u2, w1, w2
  <2>1. u1 * w2 = u2 * w1
    BY <1>2, <1>3, <1>9
  <2>2. /\ (0 <= w1 /\ w1 <= u1) \/ (u1 <= w1 /\ w1 <= 0)
        /\ (0 <= w2 /\ w2 <= u2) \/ (u2 <= w2 /\ w2 <= 0)
    BY <1>4, <1>9
  <2>3. CASE way = 0
    <3>1. u1 = 0 /\ u2 = 0
      BY <1>2, <2>3 DEF Magnitude
    <3>2. w1 = 0 /\ w2 = 0
      BY <1>2, <2>2, <3>1
    <3>3. n * w1 = 0 * u1 /\ n * w2 = 0 * u2 /\ 0 \in 0 .. n
      BY <1>5, <3>1, <3>2
    <3> QED
      BY <3>3
  <2>4. CASE way # 0
    <3> DEFINE s == Magnitude(w1)
               t == Magnitude(w2)
               x == Magnitude(u1)
               y == Magnitude(u2)
               frac == s + t
    <3>1. s \in Nat /\ t \in Nat /\ x \in Nat /\ y \in Nat /\ s <= x /\ t <= y
      BY <1>2, <2>2 DEF Magnitude
    <3>2. n = x + y /\ frac \in 0 .. n
      BY <1>5, <2>4, <3>1
    <3>3. /\ (w1 = s /\ u1 = x) \/ (w1 = -s /\ u1 = -x)
          /\ (w2 = t /\ u2 = y) \/ (w2 = -t /\ u2 = -y)
      BY <1>2, <2>2 DEF Magnitude
    <3> HIDE DEF s, t, x, y, way
    <3>4. x * t = y * s
      <4>1. CASE w1 = s /\ u1 = x /\ w2 = t /\ u2 = y
        BY <2>1, <4>1
      <4>2. CASE w1 = -s /\ u1 = -x /\ w2 = t /\ u2 = y
        <5>1. (-x) * t = -(x * t) /\ y * (-s) = -(y * s)
          BY <3>1
        <5> QED
          BY <2>1, <3>1, <4>2, <5>1
      <4>3. CASE w1 = s /\ u1 = x /\ w2 = -t /\ u2 = -y
        <5>1. x * (-t) = -(x * t) /\ (-y) * s = -(y * s)
          BY <3>1
        <5> QED
          BY <2>1, <3>1, <4>3, <5>1
      <4>4. CASE w1 = -s /\ u1 = -x /\ w2 = -t /\ u2 = -y
        <5>1. (-x) * (-t) = x * t /\ (-y) * (-s) = y * s
          BY <3>1
        <5> QED
          BY <2>1, <3>1, <4>4, <5>1
      <4> QED
        BY <3>3, <4>1, <4>2, <4>3, <4>4
    <3>5. n * s = frac * x /\ n * t = frac * y
      <4> DEFINE xs == x * s
                 xt == x * t
                 ys == y * s
                 yt == y * t
      <4>1. /\ (x + y) * s = xs + ys /\ (s + t) * x = xs + xt
            /\ (x + y) * t = xt + yt /\ (s + t) * y = ys + yt
            /\ xs \in Int /\ xt \in Int /\ ys \in Int /\ yt \in Int
        BY ONLY <3>1
      <4>2. xt = ys
        BY <3>4
      <4> HIDE DEF xs, xt, ys, yt
      <4>3. (x + y) * s = (s + t) * x /\ (x + y) * t = (s + t) * y
        BY ONLY <4>1, <4>2
      <4>4. n = x + y /\ frac = s + t
        BY <3>2
      <4> HIDE DEF n, frac
      <4> QED
        BY ONLY <4>3, <4>4
    <3>6. n \in Int /\ frac \in Int
      BY <1>5, <3>1
    <3> HIDE DEF n, frac
    <3>7. n * (-s) = -(n * s) /\ frac * (-x) = -(frac * x)
      BY <3>1, <3>6
    <3>8. n * (-t) = -(n * t) /\ frac * (-y) = -(frac * y)
      BY <3>1, <3>6
    <3>9. n * w1 = frac * u1
      BY <3>3, <3>5, <3>7
    <3>10. n * w2 = frac * u2
      BY <3>3, <3>5, <3>8
    <3> QED
      BY <3>2, <3>9, <3>10
  <2> QED
    BY <2>3, <2>4
<1> QED
  BY <1>7, <1>8, <1>9

\* The turn of a weighted mean is the weighted mean of the turns.
LEMMA TurnOfMean ==
  ASSUME NEW x \in Plane, NEW y \in Plane, NEW a \in Plane, NEW b \in Plane,
         NEW c \in Plane, NEW n \in Int, NEW frac \in Int,
         Times(c, n) = Plus(Times(a, n - frac), Times(b, frac))
  PROVE  n * Turn(x, y, c) = (n - frac) * Turn(x, y, a) + frac * Turn(x, y, b)
<1> DEFINE u1 == y[1] - x[1]
           u2 == y[2] - x[2]
           a1 == a[1] - x[1]
           a2 == a[2] - x[2]
           b1 == b[1] - x[1]
           b2 == b[2] - x[2]
           c1 == c[1] - x[1]
           c2 == c[2] - x[2]
<1>1. /\ a[1] \in Int /\ a[2] \in Int /\ b[1] \in Int /\ b[2] \in Int
      /\ c[1] \in Int /\ c[2] \in Int /\ x[1] \in Int /\ x[2] \in Int
      /\ y[1] \in Int /\ y[2] \in Int
  BY DEF Plane
<1>2. /\ u1 \in Int /\ u2 \in Int /\ a1 \in Int /\ a2 \in Int
      /\ b1 \in Int /\ b2 \in Int /\ c1 \in Int /\ c2 \in Int
  BY <1>1
<1>3. /\ Turn(x, y, a) = u1 * a2 - u2 * a1
      /\ Turn(x, y, b) = u1 * b2 - u2 * b1
      /\ Turn(x, y, c) = u1 * c2 - u2 * c1
  BY TurnIs
<1>4. /\ c[1] * n = a[1] * (n - frac) + b[1] * frac
      /\ c[2] * n = a[2] * (n - frac) + b[2] * frac
  BY DEF Times, Plus
<1>5. /\ n * c1 = n * a1 + frac * (b1 - a1)
      /\ n * c2 = n * a2 + frac * (b2 - a2)
  <2>1. ASSUME NEW p \in Int, NEW q \in Int, NEW r \in Int, NEW o \in Int,
               r * n = p * (n - frac) + q * frac
        PROVE  n * (r - o) = n * (p - o) + frac * ((q - o) - (p - o))
    <3> DEFINE rn == r * n
               pn == p * n
               on == o * n
               ip == p * frac
               iq == q * frac
    <3>1. /\ n * (r - o) = rn - on /\ n * (p - o) = pn - on
          /\ frac * ((q - o) - (p - o)) = iq - ip /\ p * (n - frac) = pn - ip
          /\ rn \in Int /\ pn \in Int /\ on \in Int /\ ip \in Int /\ iq \in Int
      OBVIOUS
    <3>2. rn = pn - ip + iq
      BY <2>1, <3>1
    <3> HIDE DEF rn, pn, on, ip, iq
    <3> QED
      BY ONLY <3>1, <3>2
  <2>2. ASSUME NEW k \in {1, 2}
        PROVE  n * (c[k] - x[k]) = n * (a[k] - x[k]) + frac * ((b[k] - x[k]) - (a[k] - x[k]))
    <3> DEFINE p == a[k]
               q == b[k]
               r == c[k]
               o == x[k]
    <3>1. p \in Int /\ q \in Int /\ r \in Int /\ o \in Int
      BY <1>1
    <3>2. r * n = p * (n - frac) + q * frac
      BY <1>4
    <3> HIDE DEF p, q, r, o
    <3>3. n * (r - o) = n * (p - o) + frac * ((q - o) - (p - o))
      BY ONLY <2>1, <3>1, <3>2
    <3> QED
      BY <3>3 DEF p, q, r, o
  <2> QED
    BY <2>2
<1> HIDE DEF u1, u2, a1, a2, b1, b2, c1, c2
<1>6. n * (u1 * c2 - u2 * c1) = u1 * (n * c2) - u2 * (n * c1)
  BY <1>2
<1>7. u1 * (n * a2 + frac * (b2 - a2)) - u2 * (n * a1 + frac * (b1 - a1))
        = (n - frac) * (u1 * a2 - u2 * a1) + frac * (u1 * b2 - u2 * b1)
  BY <1>2
<1> QED
  BY <1>3, <1>5, <1>6, <1>7

\* A line through a point of a segment does not have both ends on one side.
LEMMA EndsOnBothSides ==
  ASSUME NEW x \in Plane, NEW y \in Plane, NEW a \in Plane, NEW b \in Plane,
         NEW c \in Plane, Turn(x, y, c) = 0, IsOn(c, a, b)
  PROVE  /\ ~(Turn(x, y, a) > 0 /\ Turn(x, y, b) > 0)
         /\ ~(Turn(x, y, a) < 0 /\ Turn(x, y, b) < 0)
<1>0. PICK n \in Nat \ {0} :
        \E frac \in 0 .. n : Times(c, n) = Plus(Times(a, n - frac), Times(b, frac))
  <2> DEFINE way == Magnitude(b[1] - a[1]) + Magnitude(b[2] - a[2])
             n == IF way = 0 THEN 1 ELSE way
  <2>1. way \in Nat
    BY DEF Magnitude, Plane
  <2>2. n \in Nat \ {0}
    BY <2>1
  <2>3. \E frac \in 0 .. n : Times(c, n) = Plus(Times(a, n - frac), Times(b, frac))
    BY DEF IsOn
  <2> HIDE DEF n
  <2> QED
    BY <2>2, <2>3
<1>1. PICK frac \in 0 .. n : Times(c, n) = Plus(Times(a, n - frac), Times(b, frac))
  BY <1>0
<1> DEFINE s == Turn(x, y, a)
           t == Turn(x, y, b)
           m == n - frac
<1>2. s \in Int /\ t \in Int
  BY TurnIs
<1>3. n \in Int /\ frac \in Int /\ m \in Nat /\ frac \in Nat /\ m + frac > 0
  OBVIOUS
<1>4. 0 = m * s + frac * t
  <2>1. n * 0 = (n - frac) * s + frac * t
    BY <1>1, <1>3, TurnOfMean
  <2> QED
    BY <1>3, <2>1
<1> HIDE DEF s, t, m
<1>5. ASSUME s > 0, t > 0 PROVE FALSE
  <2>1. m * s >= m /\ frac * t >= frac
    BY <1>2, <1>3, <1>5
  <2> QED
    BY <1>2, <1>3, <1>4, <2>1
<1>6. ASSUME s < 0, t < 0 PROVE FALSE
  <2>1. m * s <= m * (-1) /\ frac * t <= frac * (-1)
    BY <1>2, <1>3, <1>6
  <2> QED
    BY <1>2, <1>3, <1>4, <2>1
<1> QED
  BY <1>5, <1>6 DEF s, t

LEMMA NoZeroFactor ==
  ASSUME NEW x \in Int, NEW y \in Int, x # 0, x * y = 0
  PROVE  y = 0
<1>1. ASSUME y > 0 PROVE FALSE
  BY <1>1
<1>2. ASSUME y < 0 PROVE FALSE
  BY <1>2
<1> QED
  BY <1>1, <1>2

\* Where segments that are not parallel meet, by Cramer's rule.
LEMMA MeetingsAre ==
  ASSUME NEW a \in Plane, NEW b \in Plane, NEW c \in Plane, NEW d \in Plane,
         NEW n, n = Determinant(Minus(b, a), Minus(d, c)), n # 0,
         NEW frac \in Int, NEW j \in Int
  PROVE  <<frac, j>> \in Meetings(a, b, c, d) <=>
           /\ frac \in 0 .. Magnitude(n) /\ j \in 0 .. Magnitude(n)
           /\ \/ n > 0 /\ frac = Turn(c, d, a) /\ j = -Turn(a, b, c)
              \/ n < 0 /\ frac = -Turn(c, d, a) /\ j = Turn(a, b, c)
<1> DEFINE u1 == b[1] - a[1]
           u2 == b[2] - a[2]
           v1 == d[1] - c[1]
           v2 == d[2] - c[2]
           w1 == c[1] - a[1]
           w2 == c[2] - a[2]
           s == Turn(c, d, a)
           t == Turn(a, b, c)
           size == Magnitude(n)
<1>1. /\ a[1] \in Int /\ a[2] \in Int /\ b[1] \in Int /\ b[2] \in Int
      /\ c[1] \in Int /\ c[2] \in Int /\ d[1] \in Int /\ d[2] \in Int
  BY DEF Plane
<1>2. /\ u1 \in Int /\ u2 \in Int /\ v1 \in Int /\ v2 \in Int
      /\ w1 \in Int /\ w2 \in Int
  BY <1>1
<1>3. n = u1 * v2 - u2 * v1
  BY DEF Determinant, Minus
<1>4. t = u1 * w2 - u2 * w1
  BY TurnIs
<1>5. s = v2 * w1 - v1 * w2
  <2>1. s = v1 * (a[2] - c[2]) - v2 * (a[1] - c[1])
    BY TurnIs
  <2>2. a[2] - c[2] = -w2 /\ a[1] - c[1] = -w1
    BY <1>1
  <2> HIDE DEF v1, v2, w1, w2
  <2>3. v1 * (-w2) - v2 * (-w1) = v2 * w1 - v1 * w2
    BY <1>2
  <2> QED
    BY <2>1, <2>2, <2>3
<1>6. <<frac, j>> \in Meetings(a, b, c, d) <=>
        /\ frac \in 0 .. size /\ j \in 0 .. size /\ size > 0
        /\ a[1] * size + u1 * frac = c[1] * size + v1 * j
        /\ a[2] * size + u2 * frac = c[2] * size + v2 * j
  BY DEF Meetings, Plus, Times, Minus
<1>7. n \in Int /\ size \in Int /\ size > 0
      /\ (n > 0 => size = n) /\ (n < 0 => size = -n)
  <2>1. n \in Int
    BY <1>2, <1>3
  <2> QED
    BY <2>1 DEF Magnitude
<1>8. ASSUME NEW p \in Int, NEW q \in Int, NEW u \in Int, NEW v \in Int
      PROVE  p * size + u * frac = q * size + v * j <=> size * (q - p) = u * frac - v * j
  <2> HIDE DEF size
  <2> DEFINE e == p * size
             f == q * size
             g == u * frac
             h == v * j
  <2>1. size * (q - p) = f - e /\ e \in Int /\ f \in Int /\ g \in Int /\ h \in Int
    BY <1>7
  <2> HIDE DEF e, f, g, h
  <2>2. e + g = f + h <=> f - e = g - h
    BY <2>1
  <2> QED
    BY <2>1, <2>2 DEF e, f, g, h
<1>9. /\ a[1] * size + u1 * frac = c[1] * size + v1 * j <=> size * w1 = u1 * frac - v1 * j
      /\ a[2] * size + u2 * frac = c[2] * size + v2 * j <=> size * w2 = u2 * frac - v2 * j
  <2> DEFINE a1 == a[1]
             a2 == a[2]
             c1 == c[1]
             c2 == c[2]
  <2>1. /\ a1 \in Int /\ a2 \in Int /\ c1 \in Int /\ c2 \in Int
        /\ w1 = c1 - a1 /\ w2 = c2 - a2
    BY <1>1
  <2> HIDE DEF size, u1, u2, v1, v2, w1, w2, a1, a2, c1, c2
  <2>2. a1 * size + u1 * frac = c1 * size + v1 * j <=> size * w1 = u1 * frac - v1 * j
    BY ONLY <1>2, <2>1, <1>8
  <2>3. a2 * size + u2 * frac = c2 * size + v2 * j <=> size * w2 = u2 * frac - v2 * j
    BY ONLY <1>2, <2>1, <1>8
  <2> QED
    BY <2>2, <2>3 DEF a1, a2, c1, c2
<1> DEFINE Solves == size * w1 = u1 * frac - v1 * j /\ size * w2 = u2 * frac - v2 * j
           Fits == \/ n > 0 /\ frac = s /\ j = -t
                   \/ n < 0 /\ frac = -s /\ j = t
<1>10. Solves => Fits
  <2> SUFFICES ASSUME Solves PROVE Fits
    OBVIOUS
  <2> HIDE DEF size, u1, u2, v1, v2, w1, w2, s, t
  <2>1. size * s = n * frac
    <3>1. size * (v2 * w1 - v1 * w2) = v2 * (size * w1) - v1 * (size * w2)
      BY <1>2, <1>7
    <3>2. v2 * (u1 * frac - v1 * j) - v1 * (u2 * frac - v2 * j) = (u1 * v2 - u2 * v1) * frac
      BY <1>2
    <3> QED
      BY ONLY <1>3, <1>5, <3>1, <3>2, Solves
  <2>2. size * t = -(n * j)
    <3>1. size * (u1 * w2 - u2 * w1) = u1 * (size * w2) - u2 * (size * w1)
      BY <1>2, <1>7
    <3>2. u1 * (u2 * frac - v2 * j) - u2 * (u1 * frac - v1 * j) = -((u1 * v2 - u2 * v1) * j)
      BY <1>2
    <3> QED
      BY ONLY <1>3, <1>4, <3>1, <3>2, Solves
  <2>3. s \in Int /\ t \in Int
    BY <1>2, <1>4, <1>5
  <2>4. CASE n > 0
    <3>1. n * (s - frac) = 0 /\ n * (t + j) = 0
      BY <1>7, <2>1, <2>2, <2>3, <2>4
    <3>2. s - frac \in Int /\ t + j \in Int
      BY <2>3
    <3>3. s - frac = 0 /\ t + j = 0
      BY ONLY <1>7, <2>4, <3>1, <3>2, NoZeroFactor
    <3> QED
      BY <2>3, <2>4, <3>3
  <2>5. CASE n < 0
    <3>1. n * (s + frac) = 0 /\ n * (t - j) = 0
      BY <1>7, <2>1, <2>2, <2>3, <2>5
    <3>2. s + frac \in Int /\ t - j \in Int
      BY <2>3
    <3>3. s + frac = 0 /\ t - j = 0
      BY ONLY <1>7, <2>5, <3>1, <3>2, NoZeroFactor
    <3> QED
      BY <2>3, <2>5, <3>3
  <2> QED
    BY <1>7, <2>4, <2>5
<1>11. Fits => Solves
  <2> SUFFICES ASSUME Fits PROVE Solves
    OBVIOUS
  <2> HIDE DEF size, u1, u2, v1, v2, w1, w2
  <2>1. /\ u1 * (v2 * w1 - v1 * w2) + v1 * (u1 * w2 - u2 * w1) = (u1 * v2 - u2 * v1) * w1
        /\ u2 * (v2 * w1 - v1 * w2) + v2 * (u1 * w2 - u2 * w1) = (u1 * v2 - u2 * v1) * w2
    BY ONLY <1>2
  <2> HIDE DEF s, t
  <2>2. u1 * s + v1 * t = n * w1 /\ u2 * s + v2 * t = n * w2
    BY ONLY <1>3, <1>4, <1>5, <2>1
  <2>3. s \in Int /\ t \in Int
    BY <1>2, <1>4, <1>5
  <2>4. CASE n > 0
    <3>1. v1 * (-t) = -(v1 * t) /\ v2 * (-t) = -(v2 * t)
      BY <1>2, <2>3
    <3>2. /\ u1 * s \in Int /\ u2 * s \in Int /\ v1 * t \in Int /\ v2 * t \in Int
      BY <1>2, <2>3
    <3>3. size = n /\ frac = s /\ j = -t
      BY <1>7, <2>4
    <3> QED
      BY ONLY <2>2, <3>1, <3>2, <3>3
  <2>5. CASE n < 0
    <3>1. u1 * (-s) = -(u1 * s) /\ u2 * (-s) = -(u2 * s)
      BY <1>2, <2>3
    <3>2. /\ u1 * s \in Int /\ u2 * s \in Int /\ v1 * t \in Int /\ v2 * t \in Int
      BY <1>2, <2>3
    <3>3. size = -n /\ frac = -s /\ j = t
      BY <1>7, <2>5
    <3>4. (-n) * w1 = -(n * w1) /\ (-n) * w2 = -(n * w2)
      BY <1>2, <1>7
    <3> QED
      BY ONLY <2>2, <3>1, <3>2, <3>3, <3>4
  <2> QED
    BY <1>7, <2>4, <2>5
<1>12. <<frac, j>> \in Meetings(a, b, c, d) <=>
         frac \in 0 .. size /\ j \in 0 .. size /\ Solves
  BY <1>6, <1>7, <1>9
<1> HIDE DEF Solves, Fits
<1>13. <<frac, j>> \in Meetings(a, b, c, d) <=>
         frac \in 0 .. size /\ j \in 0 .. size /\ Fits
  BY <1>10, <1>11, <1>12
<1> QED
  BY <1>13 DEF Fits, s, t, size

\* On the same side of a line, or both on it.
Alike(s, t) == (s > 0 /\ t > 0) \/ (s < 0 /\ t < 0) \/ (s = 0 /\ t = 0)

LEMMA OrientationsAlike ==
  ASSUME NEW a \in Plane, NEW b \in Plane, NEW c \in Plane, NEW d \in Plane
  PROVE  Orientation(a, b, c) = Orientation(a, b, d)
           <=> Alike(Turn(a, b, c), Turn(a, b, d))
<1> DEFINE s == Turn(a, b, c)
           t == Turn(a, b, d)
<1>1. s \in Int /\ t \in Int
  BY TurnIs
<1>2. /\ Orientation(a, b, c) = 0 <=> s = 0
      /\ Orientation(a, b, c) = 1 <=> s < 0
      /\ Orientation(a, b, c) = 2 <=> s > 0
      /\ Orientation(a, b, c) \in {0, 1, 2}
  BY OrientationIs
<1>3. /\ Orientation(a, b, d) = 0 <=> t = 0
      /\ Orientation(a, b, d) = 1 <=> t < 0
      /\ Orientation(a, b, d) = 2 <=> t > 0
      /\ Orientation(a, b, d) \in {0, 1, 2}
  BY OrientationIs
<1> HIDE DEF s, t
<1>4. Orientation(a, b, c) = Orientation(a, b, d) <=> Alike(s, t)
  BY <1>1, <1>2, <1>3 DEF Alike
<1> QED
  BY <1>4 DEF s, t

\* The ends of each segment are on different sides of the other, or an end is on
\* the other segment.
LEMMA DoIntersectIs ==
  ASSUME NEW a \in Plane, NEW b \in Plane, NEW c \in Plane, NEW d \in Plane
  PROVE  DoIntersect(a, b, c, d) <=>
           \/ /\ ~Alike(Turn(a, b, c), Turn(a, b, d))
              /\ ~Alike(Turn(c, d, a), Turn(c, d, b))
           \/ IsOn(c, a, b) \/ IsOn(d, a, b) \/ IsOn(a, c, d) \/ IsOn(b, c, d)
<1>1. /\ Orientation(a, b, c) = 0 /\ OnSegment(a, c, b) <=> IsOn(c, a, b)
      /\ Orientation(a, b, d) = 0 /\ OnSegment(a, d, b) <=> IsOn(d, a, b)
      /\ Orientation(c, d, a) = 0 /\ OnSegment(c, a, d) <=> IsOn(a, c, d)
      /\ Orientation(c, d, b) = 0 /\ OnSegment(c, b, d) <=> IsOn(b, c, d)
  BY OrientationIs, IsOnIs
<1>2. /\ Orientation(a, b, c) = Orientation(a, b, d)
           <=> Alike(Turn(a, b, c), Turn(a, b, d))
      /\ Orientation(c, d, a) = Orientation(c, d, b)
           <=> Alike(Turn(c, d, a), Turn(c, d, b))
  BY OrientationsAlike
<1> QED
  BY <1>1, <1>2 DEF DoIntersect

\* DoIntersect finds the segments that have a point in common.
LEMMA IntersectsIfMeets ==
  ASSUME NEW a \in Plane, NEW b \in Plane, NEW c \in Plane, NEW d \in Plane
  PROVE  DoIntersect(a, b, c, d) <=> Meet(a, b, c, d)
<1> DEFINE n == Determinant(Minus(b, a), Minus(d, c))
           s == Turn(a, b, c)
           t == Turn(c, d, a)
           size == Magnitude(n)
           on == IsOn(c, a, b) \/ IsOn(d, a, b) \/ IsOn(a, c, d) \/ IsOn(b, c, d)
<1>1. /\ n \in Int /\ s \in Int /\ t \in Int
      /\ Turn(a, b, d) = s + n /\ Turn(c, d, b) = t - n
  BY TurnsOfEnds, TurnIs
<1>2. DoIntersect(a, b, c, d) <=> (~Alike(s, s + n) /\ ~Alike(t, t - n)) \/ on
  BY <1>1, DoIntersectIs
<1>3. Meet(a, b, c, d) <=> IF n = 0 THEN on ELSE Meetings(a, b, c, d) # {}
  BY DEF Meet, Parallel
<1>4. CASE n = 0
  <2>1. Alike(s, s + n)
    BY <1>1, <1>4 DEF Alike
  <2> QED
    BY <1>2, <1>3, <1>4, <2>1
<1>5. CASE n # 0
  <2>1. ASSUME on PROVE ~Alike(s, s + n) /\ ~Alike(t, t - n)
    <3>1. /\ Turn(a, b, a) = 0 /\ Turn(a, b, b) = 0
          /\ Turn(c, d, c) = 0 /\ Turn(c, d, d) = 0
      <4>1. \A x, y \in Plane : Turn(x, y, x) = 0 /\ Turn(x, y, y) = 0
        <5> SUFFICES ASSUME NEW x \in Plane, NEW y \in Plane
                     PROVE  Turn(x, y, x) = 0 /\ Turn(x, y, y) = 0
          OBVIOUS
        <5> DEFINE x1 == x[1]
                   x2 == x[2]
                   y1 == y[1]
                   y2 == y[2]
        <5>1. x1 \in Int /\ x2 \in Int /\ y1 \in Int /\ y2 \in Int
          BY DEF Plane
        <5>2. /\ Turn(x, y, x) = (y1 - x1) * (x2 - x2) - (y2 - x2) * (x1 - x1)
              /\ Turn(x, y, y) = (y1 - x1) * (y2 - x2) - (y2 - x2) * (y1 - x1)
          BY TurnIs
        <5> HIDE DEF x1, x2, y1, y2
        <5> QED
          BY <5>1, <5>2
      <4> QED
        BY <4>1
    <3>2. CASE IsOn(c, a, b)
      <4>1. /\ ~(t > 0 /\ Turn(c, d, b) > 0) /\ ~(t < 0 /\ Turn(c, d, b) < 0)
        BY <3>1, <3>2, EndsOnBothSides
      <4>2. s = 0
        BY <3>2, IsOnIs
      <4> HIDE DEF n, s, t
      <4> QED
        BY <1>1, <1>5, <4>1, <4>2 DEF Alike
    <3>3. CASE IsOn(d, a, b)
      <4>1. /\ ~(t > 0 /\ Turn(c, d, b) > 0) /\ ~(t < 0 /\ Turn(c, d, b) < 0)
        BY <3>1, <3>3, EndsOnBothSides
      <4>2. s + n = 0
        BY <1>1, <3>3, IsOnIs
      <4> HIDE DEF n, s, t
      <4> QED
        BY <1>1, <1>5, <4>1, <4>2 DEF Alike
    <3>4. CASE IsOn(a, c, d)
      <4>1. /\ ~(s > 0 /\ Turn(a, b, d) > 0) /\ ~(s < 0 /\ Turn(a, b, d) < 0)
        BY <3>1, <3>4, EndsOnBothSides
      <4>2. t = 0
        BY <3>4, IsOnIs
      <4> HIDE DEF n, s, t
      <4> QED
        BY <1>1, <1>5, <4>1, <4>2 DEF Alike
    <3>5. CASE IsOn(b, c, d)
      <4>1. /\ ~(s > 0 /\ Turn(a, b, d) > 0) /\ ~(s < 0 /\ Turn(a, b, d) < 0)
        BY <3>1, <3>5, EndsOnBothSides
      <4>2. t - n = 0
        BY <1>1, <3>5, IsOnIs
      <4> HIDE DEF n, s, t
      <4> QED
        BY <1>1, <1>5, <4>1, <4>2 DEF Alike
    <3> QED
      BY <2>1, <3>2, <3>3, <3>4, <3>5
  <2>2. ASSUME NEW frac \in Int, NEW j \in Int
        PROVE  <<frac, j>> \in Meetings(a, b, c, d) <=>
                 /\ frac \in 0 .. size /\ j \in 0 .. size
                 /\ \/ n > 0 /\ frac = t /\ j = -s
                    \/ n < 0 /\ frac = -t /\ j = s
    <3>1. n = Determinant(Minus(b, a), Minus(d, c))
      OBVIOUS
    <3> HIDE DEF n
    <3> QED
      BY <1>5, <3>1, MeetingsAre
  <2>3. \A m \in Meetings(a, b, c, d) :
          m = <<m[1], m[2]>> /\ m[1] \in 0 .. size /\ m[2] \in 0 .. size
    <3>1. \A m \in Meetings(a, b, c, d) : m \in (0 .. size) \X (0 .. size)
      BY DEF Meetings
    <3> QED
      BY <3>1
  <2>4. Meetings(a, b, c, d) # {} <=>
          \E frac, j \in Int : /\ frac \in 0 .. size /\ j \in 0 .. size
                            /\ \/ n > 0 /\ frac = t /\ j = -s
                               \/ n < 0 /\ frac = -t /\ j = s
    <3> HIDE DEF n, s, t, size
    <3>1. ASSUME NEW m \in Meetings(a, b, c, d)
          PROVE  \E frac, j \in Int : /\ frac \in 0 .. size /\ j \in 0 .. size
                                   /\ \/ n > 0 /\ frac = t /\ j = -s
                                      \/ n < 0 /\ frac = -t /\ j = s
      <4> DEFINE frac == m[1]
                 j == m[2]
      <4>1. frac \in 0 .. size /\ j \in 0 .. size /\ <<frac, j>> \in Meetings(a, b, c, d)
        BY <2>3
      <4> HIDE DEF frac, j
      <4> QED
        BY <2>2, <4>1
    <3> QED
      BY <2>2, <3>1
  <2>5. size \in Int /\ (n > 0 => size = n) /\ (n < 0 => size = -n)
    BY <1>1 DEF Magnitude
  <2> HIDE DEF n, s, t, size, on
  <2>6. Meetings(a, b, c, d) # {} <=>
          \/ n > 0 /\ 0 <= t /\ t <= n /\ 0 <= -s /\ -s <= n
          \/ n < 0 /\ 0 <= -t /\ -t <= -n /\ 0 <= s /\ s <= -n
    BY <1>1, <2>4, <2>5
  <2>7. Meetings(a, b, c, d) # {} <=> ~Alike(s, s + n) /\ ~Alike(t, t - n)
    BY <1>1, <1>5, <2>6 DEF Alike
  <2> QED
    BY <1>2, <1>3, <1>5, <2>1, <2>7
<1> QED
  BY <1>4, <1>5

LEMMA ProductIsNegative ==
  ASSUME NEW x \in Int, NEW y \in Int
  PROVE  x * y < 0 <=> (x < 0 /\ y > 0) \/ (x > 0 /\ y < 0)
<1>1. ASSUME x > 0, y > 0 PROVE x * y > 0
  BY <1>1
<1>2. ASSUME x > 0, y < 0 PROVE x * y < 0
  BY <1>2
<1>3. ASSUME x < 0, y > 0 PROVE x * y < 0
  BY <1>3
<1>4. ASSUME x < 0, y < 0 PROVE x * y > 0
  BY <1>4
<1>5. ASSUME x = 0 \/ y = 0 PROVE x * y = 0
  BY <1>5
<1>6. x * y \in Int
  OBVIOUS
<1> DEFINE z == x * y
<1> HIDE DEF z
<1>7. z < 0 <=> (x < 0 /\ y > 0) \/ (x > 0 /\ y < 0)
  BY <1>1, <1>2, <1>3, <1>4, <1>5, <1>6 DEF z
<1> QED
  BY <1>7 DEF z

\* Meetings within both segments.
Inner(a, b, c, d) ==
  {m \in Meetings(a, b, c, d) :
     {m[1], m[2]} \cap {0, Magnitude(Determinant(Minus(b, a), Minus(d, c)))} = {}}

IsCrossing(crossing, a, b, c, d) ==
  LET size == Magnitude(Determinant(Minus(b, a), Minus(d, c)))
  IN  /\ crossing.hit <=> Inner(a, b, c, d) # {}
      /\ crossing.hit =>
           \E m \in Inner(a, b, c, d) :
             Times(crossing.position, size) =
               Times(Plus(Times(a, size), Times(Minus(b, a), m[1])), crossing.den)

\* LineSegmentsIntersect finds the segments that cross within both, and where.
LEMMA CrossingIsFound ==
  ASSUME NEW a \in Plane, NEW b \in Plane, NEW c \in Plane, NEW d \in Plane,
         NEW crossing, crossing = LineSegmentsIntersect(a, b, c, d)
  PROVE  IsCrossing(crossing, a, b, c, d)
<1> DEFINE n == Determinant(Minus(b, a), Minus(d, c))
           s == Turn(a, b, c)
           t == Turn(c, d, a)
           size == Magnitude(n)
           frac == IF n > 0 THEN t ELSE -t
           j == IF n > 0 THEN -s ELSE s
<1>1. /\ n \in Int /\ s \in Int /\ t \in Int
      /\ Turn(a, b, d) = s + n /\ Turn(c, d, b) = t - n
  BY TurnsOfEnds, TurnIs
<1>2. /\ Signed2DTriArea(a, b, d) = s + n
      /\ Signed2DTriArea(a, b, c) = s
      /\ Signed2DTriArea(c, d, a) = t
  BY <1>1, TriAreaIs
<1>3. size \in Nat /\ (n > 0 => size = n) /\ (n <= 0 => size = -n)
  BY <1>1 DEF Magnitude
<1>4. crossing = IF (s + n) * s >= 0 \/ t * (t + s - (s + n)) >= 0
                   THEN [hit |-> FALSE]
                   ELSE [hit |-> TRUE, num |-> t, den |-> t - (t + s - (s + n)),
                         position |-> Plus(Times(a, t - (t + s - (s + n))),
                                           Times(Minus(b, a), t))]
  BY <1>2 DEF LineSegmentsIntersect
<1>5. Inner(a, b, c, d) = {m \in Meetings(a, b, c, d) : {m[1], m[2]} \cap {0, size} = {}}
  BY DEF Inner
<1>6. \A m \in Meetings(a, b, c, d) :
        m = <<m[1], m[2]>> /\ m[1] \in 0 .. size /\ m[2] \in 0 .. size /\ size > 0
  <2>1. \A m \in Meetings(a, b, c, d) : m \in (0 .. size) \X (0 .. size) /\ size > 0
    BY DEF Meetings
  <2> QED
    BY <2>1
<1>7. n # 0 => \A k, l \in Int :
        <<k, l>> \in Meetings(a, b, c, d) <=>
          k \in 0 .. size /\ l \in 0 .. size /\ k = frac /\ l = j
  <2> SUFFICES ASSUME n # 0, NEW k \in Int, NEW l \in Int
               PROVE  <<k, l>> \in Meetings(a, b, c, d) <=>
                        k \in 0 .. size /\ l \in 0 .. size /\ k = frac /\ l = j
    OBVIOUS
  <2>1. n = Determinant(Minus(b, a), Minus(d, c))
    OBVIOUS
  <2> HIDE DEF n
  <2>2. <<k, l>> \in Meetings(a, b, c, d) <=>
           /\ k \in 0 .. size /\ l \in 0 .. size
           /\ \/ n > 0 /\ k = t /\ l = -s
              \/ n < 0 /\ k = -t /\ l = s
    BY <2>1, MeetingsAre
  <2> HIDE DEF s, t, size
  <2> QED
    BY <1>1, <2>2
<1>8. Times(Plus(Times(a, n), Times(Minus(b, a), t)), size) =
        Times(Plus(Times(a, size), Times(Minus(b, a), frac)), n)
  <2>1. ASSUME NEW x \in Int, NEW u \in Int
        PROVE  (x * n + u * t) * size = (x * size + u * frac) * n
    <3>1. CASE n > 0
      <4>1. size = n /\ frac = t
        BY <1>3, <3>1
      <4> HIDE DEF n, t, size, frac
      <4> QED
        BY ONLY <4>1
    <3>2. CASE n <= 0
      <4>1. size = -n /\ frac = -t
        BY <1>3, <3>2, <1>1
      <4> HIDE DEF n, t, size, frac
      <4>2. (x * n + u * t) * (-n) = (x * (-n) + u * (-t)) * n
        BY <1>1
      <4> QED
        BY ONLY <4>1, <4>2
    <3> QED
      BY <1>1, <3>1, <3>2
  <2>2. ASSUME NEW k \in {1, 2}
        PROVE  (a[k] * n + (b[k] - a[k]) * t) * size
                 = (a[k] * size + (b[k] - a[k]) * frac) * n
    <3> DEFINE x == a[k]
               u == b[k] - a[k]
    <3>1. x \in Int /\ u \in Int
      BY DEF Plane
    <3> HIDE DEF x, u, n, t, size, frac
    <3>2. (x * n + u * t) * size = (x * size + u * frac) * n
      BY ONLY <2>1, <3>1
    <3> QED
      BY <3>2 DEF x, u
  <2> HIDE DEF n, t, size, frac
  <2> QED
    BY <2>2 DEF Times, Plus, Minus
<1> HIDE DEF n, s, t, size
<1>9. t + s - (s + n) = t - n /\ t - (t - n) = n
  BY <1>1
<1>10. crossing.hit <=> (s + n) * s < 0 /\ t * (t - n) < 0
  <2>1. (s + n) * s \in Int /\ t * (t - n) \in Int
    BY <1>1
  <2> DEFINE x == (s + n) * s
             y == t * (t - n)
  <2> HIDE DEF x, y
  <2>2. crossing = IF x >= 0 \/ y >= 0
                     THEN [hit |-> FALSE]
                     ELSE [hit |-> TRUE, num |-> t, den |-> n,
                           position |-> Plus(Times(a, n), Times(Minus(b, a), t))]
    BY <1>4, <1>9 DEF x, y
  <2>3. crossing.hit <=> x < 0 /\ y < 0
    BY <2>1, <2>2 DEF x, y
  <2> QED
    BY <2>3 DEF x, y
<1>11. crossing.hit => crossing.den = n
         /\ crossing.position = Plus(Times(a, n), Times(Minus(b, a), t))
  BY <1>4, <1>9
<1>12. crossing.hit <=> /\ (s + n < 0 /\ s > 0) \/ (s + n > 0 /\ s < 0)
                        /\ (t < 0 /\ t - n > 0) \/ (t > 0 /\ t - n < 0)
  <2>1. /\ (s + n) * s < 0 <=> (s + n < 0 /\ s > 0) \/ (s + n > 0 /\ s < 0)
        /\ t * (t - n) < 0 <=> (t < 0 /\ t - n > 0) \/ (t > 0 /\ t - n < 0)
    BY <1>1, ProductIsNegative
  <2> QED
    BY <1>10, <2>1
<1>13. crossing.hit => <<frac, j>> \in Inner(a, b, c, d)
  <2> SUFFICES ASSUME crossing.hit PROVE <<frac, j>> \in Inner(a, b, c, d)
    OBVIOUS
  <2>1. /\ n # 0 /\ frac \in Int /\ j \in Int
        /\ 0 < frac /\ frac < size /\ 0 < j /\ j < size
    BY <1>1, <1>3, <1>12
  <2> HIDE DEF frac, j
  <2>2. <<frac, j>> \in Meetings(a, b, c, d)
    BY <1>3, <1>7, <2>1
  <2> QED
    BY <1>5, <2>1, <2>2
<1>14. Inner(a, b, c, d) # {} => crossing.hit
  <2> SUFFICES ASSUME NEW m \in Inner(a, b, c, d) PROVE crossing.hit
    OBVIOUS
  <2> DEFINE k == m[1]
             l == m[2]
  <2>1. /\ <<k, l>> \in Meetings(a, b, c, d)
        /\ k \in 0 .. size /\ l \in 0 .. size /\ size > 0
        /\ k # 0 /\ k # size /\ l # 0 /\ l # size
    BY <1>5, <1>6
  <2> HIDE DEF k, l
  <2>2. n # 0
    BY <1>1, <1>3, <2>1
  <2>3. k = frac /\ l = j
    BY <1>3, <1>7, <2>1, <2>2
  <2> QED
    BY <1>1, <1>3, <1>12, <2>1, <2>2, <2>3
<1>15. ASSUME crossing.hit
       PROVE  \E m \in Inner(a, b, c, d) :
                Times(crossing.position, size) =
                  Times(Plus(Times(a, size), Times(Minus(b, a), m[1])), crossing.den)
  <2> DEFINE m == <<frac, j>>
  <2>1. m \in Inner(a, b, c, d)
    BY <1>13, <1>15
  <2>2. m[1] = frac
    OBVIOUS
  <2> HIDE DEF m, frac, j
  <2>3. Times(crossing.position, size) =
          Times(Plus(Times(a, size), Times(Minus(b, a), m[1])), crossing.den)
    BY <1>8, <1>11, <1>15, <2>2
  <2> QED
    BY <2>1, <2>3
<1> QED
  BY <1>13, <1>14, <1>15 DEF IsCrossing, size, n

LEMMA SegmentsAlwaysMeet ==
  ASSUME point \in [1 .. 4 -> Plane]
  PROVE  SegmentsMeet
<1> DEFINE a == point[1]
           b == point[2]
           c == point[3]
           d == point[4]
           crossing == LineSegmentsIntersect(a, b, c, d)
           size == Magnitude(Determinant(Minus(b, a), Minus(d, c)))
<1>1. a \in Plane /\ b \in Plane /\ c \in Plane /\ d \in Plane
  OBVIOUS
<1> HIDE DEF a, b, c, d
<1>2. DoIntersect(a, b, c, d) <=> Meet(a, b, c, d)
  BY <1>1, IntersectsIfMeets
<1>3. IsCrossing(crossing, a, b, c, d)
  <2>1. crossing = LineSegmentsIntersect(a, b, c, d)
    OBVIOUS
  <2> HIDE DEF crossing
  <2> QED
    BY <1>1, <2>1, CrossingIsFound
<1> DEFINE inner == {m \in Meetings(a, b, c, d) : {m[1], m[2]} \cap {0, size} = {}}
<1>4. inner = Inner(a, b, c, d)
  BY DEF Inner
<1> HIDE DEF crossing, inner
<1>5. /\ crossing.hit <=> inner # {}
      /\ crossing.hit =>
           \E m \in inner :
             Times(crossing.position, size) =
               Times(Plus(Times(a, size), Times(Minus(b, a), m[1])), crossing.den)
  BY <1>3, <1>4 DEF IsCrossing
<1> HIDE DEF size
<1> QED
  BY <1>2, <1>5 DEF SegmentsMeet, a, b, c, d, crossing, size, inner

-----------------------------------------------------------------------------
(* Points inside. *)

\* The ray from d to the right crosses the edge from p to q.
Crosses(p, q, d) ==
  \/ p[2] < d[2] /\ d[2] < q[2] /\ Turn(p, q, d) >= 0
  \/ q[2] < d[2] /\ d[2] < p[2] /\ Turn(p, q, d) <= 0

\* No corner is on the ray.
Beside(p, d) == p[2] = d[2] => p[1] < d[1]

LEMMA RayCrosses ==
  ASSUME NEW p \in Plane, NEW q \in Plane, NEW d \in Plane,
         p[1] < kFar, q[1] < kFar, d[1] < kFar, kFar \in Int,
         Beside(p, d), Beside(q, d)
  PROVE  /\ DoIntersect(p, q, d, <<kFar, d[2]>>) <=> Crosses(p, q, d)
         /\ Orientation(p, d, q) = 0 <=> Turn(p, q, d) = 0
<1> DEFINE e == <<kFar, d[2]>>
           p1 == p[1] - d[1]
           p2 == p[2] - d[2]
           q1 == q[1] - d[1]
           q2 == q[2] - d[2]
           f == kFar - d[1]
           t == Turn(p, q, d)
           r == Turn(p, q, e)
           far == q2 - p2
<1>1. /\ p[1] \in Int /\ p[2] \in Int /\ q[1] \in Int /\ q[2] \in Int
      /\ d[1] \in Int /\ d[2] \in Int /\ e \in Plane /\ e[1] = kFar /\ e[2] = d[2]
  BY DEF Plane
<1>2. /\ p1 \in Int /\ p2 \in Int /\ q1 \in Int /\ q2 \in Int /\ f \in Int
      /\ p1 < f /\ q1 < f /\ f > 0
      /\ p2 = 0 => p1 < 0
      /\ q2 = 0 => q1 < 0
  BY <1>1 DEF Beside
<1>3. t = q2 * p1 - q1 * p2
  <2>1. t = (q[1] - p[1]) * (d[2] - p[2]) - (q[2] - p[2]) * (d[1] - p[1])
    BY TurnIs
  <2>2. q[1] - p[1] = q1 - p1 /\ q[2] - p[2] = q2 - p2 /\ d[2] - p[2] = -p2 /\ d[1] - p[1] = -p1
    BY <1>1
  <2> HIDE DEF p1, p2, q1, q2
  <2>3. (q1 - p1) * (-p2) - (q2 - p2) * (-p1) = q2 * p1 - q1 * p2
    BY <1>2
  <2> QED
    BY <2>1, <2>2, <2>3
<1>4. r = q2 * (p1 - f) - (q1 - f) * p2
  <2>1. r = (q[1] - p[1]) * (e[2] - p[2]) - (q[2] - p[2]) * (e[1] - p[1])
    BY <1>1, TurnIs
  <2>2. q[1] - p[1] = q1 - p1 /\ q[2] - p[2] = q2 - p2 /\ e[2] - p[2] = -p2 /\ e[1] - p[1] = f - p1
    BY <1>1
  <2> HIDE DEF p1, p2, q1, q2, f
  <2>3. (q1 - p1) * (-p2) - (q2 - p2) * (f - p1) = q2 * (p1 - f) - (q1 - f) * p2
    BY <1>2
  <2> QED
    BY <2>1, <2>2, <2>3
<1>5. Turn(d, e, p) = f * p2 /\ Turn(d, e, q) = f * q2
  BY <1>1, TurnIs
<1>6. /\ Turn(d, e, p) > 0 <=> p2 > 0
      /\ Turn(d, e, p) < 0 <=> p2 < 0
      /\ Turn(d, e, q) > 0 <=> q2 > 0
      /\ Turn(d, e, q) < 0 <=> q2 < 0
      /\ Turn(d, e, p) \in Int /\ Turn(d, e, q) \in Int
  <2> HIDE DEF p2, q2, f
  <2>1. ASSUME NEW x \in Int
        PROVE  f * x \in Int /\ (f * x > 0 <=> x > 0) /\ (f * x < 0 <=> x < 0)
    <3>1. CASE x > 0
      <4>1. f * x > 0
        BY <1>2, <3>1
      <4> QED
        BY <1>2, <3>1, <4>1
    <3>2. CASE x < 0
      <4>1. f * x < 0
        BY <1>2, <3>2
      <4> QED
        BY <1>2, <3>2, <4>1
    <3>3. CASE x = 0
      BY <1>2, <3>3
    <3> QED
      BY <3>1, <3>2, <3>3
  <2> QED
    BY <1>2, <1>5, <2>1
<1>7. DoIntersect(p, q, d, e) <=>
        \/ ~Alike(t, r) /\ ~Alike(Turn(d, e, p), Turn(d, e, q))
        \/ t = 0 /\ OnSegment(p, d, q)
        \/ r = 0 /\ OnSegment(p, e, q)
        \/ Turn(d, e, p) = 0 /\ OnSegment(d, p, e)
        \/ Turn(d, e, q) = 0 /\ OnSegment(d, q, e)
  BY <1>1, DoIntersectIs, IsOnIs
<1>8. /\ OnSegment(p, d, q) => (p2 <= 0 /\ 0 <= q2) \/ (q2 <= 0 /\ 0 <= p2)
      /\ OnSegment(p, d, q) => (p1 <= 0 /\ 0 <= q1) \/ (q1 <= 0 /\ 0 <= p1)
      /\ ~OnSegment(p, e, q)
      /\ OnSegment(d, p, e) => p1 >= 0
      /\ OnSegment(d, q, e) => q1 >= 0
  BY <1>1 DEF OnSegment, Between
<1>9. Crosses(p, q, d) <=> \/ p2 < 0 /\ 0 < q2 /\ t >= 0
                           \/ q2 < 0 /\ 0 < p2 /\ t <= 0
  BY <1>1 DEF Crosses
<1>10. Orientation(p, d, q) = 0 <=> t = 0
  <2>1. Orientation(p, d, q) = 0 <=> Turn(p, d, q) = 0
    BY OrientationIs
  <2>2. Turn(p, d, q) = -t
    <3>1. Turn(p, d, q) = (d[1] - p[1]) * (q[2] - p[2]) - (d[2] - p[2]) * (q[1] - p[1])
      BY TurnIs
    <3>2. q[1] - p[1] = q1 - p1 /\ q[2] - p[2] = q2 - p2 /\ d[2] - p[2] = -p2 /\ d[1] - p[1] = -p1
      BY <1>1
    <3> HIDE DEF p1, p2, q1, q2, t
    <3>3. (-p1) * (q2 - p2) - (-p2) * (q1 - p1) = -(q2 * p1 - q1 * p2)
      BY <1>2
    <3> QED
      BY <1>3, <3>1, <3>2, <3>3
  <2>3. t \in Int
    BY TurnIs
  <2> HIDE DEF t
  <2> QED
    BY <2>1, <2>2, <2>3
<1>11. t \in Int /\ r \in Int
  BY <1>1, TurnIs
<1> HIDE DEF p1, p2, q1, q2, f, t, r
<1>12. CASE p2 < 0 /\ 0 < q2
  <2>1. q2 * (p1 - f) <= 1 * (p1 - f) /\ q2 * (p1 - f) < 0
    BY <1>2, <1>12
  <2>2. (q1 - f) * p2 > 0
    BY <1>2, <1>12
  <2>3. r < 0
    BY <1>2, <1>4, <2>1, <2>2
  <2> QED
    BY <1>2, <1>6, <1>7, <1>8, <1>9, <1>10, <1>11, <1>12, <2>3 DEF Alike, t
<1>13. CASE q2 < 0 /\ 0 < p2
  <2>1. q2 * (p1 - f) > 0
    BY <1>2, <1>13
  <2>2. (q1 - f) * p2 < 0
    BY <1>2, <1>13
  <2>3. r > 0
    BY <1>2, <1>4, <2>1, <2>2
  <2> QED
    BY <1>2, <1>6, <1>7, <1>8, <1>9, <1>10, <1>11, <1>13, <2>3 DEF Alike, t
<1>14. CASE (p2 > 0 /\ q2 > 0) \/ (p2 < 0 /\ q2 < 0)
  BY <1>2, <1>6, <1>7, <1>8, <1>9, <1>10, <1>11, <1>14 DEF Alike, t
<1>15. CASE p2 = 0 /\ q2 = 0
  BY <1>2, <1>6, <1>7, <1>8, <1>9, <1>10, <1>11, <1>15 DEF Alike, t
<1>16. CASE p2 = 0 /\ q2 # 0
  <2>1. t = q2 * p1 /\ r = q2 * (p1 - f)
    BY <1>2, <1>3, <1>4, <1>16
  <2>2. p1 < 0 /\ p1 - f < 0 /\ p1 - f \in Int
    BY <1>2, <1>16
  <2>3. (t > 0 /\ r > 0) \/ (t < 0 /\ r < 0)
    <3>1. CASE q2 > 0
      <4>1. q2 * p1 < 0 /\ q2 * (p1 - f) < 0
        BY <1>2, <2>2, <3>1
      <4> QED
        BY <2>1, <4>1
    <3>2. CASE q2 < 0
      <4>1. q2 * p1 > 0 /\ q2 * (p1 - f) > 0
        BY <1>2, <2>2, <3>2
      <4> QED
        BY <2>1, <4>1
    <3> QED
      BY <1>2, <1>16, <3>1, <3>2
  <2> QED
    BY <1>2, <1>6, <1>7, <1>8, <1>9, <1>10, <1>11, <1>16, <2>3 DEF Alike, t
<1>17. CASE p2 # 0 /\ q2 = 0
  <2>1. t = -(q1 * p2) /\ r = -((q1 - f) * p2)
    BY <1>2, <1>3, <1>4, <1>17
  <2>2. q1 < 0 /\ q1 - f < 0 /\ q1 - f \in Int
    BY <1>2, <1>17
  <2>3. (t > 0 /\ r > 0) \/ (t < 0 /\ r < 0)
    <3>1. CASE p2 > 0
      <4>1. q1 * p2 < 0 /\ (q1 - f) * p2 < 0
        BY <1>2, <2>2, <3>1
      <4> QED
        BY <1>2, <2>1, <4>1
    <3>2. CASE p2 < 0
      <4>1. q1 * p2 > 0 /\ (q1 - f) * p2 > 0
        BY <1>2, <2>2, <3>2
      <4> QED
        BY <1>2, <2>1, <4>1
    <3> QED
      BY <1>2, <1>17, <3>1, <3>2
  <2> QED
    BY <1>2, <1>6, <1>7, <1>8, <1>9, <1>10, <1>11, <1>17, <2>3 DEF Alike, t
<1> QED
  BY <1>2, <1>12, <1>13, <1>14, <1>15, <1>16, <1>17

\* An edge that the point is level with and collinear goes through it.
LEMMA CollinearIsOn ==
  ASSUME NEW p \in Plane, NEW q \in Plane, NEW d \in Plane,
         Crosses(p, q, d), Turn(p, q, d) = 0
  PROVE  OnSegment(p, d, q)
<1> DEFINE u1 == q[1] - p[1]
           u2 == q[2] - p[2]
           w1 == d[1] - p[1]
           w2 == d[2] - p[2]
<1>1. /\ p[1] \in Int /\ p[2] \in Int /\ q[1] \in Int /\ q[2] \in Int
      /\ d[1] \in Int /\ d[2] \in Int
  BY DEF Plane
<1>2. u1 \in Int /\ u2 \in Int /\ w1 \in Int /\ w2 \in Int
  BY <1>1
<1>3. u1 * w2 = u2 * w1
  <2>1. Turn(p, q, d) = u1 * w2 - u2 * w1
    BY TurnIs
  <2>2. u1 * w2 \in Int /\ u2 * w1 \in Int
    BY <1>2
  <2> HIDE DEF u1, u2, w1, w2
  <2> QED
    BY <2>1, <2>2
<1>4. (0 < w2 /\ w2 < u2) \/ (u2 < w2 /\ w2 < 0)
  BY <1>1 DEF Crosses
<1>5. OnSegment(p, d, q) <=> /\ (0 <= w1 /\ w1 <= u1) \/ (u1 <= w1 /\ w1 <= 0)
                             /\ (0 <= w2 /\ w2 <= u2) \/ (u2 <= w2 /\ w2 <= 0)
  BY <1>1 DEF OnSegment, Between
<1> HIDE DEF u1, u2, w1, w2
<1>6. \A x, y, z \in Int : 0 < x /\ x < y /\ (\E u \in Int : u * x = y * z) =>
        \A u \in Int : u * x = y * z => (0 <= z /\ z <= u) \/ (u <= z /\ z <= 0)
  <2> SUFFICES ASSUME NEW x \in Int, NEW y \in Int, NEW z \in Int, NEW u \in Int,
                      0 < x, x < y, u * x = y * z
               PROVE  (0 <= z /\ z <= u) \/ (u <= z /\ z <= 0)
    OBVIOUS
  <2>1. CASE z = 0
    <3>1. u * x = 0
      BY <2>1
    <3> QED
      BY <2>1
  <2>2. CASE z > 0
    <3>1. SUFFICES ASSUME u < z PROVE FALSE
      BY <2>2
    <3>2. u * x < z * x
      BY <3>1
    <3>3. z * x < z * y
      BY <2>2
    <3> QED
      BY <3>2, <3>3
  <2>3. CASE z < 0
    <3>1. SUFFICES ASSUME u > z PROVE FALSE
      BY <2>3
    <3>2. u * x > z * x
      BY <3>1
    <3>3. z * x > z * y
      BY <2>3
    <3> QED
      BY <3>2, <3>3
  <2> QED
    BY <2>1, <2>2, <2>3
<1>7. CASE 0 < w2 /\ w2 < u2
  BY <1>2, <1>3, <1>5, <1>6, <1>7
<1>8. CASE u2 < w2 /\ w2 < 0
  <2> DEFINE x == -w2
             y == -u2
  <2>1. x \in Int /\ y \in Int /\ 0 < x /\ x < y
    BY <1>2, <1>8
  <2>2. u1 * x = -(u1 * w2) /\ y * w1 = -(u2 * w1)
    BY <1>2
  <2> HIDE DEF x, y
  <2>3. u1 * x = y * w1
    BY <1>3, <2>2
  <2>4. (0 <= w1 /\ w1 <= u1) \/ (u1 <= w1 /\ w1 <= 0)
    BY ONLY <1>2, <1>6, <2>1, <2>3
  <2> QED
    BY <1>2, <1>5, <1>8, <2>4
<1> QED
  BY <1>4, <1>7, <1>8

NextCorner(polygon, k) == polygon[(k % Len(polygon)) + 1]

\* The edges that the ray from d crosses.
Met(polygon, d) ==
  {k \in 1 .. Len(polygon) : Crosses(polygon[k], NextCorner(polygon, k), d)}

\* PointInPolygon says that the point is on an edge or that an odd number of edges
\* is crossed.
LEMMA PolygonIs ==
  ASSUME NEW polygon \in Seq(Plane), Len(polygon) >= 3, NEW d \in Plane,
         kFar \in Int, d[1] < kFar,
         \A k \in 1 .. Len(polygon) : polygon[k][1] < kFar /\ Beside(polygon[k], d)
  PROVE  PointInPolygon(d, polygon) <=>
           \/ \E k \in Met(polygon, d) : Turn(polygon[k], NextCorner(polygon, k), d) = 0
           \/ Cardinality(Met(polygon, d)) % 2 = 1
<1> DEFINE next(k) == polygon[(k % Len(polygon)) + 1]
           met == {k \in 1 .. Len(polygon) :
                     DoIntersect(polygon[k], next(k), d, <<kFar, d[2]>>)}
           level == {k \in met : Orientation(polygon[k], d, next(k)) = 0}
           first == CHOOSE k \in level : \A l \in level : k <= l
<1>1. \A k \in 1 .. Len(polygon) : (k % Len(polygon)) + 1 \in 1 .. Len(polygon)
  OBVIOUS
<1>2. ASSUME NEW k \in 1 .. Len(polygon)
      PROVE  /\ polygon[k] \in Plane /\ next(k) \in Plane
             /\ DoIntersect(polygon[k], next(k), d, <<kFar, d[2]>>)
                  <=> Crosses(polygon[k], next(k), d)
             /\ Orientation(polygon[k], d, next(k)) = 0 <=> Turn(polygon[k], next(k), d) = 0
  <2> DEFINE p == polygon[k]
             q == next(k)
  <2>1. /\ p \in Plane /\ q \in Plane /\ p[1] < kFar /\ q[1] < kFar
        /\ Beside(p, d) /\ Beside(q, d)
    <3>0. \A m \in 1 .. Len(polygon) :
            polygon[m] \in Plane /\ polygon[m][1] < kFar /\ Beside(polygon[m], d)
      OBVIOUS
    <3>1. p \in Plane /\ p[1] < kFar /\ Beside(p, d)
      BY <3>0
    <3> DEFINE m == (k % Len(polygon)) + 1
    <3>2. m \in 1 .. Len(polygon) /\ q = polygon[m]
      BY <1>1
    <3> HIDE DEF m, q
    <3>3. q \in Plane /\ q[1] < kFar /\ Beside(q, d)
      BY <3>0, <3>2
    <3> QED
      BY <3>1, <3>3
  <2> HIDE DEF p, q
  <2>2. /\ DoIntersect(p, q, d, <<kFar, d[2]>>) <=> Crosses(p, q, d)
        /\ Orientation(p, d, q) = 0 <=> Turn(p, q, d) = 0
    BY <2>1, RayCrosses
  <2> QED
    BY <2>1, <2>2 DEF p, q
<1>3. met = Met(polygon, d)
  BY <1>2 DEF Met, NextCorner
<1>4. level = {k \in Met(polygon, d) : Turn(polygon[k], next(k), d) = 0}
  BY <1>2, <1>3
<1>5. PointInPolygon(d, polygon) <=>
        IF level = {} THEN Cardinality(met) % 2 = 1
        ELSE OnSegment(polygon[first], d, next(first))
  BY DEF PointInPolygon
<1>6. ASSUME level # {}
      PROVE  OnSegment(polygon[first], d, next(first))
  <2>1. first \in level
    <3>1. level \subseteq Nat
      OBVIOUS
    <3> HIDE DEF level
    <3>2. \E k \in level : \A l \in level : k <= l
      BY <1>6, <3>1, LeastNumber
    <3> QED
      BY <3>2
  <2> HIDE DEF first
  <2>2. first \in 1 .. Len(polygon)
    BY <2>1
  <2>3. Crosses(polygon[first], next(first), d) /\ Turn(polygon[first], next(first), d) = 0
    BY <1>4, <2>1 DEF Met, NextCorner
  <2> QED
    BY <1>2, <2>2, <2>3, CollinearIsOn
<1> HIDE DEF first, level, met
<1>7. level = {} <=> ~\E k \in Met(polygon, d) : Turn(polygon[k], NextCorner(polygon, k), d) = 0
  BY <1>4 DEF NextCorner
<1> QED
  BY <1>3, <1>5, <1>6, <1>7

LEMMA Count ==
  ASSUME NEW S, S \subseteq 1 .. 4
  PROVE  Cardinality(S) = (IF 1 \in S THEN 1 ELSE 0) + (IF 2 \in S THEN 1 ELSE 0)
                            + (IF 3 \in S THEN 1 ELSE 0) + (IF 4 \in S THEN 1 ELSE 0)
<1> DEFINE T(n) == S \cap (1 .. n)
           one(n) == IF n \in S THEN 1 ELSE 0
<1>1. ASSUME NEW n \in 0 .. 3, IsFiniteSet(T(n)), Cardinality(T(n)) \in Nat
      PROVE  IsFiniteSet(T(n + 1)) /\ Cardinality(T(n + 1)) = Cardinality(T(n)) + one(n + 1)
  <2>1. CASE n + 1 \in S
    <3>1. T(n + 1) = T(n) \cup {n + 1} /\ n + 1 \notin T(n)
      BY <2>1
    <3> HIDE DEF T
    <3> QED
      BY <1>1, <2>1, <3>1, FS_AddElement
  <2>2. CASE n + 1 \notin S
    <3>1. T(n + 1) = T(n)
      BY <2>2
    <3> HIDE DEF T
    <3> QED
      BY <1>1, <2>2, <3>1
  <2> QED
    BY <2>1, <2>2
<1>2. T(0) = {} /\ T(4) = S
  <2>1. T(0) = {}
    OBVIOUS
  <2>2. T(4) = S
    OBVIOUS
  <2> QED
    BY <2>1, <2>2
<1>3. \A n : one(n) \in {0, 1}
  OBVIOUS
<1> HIDE DEF T, one
<1>4. IsFiniteSet(T(0)) /\ Cardinality(T(0)) = 0
  BY <1>2, FS_EmptySet
<1>5. IsFiniteSet(T(1)) /\ Cardinality(T(1)) = one(1)
  BY <1>1, <1>3, <1>4
<1>6. IsFiniteSet(T(2)) /\ Cardinality(T(2)) = one(1) + one(2)
  BY <1>1, <1>3, <1>5
<1>7. IsFiniteSet(T(3)) /\ Cardinality(T(3)) = one(1) + one(2) + one(3)
  BY <1>1, <1>3, <1>6
<1>8. Cardinality(T(4)) = one(1) + one(2) + one(3) + one(4)
  BY <1>1, <1>3, <1>7
<1> QED
  BY <1>2, <1>8 DEF one

\* p is the product of l and v as far as signs go.
Signs(l, v, p) ==
  /\ p \in Int
  /\ l > 0 /\ v > 0 => p > 0
  /\ l > 0 /\ v < 0 => p < 0
  /\ l < 0 /\ v > 0 => p < 0
  /\ l < 0 /\ v < 0 => p > 0
  /\ l = 0 \/ v = 0 => p = 0

LEMMA ProductSigns ==
  ASSUME NEW l \in Int, NEW v \in Int
  PROVE  Signs(l, v, l * v)
<1>1. ASSUME l > 0, v > 0 PROVE l * v > 0
  BY <1>1
<1>2. ASSUME l > 0, v < 0 PROVE l * v < 0
  BY <1>2
<1>3. ASSUME l < 0, v > 0 PROVE l * v < 0
  BY <1>3
<1>4. ASSUME l < 0, v < 0 PROVE l * v > 0
  BY <1>4
<1>5. ASSUME l = 0 \/ v = 0 PROVE l * v = 0
  BY <1>5
<1>6. l * v \in Int
  OBVIOUS
<1> QED
  BY ONLY <1>1, <1>2, <1>3, <1>4, <1>5, <1>6 DEF Signs

\* All weights have the sign of their sum.
OneSign(la, lb, lc) ==
  (la >= 0 /\ lb >= 0 /\ lc >= 0) \/ (la <= 0 /\ lb <= 0 /\ lc <= 0)

\* The edge from height y to height z is crossed to the right.
EdgeCrossed(y, z, l) == (y < 0 /\ 0 < z /\ l >= 0) \/ (z < 0 /\ 0 < y /\ l <= 0)

\* Of three propositions, an odd number.
OddOf(A, B, C) == (A /\ B /\ C) \/ (A /\ ~B /\ ~C) \/ (~A /\ B /\ ~C) \/ (~A /\ ~B /\ C)

\* A point as a mean of three corners with weights la, lb and lc, of which ya, yb and
\* yc are the heights above the point; corners at its height are to the left of it.
IsMean(ya, yb, yc, la, lb, lc) ==
  /\ {ya, yb, yc, la, lb, lc} \subseteq Int
  /\ la + lb + lc # 0
  /\ \E ma, mb, mc : /\ Signs(la, ya, ma) /\ Signs(lb, yb, mb) /\ Signs(lc, yc, mc)
                     /\ ma + mb + mc = 0
  /\ ya = 0 => Alike(lb, yc) /\ Alike(lc, -yb)
  /\ yb = 0 => Alike(lc, ya) /\ Alike(la, -yc)
  /\ yc = 0 => Alike(la, yb) /\ Alike(lb, -ya)

\* The ray from the point ends on an edge or crosses an odd number of them.
RayIsOdd(ya, yb, yc, la, lb, lc) ==
  \/ EdgeCrossed(ya, yb, lc) /\ lc = 0
  \/ EdgeCrossed(yb, yc, la) /\ la = 0
  \/ EdgeCrossed(yc, ya, lb) /\ lb = 0
  \/ OddOf(EdgeCrossed(ya, yb, lc), EdgeCrossed(yb, yc, la), EdgeCrossed(yc, ya, lb))

\* No corner is below the point, or none above.
LEMMA TriangleOnOneSide ==
  ASSUME NEW ya, NEW yb, NEW yc, NEW la, NEW lb, NEW lc,
         IsMean(ya, yb, yc, la, lb, lc),
         (ya >= 0 /\ yb >= 0 /\ yc >= 0) \/ (ya <= 0 /\ yb <= 0 /\ yc <= 0)
  PROVE  RayIsOdd(ya, yb, yc, la, lb, lc) <=> OneSign(la, lb, lc)
<1>1. /\ ya \in Int /\ yb \in Int /\ yc \in Int
      /\ la \in Int /\ lb \in Int /\ lc \in Int /\ la + lb + lc # 0
      /\ ya = 0 => Alike(lb, yc) /\ Alike(lc, -yb)
      /\ yb = 0 => Alike(lc, ya) /\ Alike(la, -yc)
      /\ yc = 0 => Alike(la, yb) /\ Alike(lb, -ya)
  BY DEF IsMean
<1>2. ~RayIsOdd(ya, yb, yc, la, lb, lc)
  BY <1>1 DEF RayIsOdd, EdgeCrossed, OddOf
<1>3. ASSUME OneSign(la, lb, lc) PROVE FALSE
  <2>1. PICK ma, mb, mc :
          /\ Signs(la, ya, ma) /\ Signs(lb, yb, mb) /\ Signs(lc, yc, mc)
          /\ ma + mb + mc = 0
    BY DEF IsMean
  <2>2. (ma >= 0 /\ mb >= 0 /\ mc >= 0) \/ (ma <= 0 /\ mb <= 0 /\ mc <= 0)
    BY ONLY <1>1, <1>3, <2>1, (ya >= 0 /\ yb >= 0 /\ yc >= 0) \/ (ya <= 0 /\ yb <= 0 /\ yc <= 0)
    DEF Signs, OneSign
  <2>3. ma = 0 /\ mb = 0 /\ mc = 0
    BY ONLY <2>1, <2>2 DEF Signs
  <2>4. (la = 0 \/ ya = 0) /\ (lb = 0 \/ yb = 0) /\ (lc = 0 \/ yc = 0)
    BY ONLY <1>1, <2>1, <2>3 DEF Signs
  <2>5. la = 0 /\ lb = 0 /\ lc = 0
    BY ONLY <1>1, <1>3, <2>4,
            (ya >= 0 /\ yb >= 0 /\ yc >= 0) \/ (ya <= 0 /\ yb <= 0 /\ yc <= 0)
    DEF Alike, OneSign
  <2> QED
    BY <1>1, <2>5
<1> QED
  BY <1>2, <1>3

\* The edge from one corner to the next passes the height of the point.
LEMMA TriangleOnBothSides ==
  ASSUME NEW ya, NEW yb, NEW yc, NEW la, NEW lb, NEW lc,
         IsMean(ya, yb, yc, la, lb, lc),
         (ya < 0 /\ yb > 0) \/ (ya > 0 /\ yb < 0)
  PROVE  RayIsOdd(ya, yb, yc, la, lb, lc) <=> OneSign(la, lb, lc)
<1>1. /\ ya \in Int /\ yb \in Int /\ yc \in Int
      /\ la \in Int /\ lb \in Int /\ lc \in Int /\ la + lb + lc # 0
      /\ yc = 0 => Alike(la, yb) /\ Alike(lb, -ya)
  BY DEF IsMean
<1>2. PICK ma, mb, mc :
        /\ Signs(la, ya, ma) /\ Signs(lb, yb, mb) /\ Signs(lc, yc, mc)
        /\ ma + mb + mc = 0
  BY DEF IsMean
<1>3. CASE ya < 0 /\ yb > 0 /\ yc > 0
  <2>1. RayIsOdd(ya, yb, yc, la, lb, lc) <=> (lc >= 0 /\ lb >= 0) \/ (lc <= 0 /\ lb <= 0)
    BY ONLY <1>1, <1>3 DEF RayIsOdd, EdgeCrossed, OddOf
  <2>2. ASSUME lc >= 0, lb >= 0 PROVE la >= 0
    BY ONLY <1>1, <1>2, <1>3, <2>2 DEF Signs
  <2>3. ASSUME lc <= 0, lb <= 0 PROVE la <= 0
    BY ONLY <1>1, <1>2, <1>3, <2>3 DEF Signs
  <2> QED
    BY ONLY <1>1, <2>1, <2>2, <2>3 DEF OneSign
<1>4. CASE ya < 0 /\ yb > 0 /\ yc = 0
  <2>1. RayIsOdd(ya, yb, yc, la, lb, lc) <=> lc >= 0
    BY ONLY <1>1, <1>4 DEF RayIsOdd, EdgeCrossed, OddOf
  <2> QED
    BY ONLY <1>1, <1>4, <2>1 DEF OneSign, Alike
<1>5. CASE ya < 0 /\ yb > 0 /\ yc < 0
  <2>1. RayIsOdd(ya, yb, yc, la, lb, lc) <=> (lc >= 0 /\ la >= 0) \/ (lc <= 0 /\ la <= 0)
    BY ONLY <1>1, <1>5 DEF RayIsOdd, EdgeCrossed, OddOf
  <2>2. ASSUME lc >= 0, la >= 0 PROVE lb >= 0
    BY ONLY <1>1, <1>2, <1>5, <2>2 DEF Signs
  <2>3. ASSUME lc <= 0, la <= 0 PROVE lb <= 0
    BY ONLY <1>1, <1>2, <1>5, <2>3 DEF Signs
  <2> QED
    BY ONLY <1>1, <2>1, <2>2, <2>3 DEF OneSign
<1>6. CASE ya > 0 /\ yb < 0 /\ yc > 0
  <2>1. RayIsOdd(ya, yb, yc, la, lb, lc) <=> (lc >= 0 /\ la >= 0) \/ (lc <= 0 /\ la <= 0)
    BY ONLY <1>1, <1>6 DEF RayIsOdd, EdgeCrossed, OddOf
  <2>2. ASSUME lc >= 0, la >= 0 PROVE lb >= 0
    BY ONLY <1>1, <1>2, <1>6, <2>2 DEF Signs
  <2>3. ASSUME lc <= 0, la <= 0 PROVE lb <= 0
    BY ONLY <1>1, <1>2, <1>6, <2>3 DEF Signs
  <2> QED
    BY ONLY <1>1, <2>1, <2>2, <2>3 DEF OneSign
<1>7. CASE ya > 0 /\ yb < 0 /\ yc = 0
  <2>1. RayIsOdd(ya, yb, yc, la, lb, lc) <=> lc <= 0
    BY ONLY <1>1, <1>7 DEF RayIsOdd, EdgeCrossed, OddOf
  <2> QED
    BY ONLY <1>1, <1>7, <2>1 DEF OneSign, Alike
<1>8. CASE ya > 0 /\ yb < 0 /\ yc < 0
  <2>1. RayIsOdd(ya, yb, yc, la, lb, lc) <=> (lc >= 0 /\ lb >= 0) \/ (lc <= 0 /\ lb <= 0)
    BY ONLY <1>1, <1>8 DEF RayIsOdd, EdgeCrossed, OddOf
  <2>2. ASSUME lc >= 0, lb >= 0 PROVE la >= 0
    BY ONLY <1>1, <1>2, <1>8, <2>2 DEF Signs
  <2>3. ASSUME lc <= 0, lb <= 0 PROVE la <= 0
    BY ONLY <1>1, <1>2, <1>8, <2>3 DEF Signs
  <2> QED
    BY ONLY <1>1, <2>1, <2>2, <2>3 DEF OneSign
<1> QED
  BY <1>1, <1>3, <1>4, <1>5, <1>6, <1>7, <1>8

LEMMA RayOfMean ==
  ASSUME NEW ya, NEW yb, NEW yc, NEW la, NEW lb, NEW lc,
         IsMean(ya, yb, yc, la, lb, lc)
  PROVE  RayIsOdd(ya, yb, yc, la, lb, lc) <=> OneSign(la, lb, lc)
<1>1. ya \in Int /\ yb \in Int /\ yc \in Int /\ la \in Int /\ lb \in Int /\ lc \in Int
  BY DEF IsMean
<1>2. CASE (ya >= 0 /\ yb >= 0 /\ yc >= 0) \/ (ya <= 0 /\ yb <= 0 /\ yc <= 0)
  BY <1>2, TriangleOnOneSide
<1>3. CASE (ya < 0 /\ yb > 0) \/ (ya > 0 /\ yb < 0)
  BY <1>3, TriangleOnBothSides
<1>4. PICK ma, mb, mc :
        /\ Signs(la, ya, ma) /\ Signs(lb, yb, mb) /\ Signs(lc, yc, mc)
        /\ ma + mb + mc = 0
  BY DEF IsMean
<1>5. ma \in Int /\ mb \in Int /\ mc \in Int /\ mb + mc + ma = 0 /\ mc + ma + mb = 0
  BY <1>4 DEF Signs
<1>6. lb + lc + la # 0 /\ lc + la + lb # 0
  BY <1>1 DEF IsMean
<1>7. CASE (yb < 0 /\ yc > 0) \/ (yb > 0 /\ yc < 0)
  <2>1. IsMean(yb, yc, ya, lb, lc, la)
    BY <1>1, <1>4, <1>5, <1>6 DEF IsMean
  <2>2. RayIsOdd(yb, yc, ya, lb, lc, la) <=> OneSign(lb, lc, la)
    BY <1>7, <2>1, TriangleOnBothSides
  <2> QED
    BY <2>2 DEF RayIsOdd, OddOf, OneSign
<1>8. CASE (yc < 0 /\ ya > 0) \/ (yc > 0 /\ ya < 0)
  <2>1. IsMean(yc, ya, yb, lc, la, lb)
    BY <1>1, <1>4, <1>5, <1>6 DEF IsMean
  <2>2. RayIsOdd(yc, ya, yb, lc, la, lb) <=> OneSign(lc, la, lb)
    BY <1>8, <2>1, TriangleOnBothSides
  <2> QED
    BY <2>2 DEF RayIsOdd, OddOf, OneSign
<1> QED
  BY <1>1, <1>2, <1>3, <1>7, <1>8

\* The weights of a point are twice the areas of the triangles it forms with the
\* edges.
LEMMA WeightsAreTurns ==
  ASSUME NEW a \in Plane, NEW b \in Plane, NEW c \in Plane, NEW d \in Plane,
         Determinant(Minus(b, a), Minus(c, a)) # 0,
         Beside(a, d), Beside(b, d), Beside(c, d)
  PROVE  IsMean(a[2] - d[2], b[2] - d[2], c[2] - d[2],
                Turn(b, c, d), Turn(c, a, d), Turn(a, b, d))
<1> DEFINE xa == a[1] - d[1]
           xb == b[1] - d[1]
           xc == c[1] - d[1]
           ya == a[2] - d[2]
           yb == b[2] - d[2]
           yc == c[2] - d[2]
           la == Turn(b, c, d)
           lb == Turn(c, a, d)
           lc == Turn(a, b, d)
<1>1. /\ a[1] \in Int /\ a[2] \in Int /\ b[1] \in Int /\ b[2] \in Int
      /\ c[1] \in Int /\ c[2] \in Int /\ d[1] \in Int /\ d[2] \in Int
  BY DEF Plane
<1>2. /\ xa \in Int /\ xb \in Int /\ xc \in Int /\ ya \in Int /\ yb \in Int /\ yc \in Int
      /\ ya = 0 => xa < 0
      /\ yb = 0 => xb < 0
      /\ yc = 0 => xc < 0
  BY <1>1 DEF Beside
<1>3. \A p1, p2, q1, q2, d1, d2 \in Int :
        (q1 - p1) * (d2 - p2) - (q2 - p2) * (d1 - p1)
          = (p1 - d1) * (q2 - d2) - (q1 - d1) * (p2 - d2)
  OBVIOUS
<1>4. la = xb * yc - xc * yb /\ lb = xc * ya - xa * yc /\ lc = xa * yb - xb * ya
  <2>1. la = xb * yc - xc * yb
    BY <1>1, <1>3, TurnIs
  <2>2. lb = xc * ya - xa * yc
    BY <1>1, <1>3, TurnIs
  <2>3. lc = xa * yb - xb * ya
    BY <1>1, <1>3, TurnIs
  <2> QED
    BY <2>1, <2>2, <2>3
<1>5. la + lb + lc # 0
  <2>1. \A a1, a2, b1, b2, c1, c2, d1, d2 \in Int :
          (b1 - a1) * (c2 - a2) - (b2 - a2) * (c1 - a1)
            = ((b1 - d1) * (c2 - d2) - (c1 - d1) * (b2 - d2))
              + ((c1 - d1) * (a2 - d2) - (a1 - d1) * (c2 - d2))
              + ((a1 - d1) * (b2 - d2) - (b1 - d1) * (a2 - d2))
    OBVIOUS
  <2>2. (b[1] - a[1]) * (c[2] - a[2]) - (b[2] - a[2]) * (c[1] - a[1]) # 0
    BY DEF Determinant, Minus
  <2> QED
    BY <1>1, <1>4, <2>1, <2>2
<1> HIDE DEF xa, xb, xc, ya, yb, yc, la, lb, lc
<1>6. la \in Int /\ lb \in Int /\ lc \in Int
  BY <1>2, <1>4
<1>7. la * ya + lb * yb + lc * yc = 0
  <2>1. \A p1, p2, q1, q2, r1, r2 \in Int :
          (q1 * r2 - r1 * q2) * p2 + (r1 * p2 - p1 * r2) * q2 + (p1 * q2 - q1 * p2) * r2 = 0
    OBVIOUS
  <2> QED
    BY <1>2, <1>4, <2>1
<1>8. /\ Signs(la, ya, la * ya) /\ Signs(lb, yb, lb * yb) /\ Signs(lc, yc, lc * yc)
  BY <1>2, <1>6, ProductSigns
<1>9. \E ma, mb, mc : /\ Signs(la, ya, ma) /\ Signs(lb, yb, mb) /\ Signs(lc, yc, mc)
                      /\ ma + mb + mc = 0
  BY <1>7, <1>8
<1>10. ASSUME NEW x \in Int, NEW y \in Int, NEW z \in Int, NEW v \in Int,
              v = 0 => x < 0
       PROVE  v = 0 => /\ Alike(x * y - z * v, -y) /\ Alike(z * v - x * y, y)
  <2>1. SUFFICES ASSUME v = 0, x < 0
                 PROVE  Alike(x * y - z * v, -y) /\ Alike(z * v - x * y, y)
    BY <1>10
  <2>2. z * v = 0
    BY <2>1
  <2> DEFINE p == x * y
  <2>3. Signs(x, y, p)
    BY ProductSigns
  <2> HIDE DEF p
  <2>4. Alike(p - 0, -y) /\ Alike(0 - p, y)
    BY <2>1, <2>3 DEF Signs, Alike
  <2> QED
    BY <2>2, <2>4 DEF p
<1>11. ya = 0 => Alike(lb, yc) /\ Alike(lc, -yb)
  BY <1>2, <1>4, <1>10
<1>12. yb = 0 => Alike(lc, ya) /\ Alike(la, -yc)
  BY <1>2, <1>4, <1>10
<1>13. yc = 0 => Alike(la, yb) /\ Alike(lb, -ya)
  BY <1>2, <1>4, <1>10
<1>14. IsMean(ya, yb, yc, la, lb, lc)
  BY <1>2, <1>5, <1>6, <1>9, <1>11, <1>12, <1>13 DEF IsMean
<1> QED
  BY <1>14 DEF ya, yb, yc, la, lb, lc

\* PointInPolygon finds the points of a triangle.
LEMMA TriangleIsFound ==
  ASSUME NEW a \in Plane, NEW b \in Plane, NEW c \in Plane, NEW d \in Plane,
         kFar \in Int, a[1] < kFar, b[1] < kFar, c[1] < kFar, d[1] < kFar,
         Determinant(Minus(b, a), Minus(c, a)) # 0,
         Beside(a, d), Beside(b, d), Beside(c, d)
  PROVE  PointInPolygon(d, <<a, b, c>>) <=> InTriangle(d, a, b, c)
<1> DEFINE polygon == <<a, b, c>>
           met == Met(polygon, d)
           ya == a[2] - d[2]
           yb == b[2] - d[2]
           yc == c[2] - d[2]
           la == Turn(b, c, d)
           lb == Turn(c, a, d)
           lc == Turn(a, b, d)
<1>1. /\ a[1] \in Int /\ a[2] \in Int /\ b[1] \in Int /\ b[2] \in Int
      /\ c[1] \in Int /\ c[2] \in Int /\ d[1] \in Int /\ d[2] \in Int
      /\ la \in Int /\ lb \in Int /\ lc \in Int
  BY TurnIs DEF Plane
<1>2. /\ polygon \in Seq(Plane) /\ Len(polygon) = 3
      /\ polygon[1] = a /\ polygon[2] = b /\ polygon[3] = c
  OBVIOUS
<1>3. NextCorner(polygon, 1) = b /\ NextCorner(polygon, 2) = c /\ NextCorner(polygon, 3) = a
  BY DEF NextCorner
<1>4. RayIsOdd(ya, yb, yc, la, lb, lc) <=> OneSign(la, lb, lc)
  BY WeightsAreTurns, RayOfMean
<1> HIDE DEF polygon, la, lb, lc
<1>5. /\ Crosses(a, b, d) <=> EdgeCrossed(ya, yb, lc)
      /\ Crosses(b, c, d) <=> EdgeCrossed(yb, yc, la)
      /\ Crosses(c, a, d) <=> EdgeCrossed(yc, ya, lb)
  BY <1>1 DEF Crosses, EdgeCrossed, la, lb, lc
<1> HIDE DEF ya, yb, yc
<1>6. /\ met \subseteq 1 .. 3
      /\ 1 \in met <=> EdgeCrossed(ya, yb, lc)
      /\ 2 \in met <=> EdgeCrossed(yb, yc, la)
      /\ 3 \in met <=> EdgeCrossed(yc, ya, lb)
  BY <1>2, <1>3, <1>5 DEF Met
<1>7. (\E k \in met : Turn(polygon[k], NextCorner(polygon, k), d) = 0)
        <=> \/ EdgeCrossed(ya, yb, lc) /\ lc = 0
            \/ EdgeCrossed(yb, yc, la) /\ la = 0
            \/ EdgeCrossed(yc, ya, lb) /\ lb = 0
  <2>1. \A k \in met : k = 1 \/ k = 2 \/ k = 3
    BY <1>6
  <2>2. /\ Turn(polygon[1], NextCorner(polygon, 1), d) = lc
        /\ Turn(polygon[2], NextCorner(polygon, 2), d) = la
        /\ Turn(polygon[3], NextCorner(polygon, 3), d) = lb
    BY <1>2, <1>3 DEF la, lb, lc
  <2> HIDE DEF met
  <2> QED
    BY ONLY <1>6, <2>1, <2>2
<1> HIDE DEF met
<1>8. Cardinality(met) % 2 = 1
        <=> OddOf(1 \in met, 2 \in met, 3 \in met)
  <2>1. Cardinality(met) = (IF 1 \in met THEN 1 ELSE 0) + (IF 2 \in met THEN 1 ELSE 0)
                              + (IF 3 \in met THEN 1 ELSE 0)
    <3>1. met \subseteq 1 .. 4 /\ 4 \notin met
      BY <1>6
    <3>2. Cardinality(met) = (IF 1 \in met THEN 1 ELSE 0) + (IF 2 \in met THEN 1 ELSE 0)
                                + (IF 3 \in met THEN 1 ELSE 0) + (IF 4 \in met THEN 1 ELSE 0)
      BY <3>1, Count
    <3> QED
      BY ONLY <3>1, <3>2
  <2>2. /\ Cardinality(met) = 1 \/ Cardinality(met) = 3
             <=> OddOf(1 \in met, 2 \in met, 3 \in met)
        /\ Cardinality(met) \in {0, 1, 2, 3}
    BY ONLY <2>1 DEF OddOf
  <2>3. \A n \in {0, 1, 2, 3} : n % 2 = 1 <=> n = 1 \/ n = 3
    OBVIOUS
  <2> QED
    BY ONLY <2>2, <2>3
<1>9. PointInPolygon(d, polygon) <=> RayIsOdd(ya, yb, yc, la, lb, lc)
  <2>1. \A k \in 1 .. Len(polygon) : polygon[k][1] < kFar /\ Beside(polygon[k], d)
    <3>1. \A k \in 1 .. Len(polygon) : polygon[k] = a \/ polygon[k] = b \/ polygon[k] = c
      BY <1>2
    <3> QED
      BY <3>1
  <2>2. PointInPolygon(d, polygon) <=>
          \/ \E k \in met : Turn(polygon[k], NextCorner(polygon, k), d) = 0
          \/ Cardinality(met) % 2 = 1
    <3>1. /\ polygon \in Seq(Plane) /\ d \in Plane /\ kFar \in Int /\ d[1] < kFar
          /\ Len(polygon) >= 3
      BY <1>2
    <3> QED
      BY ONLY <2>1, <3>1, PolygonIs DEF met
  <2>3. OddOf(1 \in met, 2 \in met, 3 \in met)
          <=> OddOf(EdgeCrossed(ya, yb, lc), EdgeCrossed(yb, yc, la), EdgeCrossed(yc, ya, lb))
    BY ONLY <1>6 DEF OddOf
  <2> QED
    BY ONLY <1>7, <1>8, <2>2, <2>3 DEF RayIsOdd
<1>10. OneSign(la, lb, lc) <=> InTriangle(d, a, b, c)
  <2> DEFINE n == Determinant(Minus(b, a), Minus(c, a))
             s == Determinant(Minus(d, a), Minus(c, a))
             t == Determinant(Minus(b, a), Minus(d, a))
  <2>1. \A a1, a2, b1, b2, c1, c2, d1, d2 \in Int :
          (b1 - a1) * (c2 - a2) - (b2 - a2) * (c1 - a1)
            = ((c1 - b1) * (d2 - b2) - (c2 - b2) * (d1 - b1))
              + ((a1 - c1) * (d2 - c2) - (a2 - c2) * (d1 - c1))
              + ((b1 - a1) * (d2 - a2) - (b2 - a2) * (d1 - a1))
    OBVIOUS
  <2>2. \A a1, a2, c1, c2, d1, d2 \in Int :
          (d1 - a1) * (c2 - a2) - (d2 - a2) * (c1 - a1)
            = (a1 - c1) * (d2 - c2) - (a2 - c2) * (d1 - c1)
    OBVIOUS
  <2>3. t = lc
    BY DEF lc, Turn
  <2>4. /\ n = (b[1] - a[1]) * (c[2] - a[2]) - (b[2] - a[2]) * (c[1] - a[1])
        /\ s = (d[1] - a[1]) * (c[2] - a[2]) - (d[2] - a[2]) * (c[1] - a[1])
    BY DEF Determinant, Minus
  <2>5. /\ la = (c[1] - b[1]) * (d[2] - b[2]) - (c[2] - b[2]) * (d[1] - b[1])
        /\ lb = (a[1] - c[1]) * (d[2] - c[2]) - (a[2] - c[2]) * (d[1] - c[1])
        /\ lc = (b[1] - a[1]) * (d[2] - a[2]) - (b[2] - a[2]) * (d[1] - a[1])
    BY TurnIs DEF la, lb, lc
  <2> HIDE DEF n, s, t
  <2>6. s = lb
    BY <1>1, <2>2, <2>4, <2>5
  <2>7. n = la + lb + lc
    BY <1>1, <2>1, <2>4, <2>5
  <2>8. n # 0
    BY DEF n
  <2>9. InTriangle(d, a, b, c) <=>
          IF n > 0 THEN s >= 0 /\ t >= 0 /\ s + t <= n
          ELSE s <= 0 /\ t <= 0 /\ s + t >= n
    BY DEF InTriangle, n, s, t
  <2> QED
    BY ONLY <1>1, <2>3, <2>6, <2>7, <2>8, <2>9 DEF OneSign
<1> QED
  BY <1>4, <1>9, <1>10 DEF polygon

\* A vertical edge from height y to height z.
LEMMA UprightEdge ==
  ASSUME NEW x \in Int, NEW y \in Int, NEW z \in Int, NEW d \in Plane, y # z
  PROVE  /\ Turn(<<x, y>>, <<x, z>>, d) = 0 <=> d[1] = x
         /\ y < z => (Turn(<<x, y>>, <<x, z>>, d) >= 0 <=> d[1] <= x)
         /\ z < y => (Turn(<<x, y>>, <<x, z>>, d) <= 0 <=> d[1] <= x)
<1> DEFINE t == Turn(<<x, y>>, <<x, z>>, d)
           w == d[1] - x
           h == y - z
<1>1. d[1] \in Int /\ d[2] \in Int /\ w \in Int /\ h \in Int
  BY DEF Plane
<1>2. t = h * w
  <2>1. t = (x - x) * (d[2] - y) - (z - y) * (d[1] - x)
    BY DEF Turn, Determinant, Minus
  <2>2. \A a1, a2, b1, b2, c1 \in Int :
          (a1 - a1) * (a2 - b1) - (b2 - b1) * (c1 - a1) = (b1 - b2) * (c1 - a1)
    OBVIOUS
  <2> QED
    BY <1>1, <2>1, <2>2
<1>3. Signs(h, w, h * w)
  BY <1>1, ProductSigns
<1>4. /\ w = 0 <=> d[1] = x
      /\ w <= 0 <=> d[1] <= x
      /\ y < z <=> h < 0
      /\ z < y <=> h > 0
      /\ h # 0
  BY <1>1
<1> HIDE DEF t, w, h
<1>5. /\ t = 0 <=> w = 0
      /\ h < 0 => (t >= 0 <=> w <= 0)
      /\ h > 0 => (t <= 0 <=> w <= 0)
  BY ONLY <1>1, <1>2, <1>3, <1>4 DEF Signs
<1> QED
  BY ONLY <1>4, <1>5 DEF t

\* PointInRect finds what PointInPolygon finds within the edges.
LEMMA RectIsFound ==
  ASSUME NEW a \in Plane, NEW b \in Plane, NEW c \in Plane,
         kFar \in Int, a[1] < kFar, b[1] < kFar, c[1] < kFar,
         a[1] < b[1], a[2] < b[2], c[2] # a[2], c[2] # b[2]
  PROVE  LET rect == [min |-> a, max |-> b]
             edge == {k \in 1 .. 4 :
                        IsOn(c, Corners(rect)[k], Corners(rect)[(k % 4) + 1])}
         IN  PointInRect(c, rect) <=> edge = {} /\ PointInPolygon(c, Corners(rect))
<1> DEFINE rect == [min |-> a, max |-> b]
           p == <<a[1], a[2]>>
           q == <<b[1], a[2]>>
           r == <<b[1], b[2]>>
           s == <<a[1], b[2]>>
           polygon == Corners(rect)
           met == Met(polygon, c)
           edge == {k \in 1 .. 4 : IsOn(c, polygon[k], polygon[(k % 4) + 1])}
           within == a[2] < c[2] /\ c[2] < b[2]
<1>1. /\ a[1] \in Int /\ a[2] \in Int /\ b[1] \in Int /\ b[2] \in Int
      /\ c[1] \in Int /\ c[2] \in Int
      /\ p \in Plane /\ q \in Plane /\ r \in Plane /\ s \in Plane
  BY DEF Plane
<1>2. polygon = <<p, q, r, s>>
  BY DEF Corners, Plane
<1> HIDE DEF polygon
<1>3. /\ polygon \in Seq(Plane) /\ Len(polygon) = 4
      /\ polygon[1] = p /\ polygon[2] = q /\ polygon[3] = r /\ polygon[4] = s
  BY <1>1, <1>2
<1>4. (1 % 4) + 1 = 2 /\ (2 % 4) + 1 = 3 /\ (3 % 4) + 1 = 4 /\ (4 % 4) + 1 = 1
  OBVIOUS
<1>5. /\ NextCorner(polygon, 1) = q /\ NextCorner(polygon, 2) = r
      /\ NextCorner(polygon, 3) = s /\ NextCorner(polygon, 4) = p
  BY <1>3, <1>4 DEF NextCorner
<1>6. /\ Turn(q, r, c) = 0 <=> c[1] = b[1]
      /\ Turn(q, r, c) >= 0 <=> c[1] <= b[1]
      /\ Turn(s, p, c) = 0 <=> c[1] = a[1]
      /\ Turn(s, p, c) <= 0 <=> c[1] <= a[1]
  BY <1>1, UprightEdge
<1>7. /\ ~Crosses(p, q, c)
      /\ Crosses(q, r, c) <=> within /\ c[1] <= b[1]
      /\ ~Crosses(r, s, c)
      /\ Crosses(s, p, c) <=> within /\ c[1] <= a[1]
  BY ONLY <1>1, <1>6, a[2] < b[2] DEF Crosses
<1>8. /\ ~IsOn(c, p, q)
      /\ IsOn(c, q, r) <=> c[1] = b[1] /\ within
      /\ ~IsOn(c, r, s)
      /\ IsOn(c, s, p) <=> c[1] = a[1] /\ within
  <2>1. /\ ~OnSegment(p, c, q)
        /\ OnSegment(q, c, r) <=> c[1] = b[1] /\ within
        /\ ~OnSegment(r, c, s)
        /\ OnSegment(s, c, p) <=> c[1] = a[1] /\ within
    BY <1>1 DEF OnSegment, Between
  <2>2. /\ IsOn(c, p, q) <=> Turn(p, q, c) = 0 /\ OnSegment(p, c, q)
        /\ IsOn(c, q, r) <=> Turn(q, r, c) = 0 /\ OnSegment(q, c, r)
        /\ IsOn(c, r, s) <=> Turn(r, s, c) = 0 /\ OnSegment(r, c, s)
        /\ IsOn(c, s, p) <=> Turn(s, p, c) = 0 /\ OnSegment(s, c, p)
    BY <1>1, IsOnIs
  <2> QED
    BY ONLY <1>6, <2>1, <2>2
<1> HIDE DEF p, q, r, s
<1>9. edge = {} <=> ~(within /\ (c[1] = b[1] \/ c[1] = a[1]))
  <2>1. \A k \in 1 .. 4 : k = 1 \/ k = 2 \/ k = 3 \/ k = 4
    OBVIOUS
  <2>2. /\ IsOn(c, polygon[1], polygon[(1 % 4) + 1]) <=> IsOn(c, p, q)
        /\ IsOn(c, polygon[2], polygon[(2 % 4) + 1]) <=> IsOn(c, q, r)
        /\ IsOn(c, polygon[3], polygon[(3 % 4) + 1]) <=> IsOn(c, r, s)
        /\ IsOn(c, polygon[4], polygon[(4 % 4) + 1]) <=> IsOn(c, s, p)
    BY ONLY <1>3, <1>4
  <2> DEFINE at(k) == IsOn(c, polygon[k], polygon[(k % 4) + 1])
  <2>3. ~at(1) /\ ~at(3)
    BY ONLY <1>8, <2>2
  <2>4. /\ at(2) <=> c[1] = b[1] /\ within
        /\ at(4) <=> c[1] = a[1] /\ within
    BY ONLY <1>8, <2>2
  <2>5. edge = {k \in 1 .. 4 : at(k)}
    OBVIOUS
  <2> HIDE DEF at, edge, within
  <2>6. edge = {} <=> ~at(1) /\ ~at(2) /\ ~at(3) /\ ~at(4)
    BY ONLY <2>1, <2>5
  <2> QED
    BY ONLY <2>3, <2>4, <2>6
<1>10. /\ met \subseteq 1 .. 4 /\ 1 \notin met /\ 3 \notin met
       /\ 2 \in met <=> within /\ c[1] <= b[1]
       /\ 4 \in met <=> within /\ c[1] <= a[1]
  <2> HIDE DEF within
  <2> QED
    BY <1>3, <1>5, <1>7 DEF Met
<1>11. (\E k \in met : Turn(polygon[k], NextCorner(polygon, k), c) = 0)
         <=> within /\ (c[1] = b[1] \/ c[1] = a[1])
  <2>1. \A k \in met : k = 2 \/ k = 4
    BY <1>10
  <2>2. /\ Turn(polygon[2], NextCorner(polygon, 2), c) = Turn(q, r, c)
        /\ Turn(polygon[4], NextCorner(polygon, 4), c) = Turn(s, p, c)
    BY ONLY <1>3, <1>5
  <2> HIDE DEF met
  <2>3. (\E k \in met : Turn(polygon[k], NextCorner(polygon, k), c) = 0)
          <=> \/ 2 \in met /\ Turn(q, r, c) = 0
              \/ 4 \in met /\ Turn(s, p, c) = 0
    BY ONLY <2>1, <2>2
  <2> QED
    BY <1>1, <1>6, <1>10, <2>3
<1> HIDE DEF met
<1>12. Cardinality(met) % 2 = 1 <=> within /\ a[1] < c[1] /\ c[1] <= b[1]
  <2>1. Cardinality(met) = (IF 1 \in met THEN 1 ELSE 0) + (IF 2 \in met THEN 1 ELSE 0)
                              + (IF 3 \in met THEN 1 ELSE 0) + (IF 4 \in met THEN 1 ELSE 0)
    BY <1>10, Count
  <2>2. Cardinality(met) = (IF 2 \in met THEN 1 ELSE 0) + (IF 4 \in met THEN 1 ELSE 0)
    BY ONLY <1>10, <2>1
  <2>3. /\ Cardinality(met) = 1 <=> (2 \in met /\ 4 \notin met) \/ (2 \notin met /\ 4 \in met)
        /\ Cardinality(met) \in {0, 1, 2}
    BY ONLY <2>2
  <2>4. \A n \in {0, 1, 2} : n % 2 = 1 <=> n = 1
    OBVIOUS
  <2>5. Cardinality(met) % 2 = 1
          <=> (2 \in met /\ 4 \notin met) \/ (2 \notin met /\ 4 \in met)
    BY ONLY <2>3, <2>4
  <2> QED
    BY <1>1, <1>10, <2>5
<1>13. PointInPolygon(c, polygon) <=>
         \/ within /\ (c[1] = b[1] \/ c[1] = a[1])
         \/ within /\ a[1] < c[1] /\ c[1] <= b[1]
  <2>1. \A k \in 1 .. Len(polygon) : polygon[k][1] < kFar /\ Beside(polygon[k], c)
    <3>1. \A k \in 1 .. Len(polygon) :
            polygon[k] = p \/ polygon[k] = q \/ polygon[k] = r \/ polygon[k] = s
      BY <1>3
    <3>2. /\ p[1] < kFar /\ q[1] < kFar /\ r[1] < kFar /\ s[1] < kFar
          /\ Beside(p, c) /\ Beside(q, c) /\ Beside(r, c) /\ Beside(s, c)
      BY DEF p, q, r, s, Beside
    <3> QED
      BY ONLY <3>1, <3>2
  <2>2. /\ polygon \in Seq(Plane) /\ c \in Plane /\ kFar \in Int /\ c[1] < kFar
        /\ Len(polygon) >= 3
    BY <1>3
  <2>3. PointInPolygon(c, polygon) <=>
          \/ \E k \in met : Turn(polygon[k], NextCorner(polygon, k), c) = 0
          \/ Cardinality(met) % 2 = 1
    BY ONLY <2>1, <2>2, PolygonIs DEF met
  <2> QED
    BY ONLY <1>11, <1>12, <2>3
<1>14. PointInRect(c, rect) <=> within /\ a[1] < c[1] /\ c[1] < b[1]
  BY DEF PointInRect
<1> HIDE DEF edge
<1>15. PointInRect(c, rect) <=> edge = {} /\ PointInPolygon(c, polygon)
  BY <1>1, <1>9, <1>13, <1>14
<1> QED
  BY <1>15 DEF edge, polygon

\* The four functions of intersection.cc find what they are about for any segments,
\* triangles, rectangles and points: an intersection is found exactly where there is
\* a common point, with the time and place that both segments give it; a point is
\* found inside exactly when it is.
THEOREM IntersectionsAlwaysReal == GeometrySpec => []IntersectionsAreReal
<1> DEFINE Placed == point \in [1 .. 4 -> Point]
<1>1. GeometryInit => Placed
  BY DEF GeometryInit
<1>2. Placed /\ [GeometryNext]_point => Placed'
  <2> SUFFICES ASSUME Placed, [GeometryNext]_point PROVE Placed'
    OBVIOUS
  <2>1. CASE GeometryNext
    BY <2>1 DEF GeometryNext
  <2>2. CASE UNCHANGED point
    BY <2>2
  <2> QED
    BY <2>1, <2>2
<1>3. Placed => IntersectionsAreReal
  <2> SUFFICES ASSUME Placed PROVE IntersectionsAreReal
    OBVIOUS
  <2> DEFINE a == point[1]
             b == point[2]
             c == point[3]
             d == point[4]
             rect == [min |-> a, max |-> b]
             edge == {k \in 1 .. 4 : IsOn(c, Corners(rect)[k], Corners(rect)[(k % 4) + 1])}
  <2>1. \A x \in Coordinate : x \in Int /\ x < kFar
    BY GeometryAssumption
  <2>2. \A p \in Point : p \in Plane /\ p[1] < kFar
    BY <2>1 DEF Point, Plane
  <2>3. a \in Point /\ b \in Point /\ c \in Point /\ d \in Point
    OBVIOUS
  <2>4. point \in [1 .. 4 -> Plane]
    BY <2>2
  <2>5. SegmentsMeet
    BY <2>4, SegmentsAlwaysMeet
  <2> HIDE DEF a, b, c, d
  <2>6. /\ a \in Plane /\ b \in Plane /\ c \in Plane /\ d \in Plane
        /\ a[1] < kFar /\ b[1] < kFar /\ c[1] < kFar /\ d[1] < kFar
        /\ kFar \in Int
    BY <2>2, <2>3, GeometryAssumption
  <2>7. ASSUME Determinant(Minus(b, a), Minus(c, a)) # 0,
               \A v \in {a, b, c} : v[2] = d[2] => v[1] < d[1]
        PROVE  PointInPolygon(d, <<a, b, c>>) <=> InTriangle(d, a, b, c)
    <3>1. Beside(a, d) /\ Beside(b, d) /\ Beside(c, d)
      BY <2>7 DEF Beside
    <3> QED
      BY <2>6, <2>7, <3>1, TriangleIsFound
  <2>8. ASSUME a[1] < b[1], a[2] < b[2], c[2] \notin {a[2], b[2]}
        PROVE  PointInRect(c, rect) <=> edge = {} /\ PointInPolygon(c, Corners(rect))
    <3>1. c[2] # a[2] /\ c[2] # b[2]
      BY <2>8
    <3> QED
      BY <2>6, <2>8, <3>1, RectIsFound
  <2>9. PointsAreInside
    <3> HIDE DEF rect, edge
    <3>1. /\ /\ Determinant(Minus(b, a), Minus(c, a)) # 0
             /\ \A v \in {a, b, c} : v[2] = d[2] => v[1] < d[1]
             => (PointInPolygon(d, <<a, b, c>>) <=> InTriangle(d, a, b, c))
          /\ a[1] < b[1] /\ a[2] < b[2] /\ c[2] \notin {a[2], b[2]}
             => (PointInRect(c, rect) <=>
                   edge = {} /\ PointInPolygon(c, Corners(rect)))
      BY <2>7, <2>8
    <3> QED
      BY <3>1 DEF PointsAreInside, a, b, c, d, rect, edge
  <2> QED
    BY <2>5, <2>9 DEF IntersectionsAreReal
<1> QED
  BY <1>1, <1>2, <1>3, PTL DEF GeometrySpec
=============================================================================
