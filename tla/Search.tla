------------------------------- MODULE Search -------------------------------
(***************************************************************************)
(* search::PathTo of src/src/simulation/search.cc: a breadth first search  *)
(* over the open tiles, in the arrays of the static kSearch.  Its caller   *)
(* gets a pointer to kSearch.path or nullptr.  The search is at            *)
(*   "idle"   between two calls,                                           *)
(*   "pop"    the top of the search loop,                                  *)
(*   "look"   the loop over the neighbors of `node',                       *)
(*   "trace"  the loop that follows `from' back to the start.              *)
(***************************************************************************)
EXTENDS Tilemap

CONSTANT Position   \* what callers may ask for: also positions off the map

ASSUME PositionAssumption == Tile \subseteq Position

VARIABLES
  pc,
  start, end,   \* the arguments
  checked,      \* the tiles t whose path_map[t].checked is set
  from,         \* path_map[t].from
  queue,        \* queue[0 .. queue_size - 1]
  queue_ptr,
  i,            \* the neighbor to look at next
  path,         \* kSearch.path
  found         \* what PathTo returned: &kSearch.path or nullptr

search == <<checked, from, queue, queue_ptr, i>>
vars == <<kTilemap, pc, start, end, search, path, found>>

\* The static arrays have room for every tile once.
Room == kMapWidth * kMapHeight

Init ==
  /\ kTilemap \in Maps
  /\ pc = "idle"
  /\ start = <<0, 0>> /\ end = <<0, 0>>
  /\ checked = {}
  /\ from = [t \in Tile |-> <<0, 0>>]
  /\ queue = <<>>
  /\ queue_ptr = 0
  /\ i = 1
  /\ path = <<>>
  /\ found = FALSE

\* The tile the search is at: the last one taken from the queue.
node == queue[queue_ptr]

PathTo(s, e) ==
  /\ pc = "idle"
  /\ start' = s /\ end' = e
  /\ found' = FALSE
  /\ UNCHANGED <<kTilemap, i>>
  /\ IF TileOk(s) /\ TileOk(e)
       THEN /\ pc' = "pop"
            /\ checked' = {s}
            /\ from' = [t \in Tile |-> IF t = s THEN s ELSE <<0, 0>>]
            /\ queue' = <<s>>
            /\ queue_ptr' = 0
            /\ path' = <<>>
       ELSE UNCHANGED <<pc, checked, from, queue, queue_ptr, path>>

\* (Bug: an exhausted queue does not end the loop.)
NoPathSpins ==
  /\ pc = "pop"
  /\ queue_ptr = Len(queue)
  /\ UNCHANGED vars

\* The queue is exhausted: nullptr.
NoPath ==
  /\ pc = "pop"
  /\ queue_ptr = Len(queue)
  /\ pc' = "idle"
  /\ UNCHANGED <<kTilemap, start, end, search, path, found>>

Pop ==
  /\ pc = "pop"
  /\ queue_ptr < Len(queue)
  /\ queue_ptr' = queue_ptr + 1
  /\ IF queue[queue_ptr + 1] = end
       THEN pc' = "trace" /\ path' = <<end>> /\ UNCHANGED i
       ELSE pc' = "look" /\ i' = 1 /\ UNCHANGED path
  /\ UNCHANGED <<kTilemap, start, end, checked, from, queue, found>>

\* (Bug: a tile is enqueued again as long as it was not visited.)
UnlessVisited(t) ==
  /\ Open(t)
  /\ \A k \in 1 .. queue_ptr : queue[k] # t

\* (Bug: corners are not neighbors.)
NotACorner(t) == Open(t) /\ t \notin checked /\ (t[1] = node[1] \/ t[2] = node[2])

\* (Bug: the type of the neighbor is not looked up.)
Unchecked(t) == t \notin checked

\* A neighbor to enqueue.
IsNew(t) == Open(t) /\ t \notin checked

Look ==
  /\ pc = "look"
  /\ LET neighbor == Neighbor(node, i)
     IN  IF IsNew(neighbor)
           THEN /\ checked' = checked \cup {neighbor}
                /\ from' = [from EXCEPT ![neighbor] = node]
                /\ queue' = Append(queue, neighbor)
           ELSE UNCHANGED <<checked, from, queue>>
  /\ IF i < kMaxNeighbor
       THEN i' = i + 1 /\ UNCHANGED pc
       ELSE pc' = "pop" /\ UNCHANGED i
  /\ UNCHANGED <<kTilemap, start, end, queue_ptr, path, found>>

Trace ==
  /\ pc = "trace"
  /\ path[Len(path)] # start
  /\ path' = Append(path, from[path[Len(path)]])
  /\ UNCHANGED <<kTilemap, pc, start, end, search, found>>

\* Reverse the path and return it.
Return ==
  /\ pc = "trace"
  /\ path[Len(path)] = start
  /\ path' = [k \in 1 .. Len(path) |-> path[Len(path) + 1 - k]]
  /\ found' = TRUE
  /\ pc' = "idle"
  /\ UNCHANGED <<kTilemap, start, end, search>>

Searching == NoPath \/ Pop \/ Look \/ Trace \/ Return

Next == Searching \/ \E s, e \in Position : PathTo(s, e)

Spec == Init /\ [][Next]_vars

\* A call runs to its end: nothing in PathTo waits.
FairSpec == Spec /\ WF_vars(Searching)

-----------------------------------------------------------------------------
(* Properties.                                                             *)

SearchTypeOK ==
  /\ kTilemap \in [Tile -> TileType]
  /\ pc \in {"idle", "pop", "look", "trace"}
  /\ start \in Position /\ end \in Position
  /\ checked \subseteq Tile
  /\ from \in [Tile -> Tile]
  /\ queue \in Seq(Tile)
  /\ queue_ptr \in 0 .. Len(queue)
  /\ i \in 1 .. kMaxNeighbor
  /\ path \in Seq(Tile)
  /\ found \in BOOLEAN

\* Neither array is ever written beyond its end ("Vec2i queue[kMapHeight *
\* kMapWidth]", search.cc:23, and tile of Path): no tile is enqueued twice, and
\* the way back along `from' meets no tile twice.
FitsArrays == Len(queue) <= Room /\ Len(path) <= Room

Adjacent(s, t) == s # t /\ s[1] - t[1] \in -1 .. 1 /\ s[2] - t[2] \in -1 .. 1

\* The tiles within n moves of the start of the last call.
Within ==
  LET ball[n \in 0 .. Room] ==
        IF n = 0 THEN {start}
        ELSE LET near == ball[n - 1]
             IN  near \cup {t \in Tile : Open(t) /\ \E s \in near : Adjacent(s, t)}
  IN  ball

IsPath(p) ==
  /\ p[1] = start /\ p[Len(p)] = end
  /\ \A k \in 1 .. Len(p) - 1 : Open(p[k + 1]) /\ Adjacent(p[k], p[k + 1])

\* What is returned leads from start to end over open tiles (the start need
\* not be one).
ReturnsPath == found => IsPath(path)

\* What is returned is a path, and there is none with fewer moves.
ReturnsShortestPath ==
  /\ ReturnsPath
  /\ found => \A n \in 0 .. Room : n < Len(path) - 1 => end \notin Within[n]

\* nullptr is returned only if there is no path.
NullOnlyIfNone ==
  pc = "idle" /\ ~found /\ TileOk(start) /\ TileOk(end) /\ checked # {}
    => end \notin Within[Room]

\* Every call returns, the way back included.
Returns == pc # "idle" ~> pc = "idle"
=============================================================================
