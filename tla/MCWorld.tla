------------------------------- MODULE MCWorld -------------------------------
(***************************************************************************)
(* Small instances for TLC of what the simulation and the renderer compute *)
(* in space: paths, tiles, intersections and matrices.  Each behaviour is  *)
(* one of a single part; the others rest in one of their initial states.   *)
(***************************************************************************)
EXTENDS Search, Tiles, Geometry, Matrices

VARIABLE part

(* On a map of three by three tiles these walls suffice to part the map, to   *)
(* cut off a corner, and to make the shortest path from one corner to the     *)
(* next twice as long as the straight one.                                    *)

Walled(wall) == [t \in Tile |-> IF t \in wall THEN kTileBlock ELSE kTileOpen]

SomeWalls ==
  {Walled({})} \cup {Walled({<<1, 0>>} \cup wall) : wall \in SUBSET {<<1, 1>>, <<1, 2>>, <<0, 1>>}}

AtRest == [position |-> <<2, 1, 0, 1>>, orientation |-> <<1, 0, 0, 0>>]

FirstLine == [start |-> <<0, 0, 0, 1>>, half |-> <<1, 0>>, length |-> 1]

world == <<part, vars, tiles, point, views>>

\* (What a part that rests is like comes first, for TLC to enumerate no more.)
WorldInit ==
  /\ part \in {"search", "tiles", "geometry", "matrices"}
  /\ CASE part = "search" -> kTilemap \in SomeWalls
       [] part = "tiles" -> kTilemap \in Maps
       [] OTHER -> kTilemap = Walled({})
  /\ part = "tiles" \/ place = <<0, 0>>
  /\ part = "geometry" \/ point = [k \in 1 .. 4 |-> <<0, 0>>]
  /\ part = "matrices" \/ (cam = AtRest /\ dims = <<3, 2>> /\ line = FirstLine)
  /\ Init /\ TilesInit /\ GeometryInit /\ MatricesInit

WorldNext ==
  /\ UNCHANGED part
  /\ \/ /\ part = "search" /\ Next
        /\ UNCHANGED <<tiles, point, views>>
     \/ /\ part = "tiles" /\ TilesNext
        /\ UNCHANGED <<pc, start, end, search, path, found, point, views>>
     \/ /\ part = "geometry" /\ GeometryNext
        /\ UNCHANGED <<vars, tiles, views>>
     \/ /\ part = "matrices" /\ MatricesNext
        /\ UNCHANGED <<vars, tiles, point>>

WorldSpec ==
  /\ WorldInit /\ [][WorldNext]_world
  /\ WF_vars(part = "search" /\ Searching)

-----------------------------------------------------------------------------
\* A mine in the open, one in a corner behind a wall, one that is walled in and
\* has a free tile around or none, and two of which one is walled in.
WithMines ==
  LET mine == [t \in Tile |-> IF t = <<1, 1>> THEN "mine" ELSE kTileBlock]
  IN  {[Walled({}) EXCEPT ![<<1, 1>>] = "mine"],
       [Walled({<<1, 0>>, <<0, 1>>}) EXCEPT ![<<0, 0>>] = "mine"],
       [mine EXCEPT ![<<2, 1>>] = kTileOpen],
       mine,
       [Walled({<<1, 0>>, <<0, 1>>, <<1, 1>>}) EXCEPT ![<<0, 0>>] = "mine",
                                                      ![<<2, 2>>] = "mine"]}

SomeMaps == SomeWalls \cup WithMines

\* The tiles of the map, and a position off it.
Around == Tile \cup {<<-1, 0>>}

\* From more than a tile before the map to more than a tile behind it.
AlongX == -4 .. 11
AlongY == -3 .. 8

-----------------------------------------------------------------------------
(* Cameras that stand upright, are turned, and are tilted; and lines up and   *)
(* down, and in between.                                                      *)

SomePositions == {<<2, 1, 0, 1>>, <<3, 1, 0, 1>>}

SomeOrientations ==
  {<<1, 0, 0, 0>>, <<1, 0, 0, 1>>, <<2, 0, 0, 1>>, <<1, 1, 0, 0>>, <<1, 1, 1, 1>>,
   <<0, 1, 2, 0>>}

SomeSizes == {<<3, 2>>, <<2, 3>>}

SomeEnds == {<<0, 0, 0, 1>>, <<1, -2, 0, 1>>}

SomeDirections == {<<1, 0>>, <<1, 1>>, <<0, 1>>, <<1, 2>>, <<2, -1>>}
==============================================================================
