------------------------------- MODULE Tiles -------------------------------
(***************************************************************************)
(* Tiles and places in the world: the rest of src/src/simulation/tilemap.cc*)
(* after Initialize.  Places are whole numbers; the fraction that the code *)
(* cuts off first decides on no tile.                                      *)
(***************************************************************************)
EXTENDS Tilemap, FiniteSetsExt

CONSTANTS
  kTileWidth,
  kTileHeight,
  PlacesX, PlacesY   \* where units, clicks and destinations are

ASSUME TileSizeAssumption ==
  /\ {kTileWidth, kTileHeight} \subseteq Nat \ {0, 1}
  /\ PlacesX \subseteq Int /\ PlacesY \subseteq Int

VARIABLES
  kDefaultMap,
  place,   \* a position in the world
  goal     \* what WorldPositionOfTile found: <<>> or a type and a position

tiles == <<kDefaultMap, place, goal>>

-----------------------------------------------------------------------------
(* TilePosToWorld: the middle of the tile, or the whole number before it. *)

TilePosToWorld(pos) ==
  <<pos[1] * kTileWidth + kTileWidth \div 2, pos[2] * kTileHeight + kTileHeight \div 2>>

\* Integer division as in C++: towards zero.
Truncated(n, width) == IF n < 0 THEN -((-n) \div width) ELSE n \div width

WorldToTilePos(pos) == <<Truncated(pos[1], kTileWidth), Truncated(pos[2], kTileHeight)>>

kInvalidTile == <<-1, -1>>

OpenNeighbors(pos) == {i \in 1 .. kMaxNeighbor : Open(Neighbor(pos, i))}

\* (Bug: a neighbor is taken unseen.)
TileAdjacent(pos) == IF Open(pos) THEN pos ELSE Neighbor(pos, 1)

\* The position itself, or the first open neighbor.
TileOpenAdjacent(pos) ==
  IF Open(pos) THEN pos
  ELSE IF OpenNeighbors(pos) = {} THEN kInvalidTile
  ELSE Neighbor(pos, Min(OpenNeighbors(pos)))

\* pos - neighbor, on top of what was avoided before.
Away(avoidance, i) == <<avoidance[1] - kNeighbor[i][1], avoidance[2] - kNeighbor[i][2]>>

\* Away from every neighbor that is not open.
TileAvoidWalls(pos) ==
  LET open == OpenNeighbors(pos)
      avoidance[k \in 0 .. kMaxNeighbor] ==
        IF k = 0 THEN <<0, 0>>
        ELSE IF k \in open THEN avoidance[k - 1]
        ELSE Away(avoidance[k - 1], k)
  IN  avoidance[kMaxNeighbor]

-----------------------------------------------------------------------------

\* Row by row.
Before(t, u) == t[2] < u[2] \/ (t[2] = u[2] /\ t[1] <= u[1])

TilesInit ==
  /\ kDefaultMap = kTilemap
  /\ place \in PlacesX \X PlacesY
  /\ goal = <<>>

\* The scan copies the default map up to the tile it looks for.
WorldPositionOfTile(type) ==
  LET found == {t \in Tile : kDefaultMap[t] = type}
  IN  /\ IF found = {}
           THEN kTilemap' = kDefaultMap /\ goal' = <<>>
           ELSE \E first \in found :
                  /\ \A t \in found : Before(first, t)
                  /\ kTilemap' = [t \in Tile |-> IF Before(t, first) THEN kDefaultMap[t]
                                                 ELSE kTilemap[t]]
                  /\ goal' = <<type, TilePosToWorld(TileOpenAdjacent(first))'>>
      /\ UNCHANGED <<kDefaultMap, place>>

Walk ==
  /\ \E step \in {<<1, 0>>, <<-1, 0>>, <<0, 1>>, <<0, -1>>} :
       place' = <<place[1] + step[1], place[2] + step[2]>>
  /\ place' \in PlacesX \X PlacesY
  /\ UNCHANGED <<kTilemap, kDefaultMap, goal>>

TilesNext ==
  Walk \/ \E type \in TileType \ {kTileOpen, kTileBlock} : WorldPositionOfTile(type)

TilesSpec == TilesInit /\ [][TilesNext]_<<kTilemap, tiles>>

-----------------------------------------------------------------------------
(* Properties. *)

\* The tile of a place on the map is the one around whose middle it is; a place
\* off the map has none, but for the strip of less than a tile below and to the
\* left of it, where WorldToTilePos truncates upwards.
PlaceHasTile ==
  LET tile == WorldToTilePos(place)
      middle == TilePosToWorld(tile)
      within(x, width, size) == -width < x /\ x < size * width
  IN  /\ TileOk(tile) <=> /\ within(place[1], kTileWidth, kMapWidth)
                          /\ within(place[2], kTileHeight, kMapHeight)
      /\ TileOk(tile) /\ place[1] >= 0 /\ place[2] >= 0 =>
           /\ middle[1] - place[1] \in 1 - (kTileWidth + 1) \div 2 .. kTileWidth \div 2
           /\ middle[2] - place[2] \in 1 - (kTileHeight + 1) \div 2 .. kTileHeight \div 2

\* A unit with a goal is sent to an open tile on or next to one of the type it
\* looks for; if the first of these is walled in, to the tile <<0, 0>>, which is
\* what the position of kInvalidTile is taken for.
GoalIsNear ==
  goal # <<>> =>
    LET tile == WorldToTilePos(goal[2])
        near(t) == {t} \cup {Neighbor(t, i) : i \in 1 .. kMaxNeighbor}
        sought == {t \in Tile : kTilemap[t] = goal[1]}
    IN  \/ \E t \in sought : tile \in near(t) /\ Open(tile)
        \/ \E t \in sought : tile = <<0, 0>> /\ \A n \in near(t) : ~Open(n)

\* What keeps a unit off walls does not push it off the map.
PushedInwards ==
  LET tile == WorldToTilePos(place)
      push == TileAvoidWalls(tile)
  IN  TileOk(tile) =>
        /\ tile[1] = 0 => push[1] >= 0
        /\ tile[2] = 0 => push[2] >= 0
        /\ tile[1] = kMapWidth - 1 => push[1] <= 0
        /\ tile[2] = kMapHeight - 1 => push[2] <= 0

TilesNamePlaces == PlaceHasTile /\ GoalIsNear /\ PushedInwards
=============================================================================
