------------------------------ MODULE Tilemap ------------------------------
(***************************************************************************)
(* The tile map of src/src/simulation/tilemap.cc.  A position is a pair    *)
(* <<x, y>>; it exists as a tile if it lies on the map.                    *)
(***************************************************************************)
EXTENDS Integers, Sequences

CONSTANTS
  kMapWidth,
  kMapHeight,
  Maps        \* the maps that are considered

Tile == (0 .. kMapWidth - 1) \X (0 .. kMapHeight - 1)

kTileOpen == "open"

kTileBlock == "block"

TileType == {kTileOpen, kTileBlock, "engine", "power", "mine"}

ASSUME MapSizeAssumption == kMapWidth \in Nat \ {0} /\ kMapHeight \in Nat \ {0}
ASSUME MapsAssumption == Maps \subseteq [Tile -> TileType]

VARIABLE kTilemap   \* kTilemap[t]: the type of tile t

kMaxNeighbor == 8

kNeighbor ==
  << <<-1, 0>>, <<1, 0>>, <<0, 1>>, <<0, -1>>,
     <<1, 1>>, <<-1, 1>>, <<1, -1>>, <<-1, -1>> >>

\* The i-th neighbor of a position.
Neighbor(pos, i) == <<pos[1] + kNeighbor[i][1], pos[2] + kNeighbor[i][2]>>

\* True for positions that exist as a tile.
TileOk(pos) == pos \in Tile

\* kTileBlock for non-existent tiles, and the type otherwise.
TileTypeSafe(pos) == IF TileOk(pos) THEN kTilemap[pos] ELSE kTileBlock

Open(pos) == TileTypeSafe(pos) = kTileOpen
=============================================================================
