SPECIFICATION WorldSpec
CONSTANTS
  kMapWidth = 3
  kMapHeight = 3
  Maps <- SomeMaps
  Position <- Around
  kTileWidth = 3
  kTileHeight = 2
  PlacesX <- AlongX
  PlacesY <- AlongY
  Coordinate = {0, 1, 2}
  kFar = 1000
  Positions <- SomePositions
  Orientations <- SomeOrientations
  WindowSizes <- SomeSizes
  Ends <- SomeEnds
  Direction <- SomeDirections
INVARIANTS SearchTypeOK FitsArrays ReturnsShortestPath NullOnlyIfNone TilesNamePlaces IntersectionsAreReal ClickIsUnderCursor LinesMeetTheirEnds
PROPERTIES Returns
