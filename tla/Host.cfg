SPECIFICATION Spec
CONSTANTS
  MaxHandshakes = 2
  MaxTickEvents = 2
  Buffers = 2
  Sizes = {4, 6}
  StartSize = 4
  ViewportInset = 1
  SystemEvents <- AllEvents
  MaxArrivals = 3
  Wrap = 256
  Shift = 32
  Msec = 4
  Rate = 11
  Precision = 64
  MaxSamples = 3
  Samples <- SomeSamples
  Goal = 3
  Starts = {0, 240}
  MaxDelta = 40
  MaxElapsed = 40
  kMaxTextCount = 32
  kMaxAsteroid = 8
  Matrix <- SomeMatrices
  Scenes <- SomeScenes
  Views <- SomeViews
  Spacing <- TwoGrids
  MaxRendered = 2
INVARIANTS TurnsHoldInput ClickMeansWhatIsDrawn ClockNeverAhead  DrawsWhatIsMeant TextFits GridFillsView
PROPERTIES ErrorStopsServer CloseEndsProgram
CHECK_DEADLOCK FALSE
