SPECIFICATION SimulationSpec
CONSTANTS
  Alice = Alice
  Bob = Bob
  Client = {Alice, Bob}
  MaxPlayer = 2
  PlayerId <- Ids
  Window <- Sizes
  Input <- Anything
  MaxTurns = 3
  kMaxCommand = 1
  kUsedUnit = 2
  Begin <- AllBegin
  Goal <- Goals
  kNone = kNone
  Toward <- Step
  Arrived <- Same
  A = A
  B = B
  C = C
  D = D
  Value = {A, B}
  Zero = Zero
  Capacity = 4
  Wrap = 8
  Instance = {A, B, C, D}
  Nothing = Nothing
  MaxCount = 3
  Id = {0, 1, 2, 3}
INVARIANTS CamerasAgree RestsWhenReleased CommandsFollowViews QueueInv
PROPERTIES ImplementsFifo ImplementsPool
CHECK_DEADLOCK FALSE
