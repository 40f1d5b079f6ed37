SPECIFICATION Spec
CONSTANTS
  Alice = Alice
  Bob = Bob
  Client = {Alice, Bob}
  MaxPlayer = 2
  PlayerId <- Ids
  Window <- OneSize
  Input <- Anything
  MaxTurns = 3
  kMaxCommand = 2
  kUsedUnit = 2
  Begin <- AllBegin
  Goal <- Goals
  kNone = kNone
  Toward <- Step
  Arrived <- Same
INVARIANTS CommandsAgree
CHECK_DEADLOCK FALSE
