SPECIFICATION Spec
CONSTANTS
  Alice = Alice
  Bob = Bob
  Client = {Alice, Bob}
  NoPeer = NoPeer
  MaxPlayer = 2
  NumPlayers <- BothInOneGame
  Quiet <- SomeQuiet
  Budget <- DelayDownOnly
  Timeout = 1
  NetQueue = 3
  MaxSend = 1
  MaxSeq = 3
  MaxSkew = 1
  MaxLatency = 1
INVARIANTS UniqueIds
CHECK_DEADLOCK FALSE
