SPECIFICATION FairSpec
CONSTANTS
  Alice = Alice
  Bob = Bob
  Client = {Alice, Bob}
  NoPeer = NoPeer
  MaxPlayer = 2
  NumPlayers <- BothInOneGame
  Quiet <- SomeQuiet
  Budget <- LossUp
  Timeout = 1
  NetQueue = 3
  MaxSend = 2
  MaxSeq = 4
  MaxSkew = 1
  MaxLatency = 1
INVARIANTS TypeOK NoOverrun
PROPERTIES Progress ImplementsLockstep
CHECK_DEADLOCK FALSE
