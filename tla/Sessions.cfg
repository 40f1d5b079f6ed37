SPECIFICATION FairSpec
CONSTANTS
  Alice = Alice
  Bob = Bob
  Client = {Alice, Bob}
  NoPeer = NoPeer
  MaxPlayer = 2
  NumPlayers <- BothInOneGame
  Quiet <- SomeQuiet
  Budget <- Sessions
  Timeout = 0
  NetQueue = 2
  MaxSend = 1
  MaxSeq = 2
  MaxSkew = 1
  MaxLatency = 9
INVARIANTS TableOK
PROPERTIES GivesUp
CHECK_DEADLOCK FALSE
