SPECIFICATION Spec
CONSTANTS
  Alice = Alice
  Bob = Bob
  Client = {Alice, Bob}
  NoPeer = NoPeer
  MaxPlayer = 2
  NumPlayers <- BothInOneGame
  Quiet <- SomeQuiet
  Budget <- Benign
  Timeout = 1
  NetQueue = 3
  MaxSend = 1
  MaxSeq = 4
  MaxSkew = 9
  MaxLatency = 9
INVARIANTS AppliesTurnN
CHECK_DEADLOCK FALSE
