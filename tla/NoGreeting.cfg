SPECIFICATION Spec
CONSTANTS
  Alice = Alice
  Bob = Bob
  Client = {Alice, Bob}
  NoPeer = NoPeer
  MaxPlayer = 2
  NumPlayers <- BothInOneGame
  Quiet <- SomeQuiet
  Budget <- GreetOnly
  Timeout = 1
  NetQueue = 3
  MaxSend = 1
  MaxSeq = 4
  MaxSkew = 1
  MaxLatency = 1
INVARIANTS AppliesTurnN
CHECK_DEADLOCK FALSE
