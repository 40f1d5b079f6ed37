------------------------------ MODULE Clients ------------------------------
(***************************************************************************)
(* The game clients: NetworkSetup, ProcessInput, NetworkEgress,            *)
(* NetworkIngress of src/src/network/network.cc and the main loop of       *)
(* src/src/space.cc that calls them.  A client is in                       *)
(*   "handshake"  NetworkSetup, waiting for its NotifyStart,               *)
(*   "input"      the top of the main loop,                                *)
(*   "ingress"    the receive loop of NetworkIngress,                      *)
(*   "nogame"     after exit(1) or exit(3) in NetworkSetup,                *)
(*   "exit1", "exit2", "closed"   after exit(n), or its window closed.     *)
(* What a client simulates is abstracted to the sequence `turns' of the    *)
(* inputs it was given: turns[c][n + 1] is what client c applied as turn   *)
(* n, for every player.                                                    *)
(***************************************************************************)
EXTENDS Network

CONSTANTS
  NetQueue,  \* MAX_NETQUEUE: frames of input kept
  MaxSend,   \* handshakes a client sends before it ends (500)
  MaxSeq     \* bound of the model: the last turn a client makes

ASSUME NetQueueAssumption == NetQueue \in Nat \ {0, 1}
ASSUME MaxSendAssumption == MaxSend \in Nat \ {0}
ASSUME MaxSeqAssumption == MaxSeq \in Nat

VARIABLES
  pc,                \* where the client's thread is
  send_count,        \* handshakes sent
  player_id,
  player_count,
  outgoing_sequence, \* the next turn the client makes
  outgoing_ack,      \* outgoing_ack[c][p]: highest acknowledged turn of p
  input,             \* input[c][slot]: the client's own input history
  player_input,      \* player_input[c][slot][p]: received input of player p
  player_received,   \* player_received[c][slot][p]
  logic_updates,     \* the next frame to simulate
  turns              \* turns applied by the simulation

egress == <<send_count, outgoing_sequence, input>>
ingress == <<outgoing_ack, player_input, player_received>>
identity == <<player_id, player_count>>
game == <<logic_updates, turns>>
client == <<pc, egress, ingress, identity, game>>

Slot == 0 .. NetQueue - 1

\* (Bug: the queue is one slot shorter than its guards assume.)
ShorterQueue(sequence) == sequence % (NetQueue - 1)

NETQUEUE_SLOT(sequence) == sequence % NetQueue

Running(c) == pc[c] \in {"input", "ingress"}

Ended(c) == pc[c] \in {"exit1", "exit2", "nogame", "closed"}

ClientTypeOK ==
  /\ pc \in [Client -> {"handshake", "input", "ingress",
                        "exit1", "exit2", "nogame", "closed"}]
  /\ send_count \in [Client -> 0 .. MaxSend]
  /\ player_id \in [Client -> Player]
  /\ player_count \in [Client -> Nat]
  /\ outgoing_sequence \in [Client -> Nat \ {0}]
  /\ outgoing_ack \in [Client -> [Player -> Nat]]
  /\ input \in [Client -> [Slot -> Input]]
  /\ player_input \in [Client -> [Slot -> [Player -> Input]]]
  /\ player_received \in [Client -> [Slot -> [Player -> BOOLEAN]]]
  /\ logic_updates \in [Client -> Nat]
  /\ turns \in [Client -> Seq([Player -> Input])]

\* Frame 0 is received from the start: no player takes action on it.
ClientInit ==
  /\ pc = [c \in Client |-> "handshake"]
  /\ send_count = [c \in Client |-> 0]
  /\ player_id = [c \in Client |-> 0]
  /\ player_count = [c \in Client |-> 0]
  /\ outgoing_sequence = [c \in Client |-> 1]
  /\ outgoing_ack = [c \in Client |-> [p \in Player |-> 0]]
  /\ input = [c \in Client |-> [k \in Slot |-> NoEvents]]
  /\ player_input =
       [c \in Client |-> [k \in Slot |-> [p \in Player |-> NoEvents]]]
  /\ player_received =
       [c \in Client |-> [k \in Slot |-> [p \in Player |-> k = 0]]]
  /\ logic_updates = [c \in Client |-> 0]
  /\ turns = [c \in Client |-> <<>>]

-----------------------------------------------------------------------------
Goto(c, l) == pc' = [pc EXCEPT ![c] = l]

Receives(c) ==
  /\ toClient[c] # <<>>
  /\ toClient' = [toClient EXCEPT ![c] = Tail(@)]
  /\ UNCHANGED <<toServer, faults>>

(* NetworkSetup *)

\* Only until an answer arrives, and at most MaxSend times.
SendHandshake(c) ==
  /\ pc[c] = "handshake"
  /\ send_count[c] < MaxSend
  /\ send_count' = [send_count EXCEPT ![c] = @ + 1]
  /\ toServer' = [toServer EXCEPT ![c] = Append(@, Handshake(NumPlayers[c]))]
  /\ UNCHANGED <<pc, outgoing_sequence, input, ingress, identity, game,
                 toClient, faults>>

\* The first datagram that arrives is taken for the NotifyStart if it has the
\* size of one.
ReceiveStart(c) ==
  /\ pc[c] = "handshake"
  /\ send_count[c] > 0
  /\ Receives(c)
  /\ UNCHANGED <<egress, ingress, game>>
  /\ LET start == Head(toClient[c])
     IN  IF HasSizeOfNotifyStart(start)
           THEN /\ player_id' = [player_id EXCEPT ![c] = start.second]
                /\ player_count' = [player_count EXCEPT ![c] = start.third]
                /\ Goto(c, "input")
           ELSE Goto(c, "nogame") /\ UNCHANGED identity

\* A Send of the handshake fails, exit(1), or after MaxSend of them no answer
\* has come, exit(3).
GiveUp(c) ==
  /\ pc[c] = "handshake"
  /\ Spend("giveup")
  /\ Goto(c, "nogame")
  /\ UNCHANGED <<egress, ingress, identity, game, toServer, toClient>>

-----------------------------------------------------------------------------
(* ProcessInput and NetworkEgress *)

\* (Bug: the acknowledgement of the first player is taken for one's own.)
FirstAck(c) == outgoing_ack[c][0]

LocalAck(c) == outgoing_ack[c][player_id[c]]

\* (Bug: no guard.)
NeverOverrun(c) == FALSE

\* (Bug: the guard is off by one.)
OverrunEarly(c) == outgoing_sequence[c] - LocalAck(c) >= NetQueue - 1

\* outgoing_sequence - ack, unsigned, is at least MAX_NETQUEUE: an ack beyond
\* what was sent wraps around.
Overrun(c) ==
  \/ LocalAck(c) > outgoing_sequence[c]
  \/ outgoing_sequence[c] - LocalAck(c) >= NetQueue

Exit2(c) ==
  /\ pc[c] = "input"
  /\ Overrun(c)
  /\ Goto(c, "exit2")
  /\ UNCHANGED <<network, egress, ingress, identity, game>>

\* GetNextInputBuffer and ProcessWindowInput
MakeTurn(c) ==
  LET s == outgoing_sequence[c]
  IN  /\ ~Overrun(c)
      /\ s <= MaxSeq
      /\ outgoing_sequence' = [outgoing_sequence EXCEPT ![c] = s + 1]
      /\ input' = [input EXCEPT ![c][NETQUEUE_SLOT(s)] = InputOf(c, s)]
      /\ UNCHANGED send_count

\* (Bug: only the turn just made is sent.)
NewestOnly(c) ==
  LET s == outgoing_sequence[c]
  IN  <<Turn(s, input'[c][NETQUEUE_SLOT(s)])>>

\* (Bug: the turns are sent before the new input is recorded.)
SentTooEarly(c) ==
  LET ack == LocalAck(c)
  IN  [k \in 1 .. outgoing_sequence'[c] - 1 - ack |->
         Turn(ack + k, input[c][NETQUEUE_SLOT(ack + k)])]

\* Every turn after the acknowledged one, from the input history.
Unacknowledged(c) ==
  LET ack == LocalAck(c)
  IN  [k \in 1 .. outgoing_sequence'[c] - 1 - ack |->
         Turn(ack + k, input'[c][NETQUEUE_SLOT(ack + k)])]

Sends(c, datagrams) ==
  toServer' = [toServer EXCEPT ![c] = @ \o datagrams]

Tick(c) ==
  /\ pc[c] = "input"
  /\ MakeTurn(c)
  /\ Sends(c, Unacknowledged(c))
  /\ Goto(c, "ingress")
  /\ UNCHANGED <<ingress, identity, game, toClient, faults>>

\* One of the Sends fails: the earlier ones are already out.
SendFails(c) ==
  /\ pc[c] = "input"
  /\ Spend("quit")
  /\ MakeTurn(c)
  /\ \E n \in 0 .. Len(Unacknowledged(c)) - 1 :
       Sends(c, SubSeq(Unacknowledged(c), 1, n))
  /\ Goto(c, "exit1")
  /\ UNCHANGED <<ingress, identity, game, toClient>>

\* window::ShouldClose
Close(c) ==
  /\ pc[c] = "input"
  /\ Spend("quit")
  /\ Goto(c, "closed")
  /\ UNCHANGED <<egress, ingress, identity, game, toServer, toClient>>

-----------------------------------------------------------------------------
(* NetworkIngress, one datagram at a time, and the simulation step.        *)

\* Whatever arrives is read as a NotifyTurn.
Ingress(c) ==
  /\ pc[c] = "ingress"
  /\ Receives(c)
  /\ UNCHANGED <<egress, identity, game>>
  /\ LET turn == Head(toClient[c])
         slot == NETQUEUE_SLOT(turn.first)
         p == turn.second
     IN  IF turn.first < logic_updates[c]
           THEN UNCHANGED <<pc, ingress>>
           ELSE IF p >= MaxPlayer
           THEN Goto(c, "exit1") /\ UNCHANGED ingress
           ELSE /\ player_input' =
                     [player_input EXCEPT ![c][slot][p] = turn.event]
                /\ player_received' =
                     [player_received EXCEPT ![c][slot][p] = TRUE]
                /\ outgoing_ack' =
                     [outgoing_ack EXCEPT
                        ![c][p] = IF turn.third > @ THEN turn.third ELSE @]
                /\ UNCHANGED pc

\* (Bug: the last player of the game is left out.)
AllButLastReceived(c) ==
  \A p \in Player :
    p < player_count[c] - 1 =>
      player_received[c][NETQUEUE_SLOT(logic_updates[c])][p]

\* (Bug: whether one's own turn came back is not asked.)
OthersReceived(c) ==
  \A p \in Player :
    p < player_count[c] /\ p # player_id[c] =>
      player_received[c][NETQUEUE_SLOT(logic_updates[c])][p]

\* The input of every player of the game has been received for the frame.
AllReceived(c) ==
  \A p \in Player :
    p < player_count[c] =>
      player_received[c][NETQUEUE_SLOT(logic_updates[c])][p]

\* SlotReady is false; with a player_count above MAX_PLAYER it reads past the
\* row of the slot, and may find anything there.
SlotNotReady(c) == ~AllReceived(c) \/ player_count[c] > MaxPlayer

\* SlotReady, GetSlot and one step of the simulation with every player's input.
Simulate(c) ==
  LET slot == NETQUEUE_SLOT(logic_updates[c])
  IN  /\ pc[c] = "ingress"
      /\ AllReceived(c)
      /\ player_received' =
           [player_received EXCEPT ![c][slot] = [p \in Player |-> FALSE]]
      /\ turns' = [turns EXCEPT ![c] = Append(@, player_input[c][slot])]
      /\ logic_updates' = [logic_updates EXCEPT ![c] = @ + 1]
      /\ Goto(c, "input")
      /\ UNCHANGED <<network, egress, identity, outgoing_ack, player_input>>

\* The frame has to wait for a later iteration of the main loop.
Stall(c) ==
  /\ pc[c] = "ingress"
  /\ SlotNotReady(c)
  /\ Goto(c, "input")
  /\ UNCHANGED <<network, egress, ingress, identity, game>>
=============================================================================
