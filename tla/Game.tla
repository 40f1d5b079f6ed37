-------------------------------- MODULE Game --------------------------------
(***************************************************************************)
(* The networked game: the clients, the relay server and the medium        *)
(* between them.                                                           *)
(*                                                                         *)
(* Pace.  Nothing in the code relates the rates of two clients, but the    *)
(* frame queue only works when they are related.  MaxSkew bounds how many  *)
(* turns a client may be ahead of another of its game, MaxLatency how many *)
(* turns it may have made beyond a frame when it goes on without it.  Both *)
(* are assumptions about the hosts and the network, given by the guards    *)
(* Abreast and Timely; values above MaxSeq make no assumption.             *)
(***************************************************************************)
EXTENDS Server, Clients

CONSTANTS MaxSkew, MaxLatency

ASSUME PaceAssumption == MaxSkew \in Nat \ {0} /\ MaxLatency \in Nat \ {0}

vars == <<network, server, client>>

Init == NetworkInit /\ ServerInit /\ ClientInit

-----------------------------------------------------------------------------
\* The clients greeted together with c, as long as they have not ended.
Mates(c) == {d \in Client : ~Ended(d) /\ \E p \in DOMAIN roster[c] :
                                            roster[c][p] = d}

Abreast(c) ==
  \A d \in Mates(c) : outgoing_sequence[c] - outgoing_sequence[d] < MaxSkew

Timely(c) == outgoing_sequence[c] - logic_updates[c] <= MaxLatency

\* What the main loop of client c does when nothing fails.
ClientStep(c) ==
  \/ SendHandshake(c)
  \/ ReceiveStart(c)
  \/ Exit2(c)
  \/ Abreast(c) /\ Tick(c)
  \/ Ingress(c)
  \/ Simulate(c)
  \/ Timely(c) /\ Stall(c)

ClientFault(c) == GiveUp(c) \/ (Abreast(c) /\ SendFails(c)) \/ Close(c)

Next ==
  \/ ServerNext /\ UNCHANGED client
  \/ \E c \in Client : (ClientStep(c) \/ ClientFault(c)) /\ UNCHANGED server
  \/ NetworkFault /\ UNCHANGED <<server, client>>

Spec == Init /\ [][Next]_vars

Handles(c) == (HandleHandshake(c) \/ HandleTurn(c)) /\ UNCHANGED client

\* Both main loops poll for ever: a client keeps iterating, and the server
\* takes every datagram that arrived.
Fairness ==
  \A c \in Client :
    /\ WF_vars(ClientStep(c) /\ UNCHANGED server)
    /\ WF_vars(Handles(c))

FairSpec == Spec /\ Fairness

-----------------------------------------------------------------------------
(* Type invariant. *)

\* Every variable has its type; in particular every player id a datagram or a
\* client holds indexes the arrays of MAX_PLAYER entries.
TypeOK == NetworkTypeOK /\ ServerTypeOK /\ ClientTypeOK

-----------------------------------------------------------------------------
(* Safety, whatever the network and the processes do. *)

\* The input history keeps every turn that is not acknowledged, so that what
\* NetworkEgress re-sends is what the player did ("History is preserved until
\* network acknowledgement", network.cc:25): the slot of a turn is not reused
\* while the turn may still be re-sent.
HistoryPreserved ==
  \A c \in Client :
    \A s \in LocalAck(c) + 1 .. outgoing_sequence[c] - 1 :
      input[c][NETQUEUE_SLOT(s)] = InputOf(c, s)

\* What makes it inductive: nothing is acknowledged before the first turn, and
\* the unacknowledged turns fit the queue, so that no two share a slot.
HistoryInv ==
  /\ \A c \in Client :
       /\ pc[c] = "handshake" =>
            /\ outgoing_sequence[c] = 1
            /\ \A p \in Player : outgoing_ack[c][p] = 0
       /\ outgoing_sequence[c] - LocalAck(c) <= NetQueue
  /\ HistoryPreserved

\* Nobody alters or invents input: a Turn in flight carries what its sender did
\* in that turn, a NotifyTurn what one of the clients did in that frame, and
\* acknowledges that turn.
WireFaithful ==
  \A c \in Client :
    /\ \A k \in DOMAIN toServer[c] :
         LET m == toServer[c][k]
         IN  m.kind = "turn" => /\ m.event = InputOf(c, m.sequence)
                                /\ m.sequence < outgoing_sequence[c]
    /\ \A k \in DOMAIN toClient[c] :
         LET m == toClient[c][k]
         IN  m.sent_as = "turn" =>
               \E d \in Client : /\ m.event = InputOf(d, m.first)
                                 /\ m.first < outgoing_sequence[d]
                                 /\ m.third = m.first

\* The server's table through accepting, greeting, dropping and restarting: a
\* peer has one slot, the players of a game have different ids, below their
\* number, and a game starts as soon as its last player is there.
TableOK ==
  /\ \A i, j \in Player :
       i # j /\ player[i].peer = player[j].peer => player[i].peer = NoPeer
  /\ \A i, j \in Player :
       i # j /\ player[i].game_id = player[j].game_id /\ player[i].game_id # 0
         => player[i].player_id # player[j].player_id
  /\ \A i \in Player :
       /\ player[i].game_id < next_game_id
       /\ player[i].game_id # 0 => player[i].player_id < player[i].num_players
  /\ \A n \in {NumPlayers[c] : c \in Client} \ {0} :
       Cardinality(Waiting(player, n)) < n

-----------------------------------------------------------------------------
(* Safety, when the NotifyStart of a client is the first datagram it gets. *)

\* The players of one game run under different player ids ("Unique id for this
\* game", network.cc:34).
UniqueIds ==
  \A c, d \in Client :
    /\ c # d /\ Running(c) /\ Running(d)
    /\ roster[c] # NoGame /\ roster[c] = roster[d]
    => player_id[c] # player_id[d]

\* A turn the server has not accepted is still in the history of its client,
\* beyond its acknowledgement, and so will be re-sent.
HistoryUntilAccepted ==
  \A c \in Client, i \in Player :
    Running(c) /\ IsAt(c, i) /\ player[i].game_id # 0 =>
      /\ LocalAck(c) <= player[i].sequence
      /\ player[i].sequence < outgoing_sequence[c]
      /\ \A s \in player[i].sequence + 1 .. outgoing_sequence[c] - 1 :
           input[c][NETQUEUE_SLOT(s)] = InputOf(c, s)

\* However often and in whatever order the turns of a player reach the server,
\* it echoes each of them once, in order.
EchoInOrder ==
  \A c \in Client :
    \A k \in DOMAIN toClient[c], l \in DOMAIN toClient[c] :
      LET m == toClient[c][k]
          n == toClient[c][l]
      IN  k < l /\ m.sent_as = "turn" /\ n.sent_as = "turn"
            /\ m.second = n.second
            => m.first < n.first

\* What a client's simulation applies as turn n is what every player of its
\* game did in its turn n ("Apply player commands for turn N", space.cc:237).
AppliesTurnN ==
  \A c \in Client :
    \A k \in DOMAIN turns[c] : turns[c][k] = TurnVector(roster[c], k - 1)

\* An input that was received stays until the frame was simulated: no other
\* frame's input takes its place in the slot.
ReceivedIsKept ==
  [][\A c \in Client, k \in Slot, p \in Player :
       player_received[c][k][p] /\ player_received'[c][k][p] =>
         player_input'[c][k][p] = player_input[c][k][p]]_vars

\* With related rates no client exhausts its frame queue.
NoOverrun == \A c \in Client : pc[c] # "exit2"

-----------------------------------------------------------------------------
(* Liveness and refinement. *)

\* Every client simulates every frame the model can still bring it.
Progress ==
  \A c \in Client :
    <>(logic_updates[c] > MaxSeq - MaxLatency - Budget["lose_up"])

\* A client whose server no longer knows it, because it was restarted, does not
\* wait for ever: it ends ("If unacknowledged packets exceed the queue, give
\* up", network.cc:116), unless it is greeted for another game.
InGame(c) == \E i \in Player : IsAt(c, i) /\ player[i].game_id # 0

GivesUp ==
  \A c \in Client :
    (Running(c) /\ ~InGame(c) /\ outgoing_sequence[c] <= MaxSeq + 2 - NetQueue)
      ~> (Ended(c) \/ InGame(c))

\* The clients of a game are replicas in lockstep.
Replicas == INSTANCE Lockstep
              WITH group <- roster, issued <- outgoing_sequence,
                   applied <- turns

ImplementsLockstep == Replicas!Spec
=============================================================================
