----------------------------- MODULE Agreement -----------------------------
(***************************************************************************)
(* Why the clients of a game apply the same turns: the invariant from      *)
(* which AppliesTurnN and UniqueIds follow, and its assumptions.           *)
(***************************************************************************)
EXTENDS Game

\* The faults that can bring a client something before its NotifyStart, or a
\* second NotifyStart; "greet" among them, since a client whose greeting was
\* not sent takes the first empty NotifyTurn for it.
Confusing ==
  {"lose_down", "copy_down", "delay_down", "greet", "tick", "restart"}

\* A network that may do anything to what clients send, but neither loses,
\* repeats nor delays what the server sends, a server that runs without a
\* break, sends every greeting (not every echo) and drops nobody, and rates
\* that suit the frame queue.
FitForLockstep ==
  /\ \A k \in Confusing : Budget[k] = 0
  /\ \A c \in Client : NumPlayers[c] > 0
  /\ MaxLatency + MaxSkew < NetQueue

-----------------------------------------------------------------------------
\* Nobody is ever dropped.
NobodyOverdue ==
  /\ \A k \in Confusing : faults[k] = 0
  /\ \A i \in Player : idle[i] = 0

\* The server's table and the rosters tell the same: who has a game id is in
\* the roster of its game under its player id, who waits has no roster yet, and
\* a game that could start has started.
Seated ==
  /\ \A i \in Player : player[i].peer = NoPeer => player[i] = ZeroPlayer
  /\ \A i, j \in Player :
       player[i].peer = player[j].peer /\ player[i].peer # NoPeer => i = j
  /\ \A i \in Player :
       LET c == player[i].peer
       IN  IF player[i].game_id # 0
             THEN /\ player[i].player_id \in DOMAIN roster[c]
                  /\ roster[c][player[i].player_id] = c
             ELSE c \in Client => roster[c] = NoGame
  /\ \A i \in Player :
       player[i].peer \in Client => player[i].num_players > 0
  /\ \A i, j \in Player :
       player[i].game_id # 0 /\ player[i].game_id = player[j].game_id
         => roster[player[i].peer] = roster[player[j].peer]
  /\ \A i \in Player : player[i].game_id < next_game_id
  /\ \A n \in 1 .. MaxPlayer : Cardinality(Waiting(player, n)) < n

\* Who asks for a game asks for at least one player.
Requests ==
  \A c \in Client : \A k \in DOMAIN toServer[c] :
    toServer[c][k].kind = "handshake" => toServer[c][k].num_players > 0

\* A client that was greeted has a seat, and shares its roster with the rest.
Greeted(c) ==
  /\ roster[c] # NoGame =>
       \E i \in Player : IsAt(c, i) /\ player[i].game_id # 0
  /\ \A p \in DOMAIN roster[c] :
       roster[c][p] \in Client /\ roster[roster[c][p]] = roster[c]

Unintroduced(c) == pc[c] \in {"handshake", "nogame"}

\* A client that has not been told its id is as it started.
Fresh(c) ==
  Unintroduced(c) =>
    /\ outgoing_sequence[c] = 1
    /\ logic_updates[c] = 0
    /\ turns[c] = <<>>
    /\ player_input[c] = [k \in Slot |-> [p \in Player |-> NoEvents]]
    /\ player_received[c] = [k \in Slot |-> [p \in Player |-> k = 0]]

StartFor(c, m) ==
  /\ m.event = NoEvents
  /\ m.second \in DOMAIN roster[c] /\ roster[c][m.second] = c
  /\ \A p \in DOMAIN roster[c] : p < m.third

TurnFor(c, m) ==
  /\ m.second \in DOMAIN roster[c]
  /\ m.event = InputOf(roster[c][m.second], m.first)
  /\ m.first < outgoing_sequence[roster[c][m.second]]

\* The NotifyStart is the first datagram to a client, and the client starts
\* with it; whatever follows is a turn of a player of its game.
Mail(c) ==
  /\ roster[c] = NoGame => toClient[c] = <<>> /\ Unintroduced(c)
  /\ roster[c] # NoGame /\ pc[c] = "handshake" => toClient[c] # <<>>
  /\ \A k \in DOMAIN toClient[c] :
       IF pc[c] = "handshake" /\ k = 1
         THEN StartFor(c, toClient[c][k])
         ELSE pc[c] # "nogame" => TurnFor(c, toClient[c][k])

\* A client that was introduced knows its id and the number of players.
Introduced(c) ==
  ~Unintroduced(c) =>
    /\ player_id[c] \in DOMAIN roster[c] /\ roster[c][player_id[c]] = c
    /\ \A p \in DOMAIN roster[c] : p < player_count[c]

\* A received input is that of the one frame, of those the queue has room for,
\* that its slot stands for; there is no other input than that of the players.
Frames(c) ==
  \A k \in Slot, p \in Player :
    IF p \in DOMAIN roster[c]
      THEN player_received[c][k][p] =>
             \E f \in logic_updates[c] .. logic_updates[c] + NetQueue - 1 :
               /\ NETQUEUE_SLOT(f) = k
               /\ player_input[c][k][p] = InputOf(roster[c][p], f)
      ELSE player_input[c][k][p] = NoEvents

\* What the pace guards keep.
Pace(c) ==
  ~Ended(c) =>
    /\ \A p \in DOMAIN roster[c] :
         outgoing_sequence[roster[c][p]] <= outgoing_sequence[c] + MaxSkew
    /\ outgoing_sequence[c] - logic_updates[c]
         <= IF pc[c] = "ingress" THEN MaxLatency + 1 ELSE MaxLatency

\* What client c has simulated.
Applied(c) ==
  /\ logic_updates[c] = Len(turns[c])
  /\ \A k \in DOMAIN turns[c] : turns[c][k] = TurnVector(roster[c], k - 1)

AgreementInv ==
  /\ NobodyOverdue
  /\ Seated
  /\ Requests
  /\ \A c \in Client :
       Greeted(c) /\ Fresh(c) /\ Mail(c) /\ Introduced(c) /\ Frames(c)
         /\ Pace(c) /\ Applied(c)
=============================================================================
