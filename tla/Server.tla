------------------------------- MODULE Server -------------------------------
(***************************************************************************)
(* The relay server, server_main of src/src/network/server.cc: one thread  *)
(* that, in each iteration of its loop, takes one datagram or, when there  *)
(* is none, drops the players that were silent for too long.               *)
(*                                                                         *)
(* Time.  `idle[i]' is realtime_usec - player[i].last_active in ticks,     *)
(* where TIMEOUT_USEC is Timeout ticks, and stops counting at Timeout + 1. *)
(* An empty slot has last_active = 0, so it counts from the server's       *)
(* start; a slot is only ever dropped later than Timeout.                  *)
(***************************************************************************)
EXTENDS Network, FiniteSets

CONSTANT Timeout  \* TIMEOUT_USEC, in ticks of the server's clock

ASSUME TimeoutAssumption == Timeout \in Nat

VARIABLES
  player,        \* the server's table, one PlayerState per slot
  idle,          \* idle[i]: ticks since player[i].last_active
  next_game_id,
  roster         \* history: roster[c] maps the player ids of c's last game
                 \* to the peers that were given them

server == <<player, idle, next_game_id, roster>>

ZeroPlayer ==
  [peer |-> NoPeer, num_players |-> 0, game_id |-> 0, sequence |-> 0,
   player_id |-> 0]

PlayerState ==
  [peer : Client \cup {NoPeer}, num_players : Nat, game_id : Nat,
   sequence : Nat, player_id : Player]

ServerTypeOK ==
  /\ player \in [Player -> PlayerState]
  /\ idle \in [Player -> 0 .. Timeout + 1]
  /\ next_game_id \in Nat \ {0}
  /\ roster \in [Client -> UNION {[ids -> Client \cup {NoPeer}] :
                                    ids \in SUBSET Player}]

\* No player ids at all.
NoGame == <<>>

ServerInit ==
  /\ player = [i \in Player |-> ZeroPlayer]
  /\ idle = [i \in Player |-> 0]
  /\ next_game_id = 1
  /\ roster = [c \in Client |-> NoGame]

-----------------------------------------------------------------------------
Received(c) ==
  /\ toServer[c] # <<>>
  /\ toServer' = [toServer EXCEPT ![c] = Tail(@)]

\* GetPlayerIndexFromPeer finds peer c in slot i.
IsAt(c, i) == player[i].peer = c

\* (Bug: a repeated handshake is accepted again.)
NeverKnown(c) == FALSE

Known(c) == \E i \in Player : IsAt(c, i)

\* GetNextPlayerIndex: the slots that compare equal to zero_player.
Free == {i \in Player : player[i] = ZeroPlayer}

First(S) == CHOOSE i \in S : \A j \in S : i <= j

\* The slots waiting for a game of n players, and the player id of each.
Waiting(table, n) ==
  {i \in Player : table[i].game_id = 0 /\ table[i].num_players = n}

\* (Bug: the id is assigned before it is counted up, and counted once.)
SameId(waiting, i) == 0

\* (Bug: the ids count from 1.)
IdFromOne(waiting, i) == Cardinality({j \in waiting : j <= i})

NewId(waiting, i) == Cardinality({j \in waiting : j < i})

Accepted(c, n, i) ==
  [player EXCEPT ![i] = [peer |-> c, num_players |-> n, game_id |-> 0,
                         sequence |-> 0, player_id |-> @.player_id]]

\* The slots whose greeting SendTo fails to send ("greet failed").
GreetingsFail(missed) ==
  IF missed = {} THEN UNCHANGED faults ELSE Spend("greet")

\* Start a game for the slots in `waiting': every one is given its id, and sent
\* its NotifyStart unless SendTo fails, which changes nothing else.
Greet(table, waiting, n) ==
  LET member(d) == \E i \in waiting : table[i].peer = d
      slotOf(d) == CHOOSE i \in waiting : table[i].peer = d
      withId(id) == CHOOSE i \in waiting : NewId(waiting, i) = id
      group == [id \in {NewId(waiting, i) : i \in waiting} |->
                  table[withId(id)].peer]
  IN  /\ player' = [i \in Player |->
                      IF i \in waiting
                        THEN [table[i] EXCEPT !.game_id = next_game_id,
                                              !.player_id = NewId(waiting, i)]
                        ELSE table[i]]
      /\ \E missed \in SUBSET waiting :
           /\ GreetingsFail(missed)
           /\ toClient' =
                [d \in Client |->
                   IF member(d) /\ slotOf(d) \notin missed
                     THEN Append(toClient[d],
                                 NotifyStart(next_game_id,
                                             NewId(waiting, slotOf(d)), n))
                     ELSE toClient[d]]
      /\ roster' = [d \in Client |-> IF member(d) THEN group ELSE roster[d]]
      /\ next_game_id' = next_game_id + 1

\* A Handshake without a free slot, or from a known peer, is ignored: it does
\* not even mark the player active.
HandleHandshake(c) ==
  /\ Received(c)
  /\ Head(toServer[c]).kind = "handshake"
  /\ IF Free = {} \/ Known(c)
       THEN UNCHANGED <<toClient, faults, server>>
       ELSE LET n == Head(toServer[c]).num_players
                i == First(Free)
                table == Accepted(c, n, i)
                waiting == Waiting(table, n)
            IN  /\ idle' = [idle EXCEPT ![i] = 0]
                /\ IF Cardinality(waiting) >= n
                     THEN Greet(table, waiting, n)
                     ELSE /\ player' = table
                          /\ UNCHANGED <<toClient, faults, next_game_id,
                                         roster>>

\* The participants of game g that are sent the echo when SendTo first fails
\* for slot `stop': the loop breaks, so the later slots get nothing.
Echoed(g, stop) ==
  {player[i].peer : i \in {j \in Player : player[j].game_id = g /\ j < stop}}

Echo(i, sequence, event, stop) ==
  toClient' = [d \in Client |->
                 IF d \in Echoed(player[i].game_id, stop)
                   THEN Append(toClient[d],
                               NotifyTurn(sequence, player[i].player_id,
                                          sequence, event))
                   ELSE toClient[d]]

\* The slot for which SendTo fails, or MaxPlayer when it never does.
SendToFailsAt(i, stop) ==
  \/ stop = MaxPlayer /\ UNCHANGED faults
  \/ /\ stop \in Player
     /\ player[stop].game_id = player[i].game_id
     /\ Spend("send")

\* (Bug: the turn that was just accepted is accepted again.)
IsNextOrSame(i, turn) ==
  /\ player[i].game_id # 0
  /\ turn.sequence \in {player[i].sequence, player[i].sequence + 1}

IsNext(i, turn) ==
  /\ player[i].game_id # 0
  /\ turn.sequence = player[i].sequence + 1

\* A Turn from an unknown peer is ignored, one from a waiting player only marks
\* it active, and one that is not the player's next turn is not echoed.
HandleTurn(c) ==
  /\ Received(c)
  /\ Head(toServer[c]).kind = "turn"
  /\ UNCHANGED <<next_game_id, roster>>
  /\ \/ /\ ~Known(c)
        /\ UNCHANGED <<toClient, faults, player, idle>>
     \/ \E i \in Player :
          LET turn == Head(toServer[c])
          IN  /\ IsAt(c, i)
              /\ idle' = [idle EXCEPT ![i] = 0]
              /\ IF IsNext(i, turn)
                   THEN /\ player' = [player EXCEPT ![i].sequence =
                                                      turn.sequence]
                        /\ \E stop \in 0 .. MaxPlayer :
                             /\ SendToFailsAt(i, stop)
                             /\ Echo(i, turn.sequence, turn.event, stop)
                   ELSE UNCHANGED <<toClient, faults, player>>

\* realtime_usec advances, in an iteration that does nothing else: this also
\* covers every iteration that advances it and then handles a datagram.
ClockTick ==
  /\ Spend("tick")
  /\ idle' = [i \in Player |->
                IF idle[i] <= Timeout THEN idle[i] + 1 ELSE idle[i]]
  /\ UNCHANGED <<toServer, toClient, player, next_game_id, roster>>

\* drop_inactive_players, when ReceiveAny has nothing to return.  The dropped
\* slot becomes PlayerState{}: last_active = 0 is older than Timeout as well.
Overdue == {i \in Player : player[i] # ZeroPlayer /\ idle[i] > Timeout}

DropInactive ==
  /\ Overdue # {}
  /\ player' = [i \in Player |-> IF i \in Overdue THEN ZeroPlayer
                                                  ELSE player[i]]
  /\ UNCHANGED <<network, idle, next_game_id, roster>>

\* The server process ends and is started again (daily.sh): its globals and
\* what its socket had received are lost.
Restart ==
  /\ Spend("restart")
  /\ player' = [i \in Player |-> ZeroPlayer]
  /\ idle' = [i \in Player |-> 0]
  /\ next_game_id' = 1
  /\ toServer' = [c \in Client |-> <<>>]
  /\ UNCHANGED <<toClient, roster>>

ServerNext ==
  \/ \E c \in Client : HandleHandshake(c) \/ HandleTurn(c)
  \/ ClockTick \/ DropInactive \/ Restart
=============================================================================
