------------------------------ MODULE Protocol ------------------------------
(***************************************************************************)
(* The datagrams of src/src/network/protocol.cc and the players that       *)
(* exchange them.                                                          *)
(*                                                                         *)
(* A player's input is abstracted to its identity: the events the window   *)
(* of client c delivered in the client's s-th loop iteration are named     *)
(* <<c, s>>, and NoEvents when there were none.  What the properties must   *)
(* tell apart is whose input it is, for which turn, and whether it is      *)
(* empty, because an empty NotifyTurn has the size of a NotifyStart.       *)
(***************************************************************************)
EXTENDS Integers

CONSTANTS
  Client,      \* client processes, each behind one UDP peer address
  NoPeer,      \* the all-zero peer address of an empty server slot
  MaxPlayer,   \* MAX_PLAYER: slots of the server, players of a game
  NumPlayers,  \* NumPlayers[c]: the num_players client c was started with
  Quiet        \* the <<c, s>> in which the window of c delivers no event

ASSUME NoPeerAssumption == NoPeer \notin Client
ASSUME MaxPlayerAssumption == MaxPlayer \in Nat \ {0}
ASSUME NumPlayersAssumption == NumPlayers \in [Client -> Nat]

Player == 0 .. MaxPlayer - 1

-----------------------------------------------------------------------------
(* Inputs *)

NoEvents == <<>>

Input == {NoEvents} \cup (Client \X (Nat \ {0}))

\* The input client c makes for turn s.  No player acts on frame 0.
InputOf(c, s) == IF s = 0 \/ <<c, s>> \in Quiet THEN NoEvents ELSE <<c, s>>

\* Turn n of a game, where `group' maps the player ids of the game to its peers.
TurnVector(group, n) ==
  [p \in Player |-> IF p \in DOMAIN group THEN InputOf(group[p], n)
                                          ELSE NoEvents]

-----------------------------------------------------------------------------
(* Datagrams to the server.  The greeting tells a Handshake from a Turn.  *)
(* Turn.player_id is left out: the server never reads it.                  *)

Handshake(n) == [kind |-> "handshake", num_players |-> n]

Turn(s, e) == [kind |-> "turn", sequence |-> s, event |-> e]

ToServer == [kind : {"handshake"}, num_players : Nat]
              \cup [kind : {"turn"}, sequence : Nat \ {0}, event : Input]

(* Datagrams to a client.  They carry no tag: both structures are three    *)
(* 64-bit words, a NotifyTurn is followed by its events, and a client      *)
(* reads whatever arrives as the structure it expects.  `sent_as' is what  *)
(* the server meant; no action of the client reads it.                     *)

NotifyStart(game_id, player_id, player_count) ==
  [sent_as |-> "start", first |-> game_id, second |-> player_id,
   third |-> player_count, event |-> NoEvents]

NotifyTurn(frame, player_id, ack_sequence, event) ==
  [sent_as |-> "turn", first |-> frame, second |-> player_id,
   third |-> ack_sequence, event |-> event]

\* bytes_received == sizeof(NotifyStart)
HasSizeOfNotifyStart(m) == m.event = NoEvents

ToClient == [sent_as : {"start", "turn"}, first : Nat, second : Player,
             third : Nat, event : Input]
=============================================================================
