--------------------------- MODULE LockstepProofs ---------------------------
(***************************************************************************)
(* In a game that is fit for lockstep the clients have different ids and   *)
(* apply as turn n what every player did in turn n: the steps of the       *)
(* clients, those of the medium and of the server, and the theorems.       *)
(***************************************************************************)
EXTENDS Agreement, GameProofs

Inv == TypeOK /\ HistoryInv /\ OnlyFaithful /\ AgreementInv

-----------------------------------------------------------------------------
(* Facts about rosters. *)

LEMMA NoGameIsEmpty == DOMAIN NoGame = {}
BY DEF NoGame

LEMMA RosterType ==
  ASSUME ServerTypeOK, NEW c \in Client
  PROVE  /\ DOMAIN roster[c] \subseteq Player
         /\ roster[c] = [p \in DOMAIN roster[c] |-> roster[c][p]]
<1>1. roster[c] \in UNION {[ids -> Client \cup {NoPeer}] : ids \in SUBSET Player}
  BY DEF ServerTypeOK
<1> QED
  BY <1>1

\* Whoever was greeted is in its own roster.
LEMMA InOwnRoster ==
  ASSUME Seated, NEW c \in Client, Greeted(c), roster[c] # NoGame
  PROVE  \E q \in DOMAIN roster[c] : roster[c][q] = c
<1>1. PICK i \in Player : player[i].peer = c /\ player[i].game_id # 0
  BY DEF Greeted, IsAt
<1> QED
  BY <1>1 DEF Seated

-----------------------------------------------------------------------------
(* The steps of a client. *)

LEMMA ClientFrame ==
  ASSUME TypeOK, NEW c \in Client, ClientStep(c) \/ ClientFault(c)
  PROVE  /\ \A d \in Client : outgoing_sequence[d] <= outgoing_sequence'[d]
         /\ \A d \in Client : d # c => /\ toClient'[d] = toClient[d]
                                       /\ toServer'[d] = toServer[d]
         /\ \A k \in Confusing : faults'[k] = faults[k]
<1> USE DEF TypeOK, NetworkTypeOK
<1>1. outgoing_sequence \in [Client -> Nat \ {0}]
  BY DEF ClientTypeOK
<1>2. \/ UNCHANGED outgoing_sequence
      \/ outgoing_sequence' =
           [outgoing_sequence EXCEPT ![c] = outgoing_sequence[c] + 1]
  BY DEF ClientStep, ClientFault, SendHandshake, ReceiveStart, GiveUp, Exit2,
         Tick, SendFails, Close, Ingress, Simulate, Stall, MakeTurn, egress
<1>3. \A d \in Client : outgoing_sequence[d] <= outgoing_sequence'[d]
  <2>1. CASE UNCHANGED outgoing_sequence
    BY <1>1, <2>1
  <2>2. CASE outgoing_sequence' =
               [outgoing_sequence EXCEPT ![c] = outgoing_sequence[c] + 1]
    BY <1>1, <2>2
  <2> QED
    BY <1>2, <2>1, <2>2
<1>4. \/ UNCHANGED toClient
      \/ toClient' = [toClient EXCEPT ![c] = Tail(@)]
  BY DEF ClientStep, ClientFault, SendHandshake, ReceiveStart, GiveUp, Exit2,
         Tick, SendFails, Close, Ingress, Simulate, Stall, Receives, network
<1>5. \/ UNCHANGED toServer
      \/ \E q : toServer' = [toServer EXCEPT ![c] = q]
  BY DEF ClientStep, ClientFault, SendHandshake, ReceiveStart, GiveUp, Exit2,
         Tick, SendFails, Close, Ingress, Simulate, Stall, Receives, network,
         Sends
<1>6. \/ UNCHANGED faults
      \/ Spend("quit") \/ Spend("giveup")
  BY DEF ClientStep, ClientFault, SendHandshake, ReceiveStart, GiveUp, Exit2,
         Tick, SendFails, Close, Ingress, Simulate, Stall, Receives, network
<1>7. \A k \in Confusing : faults'[k] = faults[k]
  BY <1>6 DEF Spend, Confusing, Fault
<1>8. \A d \in Client : d # c => /\ toClient'[d] = toClient[d]
                                 /\ toServer'[d] = toServer[d]
  BY <1>4, <1>5
<1> QED
  BY <1>3, <1>7, <1>8

\* Later turns of its mates, or of its own, do not spoil a client's mail.
LEMMA MailGrows ==
  ASSUME Inv, TypeOK', NEW d \in Client, UNCHANGED roster,
         Greeted(d), Mail(d),
         \A e \in Client : outgoing_sequence[e] <= outgoing_sequence'[e],
         toClient'[d] = toClient[d],
         pc'[d] = pc[d] \/ (~Unintroduced(d) /\ ~Unintroduced(d)')
  PROVE  Mail(d)'
<1>0. /\ pc'[d] = "handshake" <=> pc[d] = "handshake"
      /\ pc'[d] = "nogame" <=> pc[d] = "nogame"
  BY DEF Unintroduced
<1>1. /\ roster'[d] = NoGame => toClient'[d] = <<>> /\ Unintroduced(d)'
      /\ roster'[d] # NoGame /\ pc'[d] = "handshake" => toClient'[d] # <<>>
  BY <1>0 DEF Mail, Unintroduced
<1>2. ASSUME NEW k \in DOMAIN toClient'[d]
      PROVE  IF pc'[d] = "handshake" /\ k = 1
               THEN StartFor(d, toClient[d][k])'
               ELSE pc'[d] # "nogame" => TurnFor(d, toClient[d][k])'
  <2>1. CASE pc'[d] = "handshake" /\ k = 1
    BY <1>0, <1>2, <2>1 DEF Mail, StartFor
  <2>2. CASE ~(pc'[d] = "handshake" /\ k = 1) /\ pc'[d] # "nogame"
    <3>1. TurnFor(d, toClient[d][k]) /\ toClient[d][k] \in ToClient
      BY <1>0, <1>2, <2>2 DEF Mail, Inv, TypeOK, NetworkTypeOK
    <3>2. roster[d][toClient[d][k].second] \in Client
      BY <3>1 DEF TurnFor, Greeted
    <3>3. toClient[d][k].first \in Nat
      BY <3>1 DEF ToClient
    <3>4. \A e \in Client : /\ outgoing_sequence[e] \in Nat
                            /\ outgoing_sequence'[e] \in Nat
      BY DEF Inv, TypeOK, ClientTypeOK
    <3> QED
      BY <2>2, <3>1, <3>2, <3>3, <3>4 DEF TurnFor
  <2> QED
    BY <2>1, <2>2
<1> QED
  BY <1>1, <1>2 DEF Mail

\* Client d when client c takes a step: a tick of c is held back by d.
LEMMA OtherAgrees ==
  ASSUME Inv, TypeOK', NEW c \in Client, ClientStep(c) \/ ClientFault(c),
         UNCHANGED server, NEW d \in Client, d # c
  PROVE  /\ Greeted(d)' /\ Fresh(d)' /\ Mail(d)' /\ Introduced(d)'
         /\ Frames(d)' /\ Pace(d)' /\ Applied(d)'
<1>1. /\ Greeted(d) /\ Fresh(d) /\ Mail(d) /\ Introduced(d)
      /\ Frames(d) /\ Pace(d) /\ Applied(d) /\ Seated
  BY DEF Inv, AgreementInv
<1>2. /\ UNCHANGED <<outgoing_sequence[d], outgoing_ack[d], player_id[d],
                     input[d], pc[d], player_count[d]>>
      /\ UNCHANGED <<player_input[d], player_received[d], turns[d],
                     logic_updates[d]>>
  BY OtherClients DEF Inv
<1>3. UNCHANGED <<player, roster>>
  BY DEF server
<1>4. Greeted(d)'
  BY <1>1, <1>3 DEF Greeted, IsAt
<1>5. Fresh(d)'
  BY <1>1, <1>2 DEF Fresh, Unintroduced
<1>6. Mail(d)'
  BY <1>1, <1>2, <1>3, ClientFrame, MailGrows DEF Inv
<1>7. Introduced(d)'
  BY <1>1, <1>2, <1>3 DEF Introduced, Unintroduced
<1>8. Frames(d)'
  BY <1>1, <1>2, <1>3 DEF Frames
<1>9. Applied(d)'
  BY <1>1, <1>2, <1>3 DEF Applied
<1>10. Pace(d)'
  <2>1. SUFFICES ASSUME ~Ended(d), NEW p \in DOMAIN roster[d]
                 PROVE  outgoing_sequence'[roster[d][p]]
                          <= outgoing_sequence[d] + MaxSkew
    BY <1>1, <1>2, <1>3 DEF Pace, Ended
  <2>2. /\ roster[d][p] \in Client /\ roster[roster[d][p]] = roster[d]
        /\ outgoing_sequence[roster[d][p]] <= outgoing_sequence[d] + MaxSkew
    BY <1>1, <2>1 DEF Greeted, Pace
  <2>3. CASE roster[d][p] # c
    BY <2>2, <2>3, OtherClients DEF Inv
  <2>4. CASE roster[d][p] = c
    <3>1. \/ outgoing_sequence'[c] = outgoing_sequence[c]
          \/ MakeTurn(c) /\ Abreast(c)
      BY DEF ClientStep, ClientFault, SendHandshake, ReceiveStart, GiveUp, Exit2,
             Tick, SendFails, Close, Ingress, Simulate, Stall, egress
    <3>2. CASE MakeTurn(c) /\ Abreast(c)
      <4>1. \E q \in DOMAIN roster[c] : roster[c][q] = d
        <5>1. roster[d] # NoGame
          BY NoGameIsEmpty
        <5> QED
          BY <1>1, <2>2, <2>4, <5>1, InOwnRoster
      <4>2. d \in Mates(c)
        BY <2>1, <4>1 DEF Mates
      <4>3. outgoing_sequence[c] - outgoing_sequence[d] < MaxSkew
        BY <3>2, <4>2 DEF Abreast
      <4>4. outgoing_sequence'[c] = outgoing_sequence[c] + 1
        BY <3>2 DEF MakeTurn, Inv, TypeOK, ClientTypeOK
      <4>5. outgoing_sequence[c] \in Nat /\ outgoing_sequence[d] \in Nat
            /\ MaxSkew \in Nat
        BY PaceAssumption DEF Inv, TypeOK, ClientTypeOK
      <4> QED
        BY <2>4, <4>3, <4>4, <4>5
    <3>3. CASE outgoing_sequence'[c] = outgoing_sequence[c]
      BY <2>2, <2>4, <3>3
    <3> QED
      BY <3>1, <3>2, <3>3
  <2> QED
    BY <2>3, <2>4
<1> QED
  BY <1>4, <1>5, <1>6, <1>7, <1>8, <1>9, <1>10

\* A step in which client c only moves on: it ends, or starts an iteration.
LEMMA OnlyMoves ==
  ASSUME Inv, NEW c \in Client, UNCHANGED <<roster, player, outgoing_sequence>>,
         UNCHANGED <<player_id[c], player_count[c], player_input[c],
                     player_received[c], logic_updates[c], turns[c],
                     toClient[c]>>,
         \/ pc'[c] = pc[c]
         \/ ~Unintroduced(c) /\ pc'[c] \in {"exit1", "exit2", "closed"}
         \/ pc[c] = "ingress" /\ pc'[c] = "input" /\ Timely(c)
  PROVE  /\ Greeted(c)' /\ Fresh(c)' /\ Mail(c)' /\ Introduced(c)'
         /\ Frames(c)' /\ Pace(c)' /\ Applied(c)'
<1>1. /\ Greeted(c) /\ Fresh(c) /\ Mail(c) /\ Introduced(c)
      /\ Frames(c) /\ Pace(c) /\ Applied(c)
  BY DEF Inv, AgreementInv
<1>2. Unintroduced(c)' <=> Unintroduced(c)
  BY DEF Unintroduced
<1>3. Greeted(c)' /\ Fresh(c)' /\ Introduced(c)' /\ Frames(c)' /\ Applied(c)'
  BY <1>1, <1>2 DEF Greeted, IsAt, Fresh, Introduced, Frames, Applied
<1>4. Mail(c)'
  BY <1>1, <1>2 DEF Mail, Unintroduced, StartFor, TurnFor
<1>5. Pace(c)'
  BY <1>1 DEF Pace, Ended, Timely
<1> QED
  BY <1>3, <1>4, <1>5

\* A client gives up before it was introduced.
LEMMA GiveUpAgrees ==
  ASSUME Inv, NEW c \in Client, GiveUp(c), UNCHANGED server
  PROVE  /\ Greeted(c)' /\ Fresh(c)' /\ Mail(c)' /\ Introduced(c)'
         /\ Frames(c)' /\ Pace(c)' /\ Applied(c)'
<1>1. /\ Greeted(c) /\ Fresh(c) /\ Mail(c) /\ Introduced(c)
      /\ Frames(c) /\ Pace(c) /\ Applied(c)
  BY DEF Inv, AgreementInv
<1>2. pc[c] = "handshake" /\ pc'[c] = "nogame"
  BY DEF GiveUp, Goto, Inv, TypeOK, ClientTypeOK
<1>3. /\ UNCHANGED <<player, roster, toClient, outgoing_sequence>>
      /\ UNCHANGED <<player_input, player_received, logic_updates, turns>>
  BY DEF GiveUp, server, egress, ingress, game
<1>4. Greeted(c)' /\ Fresh(c)' /\ Introduced(c)' /\ Frames(c)' /\ Applied(c)'
  BY <1>1, <1>2, <1>3
     DEF Greeted, IsAt, Fresh, Introduced, Frames, Applied, Unintroduced
<1>5. Mail(c)' /\ Pace(c)'
  BY <1>1, <1>2, <1>3 DEF Mail, Pace, Ended, Unintroduced
<1> QED
  BY <1>4, <1>5

\* A client makes a turn.
LEMMA MakeTurnAgrees ==
  ASSUME Inv, TypeOK', NEW c \in Client, Tick(c) \/ SendFails(c),
         UNCHANGED server
  PROVE  /\ Greeted(c)' /\ Fresh(c)' /\ Mail(c)' /\ Introduced(c)'
         /\ Frames(c)' /\ Pace(c)' /\ Applied(c)'
<1>1. /\ Greeted(c) /\ Fresh(c) /\ Mail(c) /\ Introduced(c)
      /\ Frames(c) /\ Pace(c) /\ Applied(c)
  BY DEF Inv, AgreementInv
<1>2. pc[c] = "input" /\ pc'[c] \in {"ingress", "exit1"}
  BY DEF Tick, SendFails, Goto, Inv, TypeOK, ClientTypeOK
<1>3. ~Unintroduced(c) /\ ~Unintroduced(c)'
  BY <1>2 DEF Unintroduced
<1>4. /\ UNCHANGED <<player, roster, toClient, player_id, player_count>>
      /\ UNCHANGED <<player_input, player_received, logic_updates, turns>>
  BY DEF Tick, SendFails, server, ingress, identity, game
<1>5. outgoing_sequence' =
        [outgoing_sequence EXCEPT ![c] = outgoing_sequence[c] + 1]
  BY DEF Tick, SendFails, MakeTurn
<1>6. \A d \in Client : /\ outgoing_sequence[d] \in Nat
                        /\ outgoing_sequence'[d] \in Nat
                        /\ outgoing_sequence[d] <= outgoing_sequence'[d]
  <2>1. outgoing_sequence \in [Client -> Nat \ {0}]
    BY DEF Inv, TypeOK, ClientTypeOK
  <2> QED
    BY <1>5, <2>1
<1>7. Greeted(c)' /\ Fresh(c)' /\ Introduced(c)' /\ Frames(c)' /\ Applied(c)'
  BY <1>1, <1>3, <1>4 DEF Greeted, IsAt, Fresh, Introduced, Frames, Applied
<1>8. Mail(c)'
  BY <1>1, <1>3, <1>4, <1>6, MailGrows
<1>9. Pace(c)'
  <2>1. SUFFICES ASSUME pc'[c] = "ingress"
                 PROVE  Pace(c)'
    BY <1>2 DEF Pace, Ended
  <2>2. outgoing_sequence'[c] = outgoing_sequence[c] + 1
    BY <1>5 DEF Inv, TypeOK, ClientTypeOK
  <2>3. logic_updates[c] \in Nat /\ MaxSkew \in Nat /\ MaxLatency \in Nat
    BY PaceAssumption DEF Inv, TypeOK, ClientTypeOK
  <2>4. outgoing_sequence'[c] - logic_updates'[c] <= MaxLatency + 1
    BY <1>1, <1>2, <1>4, <1>6, <2>2, <2>3 DEF Pace, Ended
  <2>5. ASSUME NEW p \in DOMAIN roster[c]
        PROVE  outgoing_sequence'[roster[c][p]]
                 <= outgoing_sequence'[c] + MaxSkew
    <3>1. /\ roster[c][p] \in Client
          /\ outgoing_sequence[roster[c][p]] <= outgoing_sequence[c] + MaxSkew
      BY <1>1, <1>2, <2>5 DEF Pace, Ended, Greeted
    <3>2. CASE roster[c][p] = c
      BY <1>6, <2>3, <3>2
    <3>3. CASE roster[c][p] # c
      <4>1. outgoing_sequence'[roster[c][p]] = outgoing_sequence[roster[c][p]]
        BY <1>5, <3>1, <3>3 DEF Inv, TypeOK, ClientTypeOK
      <4> QED
        BY <1>6, <2>2, <2>3, <3>1, <4>1
    <3> QED
      BY <3>2, <3>3
  <2> QED
    BY <1>4, <2>1, <2>4, <2>5 DEF Pace, Ended
<1> QED
  BY <1>7, <1>8, <1>9

\* A client that takes a datagram leaves the turns behind it.
LEMMA TailOfMail ==
  ASSUME TypeOK, NEW c \in Client, Mail(c), Receives(c)
  PROVE  /\ 1 \in DOMAIN toClient[c] /\ Head(toClient[c]) = toClient[c][1]
         /\ Head(toClient[c]) \in ToClient
         /\ \A k \in DOMAIN toClient'[c] :
              pc[c] # "nogame" => TurnFor(c, toClient'[c][k])
<1>1. toClient[c] \in Seq(ToClient) /\ toClient[c] # <<>>
  BY DEF TypeOK, NetworkTypeOK, Receives
<1>2. toClient'[c] = Tail(toClient[c])
  BY DEF TypeOK, NetworkTypeOK, Receives
<1>3. 1 \in DOMAIN toClient[c] /\ Head(toClient[c]) = toClient[c][1]
      /\ Head(toClient[c]) \in ToClient
  BY <1>1
<1>4. ASSUME NEW k \in DOMAIN toClient'[c], pc[c] # "nogame"
      PROVE  TurnFor(c, toClient'[c][k])
  <2>1. k \in Nat \ {0} /\ k + 1 \in DOMAIN toClient[c]
        /\ toClient'[c][k] = toClient[c][k + 1]
    BY <1>1, <1>2, <1>4
  <2>2. k + 1 # 1
    BY <2>1
  <2> QED
    BY <1>4, <2>1, <2>2 DEF Mail
<1> QED
  BY <1>3, <1>4

\* A client is introduced.
LEMMA ReceiveStartAgrees ==
  ASSUME Inv, NEW c \in Client, ReceiveStart(c), UNCHANGED server
  PROVE  /\ Greeted(c)' /\ Fresh(c)' /\ Mail(c)' /\ Introduced(c)'
         /\ Frames(c)' /\ Pace(c)' /\ Applied(c)'
<1> DEFINE start == Head(toClient[c])
<1>1. /\ Greeted(c) /\ Fresh(c) /\ Mail(c) /\ Introduced(c)
      /\ Frames(c) /\ Pace(c) /\ Applied(c) /\ TypeOK
  BY DEF Inv, AgreementInv
<1>2. pc[c] = "handshake" /\ Receives(c)
  BY DEF ReceiveStart
<1>3. StartFor(c, start)
  BY <1>1, <1>2, TailOfMail DEF Mail
<1>4. HasSizeOfNotifyStart(start)
  BY <1>3 DEF StartFor, HasSizeOfNotifyStart
<1>5. /\ player_id'[c] = start.second /\ player_count'[c] = start.third
      /\ pc'[c] = "input"
  <2> HIDE DEF start
  <2>1. /\ player_id' = [player_id EXCEPT ![c] = start.second]
        /\ player_count' = [player_count EXCEPT ![c] = start.third]
        /\ pc' = [pc EXCEPT ![c] = "input"]
    BY <1>4 DEF ReceiveStart, Goto, start
  <2> QED
    BY <1>1, <2>1 DEF TypeOK, ClientTypeOK
<1>6. /\ UNCHANGED <<player, roster, outgoing_sequence>>
      /\ UNCHANGED <<player_input, player_received, logic_updates, turns>>
  BY DEF ReceiveStart, server, egress, ingress, game
<1>7. Greeted(c)' /\ Fresh(c)' /\ Frames(c)' /\ Applied(c)'
  BY <1>1, <1>5, <1>6
     DEF Greeted, IsAt, Fresh, Frames, Applied, Unintroduced
<1>8. Introduced(c)'
  BY <1>3, <1>5, <1>6 DEF Introduced, StartFor
<1>9. Pace(c)'
  <2>1. outgoing_sequence[c] = 1 /\ logic_updates[c] = 0
    BY <1>1, <1>2 DEF Fresh, Unintroduced
  <2> QED
    BY <1>1, <1>2, <1>5, <1>6, <2>1, PaceAssumption DEF Pace, Ended
<1>10. Mail(c)'
  <2>1. roster[c] # NoGame
    BY <1>3, NoGameIsEmpty DEF StartFor
  <2>2. \A k \in DOMAIN toClient'[c] : TurnFor(c, toClient'[c][k])
    BY <1>1, <1>2, TailOfMail
  <2>3. \A k \in DOMAIN toClient'[c] : TurnFor(c, toClient[c][k])'
    BY <1>6, <2>2 DEF TurnFor
  <2> QED
    BY <1>5, <1>6, <2>1, <2>3 DEF Mail
<1> QED
  BY <1>7, <1>8, <1>9, <1>10

\* One cell of a client's queue is written.
LEMMA CellWritten ==
  ASSUME NEW V, NEW f \in [Client -> [Slot -> [Player -> V]]],
         NEW c \in Client, NEW k \in Slot, NEW p \in Player, NEW v,
         NEW j \in Slot, NEW q \in Player
  PROVE  [f EXCEPT ![c][k][p] = v][c][j][q]
           = IF j = k /\ q = p THEN v ELSE f[c][j][q]
<1>1. [f EXCEPT ![c][k][p] = v][c] = [f[c] EXCEPT ![k][p] = v]
  OBVIOUS
<1>2. f[c] \in [Slot -> [Player -> V]]
  OBVIOUS
<1>3. [f[c] EXCEPT ![k][p] = v][j] =
        IF j = k THEN [f[c][k] EXCEPT ![p] = v] ELSE f[c][j]
  BY <1>2
<1>4. f[c][k] \in [Player -> V]
  BY <1>2
<1>5. [f[c][k] EXCEPT ![p] = v][q] = IF q = p THEN v ELSE f[c][k][q]
  BY <1>4
<1> QED
  BY <1>1, <1>3, <1>5

\* A turn that is not simulated yet is of one of the frames the queue has room
\* for: its player is not that far ahead.
LEMMA TurnInWindow ==
  ASSUME TypeOK, FitForLockstep, NEW c \in Client, Greeted(c), Pace(c),
         pc[c] = "ingress", NEW m \in ToClient, TurnFor(c, m),
         ~(m.first < logic_updates[c])
  PROVE  m.first \in logic_updates[c] .. logic_updates[c] + NetQueue - 1
<1>1. /\ roster[c][m.second] \in Client
      /\ outgoing_sequence[roster[c][m.second]]
           <= outgoing_sequence[c] + MaxSkew
      /\ outgoing_sequence[c] - logic_updates[c] <= MaxLatency + 1
  BY DEF Pace, Ended, TurnFor, Greeted
<1>2. m.first < outgoing_sequence[roster[c][m.second]] /\ m.first \in Nat
  BY DEF TurnFor, ToClient
<1>3. /\ logic_updates[c] \in Nat /\ MaxSkew \in Nat /\ MaxLatency \in Nat
      /\ NetQueue \in Nat /\ MaxLatency + MaxSkew < NetQueue
      /\ outgoing_sequence[c] \in Nat
      /\ outgoing_sequence[roster[c][m.second]] \in Nat
  BY <1>1, PaceAssumption, NetQueueAssumption
     DEF TypeOK, ClientTypeOK, FitForLockstep
<1> QED
  BY <1>1, <1>2, <1>3

\* A client takes a turn of its game: its slot holds an earlier frame's input,
\* which has been simulated.
LEMMA IngressAgrees ==
  ASSUME Inv, FitForLockstep, NEW c \in Client, Ingress(c), UNCHANGED server
  PROVE  /\ Greeted(c)' /\ Fresh(c)' /\ Mail(c)' /\ Introduced(c)'
         /\ Frames(c)' /\ Pace(c)' /\ Applied(c)'
<1> DEFINE m == Head(toClient[c])
           slot == NETQUEUE_SLOT(m.first)
<1>1. /\ Greeted(c) /\ Fresh(c) /\ Mail(c) /\ Introduced(c)
      /\ Frames(c) /\ Pace(c) /\ Applied(c) /\ TypeOK
  BY DEF Inv, AgreementInv
<1>2. pc[c] = "ingress" /\ Receives(c)
  BY DEF Ingress
<1>3. TurnFor(c, m) /\ m \in ToClient
  BY <1>1, <1>2, TailOfMail DEF Mail
<1>4. m.second \in Player /\ m.first \in Nat /\ m.second < MaxPlayer
  <2> HIDE DEF m
  <2> QED
    BY <1>3, MaxPlayerAssumption DEF ToClient, Player
<1>5. /\ UNCHANGED <<player, roster, outgoing_sequence, pc>>
      /\ UNCHANGED <<player_id, player_count, logic_updates, turns>>
      /\ IF m.first < logic_updates[c]
           THEN UNCHANGED ingress
           ELSE /\ player_input' =
                     [player_input EXCEPT ![c][slot][m.second] = m.event]
                /\ player_received' =
                     [player_received EXCEPT ![c][slot][m.second] = TRUE]
  <2>1. /\ UNCHANGED <<egress, identity, game>>
        /\ IF m.first < logic_updates[c]
             THEN UNCHANGED <<pc, ingress>>
             ELSE \/ m.second >= MaxPlayer
                  \/ /\ player_input' =
                          [player_input EXCEPT ![c][slot][m.second] = m.event]
                     /\ player_received' =
                          [player_received EXCEPT ![c][slot][m.second] = TRUE]
                     /\ UNCHANGED pc
    BY DEF Ingress
  <2> HIDE DEF m, slot
  <2>2. ~(m.second >= MaxPlayer)
    BY <1>4, MaxPlayerAssumption DEF Player
  <2> QED
    BY <2>1, <2>2 DEF server, egress, identity, game
<1>6. Greeted(c)' /\ Fresh(c)' /\ Introduced(c)' /\ Pace(c)' /\ Applied(c)'
  BY <1>1, <1>2, <1>5
     DEF Greeted, IsAt, Fresh, Introduced, Pace, Ended, Applied, Unintroduced
<1>7. Mail(c)'
  <2>1. roster[c] # NoGame
    BY <1>3, NoGameIsEmpty DEF TurnFor
  <2>2. \A k \in DOMAIN toClient'[c] : TurnFor(c, toClient'[c][k])
    BY <1>1, <1>2, TailOfMail
  <2>3. \A k \in DOMAIN toClient'[c] : TurnFor(c, toClient[c][k])'
    BY <1>5, <2>2 DEF TurnFor
  <2> QED
    BY <1>2, <1>5, <2>1, <2>3 DEF Mail
<1>8. Frames(c)'
  <2>1. CASE m.first < logic_updates[c]
    BY <1>1, <1>5, <2>1 DEF ingress, Frames
  <2>2. CASE ~(m.first < logic_updates[c])
    <3>2. slot \in Slot
      BY <1>4, SlotType
    <3>3. \A k \in Slot, p \in Player :
            /\ player_input'[c][k][p] =
                 IF k = slot /\ p = m.second THEN m.event
                                             ELSE player_input[c][k][p]
            /\ player_received'[c][k][p] =
                 IF k = slot /\ p = m.second THEN TRUE
                                             ELSE player_received[c][k][p]
      <4>1. /\ player_input \in [Client -> [Slot -> [Player -> Input]]]
            /\ player_received \in [Client -> [Slot -> [Player -> BOOLEAN]]]
        BY <1>1 DEF TypeOK, ClientTypeOK
      <4> HIDE DEF slot, m
      <4>2. /\ player_input' = [player_input EXCEPT ![c][slot][m.second] = m.event]
            /\ player_received' =
                 [player_received EXCEPT ![c][slot][m.second] = TRUE]
        BY <1>5, <2>2
      <4>3. ASSUME NEW k \in Slot, NEW p \in Player
            PROVE  player_input'[c][k][p] =
                     IF k = slot /\ p = m.second THEN m.event
                                                 ELSE player_input[c][k][p]
        BY ONLY <1>4, <3>2, <4>1, <4>2, CellWritten
      <4>4. ASSUME NEW k \in Slot, NEW p \in Player
            PROVE  player_received'[c][k][p] =
                     IF k = slot /\ p = m.second THEN TRUE
                                                 ELSE player_received[c][k][p]
        <5>1. \A v : [player_received EXCEPT ![c][slot][m.second] = v][c][k][p] =
                        IF k = slot /\ p = m.second THEN v
                                                    ELSE player_received[c][k][p]
          BY ONLY <1>4, <3>2, <4>1, CellWritten
        <5> QED
          BY ONLY <4>2, <5>1, Zenon
      <4> QED
        BY <4>3, <4>4
    <3>4. m.first \in logic_updates[c] .. logic_updates[c] + NetQueue - 1
      <4> HIDE DEF m, slot
      <4> QED
        BY <1>1, <1>2, <1>3, <2>2, TurnInWindow
    <3>5. m.second \in DOMAIN roster[c]
          /\ m.event = InputOf(roster[c][m.second], m.first)
      BY <1>3 DEF TurnFor
    <3> SUFFICES ASSUME NEW k \in Slot, NEW p \in Player
                 PROVE  IF p \in DOMAIN roster[c]
                          THEN player_received'[c][k][p] =>
                                 \E f \in logic_updates[c] ..
                                            logic_updates[c] + NetQueue - 1 :
                                   /\ NETQUEUE_SLOT(f) = k
                                   /\ player_input'[c][k][p] =
                                        InputOf(roster[c][p], f)
                          ELSE player_input'[c][k][p] = NoEvents
      BY <1>5 DEF Frames
    <3>6. CASE k = slot /\ p = m.second
      BY <3>3, <3>4, <3>5, <3>6
    <3>7. CASE ~(k = slot /\ p = m.second)
      <4> HIDE DEF slot, m
      <4>1. /\ player_input'[c][k][p] = player_input[c][k][p]
            /\ player_received'[c][k][p] = player_received[c][k][p]
        BY <3>3, <3>7
      <4>2. IF p \in DOMAIN roster[c]
              THEN player_received[c][k][p] =>
                     \E f \in logic_updates[c] ..
                                logic_updates[c] + NetQueue - 1 :
                       /\ NETQUEUE_SLOT(f) = k
                       /\ player_input[c][k][p] = InputOf(roster[c][p], f)
              ELSE player_input[c][k][p] = NoEvents
        BY <1>1 DEF Frames
      <4> QED
        BY <4>1, <4>2
    <3> QED
      BY <3>6, <3>7
  <2> QED
    BY <2>1, <2>2
<1> QED
  BY <1>6, <1>7, <1>8

\* When every input of a frame was received, the slot of the frame holds the
\* turn: no other frame the queue has room for shares it.
LEMMA SlotHoldsTurn ==
  ASSUME TypeOK, NEW c \in Client, Introduced(c), Frames(c), ~Unintroduced(c),
         AllReceived(c)
  PROVE  player_input[c][NETQUEUE_SLOT(logic_updates[c])]
           = TurnVector(roster[c], logic_updates[c])
<1> DEFINE slot == NETQUEUE_SLOT(logic_updates[c])
<1>1. logic_updates[c] \in Nat /\ slot \in Slot
  BY SlotType DEF TypeOK, ClientTypeOK
<1>2. player_input[c][slot] \in [Player -> Input]
  BY <1>1 DEF TypeOK, ClientTypeOK
<1>3. ASSUME NEW p \in Player, p \in DOMAIN roster[c]
      PROVE  player_input[c][slot][p] = InputOf(roster[c][p], logic_updates[c])
  <2>1. player_received[c][slot][p]
    BY <1>3 DEF Introduced, AllReceived
  <2> HIDE DEF slot
  <2>2. PICK f \in logic_updates[c] .. logic_updates[c] + NetQueue - 1 :
               /\ NETQUEUE_SLOT(f) = slot
               /\ player_input[c][slot][p] = InputOf(roster[c][p], f)
    BY <1>1, <1>3, <2>1 DEF Frames
  <2>3. f \in Nat /\ logic_updates[c] <= f /\ f - logic_updates[c] < NetQueue
    BY <1>1, <2>2, NetQueueAssumption
  <2>4. ~(logic_updates[c] < f)
    BY <1>1, <2>2, <2>3, SlotsApart DEF slot
  <2>5. f = logic_updates[c]
    BY <1>1, <2>3, <2>4
  <2> QED
    BY <2>2, <2>5
<1>4. ASSUME NEW p \in Player, p \notin DOMAIN roster[c]
      PROVE  player_input[c][slot][p] = NoEvents
  BY <1>1, <1>4 DEF Frames
<1> HIDE DEF slot
<1>5. \A p \in Player :
        player_input[c][slot][p] = TurnVector(roster[c], logic_updates[c])[p]
  BY <1>3, <1>4 DEF TurnVector
<1>6. TurnVector(roster[c], logic_updates[c])
        = [p \in Player |-> TurnVector(roster[c], logic_updates[c])[p]]
  BY DEF TurnVector
<1>7. player_input[c][slot] = [p \in Player |-> player_input[c][slot][p]]
  BY <1>2
<1> QED
  BY <1>5, <1>6, <1>7 DEF slot

\* A client simulates a frame.
LEMMA SimulateAgrees ==
  ASSUME Inv, NEW c \in Client, Simulate(c), UNCHANGED server
  PROVE  /\ Greeted(c)' /\ Fresh(c)' /\ Mail(c)' /\ Introduced(c)'
         /\ Frames(c)' /\ Pace(c)' /\ Applied(c)'
<1> DEFINE slot == NETQUEUE_SLOT(logic_updates[c])
<1>1. /\ Greeted(c) /\ Fresh(c) /\ Mail(c) /\ Introduced(c)
      /\ Frames(c) /\ Pace(c) /\ Applied(c) /\ TypeOK
  BY DEF Inv, AgreementInv
<1>2. pc[c] = "ingress" /\ pc'[c] = "input" /\ AllReceived(c)
  BY <1>1 DEF Simulate, Goto, TypeOK, ClientTypeOK
<1>3. ~Unintroduced(c) /\ ~Unintroduced(c)'
  BY <1>2 DEF Unintroduced
<1>4. /\ UNCHANGED <<player, roster, toClient, outgoing_sequence>>
      /\ UNCHANGED <<player_id, player_count, player_input>>
      /\ player_received' =
           [player_received EXCEPT ![c][slot] = [p \in Player |-> FALSE]]
      /\ turns' = [turns EXCEPT ![c] = Append(@, player_input[c][slot])]
      /\ logic_updates' = [logic_updates EXCEPT ![c] = @ + 1]
  BY DEF Simulate, server, network, egress, identity
<1>5. logic_updates[c] \in Nat /\ slot \in Slot
      /\ logic_updates'[c] = logic_updates[c] + 1
  <2>1. logic_updates \in [Client -> Nat]
    BY <1>1 DEF TypeOK, ClientTypeOK
  <2> QED
    BY <1>4, <2>1, SlotType
<1>6. Greeted(c)' /\ Fresh(c)' /\ Introduced(c)'
  BY <1>1, <1>3, <1>4 DEF Greeted, IsAt, Fresh, Introduced
<1>7. Mail(c)'
  BY <1>1, <1>2, <1>3, <1>4 DEF Mail, StartFor, TurnFor
<1>8. Pace(c)'
  <2>1. MaxLatency \in Nat /\ outgoing_sequence[c] \in Nat
    BY <1>1, PaceAssumption DEF TypeOK, ClientTypeOK
  <2> HIDE DEF slot
  <2> QED
    BY <1>1, <1>2, <1>4, <1>5, <2>1 DEF Pace, Ended
<1>9. Applied(c)'
  <2>1. player_input[c][slot] = TurnVector(roster[c], logic_updates[c])
    BY <1>1, <1>2, <1>3, SlotHoldsTurn
  <2>2. turns[c] \in Seq([Player -> Input]) /\ logic_updates[c] = Len(turns[c])
    BY <1>1 DEF TypeOK, ClientTypeOK, Applied
  <2>3. turns'[c] = Append(turns[c], player_input[c][slot])
    BY <1>1, <1>4 DEF TypeOK, ClientTypeOK
  <2> HIDE DEF slot
  <2>4. /\ Len(turns'[c]) = Len(turns[c]) + 1
        /\ DOMAIN turns'[c] = 1 .. Len(turns[c]) + 1
        /\ \A k \in 1 .. Len(turns[c]) : turns'[c][k] = turns[c][k]
        /\ turns'[c][Len(turns[c]) + 1] = player_input[c][slot]
    BY <2>2, <2>3
  <2>5. ASSUME NEW k \in DOMAIN turns'[c]
        PROVE  turns'[c][k] = TurnVector(roster[c], k - 1)
    <3>1. CASE k \in 1 .. Len(turns[c])
      BY <1>1, <2>2, <2>4, <3>1 DEF Applied
    <3>2. CASE k = Len(turns[c]) + 1
      <4>1. k - 1 = logic_updates[c]
        BY <1>5, <2>2, <3>2
      <4> QED
        BY <2>1, <2>4, <3>2, <4>1
    <3> QED
      BY <2>2, <2>4, <3>1, <3>2
  <2> QED
    BY <1>4, <1>5, <2>2, <2>4, <2>5 DEF Applied
<1>10. Frames(c)'
  <2>1. player_received \in [Client -> [Slot -> [Player -> BOOLEAN]]]
    BY <1>1 DEF TypeOK, ClientTypeOK
  <2> HIDE DEF slot
  <2>2. player_received'[c] =
          [player_received[c] EXCEPT ![slot] = [p \in Player |-> FALSE]]
    BY <1>4, <2>1
  <2>3. ASSUME NEW k \in Slot, NEW p \in Player, player_received'[c][k][p]
        PROVE  k # slot /\ player_received[c][k][p]
    <3>1. player_received[c] \in [Slot -> [Player -> BOOLEAN]]
      BY <2>1
    <3>2. CASE k = slot
      <4>1. player_received'[c][k] = [q \in Player |-> FALSE]
        BY <1>5, <2>2, <3>1, <3>2
      <4> QED
        BY <2>3, <4>1
    <3>3. CASE k # slot
      <4>1. player_received'[c][k] = player_received[c][k]
        BY <2>2, <3>1, <3>3
      <4> QED
        BY <2>3, <3>3, <4>1
    <3> QED
      BY <3>2, <3>3
  <2>4. ASSUME NEW k \in Slot, NEW p \in DOMAIN roster[c], p \in Player,
               player_received'[c][k][p]
        PROVE  \E f \in logic_updates'[c] .. logic_updates'[c] + NetQueue - 1 :
                 /\ NETQUEUE_SLOT(f) = k
                 /\ player_input'[c][k][p] = InputOf(roster[c][p], f)
    <3>1. k # slot /\ player_received[c][k][p]
      BY <2>3, <2>4
    <3>2. PICK f \in logic_updates[c] .. logic_updates[c] + NetQueue - 1 :
                 /\ NETQUEUE_SLOT(f) = k
                 /\ player_input[c][k][p] = InputOf(roster[c][p], f)
      BY <1>1, <2>4, <3>1 DEF Frames
    <3>3. f # logic_updates[c]
      BY <3>1, <3>2 DEF slot
    <3>4. f \in logic_updates'[c] .. logic_updates'[c] + NetQueue - 1
      BY <1>5, <3>2, <3>3, NetQueueAssumption
    <3> QED
      BY <1>4, <3>2, <3>4
  <2>5. \A k \in Slot, p \in Player :
          p \notin DOMAIN roster[c] => player_input'[c][k][p] = NoEvents
    BY <1>1, <1>4 DEF Frames
  <2> QED
    BY <1>4, <2>4, <2>5 DEF Frames
<1> QED
  BY <1>6, <1>7, <1>8, <1>9, <1>10

\* Client c when it takes a step itself.
LEMMA OwnAgrees ==
  ASSUME Inv, TypeOK', FitForLockstep, NEW c \in Client,
         ClientStep(c) \/ ClientFault(c), UNCHANGED server
  PROVE  /\ Greeted(c)' /\ Fresh(c)' /\ Mail(c)' /\ Introduced(c)'
         /\ Frames(c)' /\ Pace(c)' /\ Applied(c)'
<1> USE DEF Inv, TypeOK, ClientTypeOK
<1>1. CASE SendHandshake(c)
  BY <1>1, OnlyMoves
     DEF SendHandshake, server, identity, ingress, game
<1>2. CASE Exit2(c) \/ Close(c)
  <2>1. ~Unintroduced(c) /\ pc'[c] \in {"exit2", "closed"}
    BY <1>2 DEF Exit2, Close, Goto, Unintroduced
  <2> QED
    BY <1>2, <2>1, OnlyMoves
       DEF Exit2, Close, server, network, egress, identity, ingress, game
<1>3. CASE Timely(c) /\ Stall(c)
  <2>1. pc[c] = "ingress" /\ pc'[c] = "input"
    BY <1>3 DEF Stall, Goto
  <2> QED
    BY <1>3, <2>1, OnlyMoves
       DEF Stall, server, network, egress, identity, ingress, game
<1> QED
  BY <1>1, <1>2, <1>3, ReceiveStartAgrees, IngressAgrees, SimulateAgrees,
     MakeTurnAgrees, GiveUpAgrees DEF ClientStep, ClientFault

-----------------------------------------------------------------------------
(* Who asks for a game asks for at least one player. *)

Request == {m \in ToServer : m.kind = "handshake" => m.num_players > 0}

LEMMA OnlyRequest ==
  ASSUME NEW q \in [Client -> Seq(ToServer)]
  PROVE  (\A c \in Client : \A k \in DOMAIN q[c] :
            q[c][k].kind = "handshake" => q[c][k].num_players > 0)
           <=> \A c \in Client : q[c] \in Seq(Request)
<1>1. ASSUME NEW c \in Client
      PROVE  (\A k \in DOMAIN q[c] :
                q[c][k].kind = "handshake" => q[c][k].num_players > 0)
               <=> q[c] \in Seq(Request)
  <2>1. q[c] \in Seq(Request) <=> \A k \in DOMAIN q[c] : q[c][k] \in Request
    BY DEF Request
  <2>2. \A k \in DOMAIN q[c] : q[c][k] \in ToServer
    OBVIOUS
  <2> QED
    BY <2>1, <2>2 DEF Request
<1> QED
  BY <1>1

LEMMA RequestsAreRequest ==
  ASSUME NetworkTypeOK, NetworkTypeOK'
  PROVE  /\ Requests <=> \A c \in Client : toServer[c] \in Seq(Request)
         /\ Requests' <=> \A c \in Client : toServer'[c] \in Seq(Request)
BY OnlyRequest DEF NetworkTypeOK, Requests

LEMMA TurnIsRequest ==
  ASSUME NEW s \in Nat \ {0}, NEW e \in Input
  PROVE  Turn(s, e) \in Request
BY TurnType DEF Request, Turn

\* A client sends turns, and asks for NumPlayers[c] players.
LEMMA ClientRequests ==
  ASSUME TypeOK, TypeOK', \A d \in Client : NumPlayers[d] > 0, Requests,
         NEW c \in Client, ClientStep(c) \/ ClientFault(c)
  PROVE  Requests'
<1> USE DEF TypeOK
<1>1. \A d \in Client : toServer[d] \in Seq(Request)
  BY RequestsAreRequest
<1>2. SUFFICES \/ UNCHANGED toServer
               \/ \E ds \in Seq(Request) : Sends(c, ds)
  <2>1. ASSUME NEW ds \in Seq(Request), Sends(c, ds)
        PROVE  \A d \in Client : toServer'[d] \in Seq(Request)
    <3>1. toServer[c] \o ds \in Seq(Request)
      BY <1>1
    <3>2. toServer' = [toServer EXCEPT ![c] = toServer[c] \o ds]
      BY <2>1 DEF Sends
    <3> QED
      BY <1>1, <3>1, <3>2 DEF NetworkTypeOK
  <2> QED
    BY <1>1, <1>2, <2>1, RequestsAreRequest
<1>3. CASE SendHandshake(c)
  <2>1. Handshake(NumPlayers[c]) \in Request
    BY HandshakeType, NumPlayersAssumption DEF Request, Handshake
  <2>2. <<Handshake(NumPlayers[c])>> \in Seq(Request)
    BY <2>1
  <2>3. Sends(c, <<Handshake(NumPlayers[c])>>)
    <3>1. toServer[c] \in Seq(ToServer) /\ Handshake(NumPlayers[c]) \in ToServer
      BY HandshakeType, NumPlayersAssumption DEF NetworkTypeOK
    <3>2. Append(toServer[c], Handshake(NumPlayers[c]))
            = toServer[c] \o <<Handshake(NumPlayers[c])>>
      BY <3>1
    <3> QED
      BY <1>3, <3>2 DEF SendHandshake, Sends
  <2> QED
    BY <2>2, <2>3
<1>4. ASSUME MakeTurn(c), UNCHANGED <<outgoing_ack, player_id>>
      PROVE  Unacknowledged(c) \in Seq(Request)
  <2> DEFINE ack == LocalAck(c)
             m == outgoing_sequence'[c] - 1 - ack
  <2>1. ack \in Nat /\ outgoing_sequence[c] \in Nat /\ ack <= outgoing_sequence[c]
        /\ outgoing_sequence'[c] = outgoing_sequence[c] + 1
    <3>1. outgoing_sequence[c] \in Nat /\ ack \in Nat
      BY DEF ClientTypeOK, LocalAck
    <3> QED
      BY <1>4, <3>1 DEF MakeTurn, Overrun, ClientTypeOK
  <2>2. m \in Nat
    BY <2>1
  <2>3. ASSUME NEW k \in 1 .. m
        PROVE  Turn(ack + k, input'[c][NETQUEUE_SLOT(ack + k)]) \in Request
    <3>1. ack + k \in Nat \ {0}
      BY <2>1, <2>2
    <3>2. input'[c][NETQUEUE_SLOT(ack + k)] \in Input
      BY <3>1, SlotType DEF ClientTypeOK
    <3> HIDE DEF ack, m
    <3> QED
      BY <3>1, <3>2, TurnIsRequest
  <2>4. Unacknowledged(c) =
          [k \in 1 .. m |-> Turn(ack + k, input'[c][NETQUEUE_SLOT(ack + k)])]
    BY DEF Unacknowledged
  <2> HIDE DEF m, ack
  <2> QED
    BY <2>2, <2>3, <2>4
<1>5. CASE Tick(c)
  BY <1>4, <1>5 DEF Tick, ingress, identity
<1>6. CASE SendFails(c)
  <2>1. Unacknowledged(c) \in Seq(Request)
    BY <1>4, <1>6 DEF SendFails, ingress, identity
  <2>2. PICK n \in 0 .. Len(Unacknowledged(c)) - 1 :
               Sends(c, SubSeq(Unacknowledged(c), 1, n))
    BY <1>6 DEF SendFails
  <2>3. ASSUME NEW S, NEW q \in Seq(S), NEW n0 \in 0 .. Len(q) - 1
        PROVE  SubSeq(q, 1, n0) \in Seq(S)
    OBVIOUS
  <2> QED
    BY <2>1, <2>2, <2>3
<1> QED
  BY <1>3, <1>5, <1>6
     DEF ClientStep, ClientFault, ReceiveStart, GiveUp, Exit2, Close, Ingress,
         Simulate, Stall, Receives, network

LEMMA ClientAgrees ==
  ASSUME Inv, TypeOK', FitForLockstep, NEW c \in Client,
         ClientStep(c) \/ ClientFault(c), UNCHANGED server
  PROVE  AgreementInv'
<1>1. TypeOK /\ NobodyOverdue /\ Seated /\ Requests
  BY DEF Inv, AgreementInv
<1>2. NobodyOverdue'
  BY <1>1, ClientFrame DEF NobodyOverdue, server
<1>3. Seated'
  BY <1>1 DEF Seated, Waiting, server
<1>4. Requests'
  BY <1>1, ClientRequests DEF FitForLockstep
<1>5. ASSUME NEW d \in Client
      PROVE  /\ Greeted(d)' /\ Fresh(d)' /\ Mail(d)' /\ Introduced(d)'
             /\ Frames(d)' /\ Pace(d)' /\ Applied(d)'
  BY OwnAgrees, OtherAgrees
<1> QED
  BY <1>2, <1>3, <1>4, <1>5 DEF AgreementInv

-----------------------------------------------------------------------------
(* The steps of the medium: it only disturbs what clients send. *)

LEMMA MediumAgrees ==
  ASSUME Inv, TypeOK', NetworkFault, UNCHANGED <<server, client>>
  PROVE  AgreementInv'
<1>1. TypeOK /\ AgreementInv
  BY DEF Inv
<1>2. PICK c \in Client : LoseUp(c) \/ CopyUp(c) \/ DelayUp(c)
  <2>1. \A k \in Confusing : ~Spend(k)
    BY <1>1 DEF AgreementInv, NobodyOverdue, Spend
  <2> QED
    BY <2>1 DEF NetworkFault, LoseDown, CopyDown, DelayDown, FaultDown, Confusing
<1>3. /\ UNCHANGED toClient
      /\ \E q \in Lost(toServer[c]) \cup Copied(toServer[c])
                    \cup Delayed(toServer[c]) :
           toServer' = [toServer EXCEPT ![c] = q]
      /\ Spend("lose_up") \/ Spend("copy_up") \/ Spend("delay_up")
  BY <1>2 DEF LoseUp, CopyUp, DelayUp, FaultUp
<1>4. NobodyOverdue'
  BY <1>1, <1>3
     DEF AgreementInv, NobodyOverdue, Confusing, Spend, server, TypeOK,
         NetworkTypeOK, Fault
<1>5. Requests'
  <2>1. \A d \in Client : toServer[d] \in Seq(Request)
    BY <1>1, RequestsAreRequest DEF AgreementInv, TypeOK
  <2>2. Lost(toServer[c]) \cup Copied(toServer[c]) \cup Delayed(toServer[c])
          \subseteq Seq(Request)
    <3>1. toServer[c] \in Seq(Request)
      BY <2>1
    <3> QED
      BY <3>1, FaultsType
  <2>3. \A d \in Client : toServer'[d] \in Seq(Request)
    BY <1>1, <1>3, <2>1, <2>2 DEF TypeOK, NetworkTypeOK
  <2> QED
    BY <1>1, <2>3, RequestsAreRequest DEF TypeOK
<1>6. Seated'
  BY <1>1 DEF AgreementInv, Seated, Waiting, server
<1>7. ASSUME NEW d \in Client
      PROVE  /\ Greeted(d)' /\ Fresh(d)' /\ Mail(d)' /\ Introduced(d)'
             /\ Frames(d)' /\ Pace(d)' /\ Applied(d)'
  <2>1. /\ Greeted(d) /\ Fresh(d) /\ Mail(d) /\ Introduced(d)
        /\ Frames(d) /\ Pace(d) /\ Applied(d)
    BY <1>1 DEF AgreementInv
  <2>2. /\ UNCHANGED <<player, roster, toClient, pc, outgoing_sequence>>
        /\ UNCHANGED <<player_id, player_count, player_input, player_received>>
        /\ UNCHANGED <<logic_updates, turns>>
    BY <1>3 DEF server, client, egress, ingress, identity, game
  <2>3. Greeted(d)' /\ Fresh(d)' /\ Introduced(d)' /\ Frames(d)'
    BY <2>1, <2>2 DEF Greeted, IsAt, Fresh, Introduced, Frames, Unintroduced
  <2>4. Mail(d)'
    BY <2>1, <2>2 DEF Mail, StartFor, TurnFor, Unintroduced
  <2>5. Pace(d)' /\ Applied(d)'
    BY <2>1, <2>2 DEF Pace, Ended, Applied
  <2> QED
    BY <2>3, <2>4, <2>5
<1> QED
  BY <1>4, <1>5, <1>6, <1>7 DEF AgreementInv

-----------------------------------------------------------------------------
(* The server's table. *)

\* Seated, but for the games that could start, of any table.
SeatedAs(table) ==
  /\ \A i \in Player : table[i].peer = NoPeer => table[i] = ZeroPlayer
  /\ \A i, j \in Player :
       table[i].peer = table[j].peer /\ table[i].peer # NoPeer => i = j
  /\ \A i \in Player :
       LET c == table[i].peer
       IN  IF table[i].game_id # 0
             THEN /\ table[i].player_id \in DOMAIN roster[c]
                  /\ roster[c][table[i].player_id] = c
             ELSE c \in Client => roster[c] = NoGame
  /\ \A i \in Player :
       table[i].peer \in Client => table[i].num_players > 0
  /\ \A i, j \in Player :
       table[i].game_id # 0 /\ table[i].game_id = table[j].game_id
         => roster[table[i].peer] = roster[table[j].peer]
  /\ \A i \in Player : table[i].game_id < next_game_id

LEMMA SeatedParts ==
  Seated <=> /\ SeatedAs(player)
             /\ \A n \in 1 .. MaxPlayer : Cardinality(Waiting(player, n)) < n
BY DEF Seated, SeatedAs

LEMMA SeatedPartsNext ==
  Seated' <=> /\ SeatedAs(player)'
              /\ \A n \in 1 .. MaxPlayer : Cardinality(Waiting(player, n)') < n
BY DEF Seated, SeatedAs

LEMMA WaitingSize ==
  ASSUME NEW table, NEW n
  PROVE  /\ Waiting(table, n) \in SUBSET Player
         /\ IsFiniteSet(Waiting(table, n))
         /\ Cardinality(Waiting(table, n)) \in 0 .. MaxPlayer
<1>1. IsFiniteSet(Player) /\ Cardinality(Player) = MaxPlayer
  <2>1. 0 \in Int /\ MaxPlayer - 1 \in Int
    BY MaxPlayerAssumption
  <2> QED
    BY <2>1, MaxPlayerAssumption, FS_Interval DEF Player
<1>2. Waiting(table, n) \subseteq Player
  BY DEF Waiting
<1>3. /\ IsFiniteSet(Waiting(table, n))
      /\ Cardinality(Waiting(table, n)) <= MaxPlayer
  BY <1>1, <1>2, FS_Subset
<1> QED
  BY <1>2, <1>3, FS_CardinalityType, MaxPlayerAssumption

\* Slots further on in the table get greater ids.
LEMMA NewIdGrows ==
  ASSUME NEW waiting \in SUBSET Player, NEW i \in waiting, NEW j \in waiting,
         i < j
  PROVE  NewId(waiting, i) < NewId(waiting, j)
<1> DEFINE before(k) == {l \in waiting : l < k}
<1>1. IsFiniteSet(waiting) /\ \A k \in waiting : IsFiniteSet(before(k))
  <2>1. IsFiniteSet(waiting)
    BY NewIdType
  <2> QED
    BY <2>1, FS_Subset
<1>2. i \notin before(i)
  BY DEF Player
<1>3. before(i) \cup {i} \subseteq before(j)
  <2>1. \A l \in waiting : l \in Nat
    BY DEF Player
  <2>2. \A l \in waiting : l < i => l < j
    BY <2>1
  <2> QED
    BY <2>2
<1>4. /\ IsFiniteSet(before(i) \cup {i})
      /\ Cardinality(before(i) \cup {i}) = Cardinality(before(i)) + 1
  BY <1>1, <1>2, FS_AddElement
<1>5. Cardinality(before(i) \cup {i}) <= Cardinality(before(j))
  BY <1>1, <1>3, FS_Subset
<1>6. Cardinality(before(i)) \in Nat /\ Cardinality(before(j)) \in Nat
  BY <1>1, FS_CardinalityType
<1> QED
  BY <1>4, <1>5, <1>6 DEF NewId

LEMMA NewIdInjective ==
  ASSUME NEW waiting \in SUBSET Player, NEW i \in waiting, NEW j \in waiting,
         NewId(waiting, i) = NewId(waiting, j)
  PROVE  i = j
<1>1. i \in Nat /\ j \in Nat
  BY DEF Player
<1>2. NewId(waiting, i) \in Nat /\ NewId(waiting, j) \in Nat
  BY NewIdType DEF Player
<1> QED
  BY <1>1, <1>2, NewIdGrows

\* A free slot is given to a peer that has none.
LEMMA AcceptedTable ==
  ASSUME Inv, NEW c \in Client, NEW n \in Nat, n > 0, NEW i \in Player,
         player[i] = ZeroPlayer, ~Known(c),
         NEW table, table = Accepted(c, n, i)
  PROVE  /\ table \in [Player -> PlayerState]
         /\ SeatedAs(table)
         /\ \A j \in Player : j # i => table[j] = player[j]
         /\ table[i].peer = c /\ table[i].game_id = 0
         /\ \A m \in Nat : m > 0 /\ m # n =>
              Waiting(table, m) = Waiting(player, m)
         /\ Waiting(table, n) = Waiting(player, n) \cup {i}
<1>1. TypeOK /\ Seated /\ Greeted(c)
  BY DEF Inv, AgreementInv
<1>2. player \in [Player -> PlayerState] /\ next_game_id \in Nat \ {0}
  BY <1>1 DEF TypeOK, ServerTypeOK
<1>3. table \in [Player -> PlayerState]
  BY <1>1, AcceptedType DEF TypeOK
<1>4. table[i] = [peer |-> c, num_players |-> n, game_id |-> 0,
                  sequence |-> 0, player_id |-> player[i].player_id]
  BY <1>2 DEF Accepted
<1>5. \A j \in Player : j # i => table[j] = player[j]
  BY <1>2 DEF Accepted
<1>6. \A m \in Nat : m > 0 /\ m # n => Waiting(table, m) = Waiting(player, m)
  <2>1. player[i].num_players = 0 /\ table[i].num_players = n
    BY <1>4 DEF ZeroPlayer
  <2> QED
    BY <1>5, <2>1 DEF Waiting
<1>7. Waiting(table, n) = Waiting(player, n) \cup {i}
  <2>1. table[i].game_id = 0 /\ table[i].num_players = n
    BY <1>4
  <2> QED
    BY <1>5, <2>1 DEF Waiting
<1>8. SeatedAs(table)
  <2>1. SeatedAs(player)
    BY <1>1, SeatedParts
  <2>2. roster[c] = NoGame
    BY <1>1 DEF Greeted, Known
  <2>3. \A j \in Player : player[j].peer # c
    BY DEF Known, IsAt
  <2>4. c # NoPeer /\ 0 < next_game_id
    BY <1>2, NoPeerAssumption
  <2>5. /\ table[i].peer = c /\ table[i].num_players = n
        /\ table[i].game_id = 0
    BY <1>4
  <2> QED
    BY <1>5, <2>1, <2>2, <2>3, <2>4, <2>5 DEF SeatedAs
<1> QED
  BY <1>3, <1>4, <1>5, <1>6, <1>7, <1>8

Member(table, waiting, d) == \E i \in waiting : table[i].peer = d

\* What Greet does when SendTo does not fail, where `group' is the new game's
\* roster.
Greets(table, waiting, n, group) ==
  /\ \A i \in waiting :
       /\ table[i].peer \in Client
       /\ NewId(waiting, i) \in DOMAIN group
       /\ group[NewId(waiting, i)] = table[i].peer
       /\ player'[i] = [table[i] EXCEPT !.game_id = next_game_id,
                                        !.player_id = NewId(waiting, i)]
       /\ toClient'[table[i].peer] =
            Append(toClient[table[i].peer],
                   NotifyStart(next_game_id, NewId(waiting, i), n))
  /\ \A i \in Player \ waiting : player'[i] = table[i]
  /\ \A p \in DOMAIN group : \E i \in waiting : p = NewId(waiting, i)
  /\ \A d \in Client :
       IF Member(table, waiting, d)
         THEN roster'[d] = group
         ELSE roster'[d] = roster[d] /\ toClient'[d] = toClient[d]
  /\ next_game_id' = next_game_id + 1

LEMMA GreetGreets ==
  ASSUME NEW table \in [Player -> PlayerState], SeatedAs(table),
         NEW n \in Nat, n > 0, NEW waiting, waiting = Waiting(table, n),
         Greet(table, waiting, n), faults["greet"] = 0
  PROVE  \E group : Greets(table, waiting, n, group)
<1> DEFINE withId(id) == CHOOSE i \in waiting : NewId(waiting, i) = id
           group == [id \in {NewId(waiting, i) : i \in waiting} |->
                       table[withId(id)].peer]
           slotOf(d) == CHOOSE i \in waiting : table[i].peer = d
<1>1. waiting \in SUBSET Player
  BY DEF Waiting
<1>2. ASSUME NEW i \in waiting
      PROVE  table[i].peer \in Client /\ table[i].peer # NoPeer
  <2>1. table[i].num_players = n /\ i \in Player
    BY <1>2 DEF Waiting
  <2>2. table[i].peer # NoPeer
    BY <2>1 DEF SeatedAs, ZeroPlayer
  <2>3. table[i] \in PlayerState
    BY <2>1
  <2> QED
    BY <2>2, <2>3 DEF PlayerState
<1>3. ASSUME NEW i \in waiting
      PROVE  withId(NewId(waiting, i)) = i
  <2>1. withId(NewId(waiting, i)) \in waiting
        /\ NewId(waiting, withId(NewId(waiting, i))) = NewId(waiting, i)
    OBVIOUS
  <2> QED
    BY <1>1, <2>1, NewIdInjective
<1>4. ASSUME NEW i \in waiting
      PROVE  slotOf(table[i].peer) = i
  <2> DEFINE j == slotOf(table[i].peer)
  <2>1. j \in waiting /\ table[j].peer = table[i].peer
    OBVIOUS
  <2> HIDE DEF j
  <2>2. j = i
    BY <1>1, <1>2, <2>1 DEF SeatedAs
  <2> QED
    BY <2>2 DEF j
<1>5. ASSUME NEW i \in waiting
      PROVE  /\ NewId(waiting, i) \in DOMAIN group
             /\ group[NewId(waiting, i)] = table[i].peer
  BY <1>3
<1>6. \A p \in DOMAIN group : \E i \in waiting : p = NewId(waiting, i)
  OBVIOUS
<1>7. /\ player' = [i \in Player |->
                      IF i \in waiting
                        THEN [table[i] EXCEPT !.game_id = next_game_id,
                                              !.player_id = NewId(waiting, i)]
                        ELSE table[i]]
      /\ toClient' = [d \in Client |->
                        IF Member(table, waiting, d)
                          THEN Append(toClient[d],
                                      NotifyStart(next_game_id,
                                                  NewId(waiting, slotOf(d)), n))
                          ELSE toClient[d]]
      /\ roster' = [d \in Client |-> IF Member(table, waiting, d)
                                       THEN group ELSE roster[d]]
      /\ next_game_id' = next_game_id + 1
  <2>1. PICK missed \in SUBSET waiting :
          /\ GreetingsFail(missed)
          /\ toClient' = [d \in Client |->
                            IF Member(table, waiting, d) /\ slotOf(d) \notin missed
                              THEN Append(toClient[d],
                                     NotifyStart(next_game_id,
                                                 NewId(waiting, slotOf(d)), n))
                              ELSE toClient[d]]
    BY Zenon DEF Greet, Member
  <2>2. missed = {}
    BY <2>1 DEF GreetingsFail, Spend
  <2>3. toClient' = [d \in Client |->
                      IF Member(table, waiting, d)
                        THEN Append(toClient[d],
                                    NotifyStart(next_game_id,
                                                NewId(waiting, slotOf(d)), n))
                        ELSE toClient[d]]
    <3> HIDE DEF slotOf
    <3> QED
      BY <2>1, <2>2
  <2> QED
    BY <2>3, Zenon DEF Greet, Member
<1> HIDE DEF group, withId, slotOf
<1>8. ASSUME NEW i \in waiting
      PROVE  /\ player'[i] = [table[i] EXCEPT !.game_id = next_game_id,
                                              !.player_id = NewId(waiting, i)]
             /\ toClient'[table[i].peer] =
                  Append(toClient[table[i].peer],
                         NotifyStart(next_game_id, NewId(waiting, i), n))
  <2>1. Member(table, waiting, table[i].peer)
    BY DEF Member
  <2> QED
    BY <1>1, <1>2, <1>4, <1>7, <2>1
<1>9. \A i \in Player \ waiting : player'[i] = table[i]
  BY <1>7
<1>10. \A d \in Client :
         IF Member(table, waiting, d)
           THEN roster'[d] = group
           ELSE roster'[d] = roster[d] /\ toClient'[d] = toClient[d]
  BY <1>7
<1> QED
  BY <1>2, <1>5, <1>6, <1>7, <1>8, <1>9, <1>10 DEF Greets

\* When every greeting is sent, a handshake uses up no fault.
LEMMA AllGreeted ==
  ASSUME NobodyOverdue, NEW c \in Client, HandleHandshake(c)
  PROVE  faults["greet"] = 0 /\ UNCHANGED faults
<1>1. faults["greet"] = 0
  BY DEF NobodyOverdue, Confusing
<1>2. UNCHANGED faults \/ \E missed : GreetingsFail(missed)
  BY Zenon DEF HandleHandshake, Greet
<1>3. UNCHANGED faults \/ Spend("greet")
  BY <1>2 DEF GreetingsFail
<1> QED
  BY <1>1, <1>3 DEF Spend

\* The new game is seated.
LEMMA GreetSeats ==
  ASSUME TypeOK, NEW table \in [Player -> PlayerState], SeatedAs(table),
         NEW n \in Nat, n > 0, NEW waiting, waiting = Waiting(table, n),
         NEW group, Greets(table, waiting, n, group)
  PROVE  SeatedAs(player)'
<1>1. next_game_id \in Nat \ {0} /\ next_game_id' = next_game_id + 1
  BY DEF TypeOK, ServerTypeOK, Greets
<1>2. waiting \subseteq Player /\ \A i \in waiting : table[i].num_players = n
  BY DEF Waiting
<1>3. ASSUME NEW i \in waiting
      PROVE  /\ player'[i].peer = table[i].peer /\ table[i].peer \in Client
             /\ player'[i].num_players = n /\ player'[i].game_id = next_game_id
             /\ player'[i].player_id = NewId(waiting, i)
             /\ NewId(waiting, i) \in DOMAIN group
             /\ group[NewId(waiting, i)] = table[i].peer
             /\ roster'[table[i].peer] = group
  <2>1. table[i] \in PlayerState
    BY <1>2
  <2>2. /\ player'[i] = [table[i] EXCEPT !.game_id = next_game_id,
                                        !.player_id = NewId(waiting, i)]
        /\ table[i].peer \in Client
        /\ NewId(waiting, i) \in DOMAIN group
        /\ group[NewId(waiting, i)] = table[i].peer
    BY DEF Greets
  <2>3. /\ player'[i].peer = table[i].peer
        /\ player'[i].num_players = table[i].num_players
        /\ player'[i].game_id = next_game_id
        /\ player'[i].player_id = NewId(waiting, i)
    BY <2>1, <2>2 DEF PlayerState
  <2>4. Member(table, waiting, table[i].peer)
    BY DEF Member
  <2>5. roster'[table[i].peer] = group
    BY <2>2, <2>4 DEF Greets
  <2> QED
    BY <1>2, <2>2, <2>3, <2>5
<1>4. ASSUME NEW i \in Player, i \notin waiting
      PROVE  /\ player'[i] = table[i]
             /\ table[i].peer \in Client =>
                  roster'[table[i].peer] = roster[table[i].peer]
  <2>1. ASSUME table[i].peer \in Client
        PROVE  ~Member(table, waiting, table[i].peer)
    <3>1. table[i].peer # NoPeer
      BY <2>1, NoPeerAssumption
    <3>2. \A j \in Player : table[j].peer = table[i].peer => j = i
      BY <3>1 DEF SeatedAs
    <3> QED
      BY <1>2, <1>4, <3>2 DEF Member
  <2> QED
    BY <1>4, <2>1 DEF Greets
<1>5. \A i \in Player : player'[i].peer = table[i].peer
  BY <1>3, <1>4
<1>6. ASSUME NEW i \in Player, player'[i].peer = NoPeer
      PROVE  player'[i] = ZeroPlayer
  <2>1. i \notin waiting
    BY <1>3, <1>6, NoPeerAssumption
  <2> QED
    BY <1>4, <1>6, <2>1 DEF SeatedAs
<1>7. ASSUME NEW i \in Player, NEW j \in Player,
             player'[i].peer = player'[j].peer, player'[i].peer # NoPeer
      PROVE  i = j
  <2>1. table[i].peer = table[j].peer /\ table[i].peer # NoPeer
    BY <1>5, <1>7
  <2> QED
    BY <2>1 DEF SeatedAs
<1>8. ASSUME NEW i \in Player, table[i].game_id # 0
      PROVE  table[i].peer \in Client
  <2>1. table[i] # ZeroPlayer
    BY <1>8 DEF ZeroPlayer
  <2>2. table[i].peer # NoPeer
    BY <2>1 DEF SeatedAs
  <2>3. table[i] \in PlayerState
    OBVIOUS
  <2> QED
    BY <2>2, <2>3 DEF PlayerState
<1>9. ASSUME NEW i \in Player
      PROVE  IF player'[i].game_id # 0
               THEN /\ player'[i].player_id \in DOMAIN roster'[player'[i].peer]
                    /\ roster'[player'[i].peer][player'[i].player_id]
                         = player'[i].peer
               ELSE player'[i].peer \in Client =>
                      roster'[player'[i].peer] = NoGame
  <2>1. CASE i \in waiting
    BY <1>1, <1>3, <2>1
  <2>2. CASE i \notin waiting
    <3>1. IF table[i].game_id # 0
            THEN /\ table[i].player_id \in DOMAIN roster[table[i].peer]
                 /\ roster[table[i].peer][table[i].player_id] = table[i].peer
            ELSE table[i].peer \in Client => roster[table[i].peer] = NoGame
      BY DEF SeatedAs
    <3> QED
      BY <1>4, <1>8, <2>2, <3>1
  <2> QED
    BY <2>1, <2>2
<1>10. ASSUME NEW i \in Player, player'[i].peer \in Client
       PROVE  player'[i].num_players > 0
  <2>1. CASE i \in waiting
    BY <1>3, <2>1
  <2>2. CASE i \notin waiting
    BY <1>4, <1>10, <2>2 DEF SeatedAs
  <2> QED
    BY <2>1, <2>2
<1>11. \A i \in Player : table[i].game_id < next_game_id
                         /\ table[i].game_id \in Nat
  <2>1. \A i \in Player : table[i].game_id \in Nat
    BY DEF PlayerState
  <2> QED
    BY <2>1 DEF SeatedAs
<1>12. ASSUME NEW i \in Player
       PROVE  player'[i].game_id < next_game_id'
  <2>1. CASE i \in waiting
    BY <1>1, <1>3, <2>1
  <2>2. CASE i \notin waiting
    BY <1>1, <1>4, <1>11, <2>2
  <2> QED
    BY <2>1, <2>2
<1>13. ASSUME NEW i \in Player, NEW j \in Player, player'[i].game_id # 0,
              player'[i].game_id = player'[j].game_id
       PROVE  roster'[player'[i].peer] = roster'[player'[j].peer]
  <2>1. ASSUME NEW k \in Player
        PROVE  k \in waiting <=> player'[k].game_id = next_game_id
    <3>1. k \in waiting => player'[k].game_id = next_game_id
      BY <1>3
    <3>2. k \notin waiting => player'[k].game_id # next_game_id
      BY <1>1, <1>4, <1>11
    <3> QED
      BY <3>1, <3>2
  <2>2. i \in waiting <=> j \in waiting
    BY <1>13, <2>1
  <2>3. CASE i \in waiting
    BY <1>3, <2>2, <2>3
  <2>4. CASE i \notin waiting
    <3>1. table[i].game_id # 0 /\ table[i].game_id = table[j].game_id
      BY <1>4, <1>13, <2>2, <2>4
    <3>2. roster[table[i].peer] = roster[table[j].peer]
      BY <3>1 DEF SeatedAs
    <3> QED
      BY <1>4, <1>8, <2>2, <2>4, <3>1, <3>2
  <2> QED
    BY <2>3, <2>4
<1> QED
  BY <1>6, <1>7, <1>9, <1>10, <1>12, <1>13 DEF SeatedAs

\* What a client that was not greeted yet has is nothing.
LEMMA UngreetedIsFresh ==
  ASSUME Inv, NEW d \in Client, roster[d] = NoGame
  PROVE  /\ toClient[d] = <<>> /\ Unintroduced(d)
         /\ outgoing_sequence[d] = 1 /\ logic_updates[d] = 0 /\ turns[d] = <<>>
         /\ player_input[d] = [k \in Slot |-> [p \in Player |-> NoEvents]]
         /\ player_received[d] = [k \in Slot |-> [p \in Player |-> k = 0]]
BY DEF Inv, AgreementInv, Mail, Fresh

\* A client that is greeted is fresh: its roster is all that changes.
LEMMA NewRosterAgrees ==
  ASSUME Inv, NEW d \in Client, roster[d] = NoGame, UNCHANGED client,
         NEW group, roster'[d] = group, group # NoGame,
         NEW g \in Nat, NEW n \in Nat, NEW q \in DOMAIN group, group[q] = d,
         DOMAIN group \subseteq Player,
         \A p \in DOMAIN group :
           p < n /\ group[p] \in Client /\ roster[group[p]] = NoGame,
         toClient'[d] = Append(toClient[d], NotifyStart(g, q, n))
  PROVE  /\ Fresh(d)' /\ Mail(d)' /\ Introduced(d)' /\ Frames(d)'
         /\ Pace(d)' /\ Applied(d)'
<1>1. /\ toClient[d] = <<>> /\ Unintroduced(d)
      /\ outgoing_sequence[d] = 1 /\ logic_updates[d] = 0 /\ turns[d] = <<>>
      /\ player_input[d] = [k \in Slot |-> [p \in Player |-> NoEvents]]
      /\ player_received[d] = [k \in Slot |-> [p \in Player |-> k = 0]]
  BY UngreetedIsFresh
<1>2. /\ UNCHANGED <<pc, outgoing_sequence, player_id, player_count>>
      /\ UNCHANGED <<player_input, player_received, logic_updates, turns>>
  BY DEF client, egress, ingress, identity, game
<1>3. Unintroduced(d)'
  BY <1>1, <1>2 DEF Unintroduced
<1>4. Fresh(d)' /\ Introduced(d)'
  BY <1>1, <1>2, <1>3 DEF Fresh, Introduced
<1>5. Mail(d)'
  <2> DEFINE start == NotifyStart(g, q, n)
  <2>1. StartFor(d, start)'
    <3>1. start.event = NoEvents /\ start.second = q /\ start.third = n
      BY DEF NotifyStart
    <3> HIDE DEF start
    <3> QED
      BY <3>1 DEF StartFor
  <2> HIDE DEF start
  <2>2. toClient'[d] = <<start>>
    BY <1>1 DEF start
  <2>3. \A k \in DOMAIN toClient'[d] : k = 1 /\ toClient'[d][k] = start
    BY <2>2
  <2>4. toClient'[d] # <<>>
    BY <2>2
  <2> QED
    BY <1>1, <1>2, <2>1, <2>3, <2>4 DEF Mail, StartFor, Unintroduced
<1>6. Frames(d)'
  <2>1. ASSUME NEW k \in Slot, NEW p \in Player
        PROVE  IF p \in DOMAIN group
                 THEN player_received[d][k][p] =>
                        \E f \in 0 .. NetQueue - 1 :
                          /\ NETQUEUE_SLOT(f) = k
                          /\ player_input[d][k][p] = InputOf(group[p], f)
                 ELSE player_input[d][k][p] = NoEvents
    <3>1. player_input[d][k][p] = NoEvents /\ player_received[d][k][p] = (k = 0)
      <4>1. /\ player_input[d][k] = [r \in Player |-> NoEvents]
            /\ player_received[d][k] = [r \in Player |-> k = 0]
        BY <1>1
      <4> QED
        BY <4>1
    <3>2. 0 \in 0 .. NetQueue - 1 /\ NETQUEUE_SLOT(0) = 0
      BY NetQueueAssumption DEF NETQUEUE_SLOT
    <3>3. InputOf(group[p], 0) = NoEvents
      BY DEF InputOf
    <3> QED
      BY <3>1, <3>2, <3>3
  <2>2. logic_updates[d] + NetQueue - 1 = NetQueue - 1
    BY <1>1, NetQueueAssumption
  <2> QED
    BY <1>1, <1>2, <2>1, <2>2 DEF Frames
<1>7. Pace(d)'
  <2>1. \A p \in DOMAIN group : outgoing_sequence[group[p]] = 1
    BY UngreetedIsFresh
  <2> QED
    BY <1>1, <1>2, <2>1, PaceAssumption DEF Pace, Unintroduced
<1>8. Applied(d)'
  <2>1. Len(turns[d]) = 0 /\ DOMAIN turns[d] = {}
    BY <1>1
  <2> QED
    BY <1>1, <1>2, <2>1 DEF Applied
<1> QED
  BY <1>4, <1>5, <1>6, <1>7, <1>8

\* A client that is not greeted now does not see that others are.
LEMMA OldRosterAgrees ==
  ASSUME Inv, NEW d \in Client, UNCHANGED client,
         UNCHANGED <<roster[d], toClient[d]>>
  PROVE  /\ Fresh(d)' /\ Mail(d)' /\ Introduced(d)' /\ Frames(d)'
         /\ Pace(d)' /\ Applied(d)'
<1>1. /\ Fresh(d) /\ Mail(d) /\ Introduced(d) /\ Frames(d)
      /\ Pace(d) /\ Applied(d)
  BY DEF Inv, AgreementInv
<1>2. /\ UNCHANGED <<pc, outgoing_sequence, player_id, player_count>>
      /\ UNCHANGED <<player_input, player_received, logic_updates, turns>>
  BY DEF client, egress, ingress, identity, game
<1>3. Fresh(d)' /\ Introduced(d)' /\ Frames(d)'
  BY <1>1, <1>2 DEF Fresh, Introduced, Frames, Unintroduced
<1>4. Mail(d)'
  BY <1>1, <1>2 DEF Mail, StartFor, TurnFor, Unintroduced
<1>5. Pace(d)' /\ Applied(d)'
  BY <1>1, <1>2 DEF Pace, Ended, Applied
<1> QED
  BY <1>3, <1>4, <1>5

LEMMA GreetAgrees ==
  ASSUME Inv, UNCHANGED client,
         NEW table \in [Player -> PlayerState], SeatedAs(table),
         \A i \in Player : player[i].game_id # 0 => table[i] = player[i],
         NEW n \in Nat, n > 0, NEW waiting, waiting = Waiting(table, n),
         Cardinality(waiting) <= n,
         NEW group, Greets(table, waiting, n, group)
  PROVE  \A d \in Client :
           /\ Greeted(d)' /\ Fresh(d)' /\ Mail(d)' /\ Introduced(d)'
           /\ Frames(d)' /\ Pace(d)' /\ Applied(d)'
<1>1. TypeOK /\ AgreementInv
  BY DEF Inv
<1>2. waiting \in SUBSET Player /\ \A i \in waiting : table[i].game_id = 0
  BY DEF Waiting
<1>3. ASSUME NEW i \in waiting
      PROVE  /\ table[i].peer \in Client
             /\ roster[table[i].peer] = NoGame /\ roster'[table[i].peer] = group
             /\ NewId(waiting, i) \in DOMAIN group
             /\ group[NewId(waiting, i)] = table[i].peer
             /\ NewId(waiting, i) \in Player /\ NewId(waiting, i) < n
             /\ player'[i].peer = table[i].peer
             /\ player'[i].game_id # 0
  <2>1. /\ table[i].peer \in Client
        /\ NewId(waiting, i) \in DOMAIN group
        /\ group[NewId(waiting, i)] = table[i].peer
        /\ player'[i] = [table[i] EXCEPT !.game_id = next_game_id,
                                         !.player_id = NewId(waiting, i)]
    BY DEF Greets
  <2>2. roster[table[i].peer] = NoGame
    BY <1>2, <2>1 DEF SeatedAs
  <2>3. Member(table, waiting, table[i].peer)
    BY DEF Member
  <2>4. roster'[table[i].peer] = group
    BY <2>1, <2>3 DEF Greets
  <2>5. NewId(waiting, i) \in Player /\ NewId(waiting, i) < n
    <3>1. /\ NewId(waiting, i) \in Player /\ IsFiniteSet(waiting)
          /\ NewId(waiting, i) < Cardinality(waiting)
      BY <1>2, NewIdType
    <3>2. Cardinality(waiting) \in Nat /\ NewId(waiting, i) \in Nat
      BY <3>1, FS_CardinalityType DEF Player
    <3> QED
      BY <3>1, <3>2
  <2>6. player'[i].peer = table[i].peer /\ player'[i].game_id # 0
    <3>1. table[i] \in PlayerState /\ next_game_id \in Nat \ {0}
      BY <1>1, <1>2 DEF TypeOK, ServerTypeOK
    <3> QED
      BY <2>1, <3>1 DEF PlayerState
  <2> QED
    BY <2>1, <2>2, <2>4, <2>5, <2>6
<1>4. ASSUME NEW p \in DOMAIN group
      PROVE  /\ p \in Player /\ p < n /\ group[p] \in Client
             /\ roster[group[p]] = NoGame /\ roster'[group[p]] = group
  <2>1. PICK i \in waiting : p = NewId(waiting, i)
    BY DEF Greets
  <2> QED
    BY <1>3, <2>1
<1>5. ASSUME NEW d \in Client, Member(table, waiting, d)
      PROVE  /\ Greeted(d)' /\ Fresh(d)' /\ Mail(d)' /\ Introduced(d)'
             /\ Frames(d)' /\ Pace(d)' /\ Applied(d)'
  <2>1. PICK i \in waiting : table[i].peer = d
    BY <1>5 DEF Member
  <2>2. /\ roster[d] = NoGame /\ roster'[d] = group
        /\ NewId(waiting, i) \in DOMAIN group
        /\ group[NewId(waiting, i)] = d
        /\ player'[i].peer = d /\ player'[i].game_id # 0
    BY <1>3, <2>1
  <2>3. toClient'[d] = Append(toClient[d],
                              NotifyStart(next_game_id, NewId(waiting, i), n))
    BY <2>1 DEF Greets
  <2>4. group # NoGame
    BY <2>2, NoGameIsEmpty
  <2>5. Greeted(d)'
    BY <1>2, <1>4, <2>2 DEF Greeted, IsAt
  <2>6. next_game_id \in Nat
    BY <1>1 DEF TypeOK, ServerTypeOK
  <2>7. /\ DOMAIN group \subseteq Player
        /\ \A p \in DOMAIN group : p < n /\ group[p] \in Client
                                   /\ roster[group[p]] = NoGame
    BY <1>4
  <2>8. \A q \in DOMAIN group :
          /\ group[q] = d
          /\ toClient'[d] = Append(toClient[d], NotifyStart(next_game_id, q, n))
          => /\ Fresh(d)' /\ Mail(d)' /\ Introduced(d)' /\ Frames(d)'
             /\ Pace(d)' /\ Applied(d)'
    BY <2>2, <2>4, <2>6, <2>7, NewRosterAgrees
  <2> QED
    BY <2>2, <2>3, <2>5, <2>8
<1>6. ASSUME NEW d \in Client, ~Member(table, waiting, d)
      PROVE  /\ Greeted(d)' /\ Fresh(d)' /\ Mail(d)' /\ Introduced(d)'
             /\ Frames(d)' /\ Pace(d)' /\ Applied(d)'
  <2>1. roster'[d] = roster[d] /\ toClient'[d] = toClient[d]
    BY <1>6 DEF Greets
  <2>2. Greeted(d)
    BY <1>1 DEF AgreementInv
  <2>3. ASSUME roster[d] # NoGame
        PROVE  \E i \in Player : player'[i].peer = d /\ player'[i].game_id # 0
    <3>1. PICK i \in Player : player[i].peer = d /\ player[i].game_id # 0
      BY <2>2, <2>3 DEF Greeted, IsAt
    <3>2. table[i] = player[i] /\ i \notin waiting
      BY <1>2, <3>1
    <3>3. player'[i] = player[i]
      BY <3>2 DEF Greets
    <3> QED
      BY <3>1, <3>3
  <2>4. ASSUME NEW p \in DOMAIN roster[d]
        PROVE  roster[d][p] \in Client /\ roster'[roster[d][p]] = roster[d]
    <3>1. roster[d][p] \in Client /\ roster[roster[d][p]] = roster[d]
      BY <2>2 DEF Greeted
    <3>2. roster[d] # NoGame
      BY NoGameIsEmpty
    <3>3. ~Member(table, waiting, roster[d][p])
      BY <1>3, <3>1, <3>2 DEF Member
    <3> QED
      BY <3>1, <3>3 DEF Greets
  <2>5. Greeted(d)'
    BY <2>1, <2>3, <2>4 DEF Greeted, IsAt
  <2> QED
    BY <2>1, <2>5, OldRosterAgrees
<1> QED
  BY <1>5, <1>6

-----------------------------------------------------------------------------
(* The steps of the server. *)

\* The server only takes datagrams.
LEMMA ServerFrame ==
  ASSUME Inv, TypeOK', NEW c \in Client, Received(c),
         UNCHANGED faults \/ Spend("send"),
         idle' = idle \/ \E i \in Player : idle' = [idle EXCEPT ![i] = 0]
  PROVE  NobodyOverdue' /\ Requests'
<1>1. TypeOK /\ NobodyOverdue /\ Requests
  BY DEF Inv, AgreementInv
<1>2. NobodyOverdue'
  <2>1. \A k \in Confusing : faults'[k] = 0
    BY <1>1 DEF NobodyOverdue, Spend, Confusing, Fault, TypeOK, NetworkTypeOK
  <2>2. idle \in [Player -> 0 .. Timeout + 1]
    BY <1>1 DEF TypeOK, ServerTypeOK
  <2>3. \A i \in Player : idle'[i] = 0
    BY <1>1, <2>2 DEF NobodyOverdue
  <2> QED
    BY <2>1, <2>3 DEF NobodyOverdue
<1>3. Requests'
  <2>1. \A d \in Client : toServer[d] \in Seq(Request)
    BY <1>1, RequestsAreRequest DEF TypeOK
  <2>2. toServer[c] \in Seq(Request) /\ toServer[c] # <<>>
    BY <2>1 DEF Received
  <2>3. Tail(toServer[c]) \in Seq(Request)
    BY <2>2
  <2>4. \A d \in Client : toServer'[d] \in Seq(Request)
    BY <1>1, <2>1, <2>3 DEF Received, TypeOK, NetworkTypeOK
  <2> QED
    BY <1>1, <2>4, RequestsAreRequest DEF TypeOK
<1> QED
  BY <1>2, <1>3

\* A peer asks for a game: it is ignored, it waits, or a game starts.
LEMMA HandshakeAgrees ==
  ASSUME Inv, TypeOK', NEW c \in Client, HandleHandshake(c), UNCHANGED client
  PROVE  AgreementInv'
<1> DEFINE n == Head(toServer[c]).num_players
           i == First(Free)
           table == Accepted(c, n, i)
           waiting == Waiting(table, n)
<1>1. TypeOK /\ AgreementInv
  BY DEF Inv
<1>2. /\ Received(c)
      /\ Head(toServer[c]).kind = "handshake"
      /\ IF Free = {} \/ Known(c)
           THEN UNCHANGED <<toClient, faults, server>>
           ELSE /\ idle' = [idle EXCEPT ![i] = 0]
                /\ IF Cardinality(waiting) >= n
                     THEN Greet(table, waiting, n)
                     ELSE /\ player' = table
                          /\ UNCHANGED <<toClient, faults, next_game_id, roster>>
  BY DEF HandleHandshake
<1>6. faults["greet"] = 0 /\ UNCHANGED faults
  BY <1>1, AllGreeted DEF AgreementInv
<1>3. n \in Nat /\ n > 0
  <2>1. toServer[c] \in Seq(Request)
    BY <1>1, RequestsAreRequest DEF AgreementInv, TypeOK
  <2>2. Head(toServer[c]) \in Request
    BY <1>2, <2>1 DEF Received
  <2> QED
    BY <1>2, <2>2 DEF Request, ToServer
<1> HIDE DEF n
<1>4. CASE UNCHANGED <<toClient, server>>
  <2>1. NobodyOverdue' /\ Requests'
    BY <1>2, <1>4, <1>6, ServerFrame DEF server
  <2>2. Seated'
    BY <1>1, <1>4 DEF AgreementInv, Seated, Waiting, server
  <2>3. ASSUME NEW d \in Client
        PROVE  Greeted(d)'
    BY <1>1, <1>4 DEF AgreementInv, Greeted, IsAt, server
  <2>4. ASSUME NEW d \in Client
        PROVE  /\ Fresh(d)' /\ Mail(d)' /\ Introduced(d)'
               /\ Frames(d)' /\ Pace(d)' /\ Applied(d)'
    BY <1>4, OldRosterAgrees DEF server
  <2> QED
    BY <2>1, <2>2, <2>3, <2>4 DEF AgreementInv
<1>5. CASE ~(Free = {} \/ Known(c))
  <2>1. i \in Player /\ player[i] = ZeroPlayer
    BY <1>5, FirstType DEF Free
  <2> HIDE DEF i
  <2>2. /\ table \in [Player -> PlayerState] /\ SeatedAs(table)
        /\ \A j \in Player : j # i => table[j] = player[j]
        /\ table[i].peer = c /\ table[i].game_id = 0
        /\ \A m \in Nat : m > 0 /\ m # n =>
             Waiting(table, m) = Waiting(player, m)
        /\ waiting = Waiting(player, n) \cup {i}
    BY <1>3, <1>5, <2>1, AcceptedTable
  <2>3. NobodyOverdue' /\ Requests'
    BY <1>2, <1>5, <1>6, <2>1, ServerFrame
  <2>4. \A m \in 1 .. MaxPlayer : Cardinality(Waiting(player, m)) < m
    BY <1>1 DEF AgreementInv, Seated
  <2>5. player[i].game_id = 0
    BY <2>1 DEF ZeroPlayer
  <2>6. \A j \in Player : player[j].game_id # 0 => table[j] = player[j]
    BY <2>2, <2>5
  <2> HIDE DEF table, waiting
  <2>7. CASE ~(Cardinality(waiting) >= n)
    <3>1. player' = table /\ UNCHANGED <<toClient, next_game_id, roster>>
      BY <1>2, <1>5, <2>7
    <3>2. SeatedAs(player)'
      BY <2>2, <3>1 DEF SeatedAs
    <3>3. ASSUME NEW m \in 1 .. MaxPlayer
          PROVE  Cardinality(Waiting(player, m)') < m
      <4>1. Waiting(player, m)' = Waiting(table, m)
        BY <3>1 DEF Waiting
      <4>2. CASE m = n
        <5>1. Cardinality(waiting) \in Nat
          BY WaitingSize DEF waiting
        <5> QED
          BY <1>3, <2>7, <4>1, <4>2, <5>1 DEF waiting
      <4>3. CASE m # n
        BY <2>2, <2>4, <4>1, <4>3
      <4> QED
        BY <4>2, <4>3
    <3>4. ASSUME NEW d \in Client
          PROVE  Greeted(d)'
      <4>1. Greeted(d)
        BY <1>1 DEF AgreementInv
      <4>2. \A j \in Player :
              player[j].game_id # 0 => player'[j] = player[j]
        BY <2>6, <3>1
      <4> QED
        BY <3>1, <4>1, <4>2 DEF Greeted, IsAt
    <3>5. ASSUME NEW d \in Client
          PROVE  /\ Fresh(d)' /\ Mail(d)' /\ Introduced(d)'
                 /\ Frames(d)' /\ Pace(d)' /\ Applied(d)'
      BY <3>1, OldRosterAgrees
    <3> QED
      BY <2>3, <3>2, <3>3, <3>4, <3>5, SeatedPartsNext DEF AgreementInv
  <2>8. CASE Cardinality(waiting) >= n
    <3>1. Greet(table, waiting, n)
      BY <1>2, <1>5, <2>8
    <3>2. PICK group : Greets(table, waiting, n, group)
      BY <1>3, <1>6, <2>2, <3>1, GreetGreets DEF waiting
    <3>3. Cardinality(waiting) <= n
      <4>1. /\ waiting \in SUBSET Player /\ IsFiniteSet(waiting)
            /\ Cardinality(waiting) \in 0 .. MaxPlayer
        BY WaitingSize DEF waiting
      <4>2. n \in 1 .. MaxPlayer
        BY <1>3, <2>8, <4>1, MaxPlayerAssumption
      <4>3. /\ IsFiniteSet(Waiting(player, n))
            /\ Cardinality(Waiting(player, n)) \in Nat
            /\ Cardinality(Waiting(player, n)) < n
        BY <2>4, <4>2, WaitingSize
      <4>4. i \notin Waiting(player, n)
        BY <1>3, <2>1 DEF Waiting, ZeroPlayer
      <4>5. Cardinality(waiting) = Cardinality(Waiting(player, n)) + 1
        BY <2>2, <4>3, <4>4, FS_AddElement
      <4> QED
        BY <1>3, <4>3, <4>5
    <3>4. SeatedAs(player)'
      BY <1>1, <1>3, <2>2, <3>2, GreetSeats DEF waiting
    <3>5. ASSUME NEW m \in 1 .. MaxPlayer
          PROVE  Cardinality(Waiting(player, m)') < m
      <4>1. ASSUME NEW j \in Waiting(player, m)'
            PROVE  j \in Waiting(table, m) /\ j \notin waiting
        <5>1. j \in Player /\ player'[j].game_id = 0 /\ player'[j].num_players = m
          BY <4>1 DEF Waiting
        <5>2. j \notin waiting
          <6>1. SUFFICES ASSUME j \in waiting PROVE FALSE
            OBVIOUS
          <6>2. player'[j].game_id = next_game_id
            BY <2>2, <3>2, <5>1, <6>1 DEF Greets, PlayerState
          <6> QED
            BY <1>1, <5>1, <6>2 DEF TypeOK, ServerTypeOK
        <5>3. player'[j] = table[j]
          BY <3>2, <5>1, <5>2 DEF Greets
        <5> QED
          BY <5>1, <5>2, <5>3 DEF Waiting
      <4>2. CASE m = n
        <5>1. Waiting(player, m)' = {}
          BY <4>1, <4>2 DEF waiting
        <5> QED
          BY <5>1, FS_EmptySet
      <4>3. CASE m # n
        <5>1. Waiting(player, m)' \subseteq Waiting(player, m)
          BY <2>2, <4>1, <4>3
        <5>2. /\ IsFiniteSet(Waiting(player, m))
              /\ Cardinality(Waiting(player, m)) \in Nat
              /\ Cardinality(Waiting(player, m)) < m
          BY <2>4, WaitingSize
        <5>3. /\ IsFiniteSet(Waiting(player, m)')
              /\ Cardinality(Waiting(player, m)')
                   <= Cardinality(Waiting(player, m))
          BY <5>1, <5>2, FS_Subset
        <5>4. Cardinality(Waiting(player, m)') \in Nat
          BY <5>3, FS_CardinalityType
        <5> QED
          BY <5>2, <5>3, <5>4
      <4> QED
        BY <4>2, <4>3
    <3>6. \A d \in Client :
            /\ Greeted(d)' /\ Fresh(d)' /\ Mail(d)' /\ Introduced(d)'
            /\ Frames(d)' /\ Pace(d)' /\ Applied(d)'
      BY <1>3, <2>2, <2>6, <3>2, <3>3, GreetAgrees DEF waiting
    <3> QED
      BY <2>3, <3>4, <3>5, <3>6, SeatedPartsNext DEF AgreementInv
  <2> QED
    BY <2>7, <2>8
<1> QED
  BY <1>2, <1>4, <1>5

\* The mail of a client of the game grows by a turn of a player of the game.
LEMMA MailAppend ==
  ASSUME Inv, NEW d \in Client, NEW m \in ToClient, TurnFor(d, m),
         UNCHANGED <<client, roster>>, toClient'[d] = Append(toClient[d], m)
  PROVE  Mail(d)'
<1>1. Mail(d) /\ toClient[d] \in Seq(ToClient)
  BY DEF Inv, AgreementInv, TypeOK, NetworkTypeOK
<1>2. UNCHANGED <<pc, outgoing_sequence>>
  BY DEF client, egress
<1>3. roster[d] # NoGame
  BY NoGameIsEmpty DEF TurnFor
<1>4. ASSUME NEW k \in DOMAIN toClient'[d]
      PROVE  IF pc[d] = "handshake" /\ k = 1
               THEN StartFor(d, toClient'[d][k])
               ELSE pc[d] # "nogame" => TurnFor(d, toClient'[d][k])
  <2>1. CASE k \in DOMAIN toClient[d]
    <3>1. toClient'[d][k] = toClient[d][k]
      BY <1>1, <2>1
    <3> QED
      BY <1>1, <2>1, <3>1 DEF Mail
  <2>2. CASE k \notin DOMAIN toClient[d]
    <3>1. k = Len(toClient[d]) + 1 /\ toClient'[d][k] = m
      BY <1>1, <1>4, <2>2
    <3>2. pc[d] = "handshake" => k # 1
      BY <1>1, <1>3, <3>1 DEF Mail
    <3> QED
      BY <3>1, <3>2
  <2> QED
    BY <2>1, <2>2
<1>5. toClient'[d] # <<>>
  BY <1>1
<1>6. ASSUME NEW k \in DOMAIN toClient'[d]
      PROVE  IF pc'[d] = "handshake" /\ k = 1
               THEN StartFor(d, toClient[d][k])'
               ELSE pc'[d] # "nogame" => TurnFor(d, toClient[d][k])'
  BY <1>2, <1>4, <1>6 DEF StartFor, TurnFor
<1> QED
  BY <1>3, <1>5, <1>6 DEF Mail

\* A peer sends a turn: it is echoed to the clients of its game, or to nobody.
LEMMA TurnAgrees ==
  ASSUME Inv, TypeOK', NEW c \in Client, HandleTurn(c), UNCHANGED client
  PROVE  AgreementInv'
<1> DEFINE turn == Head(toServer[c])
<1>1. TypeOK /\ AgreementInv /\ OnlyFaithful
  BY DEF Inv
<1>2. /\ Received(c) /\ turn.kind = "turn"
      /\ UNCHANGED <<next_game_id, roster>>
      /\ \/ UNCHANGED <<toClient, faults, player, idle>>
         \/ \E i \in Player :
              /\ IsAt(c, i) /\ idle' = [idle EXCEPT ![i] = 0]
              /\ \/ UNCHANGED <<toClient, faults, player>>
                 \/ /\ IsNext(i, turn)
                    /\ player' = [player EXCEPT ![i].sequence = turn.sequence]
                    /\ \E stop \in 0 .. MaxPlayer :
                         /\ SendToFailsAt(i, stop)
                         /\ Echo(i, turn.sequence, turn.event, stop)
  BY DEF HandleTurn
<1>3. turn \in FaithfulTurn(c) /\ turn \in ToServer
  <2>1. toServer[c] \in Seq(FaithfulTurn(c)) /\ toServer[c] # <<>>
    BY <1>1, <1>2 DEF OnlyFaithful, Received
  <2>2. turn \in FaithfulTurn(c)
    BY <2>1
  <2> QED
    BY <2>2 DEF FaithfulTurn
<1> HIDE DEF turn
<1>4. /\ turn.sequence \in Nat /\ turn.event \in Input
      /\ turn.event = InputOf(c, turn.sequence)
      /\ turn.sequence < outgoing_sequence[c]
  BY <1>2, <1>3 DEF FaithfulTurn, ToServer
<1>5. NobodyOverdue' /\ Requests'
  <2>1. UNCHANGED faults \/ Spend("send")
    BY <1>2 DEF SendToFailsAt
  <2>2. idle' = idle \/ \E i \in Player : idle' = [idle EXCEPT ![i] = 0]
    BY <1>2
  <2> QED
    BY <1>2, <2>1, <2>2, ServerFrame
<1>6. \A j \in Player : /\ player'[j].peer = player[j].peer
                        /\ player'[j].game_id = player[j].game_id
                        /\ player'[j].player_id = player[j].player_id
                        /\ player'[j].num_players = player[j].num_players
                        /\ player[j] = ZeroPlayer => player'[j] = player[j]
  <2>1. player \in [Player -> PlayerState]
    BY <1>1 DEF TypeOK, ServerTypeOK
  <2>2. CASE UNCHANGED player
    BY <2>2
  <2>3. ASSUME NEW i \in Player, IsNext(i, turn),
               player' = [player EXCEPT ![i].sequence = turn.sequence]
        PROVE  \A j \in Player : /\ player'[j].peer = player[j].peer
                                 /\ player'[j].game_id = player[j].game_id
                                 /\ player'[j].player_id = player[j].player_id
                                 /\ player'[j].num_players = player[j].num_players
                                 /\ player[j] = ZeroPlayer => player'[j] = player[j]
    <3>1. player[i] # ZeroPlayer
      BY <2>3 DEF IsNext, ZeroPlayer
    <3> QED
      BY <2>1, <2>3, <3>1 DEF PlayerState
  <2> QED
    BY <1>2, <2>2, <2>3
<1>7. Seated'
  <2>1. SeatedAs(player)'
    BY <1>1, <1>2, <1>6, SeatedParts DEF AgreementInv, SeatedAs
  <2>2. \A m : Waiting(player, m)' = Waiting(player, m)
    BY <1>6 DEF Waiting
  <2> QED
    BY <1>1, <2>1, <2>2, SeatedParts, SeatedPartsNext DEF AgreementInv
<1>8. ASSUME NEW d \in Client
      PROVE  Greeted(d)'
  BY <1>1, <1>2, <1>6 DEF AgreementInv, Greeted, IsAt
<1>9. ASSUME NEW d \in Client
      PROVE  /\ Fresh(d)' /\ Introduced(d)' /\ Frames(d)'
             /\ Pace(d)' /\ Applied(d)'
  <2>1. /\ Fresh(d) /\ Introduced(d) /\ Frames(d) /\ Pace(d) /\ Applied(d)
    BY <1>1 DEF AgreementInv
  <2>2. /\ UNCHANGED <<pc, outgoing_sequence, player_id, player_count>>
        /\ UNCHANGED <<player_input, player_received, logic_updates, turns>>
    BY DEF client, egress, ingress, identity, game
  <2>3. Fresh(d)' /\ Introduced(d)' /\ Frames(d)'
    BY <1>2, <2>1, <2>2 DEF Fresh, Introduced, Frames, Unintroduced
  <2>4. Pace(d)' /\ Applied(d)'
    BY <1>2, <2>1, <2>2 DEF Pace, Ended, Applied
  <2> QED
    BY <2>3, <2>4
<1>10. ASSUME NEW d \in Client
       PROVE  Mail(d)'
  <2>1. CASE toClient'[d] = toClient[d]
    BY <1>2, <2>1, OldRosterAgrees
  <2>2. ASSUME NEW i \in Player, IsAt(c, i), IsNext(i, turn),
               NEW stop \in 0 .. MaxPlayer, toClient'[d] # toClient[d],
               Echo(i, turn.sequence, turn.event, stop)
        PROVE  Mail(d)'
    <3> DEFINE echo == NotifyTurn(turn.sequence, player[i].player_id,
                                  turn.sequence, turn.event)
    <3>1. /\ d \in Echoed(player[i].game_id, stop)
          /\ toClient'[d] = Append(toClient[d], echo)
      BY <2>2 DEF Echo
    <3>2. PICK j \in Player : /\ player[j].game_id = player[i].game_id
                              /\ player[j].peer = d
      BY <3>1 DEF Echoed
    <3>3. /\ player[i].game_id # 0 /\ player[i].peer = c
      BY <2>2 DEF IsNext, IsAt
    <3>4. /\ roster[c] = roster[d]
          /\ player[i].player_id \in DOMAIN roster[c]
          /\ roster[c][player[i].player_id] = c
      <4>1. SeatedAs(player)
        BY <1>1, SeatedParts DEF AgreementInv
      <4> QED
        BY <3>2, <3>3, <4>1 DEF SeatedAs
    <3>5. player[i].player_id \in Player
      BY <1>1 DEF TypeOK, ServerTypeOK, PlayerState
    <3>6. echo \in ToClient
      BY <1>4, <3>5, NotifyTurnType
    <3>7. /\ echo.first = turn.sequence /\ echo.event = turn.event
          /\ echo.second = player[i].player_id
      BY DEF NotifyTurn
    <3> HIDE DEF echo
    <3>8. TurnFor(d, echo)
      BY <1>4, <3>4, <3>7 DEF TurnFor
    <3> QED
      BY <1>2, <3>1, <3>6, <3>8, MailAppend
  <2> QED
    BY <1>2, <2>1, <2>2
<1> QED
  BY <1>5, <1>7, <1>8, <1>9, <1>10 DEF AgreementInv

LEMMA ServerAgrees ==
  ASSUME Inv, TypeOK', ServerNext, UNCHANGED client
  PROVE  AgreementInv'
<1>1. TypeOK /\ NobodyOverdue
  BY DEF Inv, AgreementInv
<1>2. ~Spend("tick") /\ ~Spend("restart")
  BY <1>1 DEF NobodyOverdue, Spend, Confusing
<1>3. Overdue = {}
  BY <1>1, TimeoutAssumption DEF NobodyOverdue, Overdue
<1>4. PICK c \in Client : HandleHandshake(c) \/ HandleTurn(c)
  BY <1>2, <1>3 DEF ServerNext, ClockTick, DropInactive, Restart
<1> QED
  BY <1>4, HandshakeAgrees, TurnAgrees

-----------------------------------------------------------------------------
(* The invariant and what it shows. *)

LEMMA AgreementInit ==
  ASSUME Init, FitForLockstep
  PROVE  AgreementInv
<1> USE DEF Init
<1>1. TypeOK
  BY InitType
<1>2. NobodyOverdue
  BY DEF NobodyOverdue, FitForLockstep, NetworkInit, ServerInit
<1>3. Requests
  BY DEF Requests, NetworkInit
<1>4. Seated
  <2>1. /\ player = [i \in Player |-> ZeroPlayer]
        /\ next_game_id = 1 /\ roster = [c \in Client |-> NoGame]
    BY DEF ServerInit
  <2>2. SeatedAs(player)
    BY <2>1, NoPeerAssumption DEF SeatedAs, ZeroPlayer
  <2>3. ASSUME NEW n \in 1 .. MaxPlayer
        PROVE  Cardinality(Waiting(player, n)) < n
    <3>1. Waiting(player, n) = {}
      BY <2>1 DEF Waiting, ZeroPlayer
    <3> QED
      BY <3>1, FS_EmptySet
  <2> QED
    BY <2>2, <2>3, SeatedParts
<1>5. ASSUME NEW d \in Client
      PROVE  /\ Greeted(d) /\ Fresh(d) /\ Mail(d) /\ Introduced(d)
             /\ Frames(d) /\ Pace(d) /\ Applied(d)
  <2>1. roster[d] = NoGame /\ toClient[d] = <<>> /\ pc[d] = "handshake"
    BY DEF NetworkInit, ServerInit, ClientInit
  <2>2. /\ outgoing_sequence[d] = 1 /\ logic_updates[d] = 0 /\ turns[d] = <<>>
        /\ player_input[d] = [k \in Slot |-> [p \in Player |-> NoEvents]]
        /\ player_received[d] = [k \in Slot |-> [p \in Player |-> k = 0]]
    BY DEF ClientInit
  <2>3. DOMAIN roster[d] = {}
    BY <2>1, NoGameIsEmpty
  <2>4. Greeted(d) /\ Fresh(d) /\ Introduced(d)
    BY <2>1, <2>2, <2>3 DEF Greeted, Fresh, Introduced, Unintroduced
  <2>5. Mail(d)
    <3>1. DOMAIN toClient[d] = {}
      BY <2>1
    <3> QED
      BY <2>1, <3>1 DEF Mail, Unintroduced
  <2>6. Frames(d)
    BY <2>2, <2>3 DEF Frames
  <2>7. Pace(d)
    BY <2>1, <2>2, <2>3, PaceAssumption DEF Pace
  <2>8. Applied(d)
    <3>1. DOMAIN turns[d] = {} /\ Len(turns[d]) = 0
      BY <2>2
    <3> QED
      BY <2>2, <3>1 DEF Applied
  <2> QED
    BY <2>4, <2>5, <2>6, <2>7, <2>8
<1> QED
  BY <1>2, <1>3, <1>4, <1>5 DEF AgreementInv

LEMMA AgreementNext ==
  ASSUME FitForLockstep, Inv, TypeOK', [Next]_vars
  PROVE  AgreementInv'
<1>1. CASE ServerNext /\ UNCHANGED client
  BY <1>1, ServerAgrees
<1>2. CASE \E c \in Client : (ClientStep(c) \/ ClientFault(c)) /\ UNCHANGED server
  BY <1>2, ClientAgrees
<1>3. CASE NetworkFault /\ UNCHANGED <<server, client>>
  BY <1>3, MediumAgrees
<1>4. CASE UNCHANGED vars
  <2>1. UNCHANGED <<network, server, client>>
    BY <1>4 DEF vars
  <2>2. AgreementInv
    BY DEF Inv
  <2>3. NobodyOverdue' /\ Requests' /\ Seated'
    BY <2>1, <2>2 DEF AgreementInv, NobodyOverdue, Requests, Seated, Waiting,
                     network, server
  <2>4. \A d \in Client : Greeted(d)'
    BY <2>1, <2>2 DEF AgreementInv, Greeted, IsAt, server
  <2>5. ASSUME NEW d \in Client
        PROVE  /\ Fresh(d)' /\ Mail(d)' /\ Introduced(d)'
               /\ Frames(d)' /\ Pace(d)' /\ Applied(d)'
    BY <2>1, OldRosterAgrees DEF network, server
  <2> QED
    BY <2>3, <2>4, <2>5 DEF AgreementInv
<1> QED
  BY <1>1, <1>2, <1>3, <1>4 DEF Next

LEMMA InvInit ==
  ASSUME FitForLockstep
  PROVE  Init => Inv
BY InitType, HistoryInit, FaithfulInit, AgreementInit DEF Inv

LEMMA InvNext ==
  ASSUME FitForLockstep
  PROVE  Inv /\ [Next]_vars => Inv'
<1> SUFFICES ASSUME Inv, [Next]_vars PROVE Inv'
  OBVIOUS
<1>1. TypeOK /\ HistoryInv /\ OnlyFaithful
  BY DEF Inv
<1>2. TypeOK'
  BY <1>1, NextType
<1>3. HistoryInv' /\ OnlyFaithful'
  BY <1>1, <1>2, HistoryNext, FaithfulNext
<1>4. AgreementInv'
  BY <1>2, AgreementNext
<1> QED
  BY <1>2, <1>3, <1>4 DEF Inv

\* If the server sends every greeting (one that fails does not stop the game,
\* server.cc:152), the network loses, repeats and delays nothing of what it sends,
\* and the rates suit the frame queue, every client's simulation applies as
\* turn n what every player of its game did in its turn n (space.cc:237),
\* whatever happens to what the clients send.
THEOREM TurnsAgree ==
  ASSUME FitForLockstep
  PROVE  Spec => []AppliesTurnN
<1>1. Init => Inv
  BY InvInit
<1>2. Inv /\ [Next]_vars => Inv'
  BY InvNext
<1>3. Inv => AppliesTurnN
  BY DEF Inv, AgreementInv, Applied, AppliesTurnN
<1> QED
  BY <1>1, <1>2, <1>3, PTL DEF Spec

\* The turn that comes for a slot whose input was received is the same turn again,
\* since the queue has room for one frame only that shares the slot.
LEMMA TakesSameInput ==
  ASSUME Inv, FitForLockstep, NEW c \in Client, Ingress(c),
         NEW d \in Client, NEW k \in Slot, NEW p \in Player,
         player_received[d][k][p]
  PROVE  player_input'[d][k][p] = player_input[d][k][p]
<1> DEFINE m == Head(toClient[c])
           slot == NETQUEUE_SLOT(m.first)
<1>1. Greeted(c) /\ Mail(c) /\ Frames(c) /\ Pace(c) /\ TypeOK
  BY DEF Inv, AgreementInv
<1>2. /\ pc[c] = "ingress" /\ Receives(c)
      /\ player_input \in [Client -> [Slot -> [Player -> Input]]]
  BY <1>1 DEF Ingress, TypeOK, ClientTypeOK
<1>3. TurnFor(c, m) /\ m \in ToClient
  BY <1>1, <1>2, TailOfMail DEF Mail
<1>4. \/ UNCHANGED player_input
      \/ /\ ~(m.first < logic_updates[c])
         /\ player_input' = [player_input EXCEPT ![c][slot][m.second] = m.event]
  BY DEF Ingress, ingress
<1> HIDE DEF m, slot
<1>5. m.second \in Player /\ m.first \in Nat /\ slot \in Slot
  BY <1>3, SlotType DEF ToClient, slot
<1>6. CASE UNCHANGED player_input
  BY <1>6
<1>7. CASE /\ ~(m.first < logic_updates[c])
           /\ player_input' = [player_input EXCEPT ![c][slot][m.second] = m.event]
  <2>1. CASE d # c
    BY <1>2, <1>7, <2>1
  <2>2. CASE d = c
    <3>1. player_input'[c][k][p] =
            IF k = slot /\ p = m.second THEN m.event ELSE player_input[c][k][p]
      BY ONLY <1>2, <1>5, <1>7, CellWritten, k \in Slot, p \in Player, c \in Client
    <3>2. CASE k = slot /\ p = m.second
      <4>1. m.first \in logic_updates[c] .. logic_updates[c] + NetQueue - 1
        BY <1>1, <1>2, <1>3, <1>7, TurnInWindow
      <4>2. p \in DOMAIN roster[c] /\ m.event = InputOf(roster[c][p], m.first)
        BY <1>3, <3>2 DEF TurnFor
      <4>3. PICK f \in logic_updates[c] .. logic_updates[c] + NetQueue - 1 :
              /\ NETQUEUE_SLOT(f) = k
              /\ player_input[c][k][p] = InputOf(roster[c][p], f)
        BY <1>1, <2>2, <4>2 DEF Frames
      <4>4. f = m.first
        <5>1. logic_updates[c] \in Nat
          BY <1>1 DEF TypeOK, ClientTypeOK
        <5>2. NETQUEUE_SLOT(f) = NETQUEUE_SLOT(m.first)
          BY <3>2, <4>3 DEF slot
        <5>3. /\ NetQueue \in Nat /\ f \in Nat
              /\ m.first - f < NetQueue /\ f - m.first < NetQueue
          BY <1>5, <4>1, <5>1, NetQueueAssumption
        <5>4. ~(f < m.first)
          BY ONLY <1>5, <5>2, <5>3, SlotsApart
        <5>5. ~(m.first < f)
          BY ONLY <1>5, <5>2, <5>3, SlotsApart
        <5> QED
          BY ONLY <1>5, <5>3, <5>4, <5>5
      <4> QED
        BY <2>2, <3>1, <3>2, <4>2, <4>3, <4>4
    <3>3. CASE ~(k = slot /\ p = m.second)
      BY <2>2, <3>1, <3>3
    <3> QED
      BY <3>2, <3>3
  <2> QED
    BY <2>1, <2>2
<1> QED
  BY <1>4, <1>6, <1>7

\* Under the same assumptions an input that was received stays in its slot until its
\* frame was simulated (the frame queue of network.cc wraps around).
THEOREM ReceivedIsAlwaysKept ==
  ASSUME FitForLockstep
  PROVE  Spec => ReceivedIsKept
<1> DEFINE Kept == \A c \in Client, k \in Slot, p \in Player :
                     player_received[c][k][p] /\ player_received'[c][k][p] =>
                       player_input'[c][k][p] = player_input[c][k][p]
<1>1. Init => Inv
  BY InvInit
<1>2. Inv /\ [Next]_vars => Inv'
  BY InvNext
<1>3. Inv /\ [Next]_vars => [Kept]_vars
  <2> SUFFICES ASSUME Inv, Next PROVE Kept
    OBVIOUS
  <2>1. ASSUME NEW c \in Client, Ingress(c) PROVE Kept
    BY <2>1, TakesSameInput
  <2>2. ASSUME UNCHANGED player_input PROVE Kept
    BY <2>2
  <2>3. ASSUME NEW c \in Client, ClientStep(c) \/ ClientFault(c)
        PROVE  Ingress(c) \/ UNCHANGED player_input
    BY <2>3 DEF ClientStep, ClientFault, SendHandshake, ReceiveStart, GiveUp, Exit2,
       Tick, SendFails, Close, Simulate, Stall, ingress
  <2>4. UNCHANGED client => UNCHANGED player_input
    BY DEF client, ingress
  <2> HIDE DEF Kept
  <2> QED
    BY <2>1, <2>2, <2>3, <2>4 DEF Next
<1> QED
  BY <1>1, <1>2, <1>3, PTL DEF Spec, ReceivedIsKept

\* Under the same assumptions the players of one game run under different
\* player ids ("Unique id for this game", network.cc:34).
THEOREM IdsAreUnique ==
  ASSUME FitForLockstep
  PROVE  Spec => []UniqueIds
<1>1. Init => Inv
  BY InvInit
<1>2. Inv /\ [Next]_vars => Inv'
  BY InvNext
<1>3. Inv => UniqueIds
  <2> SUFFICES ASSUME Inv, NEW c \in Client, NEW d \in Client, c # d,
                      Running(c), Running(d), roster[c] = roster[d]
               PROVE  player_id[c] # player_id[d]
    BY DEF UniqueIds
  <2>1. /\ roster[c][player_id[c]] = c
        /\ roster[d][player_id[d]] = d
    BY DEF Inv, AgreementInv, Introduced, Unintroduced, Running
  <2> QED
    BY <2>1
<1> QED
  BY <1>1, <1>2, <1>3, PTL DEF Spec

-----------------------------------------------------------------------------
(* The server's table, whatever the network and the processes do.          *)

\* TableOK but for the games that could start, of any table.
Distinct(table, bound) ==
  /\ \A i, j \in Player :
       i # j /\ table[i].peer = table[j].peer => table[i].peer = NoPeer
  /\ \A i, j \in Player :
       i # j /\ table[i].game_id = table[j].game_id /\ table[i].game_id # 0
         => table[i].player_id # table[j].player_id
  /\ \A i \in Player :
       /\ table[i].game_id < bound
       /\ table[i].game_id # 0 => table[i].player_id < table[i].num_players

\* No game that could start waits.
Started(table) ==
  \A n \in 1 .. MaxPlayer : Cardinality(Waiting(table, n)) < n

TableInv == Requests /\ Distinct(player, next_game_id) /\ Started(player)

LEMMA TableInvIsTableOK ==
  ASSUME TypeOK, TableInv
  PROVE  TableOK
<1>1. ASSUME NEW n \in {NumPlayers[c] : c \in Client} \ {0}
      PROVE  Cardinality(Waiting(player, n)) < n
  <2>1. n \in Nat /\ n > 0
    BY NumPlayersAssumption
  <2>2. Cardinality(Waiting(player, n)) \in 0 .. MaxPlayer
    BY WaitingSize
  <2>3. n \in 1 .. MaxPlayer => Cardinality(Waiting(player, n)) < n
    BY DEF TableInv, Started
  <2> QED
    BY <2>1, <2>2, <2>3, MaxPlayerAssumption
<1> QED
  BY <1>1 DEF TableOK, TableInv, Distinct

\* Fewer players wait, or the same.
LEMMA StillStarted ==
  ASSUME NEW table, Started(table), NEW new,
         \A n \in 1 .. MaxPlayer : Waiting(new, n) \subseteq Waiting(table, n)
  PROVE  Started(new)
<1>1. SUFFICES ASSUME NEW n \in 1 .. MaxPlayer
               PROVE  Cardinality(Waiting(new, n)) < n
  BY DEF Started
<1>2. /\ IsFiniteSet(Waiting(table, n))
      /\ Cardinality(Waiting(table, n)) \in Nat
      /\ Cardinality(Waiting(new, n)) \in Nat
  BY WaitingSize
<1>3. Cardinality(Waiting(new, n)) <= Cardinality(Waiting(table, n))
  BY <1>2, FS_Subset
<1>4. Cardinality(Waiting(table, n)) < n
  BY DEF Started
<1> QED
  BY <1>2, <1>3, <1>4

\* Slots that are emptied, and slots whose sequence alone changes.
LEMMA TableKept ==
  ASSUME NEW table \in [Player -> PlayerState], NEW bound \in Nat \ {0},
         Distinct(table, bound), Started(table),
         NEW new \in [Player -> PlayerState],
         \A i \in Player :
           \/ new[i] = ZeroPlayer
           \/ /\ new[i].peer = table[i].peer
              /\ new[i].num_players = table[i].num_players
              /\ new[i].game_id = table[i].game_id
              /\ new[i].player_id = table[i].player_id
  PROVE  Distinct(new, bound) /\ Started(new)
<1>1. /\ ZeroPlayer.peer = NoPeer /\ ZeroPlayer.game_id = 0
      /\ ZeroPlayer.num_players = 0
  BY DEF ZeroPlayer
<1>2. Distinct(new, bound)
  <2>1. 0 < bound
    OBVIOUS
  <2> QED
    BY <1>1, <2>1 DEF Distinct
<1>3. \A n \in 1 .. MaxPlayer : Waiting(new, n) \subseteq Waiting(table, n)
  BY <1>1 DEF Waiting
<1> QED
  BY <1>2, <1>3, StillStarted

\* A peer that was not known takes a free slot.
LEMMA AcceptedDistinct ==
  ASSUME TypeOK, Distinct(player, next_game_id), NEW c \in Client,
         NEW n \in Nat, n > 0, NEW i \in Player, player[i] = ZeroPlayer,
         ~Known(c), NEW table, table = Accepted(c, n, i)
  PROVE  /\ table \in [Player -> PlayerState]
         /\ Distinct(table, next_game_id)
         /\ \A m \in Nat : m > 0 /\ m # n =>
              Waiting(table, m) = Waiting(player, m)
         /\ Waiting(table, n) = Waiting(player, n) \cup {i}
         /\ i \notin Waiting(player, n)
<1>1. player \in [Player -> PlayerState] /\ next_game_id \in Nat \ {0}
  BY DEF TypeOK, ServerTypeOK
<1>2. table \in [Player -> PlayerState]
  BY AcceptedType DEF TypeOK
<1>3. /\ table[i].peer = c /\ table[i].num_players = n /\ table[i].game_id = 0
      /\ \A j \in Player : j # i => table[j] = player[j]
  BY <1>1 DEF Accepted
<1>4. player[i].num_players = 0
  BY DEF ZeroPlayer
<1>5. \A m \in Nat : m > 0 /\ m # n => Waiting(table, m) = Waiting(player, m)
  BY <1>3, <1>4 DEF Waiting
<1>6. /\ Waiting(table, n) = Waiting(player, n) \cup {i}
      /\ i \notin Waiting(player, n)
  BY <1>3, <1>4 DEF Waiting
<1>7. Distinct(table, next_game_id)
  <2>1. \A j \in Player : player[j].peer # c
    BY DEF Known, IsAt
  <2>2. 0 < next_game_id
    BY <1>1
  <2> QED
    BY <1>3, <2>1, <2>2 DEF Distinct
<1> QED
  BY <1>2, <1>5, <1>6, <1>7

\* A game starts for those who wait: they get ids below their number, each its
\* own, in a game that is not anybody else's.
LEMMA GreetDistinct ==
  ASSUME NEW table \in [Player -> PlayerState], next_game_id \in Nat \ {0},
         Distinct(table, next_game_id), NEW n \in Nat, n > 0,
         NEW waiting, waiting = Waiting(table, n), Cardinality(waiting) <= n,
         Greet(table, waiting, n)
  PROVE  /\ Distinct(player, next_game_id)'
         /\ \A m \in 1 .. MaxPlayer :
              /\ Waiting(player', m) \subseteq Waiting(table, m)
              /\ m = n => Waiting(player', m) = {}
<1>1. waiting \in SUBSET Player /\ IsFiniteSet(waiting)
      /\ Cardinality(waiting) \in Nat
      /\ \A i \in waiting : table[i].num_players = n
  <2>1. /\ waiting \in SUBSET Player /\ IsFiniteSet(waiting)
        /\ Cardinality(waiting) \in 0 .. MaxPlayer
    BY WaitingSize
  <2>2. \A i \in waiting : table[i].num_players = n
    BY DEF Waiting
  <2> QED
    BY <2>1, <2>2, MaxPlayerAssumption
<1>2. /\ player' = [i \in Player |->
                      IF i \in waiting
                        THEN [table[i] EXCEPT !.game_id = next_game_id,
                                              !.player_id = NewId(waiting, i)]
                        ELSE table[i]]
      /\ next_game_id' = next_game_id + 1
  BY DEF Greet
<1>3. ASSUME NEW i \in waiting
      PROVE  NewId(waiting, i) \in Nat /\ NewId(waiting, i) < n
  <2>1. NewId(waiting, i) \in Player
        /\ NewId(waiting, i) < Cardinality(waiting)
    BY <1>1, NewIdType
  <2> QED
    BY <1>1, <2>1 DEF Player
<1>4. ASSUME NEW i \in waiting
      PROVE  /\ player'[i].peer = table[i].peer
             /\ player'[i].num_players = n
             /\ player'[i].game_id = next_game_id
             /\ player'[i].player_id = NewId(waiting, i)
  <2>1. i \in Player /\ table[i] \in PlayerState
    BY <1>1
  <2> QED
    BY <1>1, <1>2, <2>1 DEF PlayerState
<1>5. /\ \A i \in Player : i \notin waiting => player'[i] = table[i]
      /\ next_game_id' = next_game_id + 1 /\ next_game_id \in Nat
  BY <1>2
<1>6. \A i \in Player : table[i].game_id < next_game_id
                        /\ table[i].game_id \in Nat
  <2>1. \A i \in Player : table[i].game_id \in Nat
    BY DEF PlayerState
  <2> QED
    BY <2>1 DEF Distinct
<1>7. \A i \in Player : i \in waiting <=> player'[i].game_id = next_game_id
  BY <1>4, <1>5, <1>6
<1>8. ASSUME NEW i \in Player, NEW j \in Player, i # j,
             player'[i].peer = player'[j].peer
      PROVE  player'[i].peer = NoPeer
  <2>1. player'[i].peer = table[i].peer /\ player'[j].peer = table[j].peer
    BY <1>4, <1>5
  <2> QED
    BY <1>8, <2>1 DEF Distinct
<1>9. ASSUME NEW i \in Player, NEW j \in Player, i # j,
             player'[i].game_id = player'[j].game_id, player'[i].game_id # 0
      PROVE  player'[i].player_id # player'[j].player_id
  <2>1. CASE i \in waiting
    <3>1. j \in waiting
      BY <1>7, <1>9, <2>1
    <3>2. NewId(waiting, i) # NewId(waiting, j)
      BY <1>1, <1>9, <2>1, <3>1, NewIdInjective
    <3> QED
      BY <1>4, <2>1, <3>1, <3>2
  <2>2. CASE i \notin waiting
    <3>1. j \notin waiting
      BY <1>7, <1>9, <2>2
    <3> QED
      BY <1>5, <1>9, <2>2, <3>1 DEF Distinct
  <2> QED
    BY <2>1, <2>2
<1>10. ASSUME NEW i \in Player
       PROVE  /\ player'[i].game_id < next_game_id'
              /\ player'[i].game_id # 0
                   => player'[i].player_id < player'[i].num_players
  <2>1. CASE i \in waiting
    BY <1>3, <1>4, <1>5, <2>1
  <2>2. CASE i \notin waiting
    BY <1>5, <1>6, <2>2 DEF Distinct
  <2> QED
    BY <2>1, <2>2
<1>11. ASSUME NEW m \in 1 .. MaxPlayer, NEW i \in Waiting(player', m)
       PROVE  i \in Waiting(table, m) /\ i \notin waiting
  <2>1. i \in Player /\ player'[i].game_id = 0 /\ player'[i].num_players = m
    BY <1>11 DEF Waiting
  <2>2. i \notin waiting
    BY <1>7, <2>1
  <2> QED
    BY <1>5, <2>1, <2>2 DEF Waiting
<1> QED
  BY <1>8, <1>9, <1>10, <1>11 DEF Distinct

LEMMA HandshakeTable ==
  ASSUME TypeOK, TypeOK', TableInv, NEW c \in Client, HandleHandshake(c)
  PROVE  Distinct(player, next_game_id)' /\ Started(player)'
<1> DEFINE n == Head(toServer[c]).num_players
           i == First(Free)
           table == Accepted(c, n, i)
           waiting == Waiting(table, n)
<1>1. /\ Received(c) /\ Head(toServer[c]).kind = "handshake"
      /\ IF Free = {} \/ Known(c)
           THEN UNCHANGED <<toClient, faults, server>>
           ELSE IF Cardinality(waiting) >= n
                  THEN Greet(table, waiting, n)
                  ELSE player' = table /\ UNCHANGED next_game_id
  BY DEF HandleHandshake
<1>2. n \in Nat /\ n > 0
  <2>1. toServer[c] \in Seq(Request)
    BY RequestsAreRequest DEF TableInv, TypeOK
  <2>2. Head(toServer[c]) \in Request
    BY <1>1, <2>1 DEF Received
  <2> QED
    BY <1>1, <2>2 DEF Request, ToServer
<1> HIDE DEF n
<1>3. CASE Free = {} \/ Known(c)
  BY <1>1, <1>3 DEF TableInv, Distinct, Started, Waiting, server
<1>4. CASE ~(Free = {} \/ Known(c))
  <2>1. i \in Player /\ player[i] = ZeroPlayer
    BY <1>4, FirstType DEF Free
  <2> HIDE DEF i
  <2>2. /\ table \in [Player -> PlayerState]
        /\ Distinct(table, next_game_id)
        /\ \A m \in Nat : m > 0 /\ m # n =>
             Waiting(table, m) = Waiting(player, m)
        /\ waiting = Waiting(player, n) \cup {i}
        /\ i \notin Waiting(player, n)
    BY <1>2, <1>4, <2>1, AcceptedDistinct DEF TableInv
  <2>3. \A m \in 1 .. MaxPlayer : Cardinality(Waiting(player, m)) < m
    BY DEF TableInv, Started
  <2>4. Cardinality(waiting) \in 0 .. MaxPlayer
    BY WaitingSize
  <2>5. waiting = Waiting(table, n)
    OBVIOUS
  <2>6. next_game_id \in Nat \ {0}
    BY DEF TypeOK, ServerTypeOK
  <2> HIDE DEF table, waiting
  <2>7. CASE ~(Cardinality(waiting) >= n)
    <3>1. player' = table /\ next_game_id' = next_game_id
      BY <1>1, <1>4, <2>7
    <3>2. ASSUME NEW m \in 1 .. MaxPlayer
          PROVE  Cardinality(Waiting(table, m)) < m
      <4>1. CASE m = n
        BY <1>2, <2>4, <2>5, <2>7, <4>1
      <4>2. CASE m # n
        BY <2>2, <2>3, <4>2
      <4> QED
        BY <4>1, <4>2
    <3> QED
      BY <2>2, <3>1, <3>2 DEF Distinct, Started, Waiting
  <2>8. CASE Cardinality(waiting) >= n
    <3>1. Greet(table, waiting, n)
      BY <1>1, <1>4, <2>8
    <3>2. Cardinality(waiting) <= n
      <4>1. n \in 1 .. MaxPlayer
        BY <1>2, <2>4, <2>8, MaxPlayerAssumption
      <4>2. /\ IsFiniteSet(Waiting(player, n))
            /\ Cardinality(Waiting(player, n)) \in Nat
            /\ Cardinality(Waiting(player, n)) < n
        BY <2>3, <4>1, WaitingSize
      <4>3. Cardinality(waiting) = Cardinality(Waiting(player, n)) + 1
        BY <2>2, <4>2, FS_AddElement
      <4> QED
        BY <1>2, <4>2, <4>3
    <3>3. /\ Distinct(player, next_game_id)'
          /\ \A m \in 1 .. MaxPlayer :
               /\ Waiting(player', m) \subseteq Waiting(table, m)
               /\ m = n => Waiting(player', m) = {}
      BY <1>2, <2>2, <2>5, <2>6, <3>1, <3>2, GreetDistinct
    <3>4. \A m \in 1 .. MaxPlayer :
            Waiting(player', m) \subseteq Waiting(player, m)
      BY <2>2, <3>3
    <3>5. Started(player')
      BY <3>4, StillStarted DEF TableInv
    <3> QED
      BY <3>3, <3>5 DEF Started, Waiting
  <2> QED
    BY <2>7, <2>8
<1> QED
  BY <1>3, <1>4

\* Every other step of the server empties slots, or changes no more than a
\* sequence.
LEMMA ServerTable ==
  ASSUME TypeOK, TypeOK', TableInv, ServerNext
  PROVE  Distinct(player, next_game_id)' /\ Started(player)'
<1>1. /\ player \in [Player -> PlayerState] /\ next_game_id \in Nat \ {0}
      /\ player' \in [Player -> PlayerState]
  BY DEF TypeOK, ServerTypeOK
<1>2. CASE \E c \in Client : HandleHandshake(c)
  BY <1>2, HandshakeTable
<1>3. ASSUME NEW bound \in Nat \ {0}, Distinct(player, bound),
             next_game_id' = bound,
             \A i \in Player :
               \/ player'[i] = ZeroPlayer
               \/ /\ player'[i].peer = player[i].peer
                  /\ player'[i].num_players = player[i].num_players
                  /\ player'[i].game_id = player[i].game_id
                  /\ player'[i].player_id = player[i].player_id
      PROVE  Distinct(player, next_game_id)' /\ Started(player)'
  <2>1. Distinct(player', bound) /\ Started(player')
    BY <1>1, <1>3, TableKept DEF TableInv
  <2> QED
    BY <1>3, <2>1 DEF Distinct, Started, Waiting
<1>4. CASE \E c \in Client : HandleTurn(c)
  <2>1. PICK c \in Client : HandleTurn(c)
    BY <1>4
  <2>2. \/ UNCHANGED player
        \/ \E i \in Player : \E s :
             IsNext(i, Head(toServer[c]))
               /\ player' = [player EXCEPT ![i].sequence = s]
    BY <2>1 DEF HandleTurn
  <2>3. \A i \in Player : /\ player'[i].peer = player[i].peer
                          /\ player'[i].num_players = player[i].num_players
                          /\ player'[i].game_id = player[i].game_id
                          /\ player'[i].player_id = player[i].player_id
    BY <1>1, <2>2 DEF PlayerState
  <2>4. next_game_id' = next_game_id
    BY <2>1 DEF HandleTurn
  <2> QED
    BY <1>1, <1>3, <2>3, <2>4 DEF TableInv
<1>5. CASE ClockTick \/ DropInactive
  <2>1. \A i \in Player : player'[i] = ZeroPlayer \/ player'[i] = player[i]
    BY <1>1, <1>5 DEF ClockTick, DropInactive
  <2>2. next_game_id' = next_game_id
    BY <1>5 DEF ClockTick, DropInactive
  <2> QED
    BY <1>1, <1>3, <2>1, <2>2 DEF TableInv
<1>6. CASE Restart
  <2>1. \A i \in Player : player'[i] = ZeroPlayer
    BY <1>6 DEF Restart
  <2>2. Distinct(player', 1)
    BY <2>1 DEF Distinct, ZeroPlayer
  <2>3. \A n \in 1 .. MaxPlayer : Waiting(player', n) \subseteq Waiting(player, n)
    BY <2>1 DEF Waiting, ZeroPlayer
  <2>4. Started(player')
    BY <2>3, StillStarted DEF TableInv
  <2>5. next_game_id' = 1
    BY <1>6 DEF Restart
  <2> QED
    BY <2>2, <2>4, <2>5 DEF Distinct, Started, Waiting
<1> QED
  BY <1>2, <1>4, <1>5, <1>6 DEF ServerNext

LEMMA TableNext ==
  ASSUME \A c \in Client : NumPlayers[c] > 0, TypeOK, TypeOK', TableInv,
         [Next]_vars
  PROVE  TableInv'
<1>1. \A d \in Client : toServer[d] \in Seq(Request)
  BY RequestsAreRequest DEF TableInv, TypeOK
<1>2. ASSUME \A d \in Client : toServer'[d] \in Seq(Request)
      PROVE  Requests'
  BY <1>2, RequestsAreRequest DEF TypeOK
<1>3. CASE ServerNext
  <2>1. Distinct(player, next_game_id)' /\ Started(player)'
    BY <1>3, ServerTable
  <2>2. \/ UNCHANGED toServer \/ toServer' = [c \in Client |-> <<>>]
        \/ \E c \in Client : Received(c)
    BY <1>3 DEF ServerNext, HandleHandshake, HandleTurn, ClockTick,
                DropInactive, Restart, network
  <2>3. ASSUME NEW c \in Client, Received(c), NEW d \in Client
        PROVE  toServer'[d] \in Seq(Request)
    <3>1. toServer[c] \in Seq(Request) /\ toServer[c] # <<>>
      BY <1>1, <2>3 DEF Received
    <3>2. Tail(toServer[c]) \in Seq(Request)
      BY <3>1
    <3> QED
      BY <1>1, <2>3, <3>2 DEF Received, TypeOK, NetworkTypeOK
  <2>4. <<>> \in Seq(Request)
    OBVIOUS
  <2> QED
    BY <1>1, <1>2, <2>1, <2>2, <2>3, <2>4 DEF TableInv
<1>4. CASE UNCHANGED server
  <2>1. Distinct(player, next_game_id)' /\ Started(player)'
    BY <1>4 DEF TableInv, Distinct, Started, Waiting, server
  <2>2. CASE UNCHANGED toServer
    BY <1>1, <1>2, <2>1, <2>2 DEF TableInv
  <2>3. CASE \E c \in Client : ClientStep(c) \/ ClientFault(c)
    BY <2>1, <2>3, ClientRequests DEF TableInv
  <2>4. CASE NetworkFault
    <3>1. PICK c \in Client :
            \/ UNCHANGED toServer
            \/ \E q \in Lost(toServer[c]) \cup Copied(toServer[c])
                          \cup Delayed(toServer[c]) :
                 toServer' = [toServer EXCEPT ![c] = q]
      BY <2>4 DEF NetworkFault, LoseUp, CopyUp, DelayUp, FaultUp,
                  LoseDown, CopyDown, DelayDown, FaultDown
    <3>2. Lost(toServer[c]) \cup Copied(toServer[c]) \cup Delayed(toServer[c])
            \subseteq Seq(Request)
      BY <1>1, FaultsType
    <3>3. \A d \in Client : toServer'[d] \in Seq(Request)
      BY <1>1, <3>1, <3>2 DEF TypeOK, NetworkTypeOK
    <3> QED
      BY <1>2, <2>1, <3>3 DEF TableInv
  <2>5. \/ UNCHANGED toServer \/ NetworkFault
        \/ \E c \in Client : ClientStep(c) \/ ClientFault(c)
        \/ ServerNext
    BY DEF Next, vars, network
  <2> QED
    BY <1>3, <2>2, <2>3, <2>4, <2>5
<1> QED
  BY <1>3, <1>4 DEF Next, vars

\* As long as every client asks for at least one player, and whatever is lost,
\* repeated, delayed, dropped or restarted, a peer has one slot of the server,
\* the players of a game have different ids below their number, and no game
\* that could start waits (server.cc:132).
THEOREM TableIsOK ==
  ASSUME \A c \in Client : NumPlayers[c] > 0
  PROVE  Spec => []TableOK
<1>1. Init => TypeOK /\ TableInv
  <2>1. Init => TypeOK
    BY InitType
  <2>2. ASSUME Init
        PROVE  TableInv
    <3>1. /\ player = [i \in Player |-> ZeroPlayer] /\ next_game_id = 1
          /\ toServer = [c \in Client |-> <<>>]
      BY <2>2 DEF Init, ServerInit, NetworkInit
    <3>2. Requests
      BY <3>1 DEF Requests
    <3>3. Distinct(player, next_game_id)
      BY <3>1 DEF Distinct, ZeroPlayer
    <3>4. ASSUME NEW n \in 1 .. MaxPlayer
          PROVE  Cardinality(Waiting(player, n)) < n
      <4>1. Waiting(player, n) = {}
        BY <3>1 DEF Waiting, ZeroPlayer
      <4> QED
        BY <4>1, FS_EmptySet
    <3> QED
      BY <3>2, <3>3, <3>4 DEF TableInv, Started
  <2> QED
    BY <2>1, <2>2
<1>2. TypeOK /\ TableInv /\ [Next]_vars => TypeOK' /\ TableInv'
  BY NextType, TableNext
<1>3. TypeOK /\ TableInv => TableOK
  BY TableInvIsTableOK
<1> QED
  BY <1>1, <1>2, <1>3, PTL DEF Spec
=============================================================================
