--------------------------- MODULE DeliveryProofs ---------------------------
(***************************************************************************)
(* What the repeated sending, the acknowledgements and the echo achieve in *)
(* a game that is fit for lockstep: a turn stays in its client's history   *)
(* until the server has accepted it, every turn is echoed once and in      *)
(* order, and the game implements Lockstep.                                *)
(***************************************************************************)
EXTENDS LockstepProofs

\* Whatever follows the NotifyStart of a client is an echo.
Echoes(c) ==
  \A k \in DOMAIN toClient[c] :
    pc[c] = "nogame" \/ (pc[c] = "handshake" /\ k = 1)
      \/ toClient[c][k].sent_as = "turn"

\* The server has accepted every turn that is on its way to a client.
AcceptedTurns(c) ==
  \A k \in DOMAIN toClient[c], i \in Player :
    LET m == toClient[c][k]
    IN  m.sent_as = "turn" /\ m.second \in DOMAIN roster[c]
          /\ player[i].peer = roster[c][m.second]
        => m.first <= player[i].sequence

\* EchoInOrder, client by client.
InOrder(c) ==
  \A k \in DOMAIN toClient[c], l \in DOMAIN toClient[c] :
    LET m == toClient[c][k]
        n == toClient[c][l]
    IN  k < l /\ m.sent_as = "turn" /\ n.sent_as = "turn"
          /\ m.second = n.second
          => m.first < n.first

\* The server is behind the client, and ahead of what the client knows to be
\* acknowledged.
Between(c) ==
  \A i \in Player :
    IsAt(c, i) =>
      /\ player[i].sequence < outgoing_sequence[c]
      /\ Running(c) => LocalAck(c) <= player[i].sequence

\* The client has the acknowledgement of every turn of its own that it has
\* simulated or received.
OwnTurns(c) ==
  Running(c) =>
    /\ logic_updates[c] <= LocalAck(c) + 1
    /\ \A k \in Slot :
         player_received[c][k][player_id[c]] =>
           \E f \in logic_updates[c] .. logic_updates[c] + NetQueue - 1 :
             NETQUEUE_SLOT(f) = k /\ f <= LocalAck(c)

Delivery(c) ==
  /\ Echoes(c) /\ AcceptedTurns(c) /\ InOrder(c) /\ Between(c) /\ OwnTurns(c)
  /\ pc[c] # "exit2"

DeliveryInv == \A c \in Client : Delivery(c)

-----------------------------------------------------------------------------
(* The steps of a client.                                                  *)

\* A client whose mail, turns and acknowledgements stay, and whose server
\* stays.
LEMMA DeliveryKept ==
  ASSUME NEW d \in Client, Delivery(d), UNCHANGED <<player, roster>>,
         UNCHANGED <<toClient[d], pc[d], outgoing_sequence[d], outgoing_ack[d],
                     player_id[d], player_received[d], logic_updates[d]>>
  PROVE  Delivery(d)'
<1>1. Echoes(d)' /\ AcceptedTurns(d)' /\ InOrder(d)'
  BY DEF Delivery, Echoes, AcceptedTurns, InOrder
<1>2. Between(d)' /\ OwnTurns(d)'
  BY DEF Delivery, Between, OwnTurns, IsAt, Running, LocalAck
<1> QED
  BY <1>1, <1>2 DEF Delivery

\* A client that runs has a slot of the server.
LEMMA RunnerIsAt ==
  ASSUME Inv, NEW c \in Client, Running(c)
  PROVE  /\ roster[c] # NoGame /\ \E i \in Player : IsAt(c, i)
         /\ player_id[c] \in DOMAIN roster[c] /\ roster[c][player_id[c]] = c
<1>1. Introduced(c) /\ Greeted(c) /\ ~Unintroduced(c)
  BY DEF Inv, AgreementInv, Running, Unintroduced
<1>2. player_id[c] \in DOMAIN roster[c] /\ roster[c][player_id[c]] = c
  BY <1>1 DEF Introduced
<1>3. roster[c] # NoGame
  BY <1>2, NoGameIsEmpty
<1> QED
  BY <1>1, <1>2, <1>3 DEF Greeted

\* The numbers a client compares.
LEMMA DeliveryTypes ==
  ASSUME TypeOK, NEW c \in Client
  PROVE  /\ LocalAck(c) \in Nat /\ outgoing_sequence[c] \in Nat \ {0}
         /\ logic_updates[c] \in Nat /\ player_id[c] \in Player
         /\ outgoing_ack[c] \in [Player -> Nat]
         /\ toClient[c] \in Seq(ToClient) /\ Len(toClient[c]) \in Nat
         /\ \A i \in Player : player[i].sequence \in Nat
<1>1. \A i \in Player : player[i] \in PlayerState
  BY DEF TypeOK, ServerTypeOK
<1> QED
  BY <1>1 DEF TypeOK, ClientTypeOK, NetworkTypeOK, LocalAck, PlayerState

\* No client is too far ahead of its acknowledgement.
LEMMA NeverTooFar ==
  ASSUME Inv, FitForLockstep, NEW c \in Client, Delivery(c), pc[c] = "input"
  PROVE  ~Overrun(c)
<1>1. Running(c) /\ ~Ended(c)
  BY DEF Running, Ended
<1>2. PICK i \in Player : IsAt(c, i)
  BY <1>1, RunnerIsAt
<1>3. /\ player[i].sequence < outgoing_sequence[c]
      /\ LocalAck(c) <= player[i].sequence
  BY <1>1, <1>2 DEF Delivery, Between
<1>4. logic_updates[c] <= LocalAck(c) + 1
  BY <1>1 DEF Delivery, OwnTurns
<1>5. outgoing_sequence[c] - logic_updates[c] <= MaxLatency
  <2>1. Pace(c)
    BY DEF Inv, AgreementInv
  <2> QED
    BY <1>1, <2>1 DEF Pace
<1>6. /\ LocalAck(c) \in Nat /\ outgoing_sequence[c] \in Nat
      /\ logic_updates[c] \in Nat /\ player[i].sequence \in Nat
  BY DeliveryTypes DEF Inv
<1>7. MaxLatency \in Nat /\ MaxSkew \in Nat \ {0} /\ NetQueue \in Nat
      /\ MaxLatency + MaxSkew < NetQueue
  BY PaceAssumption, NetQueueAssumption DEF FitForLockstep
<1> QED
  BY <1>3, <1>4, <1>5, <1>6, <1>7 DEF Overrun

\* What a client leaves in flight when it takes a datagram was there before.
LEMMA TailDelivered ==
  ASSUME TypeOK, NEW c \in Client, Receives(c), Delivery(c),
         UNCHANGED <<player, roster>>,
         pc'[c] = pc[c] \/ pc[c] = "handshake"
  PROVE  Echoes(c)' /\ AcceptedTurns(c)' /\ InOrder(c)'
<1>1. toClient[c] \in Seq(ToClient) /\ toClient[c] # <<>>
      /\ toClient'[c] = Tail(toClient[c])
  BY DEF TypeOK, NetworkTypeOK, Receives
<1>2. ASSUME NEW k \in DOMAIN toClient'[c]
      PROVE  /\ k \in Nat \ {0} /\ k + 1 \in DOMAIN toClient[c]
             /\ toClient'[c][k] = toClient[c][k + 1]
  BY <1>1
<1>3. Echoes(c)'
  <2>1. ASSUME NEW k \in DOMAIN toClient'[c]
        PROVE  pc[c] = "nogame" \/ toClient'[c][k].sent_as = "turn"
    <3>1. k + 1 # 1
      BY <1>2
    <3> QED
      BY <1>2, <3>1 DEF Delivery, Echoes
  <2> QED
    BY <2>1 DEF Echoes
<1>4. AcceptedTurns(c)'
  <2>1. ASSUME NEW k \in DOMAIN toClient'[c], NEW i \in Player
        PROVE  LET m == toClient'[c][k]
               IN  m.sent_as = "turn" /\ m.second \in DOMAIN roster[c]
                     /\ player[i].peer = roster[c][m.second]
                   => m.first <= player[i].sequence
    BY <1>2 DEF Delivery, AcceptedTurns
  <2> QED
    BY <2>1 DEF AcceptedTurns
<1>5. InOrder(c)'
  <2>1. SUFFICES ASSUME NEW k \in DOMAIN toClient'[c],
                        NEW l \in DOMAIN toClient'[c], k < l
                 PROVE  LET m == toClient'[c][k]
                            n == toClient'[c][l]
                        IN  m.sent_as = "turn" /\ n.sent_as = "turn"
                              /\ m.second = n.second
                              => m.first < n.first
    BY DEF InOrder
  <2>2. k + 1 \in DOMAIN toClient[c] /\ l + 1 \in DOMAIN toClient[c] /\ k + 1 < l + 1
    BY <1>2, <2>1
  <2>3. toClient'[c][k] = toClient[c][k + 1] /\ toClient'[c][l] = toClient[c][l + 1]
    BY <1>2
  <2> QED
    BY <2>2, <2>3 DEF Delivery, InOrder
<1> QED
  BY <1>3, <1>4, <1>5

\* Nothing arrives and nothing is taken.
LEMMA MailStays ==
  ASSUME NEW c \in Client, Delivery(c), UNCHANGED <<player, roster, toClient[c]>>,
         pc'[c] = "nogame" \/ pc[c] \notin {"handshake", "nogame"}
  PROVE  Echoes(c)' /\ AcceptedTurns(c)' /\ InOrder(c)'
BY DEF Delivery, Echoes, AcceptedTurns, InOrder

\* The client is introduced: nothing is acknowledged yet.
LEMMA ReceiveStartDelivers ==
  ASSUME Inv, TypeOK', NEW c \in Client, Delivery(c), ReceiveStart(c),
         UNCHANGED server
  PROVE  Delivery(c)'
<1>1. /\ pc[c] = "handshake" /\ Receives(c)
      /\ UNCHANGED <<player, roster, outgoing_sequence, outgoing_ack>>
      /\ UNCHANGED <<player_received, logic_updates>>
      /\ pc'[c] \in {"input", "nogame"}
  BY DEF ReceiveStart, Goto, server, egress, ingress, game, Inv, TypeOK, ClientTypeOK
<1>2. Echoes(c)' /\ AcceptedTurns(c)' /\ InOrder(c)'
  BY <1>1, TailDelivered DEF Inv
<1>3. LocalAck(c)' = 0
  <2>1. \A p \in Player : outgoing_ack[c][p] = 0
    BY <1>1 DEF Inv, HistoryInv
  <2>2. player_id'[c] \in Player
    BY DEF TypeOK, ClientTypeOK
  <2> QED
    BY <1>1, <2>1, <2>2 DEF LocalAck
<1>4. Between(c)'
  <2>1. \A i \in Player : player[i].sequence >= 0
    BY DeliveryTypes DEF Inv
  <2> QED
    BY <1>1, <1>3, <2>1 DEF Delivery, Between, IsAt
<1>5. OwnTurns(c)'
  <2>1. /\ logic_updates[c] = 0
        /\ player_received[c] = [k \in Slot |-> [p \in Player |-> k = 0]]
    BY <1>1 DEF Inv, AgreementInv, Fresh, Unintroduced
  <2>2. player_id'[c] \in Player
    BY DEF TypeOK, ClientTypeOK
  <2>3. ASSUME NEW k \in Slot, player_received[c][k][player_id'[c]]
        PROVE  k = 0
    <3>1. player_received[c][k] = [p \in Player |-> k = 0]
      BY <2>1
    <3> QED
      BY <2>2, <2>3, <3>1
  <2>4. 0 \in 0 .. 0 + NetQueue - 1 /\ NETQUEUE_SLOT(0) = 0
    BY NetQueueAssumption DEF NETQUEUE_SLOT
  <2> QED
    BY <1>1, <1>3, <2>1, <2>3, <2>4 DEF OwnTurns
<1> QED
  BY <1>1, <1>2, <1>4, <1>5 DEF Delivery

\* The client makes a turn.
LEMMA MakeTurnDelivers ==
  ASSUME Inv, NEW c \in Client, Delivery(c), Tick(c) \/ SendFails(c),
         UNCHANGED server
  PROVE  Delivery(c)'
<1>1. /\ pc[c] = "input" /\ pc'[c] \in {"ingress", "exit1"}
      /\ UNCHANGED <<player, roster, toClient, outgoing_ack, player_id>>
      /\ UNCHANGED <<player_received, logic_updates>>
      /\ outgoing_sequence'[c] = outgoing_sequence[c] + 1
  BY DEF Tick, SendFails, MakeTurn, Goto, server, ingress, identity, game,
         Inv, TypeOK, ClientTypeOK
<1>2. Echoes(c)' /\ AcceptedTurns(c)' /\ InOrder(c)'
  BY <1>1, MailStays
<1>3. Between(c)'
  <2>1. ASSUME NEW i \in Player, IsAt(c, i)
        PROVE  player[i].sequence < outgoing_sequence'[c]
               /\ LocalAck(c) <= player[i].sequence
    <3>1. player[i].sequence < outgoing_sequence[c]
          /\ LocalAck(c) <= player[i].sequence
      BY <1>1, <2>1 DEF Delivery, Between, Running
    <3>2. player[i].sequence \in Nat /\ outgoing_sequence[c] \in Nat
      BY DeliveryTypes DEF Inv
    <3> QED
      BY <1>1, <3>1, <3>2
  <2> QED
    BY <1>1, <2>1 DEF Between, IsAt, LocalAck
<1>4. OwnTurns(c)'
  BY <1>1 DEF Delivery, OwnTurns, Running, LocalAck
<1> QED
  BY <1>1, <1>2, <1>3, <1>4 DEF Delivery

\* The client ends, or starts its next iteration.
LEMMA MovingDelivers ==
  ASSUME NEW c \in Client, Delivery(c),
         UNCHANGED <<player, roster, toClient, outgoing_sequence, outgoing_ack>>,
         UNCHANGED <<player_received, logic_updates>>,
         \/ pc'[c] = "nogame"
         \/ Running(c) /\ UNCHANGED player_id /\ pc'[c] \in {"input", "closed"}
  PROVE  Delivery(c)'
<1>1. Echoes(c)' /\ AcceptedTurns(c)' /\ InOrder(c)'
  BY MailStays DEF Running
<1>2. Between(c)' /\ OwnTurns(c)'
  BY DEF Delivery, Between, OwnTurns, IsAt, Running, LocalAck
<1> QED
  BY <1>1, <1>2 DEF Delivery

\* The client simulates a frame: its own turn was among those received.
LEMMA SimulateDelivers ==
  ASSUME Inv, NEW c \in Client, Delivery(c), Simulate(c), UNCHANGED server
  PROVE  Delivery(c)'
<1> DEFINE slot == NETQUEUE_SLOT(logic_updates[c])
<1>1. /\ pc[c] = "ingress" /\ pc'[c] = "input" /\ AllReceived(c)
      /\ UNCHANGED <<player, roster, toClient, outgoing_ack, player_id>>
      /\ UNCHANGED outgoing_sequence
      /\ player_received'[c] =
           [player_received[c] EXCEPT ![slot] = [p \in Player |-> FALSE]]
      /\ logic_updates'[c] = logic_updates[c] + 1
  BY DEF Simulate, Goto, server, network, egress, identity, Inv, TypeOK,
         ClientTypeOK
<1>2. Echoes(c)' /\ AcceptedTurns(c)' /\ InOrder(c)'
  BY <1>1, MailStays
<1>3. Between(c)'
  BY <1>1 DEF Delivery, Between, IsAt, Running, LocalAck
<1>4. /\ logic_updates[c] \in Nat /\ LocalAck(c) \in Nat /\ player_id[c] \in Player
      /\ player_received[c] \in [Slot -> [Player -> BOOLEAN]] /\ slot \in Slot
  BY DeliveryTypes, SlotType DEF Inv, TypeOK, ClientTypeOK
<1>5. OwnTurns(c)
  BY DEF Delivery
<1>6. logic_updates[c] <= LocalAck(c)
  <2>1. player_received[c][slot][player_id[c]]
    <3>1. player_id[c] \in DOMAIN roster[c] /\ Introduced(c) /\ ~Unintroduced(c)
      BY <1>1, RunnerIsAt DEF Running, Inv, AgreementInv, Unintroduced
    <3> QED
      BY <1>1, <1>4, <3>1 DEF AllReceived, Introduced
  <2> HIDE DEF slot
  <2>2. PICK f \in logic_updates[c] .. logic_updates[c] + NetQueue - 1 :
               NETQUEUE_SLOT(f) = slot /\ f <= LocalAck(c)
    BY <1>1, <1>4, <1>5, <2>1 DEF OwnTurns, Running
  <2>3. logic_updates[c] <= f
    BY <1>4, <2>2, NetQueueAssumption
  <2>4. f \in Int
    BY <1>4, <2>2
  <2> QED
    BY <1>4, <2>2, <2>3, <2>4
<1>7. ASSUME NEW k \in Slot, player_received'[c][k][player_id[c]]
      PROVE  \E f \in logic_updates'[c] .. logic_updates'[c] + NetQueue - 1 :
               NETQUEUE_SLOT(f) = k /\ f <= LocalAck(c)
  <2> HIDE DEF slot
  <2>1. k # slot
    <3>1. k = slot => player_received'[c][k] = [p \in Player |-> FALSE]
      BY <1>1, <1>4
    <3> QED
      BY <1>4, <1>7, <3>1
  <2>2. player_received[c][k][player_id[c]]
    BY <1>1, <1>4, <1>7, <2>1
  <2>3. PICK f \in logic_updates[c] .. logic_updates[c] + NetQueue - 1 :
               NETQUEUE_SLOT(f) = k /\ f <= LocalAck(c)
    BY <1>1, <1>5, <2>2 DEF OwnTurns, Running
  <2>4. f # logic_updates[c]
    BY <2>1, <2>3 DEF slot
  <2>5. f \in logic_updates'[c] .. logic_updates'[c] + NetQueue - 1
    <3>1. logic_updates'[c] = logic_updates[c] + 1 /\ logic_updates[c] \in Nat
      BY <1>1, <1>4
    <3> QED
      BY <2>3, <2>4, <3>1, NetQueueAssumption
  <2> QED
    BY <2>3, <2>5
<1>8. OwnTurns(c)'
  BY <1>1, <1>4, <1>6, <1>7 DEF OwnTurns, LocalAck
<1> QED
  BY <1>1, <1>2, <1>3, <1>8 DEF Delivery

\* The client takes an echo: what it acknowledges was accepted.
LEMMA IngressDelivers ==
  ASSUME Inv, FitForLockstep, NEW c \in Client, Delivery(c), Ingress(c),
         UNCHANGED server
  PROVE  Delivery(c)'
<1> DEFINE m == Head(toClient[c])
           slot == NETQUEUE_SLOT(m.first)
<1>1. /\ TypeOK /\ OnlyFaithful /\ Greeted(c) /\ Mail(c) /\ Pace(c)
      /\ Introduced(c)
  BY DEF Inv, AgreementInv
<1>2. pc[c] = "ingress" /\ Receives(c)
  BY DEF Ingress
<1>3. TurnFor(c, m) /\ m \in ToClient /\ 1 \in DOMAIN toClient[c]
      /\ m = toClient[c][1]
  BY <1>1, <1>2, TailOfMail DEF Mail
<1>4. m.sent_as = "turn"
  BY <1>2, <1>3 DEF Delivery, Echoes
<1>5. m.third = m.first
  <2>1. toClient[c] \in Seq(FaithfulEcho)
    BY <1>1 DEF OnlyFaithful
  <2>2. m \in FaithfulEcho
    BY <1>3, <2>1
  <2> QED
    BY <1>4, <2>2 DEF FaithfulEcho
<1> HIDE DEF m
<1>6. m.second \in Player /\ m.first \in Nat /\ slot \in Slot
      /\ m.second \in DOMAIN roster[c]
  BY <1>3, SlotType DEF ToClient, TurnFor
<1>7. /\ UNCHANGED <<player, roster, outgoing_sequence, pc, player_id>>
      /\ UNCHANGED logic_updates
      /\ IF m.first < logic_updates[c]
           THEN UNCHANGED ingress
           ELSE /\ player_received' =
                     [player_received EXCEPT ![c][slot][m.second] = TRUE]
                /\ outgoing_ack' =
                     [outgoing_ack EXCEPT
                        ![c][m.second] = IF m.third > @ THEN m.third ELSE @]
  <2>1. ~(m.second >= MaxPlayer)
    BY <1>6, MaxPlayerAssumption DEF Player
  <2> QED
    BY <2>1 DEF Ingress, m, server, egress, identity, game
<1> HIDE DEF slot
<1>8. Echoes(c)' /\ AcceptedTurns(c)' /\ InOrder(c)'
  BY <1>1, <1>2, <1>7, TailDelivered
<1>9. CASE m.first < logic_updates[c]
  <2>1. Between(c)' /\ OwnTurns(c)'
    BY <1>7, <1>9 DEF Delivery, Between, OwnTurns, IsAt, Running, LocalAck, ingress
  <2> QED
    BY <1>2, <1>7, <1>8, <2>1 DEF Delivery
<1>10. CASE ~(m.first < logic_updates[c])
  <2>1. /\ LocalAck(c) \in Nat /\ logic_updates[c] \in Nat
        /\ player_id[c] \in Player /\ outgoing_ack[c] \in [Player -> Nat]
        /\ \A i \in Player : player[i].sequence \in Nat
    BY <1>1, DeliveryTypes
  <2>2. LocalAck(c)' = IF m.second = player_id[c] /\ m.first > LocalAck(c)
                         THEN m.first ELSE LocalAck(c)
    <3>1. outgoing_ack'[c] =
            [outgoing_ack[c] EXCEPT
               ![m.second] = IF m.first > @ THEN m.first ELSE @]
      BY <1>1, <1>5, <1>7, <1>10 DEF TypeOK, ClientTypeOK
    <3>2. LocalAck(c)' = outgoing_ack'[c][player_id[c]]
      BY <1>7 DEF LocalAck
    <3> QED
      BY <1>6, <2>1, <3>1, <3>2 DEF LocalAck
  <2>3. LocalAck(c) <= LocalAck(c)' /\ LocalAck(c)' \in Nat
        /\ (m.second = player_id[c] => m.first <= LocalAck(c)')
    BY <1>6, <2>1, <2>2
  <2>4. Between(c)'
    <3>1. ASSUME NEW i \in Player, IsAt(c, i)
          PROVE  /\ player[i].sequence < outgoing_sequence[c]
                 /\ LocalAck(c)' <= player[i].sequence
      <4>1. /\ player[i].sequence < outgoing_sequence[c]
            /\ LocalAck(c) <= player[i].sequence
        BY <1>2, <3>1 DEF Delivery, Between, Running
      <4>2. CASE m.second = player_id[c]
        <5>1. roster[c][m.second] = c
          BY <1>1, <1>2, <4>2 DEF Introduced, Unintroduced
        <5>2. m.first <= player[i].sequence
          BY <1>3, <1>4, <1>6, <3>1, <5>1 DEF Delivery, AcceptedTurns, IsAt
        <5> QED
          BY <2>2, <4>1, <5>2
      <4>3. CASE m.second # player_id[c]
        BY <2>2, <4>1, <4>3
      <4> QED
        BY <4>2, <4>3
    <3> QED
      BY <1>7, <3>1 DEF Between, IsAt
  <2>5. ASSUME NEW k \in Slot, player_received'[c][k][player_id[c]]
        PROVE  \E f \in logic_updates[c] .. logic_updates[c] + NetQueue - 1 :
                 NETQUEUE_SLOT(f) = k /\ f <= LocalAck(c)'
    <3>1. player_received \in [Client -> [Slot -> [Player -> BOOLEAN]]]
      BY <1>1 DEF TypeOK, ClientTypeOK
    <3>2. \A v : [player_received EXCEPT ![c][slot][m.second] = v]
                   [c][k][player_id[c]] =
                     IF k = slot /\ player_id[c] = m.second
                       THEN v ELSE player_received[c][k][player_id[c]]
      BY ONLY <1>6, <2>1, <3>1, CellWritten
    <3>3. player_received'[c][k][player_id[c]] =
            IF k = slot /\ player_id[c] = m.second
              THEN TRUE ELSE player_received[c][k][player_id[c]]
      <4>1. player_received' =
              [player_received EXCEPT ![c][slot][m.second] = TRUE]
        BY <1>7, <1>10
      <4> QED
        BY ONLY <3>2, <4>1, Zenon
    <3>4. CASE k = slot /\ player_id[c] = m.second
      <4>1. m.first \in logic_updates[c] .. logic_updates[c] + NetQueue - 1
        BY <1>1, <1>2, <1>3, <1>10, TurnInWindow
      <4> QED
        BY <2>3, <3>4, <4>1 DEF slot
    <3>5. CASE ~(k = slot /\ player_id[c] = m.second)
      <4>1. player_received[c][k][player_id[c]]
        BY <2>5, <3>3, <3>5
      <4>2. PICK f \in logic_updates[c] .. logic_updates[c] + NetQueue - 1 :
                   NETQUEUE_SLOT(f) = k /\ f <= LocalAck(c)
        BY <1>2, <4>1 DEF Delivery, OwnTurns, Running
      <4>3. f <= LocalAck(c)'
        <5>1. f \in Int
          BY <2>1, <4>2, NetQueueAssumption
        <5> QED
          BY <2>1, <2>3, <4>2, <5>1
      <4> QED
        BY <4>2, <4>3
    <3> QED
      BY <3>4, <3>5
  <2>6. OwnTurns(c)'
    <3>1. logic_updates[c] <= LocalAck(c)' + 1
      <4>1. logic_updates[c] <= LocalAck(c) + 1
        BY <1>2 DEF Delivery, OwnTurns, Running
      <4> QED
        BY <2>1, <2>3, <4>1
    <3> QED
      BY <1>7, <2>5, <3>1 DEF OwnTurns
  <2> QED
    BY <1>2, <1>7, <1>8, <2>4, <2>6 DEF Delivery
<1> QED
  BY <1>9, <1>10

\* Client c when it takes a step itself: it never ends for want of an
\* acknowledgement.
LEMMA OwnDelivers ==
  ASSUME Inv, TypeOK', FitForLockstep, NEW c \in Client, Delivery(c),
         ClientStep(c) \/ ClientFault(c), UNCHANGED server
  PROVE  Delivery(c)'
<1>1. UNCHANGED <<player, roster>> /\ \A l : Goto(c, l) => pc'[c] = l
  BY DEF server, Goto, Inv, TypeOK, ClientTypeOK
<1>2. CASE SendHandshake(c)
  <2>1. UNCHANGED <<toClient, pc, outgoing_sequence, outgoing_ack, player_id>>
        /\ UNCHANGED <<player_received, logic_updates>>
    BY <1>2 DEF SendHandshake, ingress, identity, game
  <2> QED
    BY <1>1, <2>1, DeliveryKept
<1>3. CASE GiveUp(c) \/ Close(c)
  <2>1. /\ pc'[c] = "nogame" \/ (Running(c) /\ pc'[c] = "closed")
        /\ UNCHANGED <<toClient, outgoing_sequence, outgoing_ack, player_id>>
        /\ UNCHANGED <<player_received, logic_updates>>
    BY <1>1, <1>3
       DEF GiveUp, Close, Running, egress, ingress, identity, game
  <2> QED
    BY <1>1, <2>1, MovingDelivers
<1>4. CASE Stall(c)
  <2>1. /\ Running(c) /\ pc'[c] = "input"
        /\ UNCHANGED <<toClient, outgoing_sequence, outgoing_ack, player_id>>
        /\ UNCHANGED <<player_received, logic_updates>>
    BY <1>1, <1>4
       DEF Stall, Running, network, egress, ingress, identity, game
  <2> QED
    BY <1>1, <2>1, MovingDelivers
<1>5. ~Exit2(c)
  BY NeverTooFar DEF Exit2
<1> QED
  BY <1>2, <1>3, <1>4, <1>5, ReceiveStartDelivers, MakeTurnDelivers,
     IngressDelivers, SimulateDelivers DEF ClientStep, ClientFault

LEMMA ClientDelivers ==
  ASSUME Inv, TypeOK', FitForLockstep, DeliveryInv, NEW c \in Client,
         ClientStep(c) \/ ClientFault(c), UNCHANGED server
  PROVE  DeliveryInv'
<1>1. SUFFICES ASSUME NEW d \in Client
               PROVE  Delivery(d)'
  BY DEF DeliveryInv
<1>2. CASE d = c
  BY <1>2, OwnDelivers DEF DeliveryInv
<1>3. CASE d # c
  <2>1. /\ UNCHANGED <<outgoing_sequence[d], outgoing_ack[d], player_id[d],
                       pc[d], player_received[d], logic_updates[d]>>
        /\ UNCHANGED <<player, roster, toClient[d]>>
    BY <1>3, OtherClients, ClientFrame DEF Inv, server
  <2> QED
    BY <2>1, DeliveryKept DEF DeliveryInv
<1> QED
  BY <1>2, <1>3

-----------------------------------------------------------------------------
(* The steps of the medium and of the server. *)

LEMMA MediumDelivers ==
  ASSUME Inv, DeliveryInv, NetworkFault, UNCHANGED <<server, client>>
  PROVE  DeliveryInv'
<1>1. UNCHANGED toClient
  <2>1. \A k \in Confusing : ~Spend(k)
    BY DEF Inv, AgreementInv, NobodyOverdue, Spend
  <2> QED
    BY <2>1 DEF NetworkFault, LoseDown, CopyDown, DelayDown, FaultDown,
                Confusing, LoseUp, CopyUp, DelayUp, FaultUp
<1>2. ASSUME NEW d \in Client
      PROVE  Delivery(d)'
  BY <1>1, DeliveryKept DEF DeliveryInv, server, client, egress, ingress,
                            identity, game
<1> QED
  BY <1>2 DEF DeliveryInv

\* The server writes into the mail and the table only what it accepted.
LEMMA ServerDelivers ==
  ASSUME Inv, NEW d \in Client, Delivery(d), UNCHANGED client,
         Echoes(d)', AcceptedTurns(d)', InOrder(d)', Between(d)'
  PROVE  Delivery(d)'
BY DEF Delivery, OwnTurns, Running, LocalAck, client, ingress, identity, game

\* A peer is accepted, and its game may start.
LEMMA AcceptDelivers ==
  ASSUME Inv, DeliveryInv, UNCHANGED client, NEW c \in Client,
         NEW i \in Player, ~Known(c),
         \A j \in Player :
           /\ player'[j].peer = IF j = i THEN c ELSE player[j].peer
           /\ player'[j].sequence = IF j = i THEN 0 ELSE player[j].sequence,
         \A d \in Client :
           \/ roster'[d] = roster[d] /\ toClient'[d] = toClient[d]
           \/ /\ roster[d] = NoGame
              /\ \E m \in ToClient : /\ m.sent_as = "start"
                                     /\ toClient'[d] = Append(toClient[d], m)
  PROVE  DeliveryInv'
<1>1. SUFFICES ASSUME NEW d \in Client
               PROVE  Delivery(d)'
  BY DEF DeliveryInv
<1>2. Delivery(d) /\ Greeted(c) /\ Greeted(d) /\ TypeOK
  BY DEF DeliveryInv, Inv, AgreementInv
<1>3. roster[c] = NoGame
  BY <1>2 DEF Greeted, Known
<1>4. UNCHANGED <<pc, outgoing_sequence, outgoing_ack, player_id>>
  BY DEF client, egress, ingress, identity
<1>5. Between(d)'
  <2>1. ASSUME NEW j \in Player, player'[j].peer = d
        PROVE  /\ player'[j].sequence < outgoing_sequence[d]
               /\ Running(d) => LocalAck(d) <= player'[j].sequence
    <3>1. CASE j # i
      <4>1. player[j].peer = d /\ player'[j].sequence = player[j].sequence
        BY <2>1, <3>1
      <4> QED
        BY <1>2, <4>1 DEF Delivery, Between, IsAt
    <3>2. CASE j = i
      <4>1. d = c /\ player'[j].sequence = 0
        BY <2>1, <3>2
      <4>2. Unintroduced(d)
        BY <1>3, <4>1, UngreetedIsFresh
      <4>3. outgoing_sequence[d] \in Nat \ {0}
        BY <1>2, DeliveryTypes
      <4> QED
        BY <4>1, <4>2, <4>3 DEF Unintroduced, Running
    <3> QED
      BY <3>1, <3>2
  <2> QED
    BY <1>4, <2>1 DEF Between, IsAt, Running, LocalAck
<1>6. CASE roster'[d] = roster[d] /\ toClient'[d] = toClient[d]
  <2>1. Echoes(d)' /\ InOrder(d)'
    BY <1>2, <1>4, <1>6 DEF Delivery, Echoes, InOrder
  <2>2. ASSUME NEW k \in DOMAIN toClient[d], NEW j \in Player,
               toClient[d][k].sent_as = "turn",
               toClient[d][k].second \in DOMAIN roster[d],
               player'[j].peer = roster[d][toClient[d][k].second]
        PROVE  toClient[d][k].first <= player'[j].sequence
    <3>1. /\ roster[roster[d][toClient[d][k].second]] = roster[d]
          /\ roster[d] # NoGame
      BY <1>2, <2>2, NoGameIsEmpty DEF Greeted
    <3>2. roster[d][toClient[d][k].second] # c
      BY <1>3, <3>1
    <3>3. player[j].peer = roster[d][toClient[d][k].second]
          /\ player'[j].sequence = player[j].sequence
      BY <2>2, <3>2
    <3> QED
      BY <1>2, <2>2, <3>3 DEF Delivery, AcceptedTurns
  <2>3. AcceptedTurns(d)'
    BY <1>6, <2>2 DEF AcceptedTurns
  <2> QED
    BY <1>2, <1>5, <2>1, <2>3, ServerDelivers
<1>7. CASE /\ roster[d] = NoGame
           /\ \E m \in ToClient : /\ m.sent_as = "start"
                                  /\ toClient'[d] = Append(toClient[d], m)
  <2>1. toClient[d] = <<>> /\ Unintroduced(d)
    BY <1>7, UngreetedIsFresh
  <2>2. PICK m \in ToClient : m.sent_as = "start"
                              /\ toClient'[d] = Append(toClient[d], m)
    BY <1>7
  <2>3. \A k \in DOMAIN toClient'[d] : k = 1 /\ toClient'[d][k] = m
    <3>1. toClient'[d] = <<m>>
      BY <2>1, <2>2
    <3> QED
      BY <3>1
  <2>4. Echoes(d)' /\ AcceptedTurns(d)' /\ InOrder(d)'
    BY <1>4, <2>1, <2>2, <2>3 DEF Echoes, AcceptedTurns, InOrder, Unintroduced
  <2> QED
    BY <1>2, <1>5, <2>4, ServerDelivers
<1> QED
  BY <1>6, <1>7

LEMMA HandshakeDelivers ==
  ASSUME Inv, TypeOK', DeliveryInv, NEW c \in Client, HandleHandshake(c),
         UNCHANGED client
  PROVE  DeliveryInv'
<1> DEFINE n == Head(toServer[c]).num_players
           i == First(Free)
           table == Accepted(c, n, i)
           waiting == Waiting(table, n)
<1>1. TypeOK /\ AgreementInv
  BY DEF Inv
<1>2. /\ Received(c) /\ Head(toServer[c]).kind = "handshake"
      /\ IF Free = {} \/ Known(c)
           THEN UNCHANGED <<toClient, faults, server>>
           ELSE IF Cardinality(waiting) >= n
                  THEN Greet(table, waiting, n)
                  ELSE /\ player' = table
                       /\ UNCHANGED <<toClient, faults, next_game_id, roster>>
  BY DEF HandleHandshake
<1>6. faults["greet"] = 0
  BY <1>1, AllGreeted DEF AgreementInv
<1>3. n \in Nat /\ n > 0
  <2>1. toServer[c] \in Seq(Request)
    BY <1>1, RequestsAreRequest DEF AgreementInv, TypeOK
  <2>2. Head(toServer[c]) \in Request
    BY <1>2, <2>1 DEF Received
  <2> QED
    BY <1>2, <2>2 DEF Request, ToServer
<1> HIDE DEF n
<1>4. CASE Free = {} \/ Known(c)
  <2>1. UNCHANGED <<toClient, player, roster>>
    BY <1>2, <1>4 DEF server
  <2>2. ASSUME NEW d \in Client
        PROVE  Delivery(d)'
    BY <2>1, DeliveryKept DEF DeliveryInv, client, egress, ingress, identity, game
  <2> QED
    BY <2>2 DEF DeliveryInv
<1>5. CASE ~(Free = {} \/ Known(c))
  <2>1. i \in Player /\ player[i] = ZeroPlayer
    BY <1>5, FirstType DEF Free
  <2> HIDE DEF i
  <2>2. /\ table \in [Player -> PlayerState] /\ SeatedAs(table)
        /\ \A j \in Player : j # i => table[j] = player[j]
    BY <1>3, <1>5, <2>1, AcceptedTable
  <2>3. table[i].peer = c /\ table[i].sequence = 0
    BY <1>1, <2>1 DEF Accepted, TypeOK, ServerTypeOK
  <2> HIDE DEF table
  <2>4. CASE ~(Cardinality(waiting) >= n)
    BY <1>2, <1>5, <2>1, <2>2, <2>3, <2>4, AcceptDelivers
  <2>5. CASE Cardinality(waiting) >= n
    <3>1. PICK group : Greets(table, waiting, n, group)
      BY <1>2, <1>3, <1>5, <1>6, <2>2, <2>5, GreetGreets
    <3>2. waiting \in SUBSET Player /\ \A j \in waiting : table[j].game_id = 0
      BY DEF Waiting
    <3> HIDE DEF waiting
    <3>3. ASSUME NEW j \in Player
          PROVE  /\ player'[j].peer = table[j].peer
                 /\ player'[j].sequence = table[j].sequence
      <4>1. table[j] \in PlayerState
        BY <2>2
      <4> QED
        BY <3>1, <4>1 DEF Greets, PlayerState
    <3>4. ASSUME NEW d \in Client
          PROVE  \/ roster'[d] = roster[d] /\ toClient'[d] = toClient[d]
                 \/ /\ roster[d] = NoGame
                    /\ \E m \in ToClient :
                         /\ m.sent_as = "start"
                         /\ toClient'[d] = Append(toClient[d], m)
      <4>1. CASE ~Member(table, waiting, d)
        BY <3>1, <4>1 DEF Greets
      <4>2. CASE Member(table, waiting, d)
        <5>1. PICK j \in waiting : table[j].peer = d
          BY <4>2 DEF Member
        <5>2. toClient'[d] = Append(toClient[d],
                               NotifyStart(next_game_id, NewId(waiting, j), n))
          BY <3>1, <5>1 DEF Greets
        <5>3. NotifyStart(next_game_id, NewId(waiting, j), n) \in ToClient
          <6>1. NewId(waiting, j) \in Player /\ next_game_id \in Nat
            BY <1>1, <3>2, NewIdType DEF TypeOK, ServerTypeOK
          <6> QED
            BY <1>3, <6>1, NotifyStartType
        <5>4. NotifyStart(next_game_id, NewId(waiting, j), n).sent_as = "start"
          BY DEF NotifyStart
        <5>5. roster[d] = NoGame
          BY <2>2, <3>2, <5>1 DEF SeatedAs
        <5> QED
          BY <5>2, <5>3, <5>4, <5>5
      <4> QED
        BY <4>1, <4>2
    <3>5. \A j \in Player :
            /\ player'[j].peer = IF j = i THEN c ELSE player[j].peer
            /\ player'[j].sequence = IF j = i THEN 0 ELSE player[j].sequence
      BY <2>2, <2>3, <3>3
    <3> QED
      BY <1>5, <2>1, <3>4, <3>5, AcceptDelivers
  <2> QED
    BY <2>4, <2>5
<1> QED
  BY <1>4, <1>5

\* A turn is accepted, and echoed to clients of its game.
LEMMA TurnDelivers ==
  ASSUME Inv, DeliveryInv, NEW c \in Client, HandleTurn(c), UNCHANGED client
  PROVE  DeliveryInv'
<1> DEFINE turn == Head(toServer[c])
<1>1. TypeOK /\ AgreementInv /\ OnlyFaithful /\ SeatedAs(player)
  BY SeatedParts DEF Inv, AgreementInv
<1>2. /\ Received(c) /\ turn.kind = "turn" /\ UNCHANGED roster
      /\ \/ UNCHANGED <<toClient, player>>
         \/ \E i \in Player :
              /\ IsAt(c, i) /\ IsNext(i, turn)
              /\ player' = [player EXCEPT ![i].sequence = turn.sequence]
              /\ \E stop \in 0 .. MaxPlayer :
                   Echo(i, turn.sequence, turn.event, stop)
  BY DEF HandleTurn
<1>3. turn \in FaithfulTurn(c) /\ turn \in ToServer
  <2>1. toServer[c] \in Seq(FaithfulTurn(c)) /\ toServer[c] # <<>>
    BY <1>1, <1>2 DEF OnlyFaithful, Received
  <2>2. turn \in FaithfulTurn(c)
    BY <2>1
  <2> QED
    BY <2>2 DEF FaithfulTurn
<1> HIDE DEF turn
<1>4. /\ turn.sequence \in Nat /\ turn.event \in Input
      /\ turn.sequence < outgoing_sequence[c]
  BY <1>2, <1>3 DEF FaithfulTurn, ToServer
<1>5. CASE UNCHANGED <<toClient, player>>
  <2>1. ASSUME NEW d \in Client
        PROVE  Delivery(d)'
    BY <1>2, <1>5, DeliveryKept
       DEF DeliveryInv, client, egress, ingress, identity, game
  <2> QED
    BY <2>1 DEF DeliveryInv
<1>6. ASSUME NEW i \in Player, IsAt(c, i), IsNext(i, turn),
             player' = [player EXCEPT ![i].sequence = turn.sequence],
             NEW stop \in 0 .. MaxPlayer,
             Echo(i, turn.sequence, turn.event, stop),
             NEW d \in Client
      PROVE  Delivery(d)'
  <2> DEFINE echo == NotifyTurn(turn.sequence, player[i].player_id,
                                turn.sequence, turn.event)
  <2>1. /\ player[i].peer = c /\ player[i].game_id # 0
        /\ turn.sequence = player[i].sequence + 1
    BY <1>6 DEF IsAt, IsNext
  <2>2. ASSUME NEW j \in Player
        PROVE  /\ player'[j].peer = player[j].peer
               /\ player'[j].sequence = IF j = i THEN turn.sequence
                                                 ELSE player[j].sequence
               /\ player[j].sequence \in Nat
               /\ player[j].sequence <= player'[j].sequence
    <3>1. player \in [Player -> PlayerState]
      BY <1>1 DEF TypeOK, ServerTypeOK
    <3>2. player[i].sequence \in Nat /\ player[j].sequence \in Nat
      BY <1>1, DeliveryTypes
    <3>3. /\ player'[j].peer = player[j].peer
          /\ player'[j].sequence = IF j = i THEN turn.sequence
                                            ELSE player[j].sequence
      BY <1>6, <3>1 DEF PlayerState
    <3> QED
      BY <2>1, <3>2, <3>3
  <2>3. UNCHANGED <<pc, outgoing_sequence, outgoing_ack, player_id>>
    BY DEF client, egress, ingress, identity
  <2>4. Delivery(d) /\ Greeted(d) /\ toClient[d] \in Seq(ToClient)
    BY <1>1 DEF DeliveryInv, AgreementInv, TypeOK, NetworkTypeOK
  <2>5. Between(d)'
    <3>1. ASSUME NEW j \in Player, player[j].peer = d
          PROVE  /\ player'[j].sequence < outgoing_sequence[d]
                 /\ Running(d) => LocalAck(d) <= player'[j].sequence
      <4>1. /\ player[j].sequence < outgoing_sequence[d]
            /\ Running(d) => LocalAck(d) <= player[j].sequence
        BY <2>4, <3>1 DEF Delivery, Between, IsAt
      <4>2. j = i => d = c
        BY <2>1, <3>1
      <4>3. LocalAck(d) \in Nat /\ player'[j].sequence \in Nat
        BY <1>1, <1>4, <2>2, DeliveryTypes
      <4> QED
        BY <1>4, <2>2, <4>1, <4>2, <4>3
    <3> QED
      BY <2>2, <2>3, <3>1 DEF Between, IsAt, Running, LocalAck
  <2>6. ASSUME NEW k \in DOMAIN toClient[d], NEW j \in Player,
               toClient[d][k].sent_as = "turn",
               toClient[d][k].second \in DOMAIN roster[d],
               player[j].peer = roster[d][toClient[d][k].second]
        PROVE  /\ toClient[d][k].first <= player[j].sequence
               /\ toClient[d][k].first <= player'[j].sequence
    <3>1. toClient[d][k].first <= player[j].sequence
      BY <2>4, <2>6 DEF Delivery, AcceptedTurns
    <3>2. toClient[d][k].first \in Nat /\ player'[j].sequence \in Nat
      <4>1. toClient[d][k] \in ToClient
        BY <2>4
      <4> QED
        BY <1>4, <2>2, <4>1 DEF ToClient
    <3> QED
      BY <2>2, <3>1, <3>2
  <2>7. CASE toClient'[d] = toClient[d]
    <3>1. Echoes(d)' /\ InOrder(d)'
      BY <2>3, <2>4, <2>7 DEF Delivery, Echoes, InOrder
    <3>2. AcceptedTurns(d)'
      BY <1>2, <2>2, <2>6, <2>7 DEF AcceptedTurns
    <3> QED
      BY <2>4, <2>5, <3>1, <3>2, ServerDelivers
  <2>8. CASE toClient'[d] # toClient[d]
    <3>1. d \in Echoed(player[i].game_id, stop)
          /\ toClient'[d] = Append(toClient[d], echo)
      BY <1>6, <2>8 DEF Echo
    <3>2. PICK j \in Player : /\ player[j].game_id = player[i].game_id
                              /\ player[j].peer = d
      BY <3>1 DEF Echoed
    <3>3. /\ roster[c] = roster[d] /\ roster[d] # NoGame
          /\ player[i].player_id \in DOMAIN roster[d]
          /\ roster[d][player[i].player_id] = c
      BY <1>1, <2>1, <3>2, NoGameIsEmpty DEF SeatedAs
    <3>4. /\ echo.sent_as = "turn" /\ echo.first = turn.sequence
          /\ echo.second = player[i].player_id
      BY DEF NotifyTurn
    <3>5. echo \in ToClient
      <4>1. player[i].player_id \in Player
        BY <1>1 DEF TypeOK, ServerTypeOK, PlayerState
      <4> QED
        BY <1>4, <4>1, NotifyTurnType
    <3> HIDE DEF echo
    <3>6. ASSUME NEW k \in DOMAIN toClient'[d]
          PROVE  \/ k \in DOMAIN toClient[d] /\ toClient'[d][k] = toClient[d][k]
                 \/ k = Len(toClient[d]) + 1 /\ toClient'[d][k] = echo
      BY <2>4, <3>1, <3>5
    <3>7. Echoes(d)'
      <4>1. pc[d] = "handshake" => toClient[d] # <<>>
        BY <1>1, <3>3 DEF AgreementInv, Mail
      <4> QED
        BY <2>3, <2>4, <3>4, <3>6, <4>1 DEF Delivery, Echoes
    <3>8. ASSUME NEW j2 \in Player, player[j2].peer = c
          PROVE  j2 = i
      BY <1>1, <2>1, <3>8, NoPeerAssumption DEF SeatedAs
    <3>9. AcceptedTurns(d)'
      <4>1. ASSUME NEW j2 \in Player, player'[j2].peer = roster[d][echo.second]
            PROVE  echo.first <= player'[j2].sequence
        <5>1. j2 = i
          BY <2>2, <3>3, <3>4, <3>8, <4>1
        <5> QED
          BY <1>4, <2>2, <3>4, <5>1
      <4> QED
        BY <1>2, <2>2, <2>6, <3>6, <4>1 DEF AcceptedTurns
    <3>10. InOrder(d)'
      <4>1. SUFFICES ASSUME NEW k \in DOMAIN toClient'[d],
                            NEW l \in DOMAIN toClient'[d], k < l,
                            toClient'[d][k].sent_as = "turn",
                            toClient'[d][l].sent_as = "turn",
                            toClient'[d][k].second = toClient'[d][l].second
                     PROVE  toClient'[d][k].first < toClient'[d][l].first
        BY DEF InOrder
      <4>2. k \in DOMAIN toClient[d] /\ toClient'[d][k] = toClient[d][k]
        <5>1. k \in Nat /\ l \in Nat /\ l <= Len(toClient[d]) + 1
              /\ Len(toClient[d]) \in Nat
          BY <2>4, <3>1, <3>5, <4>1
        <5> QED
          BY <3>6, <4>1, <5>1
      <4>3. CASE l \in DOMAIN toClient[d] /\ toClient'[d][l] = toClient[d][l]
        BY <2>4, <4>1, <4>2, <4>3 DEF Delivery, InOrder
      <4>4. CASE toClient'[d][l] = echo
        <5>1. toClient[d][k].first <= player[i].sequence
          BY <2>1, <2>6, <3>3, <3>4, <4>1, <4>2, <4>4
        <5>2. toClient[d][k].first \in Nat /\ player[i].sequence \in Nat
          <6>1. toClient[d][k] \in ToClient
            BY <2>4, <4>2
          <6> QED
            BY <2>2, <6>1 DEF ToClient
        <5> QED
          BY <2>1, <3>4, <4>2, <4>4, <5>1, <5>2
      <4> QED
        BY <3>6, <4>3, <4>4
    <3> QED
      BY <2>4, <2>5, <3>7, <3>9, <3>10, ServerDelivers
  <2> QED
    BY <2>7, <2>8
<1> QED
  BY <1>2, <1>5, <1>6 DEF DeliveryInv

-----------------------------------------------------------------------------
(* The invariant and what it shows. *)

LEMMA DeliveryInit == Init => DeliveryInv
<1> SUFFICES ASSUME Init, NEW c \in Client PROVE Delivery(c)
  BY DEF DeliveryInv
<1>1. /\ toClient[c] = <<>> /\ pc[c] = "handshake" /\ outgoing_sequence[c] = 1
      /\ \A i \in Player : player[i].sequence = 0
  BY DEF Init, NetworkInit, ServerInit, ClientInit, ZeroPlayer
<1>2. Echoes(c) /\ AcceptedTurns(c) /\ InOrder(c)
  <2>1. DOMAIN toClient[c] = {}
    BY <1>1
  <2> QED
    BY <2>1 DEF Echoes, AcceptedTurns, InOrder
<1>3. Between(c) /\ OwnTurns(c)
  BY <1>1 DEF Between, OwnTurns, Running
<1> QED
  BY <1>1, <1>2, <1>3 DEF Delivery

LEMMA DeliveryNext ==
  ASSUME FitForLockstep, Inv, TypeOK', DeliveryInv, [Next]_vars
  PROVE  DeliveryInv'
<1>1. CASE ServerNext /\ UNCHANGED client
  <2>1. ~Spend("tick") /\ ~Spend("restart")
    BY DEF Inv, AgreementInv, NobodyOverdue, Spend, Confusing
  <2>2. Overdue = {}
    BY TimeoutAssumption DEF Inv, AgreementInv, NobodyOverdue, Overdue
  <2>3. PICK c \in Client : HandleHandshake(c) \/ HandleTurn(c)
    BY <1>1, <2>1, <2>2 DEF ServerNext, ClockTick, DropInactive, Restart
  <2> QED
    BY <1>1, <2>3, HandshakeDelivers, TurnDelivers
<1>2. CASE \E c \in Client : (ClientStep(c) \/ ClientFault(c)) /\ UNCHANGED server
  BY <1>2, ClientDelivers
<1>3. CASE NetworkFault /\ UNCHANGED <<server, client>>
  BY <1>3, MediumDelivers
<1>4. CASE UNCHANGED vars
  <2>1. ASSUME NEW d \in Client
        PROVE  Delivery(d)'
    BY <1>4, DeliveryKept DEF DeliveryInv, vars, network, server, client,
                              egress, ingress, identity, game
  <2> QED
    BY <2>1 DEF DeliveryInv
<1> QED
  BY <1>1, <1>2, <1>3, <1>4 DEF Next

LEMMA DeliveryHolds ==
  ASSUME FitForLockstep
  PROVE  Spec => [](Inv /\ DeliveryInv)
<1>1. Init => Inv /\ DeliveryInv
  BY InvInit, DeliveryInit
<1>2. Inv /\ DeliveryInv /\ [Next]_vars => Inv' /\ DeliveryInv'
  <2> SUFFICES ASSUME Inv, DeliveryInv, [Next]_vars
               PROVE  Inv' /\ DeliveryInv'
    OBVIOUS
  <2>1. Inv'
    BY InvNext
  <2>2. TypeOK'
    BY <2>1 DEF Inv
  <2> QED
    BY <2>1, <2>2, DeliveryNext
<1> QED
  BY <1>1, <1>2, PTL DEF Spec

\* In a game that is fit for lockstep the server echoes the turns of a player
\* once each, in order (server.cc:178), however the network repeats and
\* reorders what the player sends.
THEOREM EchoIsInOrder ==
  ASSUME FitForLockstep
  PROVE  Spec => []EchoInOrder
<1>1. Spec => [](Inv /\ DeliveryInv)
  BY DeliveryHolds
<1>2. DeliveryInv => EchoInOrder
  BY DEF DeliveryInv, Delivery, InOrder, EchoInOrder
<1> QED
  BY <1>1, <1>2, PTL

\* Under the same assumptions, every greeting sent (server.cc:150) among them,
\* a turn stays in the history of its client, beyond
\* the client's acknowledgement, until the server has accepted it: the
\* re-sending of NetworkEgress (network.cc:179) covers every loss.
THEOREM HistoryIsKeptUntilAccepted ==
  ASSUME FitForLockstep
  PROVE  Spec => []HistoryUntilAccepted
<1>1. Spec => [](Inv /\ DeliveryInv)
  BY DeliveryHolds
<1>2. Inv /\ DeliveryInv => HistoryUntilAccepted
  <2> SUFFICES ASSUME Inv, DeliveryInv, NEW c \in Client, NEW i \in Player,
                      Running(c), IsAt(c, i)
               PROVE  /\ LocalAck(c) <= player[i].sequence
                      /\ player[i].sequence < outgoing_sequence[c]
                      /\ \A s \in player[i].sequence + 1 ..
                                    outgoing_sequence[c] - 1 :
                           input[c][NETQUEUE_SLOT(s)] = InputOf(c, s)
    BY DEF HistoryUntilAccepted
  <2>1. /\ LocalAck(c) <= player[i].sequence
        /\ player[i].sequence < outgoing_sequence[c]
    BY DEF DeliveryInv, Delivery, Between
  <2>2. /\ LocalAck(c) \in Nat /\ outgoing_sequence[c] \in Nat
        /\ player[i].sequence \in Nat
    BY DeliveryTypes DEF Inv
  <2>3. \A s \in LocalAck(c) + 1 .. outgoing_sequence[c] - 1 :
          input[c][NETQUEUE_SLOT(s)] = InputOf(c, s)
    BY DEF Inv, HistoryInv, HistoryPreserved
  <2>4. player[i].sequence + 1 .. outgoing_sequence[c] - 1
          \subseteq LocalAck(c) + 1 .. outgoing_sequence[c] - 1
    BY <2>1, <2>2
  <2> QED
    BY <2>1, <2>3, <2>4
<1> QED
  BY <1>1, <1>2, PTL

\* The invariant from which the agreement of the replicas follows holds, as long
\* as every greeting is sent and the server's mail arrives as it was sent.
THEOREM AgreementHolds ==
  ASSUME FitForLockstep
  PROVE  Spec => []AgreementInv
<1>1. Spec => [](Inv /\ DeliveryInv)
  BY DeliveryHolds
<1>2. Inv => AgreementInv
  BY DEF Inv
<1> QED
  BY <1>1, <1>2, PTL

-----------------------------------------------------------------------------
(* The network code keeps the promise of Lockstep.                         *)

\* A received input is of a turn its player has made.
Issued(c) ==
  \A k \in Slot, p \in DOMAIN roster[c] :
    player_received[c][k][p] =>
      \E f \in logic_updates[c] .. logic_updates[c] + NetQueue - 1 :
        NETQUEUE_SLOT(f) = k /\ f < outgoing_sequence[roster[c][p]]

IssuedInv == \A c \in Client : Issued(c)

\* A game that starts gives its n players the ids 0 .. n - 1.
LEMMA GroupOfGame ==
  ASSUME Inv, TypeOK', NEW table \in [Player -> PlayerState], SeatedAs(table),
         NEW n \in Nat, n > 0, NEW waiting, waiting = Waiting(table, n),
         Cardinality(waiting) = n,
         NEW group, Greets(table, waiting, n, group)
  PROVE  /\ n \in 1 .. MaxPlayer /\ group \in [0 .. n - 1 -> Client]
         /\ \A p, q \in 0 .. n - 1 : group[p] = group[q] => p = q
         /\ \A d \in Client : Member(table, waiting, d) <=>
                                \E p \in 0 .. n - 1 : group[p] = d
<1>1. waiting \in SUBSET Player /\ IsFiniteSet(waiting) /\ n \in 1 .. MaxPlayer
  BY WaitingSize
<1>2. ASSUME NEW i \in waiting
      PROVE  /\ NewId(waiting, i) \in 0 .. n - 1
             /\ table[i].peer \in Client /\ NewId(waiting, i) \in DOMAIN group
             /\ group[NewId(waiting, i)] = table[i].peer
  <2>1. NewId(waiting, i) \in Nat /\ NewId(waiting, i) < n
    BY <1>1, NewIdType DEF Player
  <2>2. NewId(waiting, i) \in 0 .. n - 1
    BY <2>1
  <2> QED
    BY <2>2 DEF Greets
<1>3. \A p \in 0 .. n - 1 : \E i \in waiting : NewId(waiting, i) = p
  <2> DEFINE ids == [i \in waiting |-> NewId(waiting, i)]
  <2>1. ids \in Injection(waiting, 0 .. n - 1)
    <3>1. ids \in [waiting -> 0 .. n - 1]
      BY <1>2
    <3>2. \A i, j \in waiting : ids[i] = ids[j] => i = j
      BY <1>1, NewIdInjective
    <3> QED
      BY <3>1, <3>2 DEF Injection, IsInjective
  <2>2. IsFiniteSet(0 .. n - 1) /\ Cardinality(0 .. n - 1) = n
    <3>1. 0 \in Int /\ n - 1 \in Int /\ ~(0 > n - 1) /\ n - 1 - 0 + 1 = n
      OBVIOUS
    <3> QED
      BY <3>1, FS_Interval
  <2>3. ids \in Surjection(waiting, 0 .. n - 1)
    <3> HIDE DEF ids
    <3> QED
      BY <2>1, <2>2, FS_Injection
  <2>4. \A p \in 0 .. n - 1 : \E i \in waiting : ids[i] = p
    BY <2>3 DEF Surjection
  <2> QED
    BY <2>4
<1>4. DOMAIN group = 0 .. n - 1
  <2>1. DOMAIN group \subseteq 0 .. n - 1
    BY <1>2 DEF Greets
  <2>2. 0 .. n - 1 \subseteq DOMAIN group
    BY <1>2, <1>3
  <2> QED
    BY <2>1, <2>2
<1>5. ASSUME NEW p \in 0 .. n - 1
      PROVE  \E i \in waiting : p = NewId(waiting, i) /\ group[p] = table[i].peer
                                /\ table[i].peer \in Client
  BY <1>2, <1>3
<1>6. group = [p \in DOMAIN group |-> group[p]]
  <2>1. PICK i \in waiting : 0 = NewId(waiting, i) /\ table[i].peer \in Client
    BY <1>1, <1>5
  <2>2. roster'[table[i].peer] = group
    BY <2>1 DEF Greets, Member
  <2>3. roster'[table[i].peer] \in
          UNION {[ids -> Client \cup {NoPeer}] : ids \in SUBSET Player}
    BY <2>1 DEF TypeOK, ServerTypeOK
  <2> QED
    BY <2>2, <2>3
<1>7. group \in [0 .. n - 1 -> Client]
  BY <1>4, <1>5, <1>6
<1>8. ASSUME NEW p \in 0 .. n - 1, NEW q \in 0 .. n - 1, group[p] = group[q]
      PROVE  p = q
  <2>1. PICK i \in waiting : p = NewId(waiting, i) /\ group[p] = table[i].peer
                             /\ table[i].peer \in Client
    BY <1>5
  <2>2. PICK j \in waiting : q = NewId(waiting, j) /\ group[q] = table[j].peer
    BY <1>5
  <2>3. i = j
    BY <1>1, <1>8, <2>1, <2>2, NoPeerAssumption DEF SeatedAs
  <2> QED
    BY <2>1, <2>2, <2>3
<1>9. ASSUME NEW d \in Client
      PROVE  Member(table, waiting, d) <=> \E p \in 0 .. n - 1 : group[p] = d
  BY <1>2, <1>5 DEF Member
<1> QED
  BY <1>1, <1>7, <1>8, <1>9

\* A game starts for players that were in none.
LEMMA GreetForms ==
  ASSUME Inv, TypeOK', NEW table \in [Player -> PlayerState], SeatedAs(table),
         NEW n \in Nat, n > 0, NEW waiting, waiting = Waiting(table, n),
         Cardinality(waiting) = n, Greet(table, waiting, n),
         faults["greet"] = 0, UNCHANGED client
  PROVE  Replicas!Form
<1>1. PICK group : Greets(table, waiting, n, group)
  BY GreetGreets
<1>2. /\ n \in 1 .. MaxPlayer /\ group \in [0 .. n - 1 -> Client]
      /\ \A p, q \in 0 .. n - 1 : group[p] = group[q] => p = q
      /\ \A d \in Client : Member(table, waiting, d) <=>
                             \E p \in 0 .. n - 1 : group[p] = d
  BY <1>1, GroupOfGame
<1> DEFINE members == {group[p] : p \in 0 .. n - 1}
<1>3. \A d \in Client : Member(table, waiting, d) <=> d \in members
  BY <1>2
<1>4. members \subseteq Client
  BY <1>2
<1>5. \A d \in members : roster[d] = <<>>
  <2>1. SUFFICES ASSUME NEW d \in Client, Member(table, waiting, d)
                 PROVE  roster[d] = NoGame
    BY <1>3, <1>4 DEF NoGame
  <2>2. PICK i \in waiting : table[i].peer = d
    BY <2>1 DEF Member
  <2>3. i \in Player /\ table[i].game_id = 0
    BY DEF Waiting
  <2> QED
    BY <2>2, <2>3 DEF SeatedAs
<1>6. roster' = [d \in Client |-> IF d \in members THEN group ELSE roster[d]]
  <2>1. roster' = [d \in Client |-> roster'[d]]
    BY DEF TypeOK, ServerTypeOK
  <2>2. \A d \in Client :
          roster'[d] = IF d \in members THEN group ELSE roster[d]
    BY <1>1, <1>3 DEF Greets
  <2> HIDE DEF members
  <2> QED
    BY <2>1, <2>2
<1>7. UNCHANGED <<outgoing_sequence, turns>>
  BY DEF client, egress, game
<1> QED
  BY <1>2, <1>5, <1>6, <1>7 DEF Replicas!Form

LEMMA HandshakeForms ==
  ASSUME Inv, TypeOK', NEW c \in Client, HandleHandshake(c), UNCHANGED client
  PROVE  UNCHANGED roster \/ Replicas!Form
<1> DEFINE n == Head(toServer[c]).num_players
           i == First(Free)
           table == Accepted(c, n, i)
           waiting == Waiting(table, n)
<1>1. TypeOK /\ AgreementInv
  BY DEF Inv
<1>2. /\ Received(c) /\ Head(toServer[c]).kind = "handshake"
      /\ IF Free = {} \/ Known(c)
           THEN UNCHANGED roster
           ELSE IF Cardinality(waiting) >= n
                  THEN Greet(table, waiting, n)
                  ELSE UNCHANGED roster
  BY DEF HandleHandshake, server
<1>3. n \in Nat /\ n > 0
  <2>1. toServer[c] \in Seq(Request)
    BY <1>1, RequestsAreRequest DEF AgreementInv, TypeOK
  <2>2. Head(toServer[c]) \in Request
    BY <1>2, <2>1 DEF Received
  <2> QED
    BY <1>2, <2>2 DEF Request, ToServer
<1> HIDE DEF n
<1>4. CASE ~(Free = {} \/ Known(c)) /\ Cardinality(waiting) >= n
  <2>1. i \in Player /\ player[i] = ZeroPlayer
    BY <1>4, FirstType DEF Free
  <2> HIDE DEF i
  <2>2. /\ table \in [Player -> PlayerState] /\ SeatedAs(table)
        /\ waiting = Waiting(player, n) \cup {i}
    BY <1>3, <1>4, <2>1, AcceptedTable
  <2>3. Greet(table, waiting, n) /\ faults["greet"] = 0
    BY <1>1, <1>2, <1>4, AllGreeted DEF AgreementInv
  <2> HIDE DEF table
  <2>4. Cardinality(waiting) = n
    <3>1. Cardinality(waiting) \in 0 .. MaxPlayer
      BY WaitingSize
    <3>2. n \in 1 .. MaxPlayer
      BY <1>3, <1>4, <3>1, MaxPlayerAssumption
    <3>3. /\ IsFiniteSet(Waiting(player, n))
          /\ Cardinality(Waiting(player, n)) \in Nat
          /\ Cardinality(Waiting(player, n)) < n
      BY <1>1, <3>2, WaitingSize DEF AgreementInv, Seated
    <3>4. i \notin Waiting(player, n)
      BY <1>3, <2>1 DEF Waiting, ZeroPlayer
    <3>5. Cardinality(waiting) = Cardinality(Waiting(player, n)) + 1
      BY <2>2, <3>3, <3>4, FS_AddElement
    <3> QED
      BY <1>3, <1>4, <3>1, <3>3, <3>5
  <2> QED
    BY <1>3, <2>2, <2>3, <2>4, GreetForms
<1> QED
  BY <1>2, <1>4

\* Inputs that stay are inputs of turns that were made.
LEMMA IssuedKept ==
  ASSUME Inv, TypeOK', NEW d \in Client, Issued(d),
         UNCHANGED <<roster[d], player_received[d], logic_updates[d]>>,
         \A e \in Client : outgoing_sequence[e] <= outgoing_sequence'[e]
  PROVE  Issued(d)'
<1>1. ASSUME NEW k \in Slot, NEW p \in DOMAIN roster[d],
             player_received[d][k][p]
      PROVE  \E f \in logic_updates[d] .. logic_updates[d] + NetQueue - 1 :
               NETQUEUE_SLOT(f) = k /\ f < outgoing_sequence'[roster[d][p]]
  <2>1. roster[d][p] \in Client
    BY DEF Inv, AgreementInv, Greeted
  <2>2. PICK f \in logic_updates[d] .. logic_updates[d] + NetQueue - 1 :
               NETQUEUE_SLOT(f) = k /\ f < outgoing_sequence[roster[d][p]]
    BY <1>1 DEF Issued
  <2>3. f \in Int
    BY <2>2, DeliveryTypes, NetQueueAssumption DEF Inv
  <2>4. /\ outgoing_sequence[roster[d][p]] \in Nat
        /\ outgoing_sequence'[roster[d][p]] \in Nat
        /\ outgoing_sequence[roster[d][p]] <= outgoing_sequence'[roster[d][p]]
    BY <2>1 DEF Inv, TypeOK, ClientTypeOK
  <2>5. f < outgoing_sequence'[roster[d][p]]
    BY <2>2, <2>3, <2>4
  <2> QED
    BY <2>2, <2>5
<1> QED
  BY <1>1 DEF Issued

\* A client takes a turn: its player made it.
LEMMA IngressIssues ==
  ASSUME Inv, FitForLockstep, NEW c \in Client, Issued(c), Ingress(c),
         UNCHANGED server
  PROVE  Issued(c)'
<1> DEFINE m == Head(toClient[c])
           slot == NETQUEUE_SLOT(m.first)
<1>1. TypeOK /\ Greeted(c) /\ Mail(c) /\ Pace(c)
  BY DEF Inv, AgreementInv
<1>2. pc[c] = "ingress" /\ Receives(c)
  BY DEF Ingress
<1>3. TurnFor(c, m) /\ m \in ToClient
  BY <1>1, <1>2, TailOfMail DEF Mail
<1> HIDE DEF m
<1>4. m.second \in Player /\ m.first \in Nat /\ slot \in Slot
  BY <1>3, SlotType DEF ToClient
<1>5. /\ UNCHANGED <<roster, outgoing_sequence, logic_updates>>
      /\ IF m.first < logic_updates[c]
           THEN UNCHANGED player_received
           ELSE player_received' =
                  [player_received EXCEPT ![c][slot][m.second] = TRUE]
  <2>1. ~(m.second >= MaxPlayer)
    BY <1>4, MaxPlayerAssumption DEF Player
  <2> QED
    BY <2>1 DEF Ingress, m, server, egress, ingress, game
<1> HIDE DEF slot
<1>6. CASE m.first < logic_updates[c]
  BY <1>5, <1>6 DEF Issued
<1>7. CASE ~(m.first < logic_updates[c])
  <2>1. player_received \in [Client -> [Slot -> [Player -> BOOLEAN]]]
    BY <1>1 DEF TypeOK, ClientTypeOK
  <2>2. ASSUME NEW k \in Slot, NEW p \in DOMAIN roster[c],
               player_received'[c][k][p]
        PROVE  \E f \in logic_updates[c] .. logic_updates[c] + NetQueue - 1 :
                 NETQUEUE_SLOT(f) = k /\ f < outgoing_sequence[roster[c][p]]
    <3>1. p \in Player
      BY <1>1, RosterType DEF TypeOK
    <3>2. \A v : [player_received EXCEPT ![c][slot][m.second] = v][c][k][p] =
                   IF k = slot /\ p = m.second
                     THEN v ELSE player_received[c][k][p]
      BY ONLY <1>4, <2>1, <3>1, CellWritten
    <3>3. player_received'[c][k][p] =
            IF k = slot /\ p = m.second
              THEN TRUE ELSE player_received[c][k][p]
      <4>1. player_received' =
              [player_received EXCEPT ![c][slot][m.second] = TRUE]
        BY <1>5, <1>7
      <4> QED
        BY ONLY <3>2, <4>1, Zenon
    <3>4. CASE k = slot /\ p = m.second
      <4>1. m.first \in logic_updates[c] .. logic_updates[c] + NetQueue - 1
        BY <1>1, <1>2, <1>3, <1>7, TurnInWindow
      <4>2. m.first < outgoing_sequence[roster[c][p]]
        BY <1>3, <3>4 DEF TurnFor
      <4> QED
        BY <3>4, <4>1, <4>2 DEF slot
    <3>5. CASE ~(k = slot /\ p = m.second)
      BY <2>2, <3>3, <3>5 DEF Issued
    <3> QED
      BY <3>4, <3>5
  <2> QED
    BY <1>5, <2>2 DEF Issued
<1> QED
  BY <1>6, <1>7

\* A client simulates a frame: the other inputs are of later frames.
LEMMA SimulateIssues ==
  ASSUME Inv, NEW c \in Client, Issued(c), Simulate(c), UNCHANGED server
  PROVE  Issued(c)'
<1> DEFINE slot == NETQUEUE_SLOT(logic_updates[c])
<1>1. /\ UNCHANGED <<roster, outgoing_sequence>>
      /\ player_received'[c] =
           [player_received[c] EXCEPT ![slot] = [p \in Player |-> FALSE]]
      /\ logic_updates'[c] = logic_updates[c] + 1
  BY DEF Simulate, server, egress, Inv, TypeOK, ClientTypeOK
<1>2. /\ logic_updates[c] \in Nat /\ slot \in Slot
      /\ player_received[c] \in [Slot -> [Player -> BOOLEAN]]
      /\ DOMAIN roster[c] \subseteq Player
  BY SlotType, RosterType DEF Inv, TypeOK, ClientTypeOK
<1>3. ASSUME NEW k \in Slot, NEW p \in DOMAIN roster[c],
             player_received'[c][k][p]
      PROVE  \E f \in logic_updates'[c] .. logic_updates'[c] + NetQueue - 1 :
               NETQUEUE_SLOT(f) = k /\ f < outgoing_sequence[roster[c][p]]
  <2> HIDE DEF slot
  <2>1. k # slot
    <3>1. k = slot => player_received'[c][k] = [q \in Player |-> FALSE]
      BY <1>1, <1>2
    <3>2. p \in Player
      BY <1>2
    <3> QED
      BY <1>3, <3>1, <3>2
  <2>2. player_received[c][k][p]
    BY <1>1, <1>2, <1>3, <2>1
  <2>3. PICK f \in logic_updates[c] .. logic_updates[c] + NetQueue - 1 :
               NETQUEUE_SLOT(f) = k /\ f < outgoing_sequence[roster[c][p]]
    BY <2>2 DEF Issued
  <2>4. f # logic_updates[c]
    BY <2>1, <2>3 DEF slot
  <2>5. f \in logic_updates'[c] .. logic_updates'[c] + NetQueue - 1
    <3>1. logic_updates'[c] = logic_updates[c] + 1 /\ logic_updates[c] \in Nat
      BY <1>1, <1>2
    <3> QED
      BY <2>3, <2>4, <3>1, NetQueueAssumption
  <2> QED
    BY <2>3, <2>5
<1> QED
  BY <1>1, <1>3 DEF Issued

\* Only taking a turn and simulating a frame touch what a client received.
LEMMA ClientIssues ==
  ASSUME Inv, TypeOK', FitForLockstep, IssuedInv, NEW c \in Client,
         ClientStep(c) \/ ClientFault(c), UNCHANGED server
  PROVE  IssuedInv'
<1>1. SUFFICES ASSUME NEW d \in Client
               PROVE  Issued(d)'
  BY DEF IssuedInv
<1>2. /\ Issued(d) /\ TypeOK /\ UNCHANGED roster
      /\ \A e \in Client : outgoing_sequence[e] <= outgoing_sequence'[e]
  BY ClientFrame DEF IssuedInv, Inv, server
<1>3. CASE d # c
  BY <1>2, <1>3, OtherClients, IssuedKept
<1>4. CASE d = c /\ (Ingress(c) \/ Simulate(c))
  BY <1>2, <1>4, IngressIssues, SimulateIssues
<1>5. CASE d = c /\ ~(Ingress(c) \/ Simulate(c))
  <2>1. UNCHANGED <<player_received, logic_updates>>
    BY <1>5 DEF ClientStep, ClientFault, SendHandshake, ReceiveStart, Exit2,
                Tick, Stall, GiveUp, SendFails, Close, ingress, game
  <2> QED
    BY <1>2, <2>1, IssuedKept
<1> QED
  BY <1>3, <1>4, <1>5

\* Who is greeted has received nothing but frame 0.
LEMMA ServerIssues ==
  ASSUME Inv, Inv', IssuedInv, UNCHANGED client,
         \A d \in Client : roster'[d] = roster[d] \/ roster[d] = NoGame
  PROVE  IssuedInv'
<1>1. SUFFICES ASSUME NEW d \in Client
               PROVE  Issued(d)'
  BY DEF IssuedInv
<1>2. UNCHANGED <<outgoing_sequence, player_received, logic_updates>>
  BY DEF client, egress, ingress, game
<1>3. CASE roster'[d] = roster[d]
  BY <1>2, <1>3 DEF IssuedInv, Issued
<1>4. CASE roster[d] = NoGame
  <2>1. /\ logic_updates[d] = 0
        /\ player_received[d] = [k \in Slot |-> [p \in Player |-> k = 0]]
    BY <1>4, UngreetedIsFresh
  <2>2. ASSUME NEW k \in Slot, NEW p \in DOMAIN roster'[d],
               player_received[d][k][p]
        PROVE  NETQUEUE_SLOT(0) = k /\ 0 < outgoing_sequence[roster'[d][p]]
    <3>1. p \in Player /\ roster'[d][p] \in Client
      <4>1. DOMAIN roster'[d] \subseteq Player
        BY DEF Inv, TypeOK, ServerTypeOK
      <4> QED
        BY <4>1 DEF Inv, AgreementInv, Greeted
    <3>2. k = 0
      <4>1. player_received[d][k] = [q \in Player |-> k = 0]
        BY <2>1
      <4> QED
        BY <2>2, <3>1, <4>1
    <3>3. outgoing_sequence[roster'[d][p]] \in Nat \ {0}
      BY <3>1 DEF Inv, TypeOK, ClientTypeOK
    <3> QED
      BY <3>2, <3>3, NetQueueAssumption DEF NETQUEUE_SLOT
  <2>3. 0 \in logic_updates[d] .. logic_updates[d] + NetQueue - 1
    BY <2>1, NetQueueAssumption
  <2> QED
    BY <1>2, <2>2, <2>3 DEF Issued
<1> QED
  BY <1>3, <1>4

\* A client simulates a frame: every player of its game has made that turn, and
\* the inputs of its slot are what they did in it.
LEMMA SimulateApplies ==
  ASSUME Inv, NEW c \in Client, Issued(c), Simulate(c), UNCHANGED server
  PROVE  Replicas!Apply(c)
<1> DEFINE slot == NETQUEUE_SLOT(logic_updates[c])
<1>1. /\ pc[c] = "ingress" /\ AllReceived(c)
      /\ UNCHANGED <<roster, outgoing_sequence>>
      /\ turns' = [turns EXCEPT ![c] = Append(@, player_input[c][slot])]
  BY DEF Simulate, server, egress
<1>2. /\ TypeOK /\ Introduced(c) /\ Frames(c) /\ ~Unintroduced(c)
      /\ roster[c] # NoGame /\ logic_updates[c] = Len(turns[c])
  BY <1>1, RunnerIsAt
     DEF Inv, AgreementInv, Applied, Running, Unintroduced
<1>3. logic_updates[c] \in Nat /\ slot \in Slot
  BY <1>2, SlotType DEF TypeOK, ClientTypeOK
<1>4. player_input[c][slot] = TurnVector(roster[c], logic_updates[c])
  BY <1>1, <1>2, SlotHoldsTurn
<1>5. ASSUME NEW p \in DOMAIN roster[c]
      PROVE  logic_updates[c] < outgoing_sequence[roster[c][p]]
  <2>1. player_received[c][slot][p]
    <3>1. p \in Player /\ p < player_count[c]
      BY <1>2, RosterType DEF TypeOK, Introduced
    <3> QED
      BY <1>1, <3>1 DEF AllReceived
  <2> HIDE DEF slot
  <2>2. PICK f \in logic_updates[c] .. logic_updates[c] + NetQueue - 1 :
               NETQUEUE_SLOT(f) = slot /\ f < outgoing_sequence[roster[c][p]]
    BY <1>3, <2>1 DEF Issued
  <2>3. f \in Nat /\ logic_updates[c] <= f /\ f - logic_updates[c] < NetQueue
    BY <1>3, <2>2, NetQueueAssumption
  <2>4. ~(logic_updates[c] < f)
    BY <1>3, <2>2, <2>3, SlotsApart DEF slot
  <2>5. f = logic_updates[c]
    BY <1>3, <2>3, <2>4
  <2> QED
    BY <2>2, <2>5
<1> HIDE DEF slot
<1>6. TurnVector(roster[c], logic_updates[c])
        = Replicas!TurnVector(roster[c], Len(turns[c]))
  BY <1>2 DEF TurnVector, Replicas!TurnVector, InputOf, Replicas!InputOf,
              Player, Replicas!Player, NoEvents, Replicas!NoEvents
<1>7. turns' = [turns EXCEPT ![c] = Append(@, Replicas!TurnVector(
                                              roster[c], Len(turns[c])))]
  BY <1>1, <1>4, <1>6
<1> QED
  BY <1>1, <1>2, <1>5, <1>7 DEF Replicas!Apply, NoGame

\* Every step of the game is one of the replicas, or none of theirs.
LEMMA ReplicasStep ==
  ASSUME FitForLockstep, Inv, Inv', IssuedInv, [Next]_vars
  PROVE  [Replicas!Next]_(Replicas!replicas) /\ IssuedInv'
<1>0. TypeOK /\ TypeOK'
  BY DEF Inv
<1>1. CASE ServerNext /\ UNCHANGED client
  <2>1. ~Spend("tick") /\ ~Spend("restart")
    BY DEF Inv, AgreementInv, NobodyOverdue, Spend, Confusing
  <2>2. Overdue = {}
    BY TimeoutAssumption DEF Inv, AgreementInv, NobodyOverdue, Overdue
  <2>3. PICK c \in Client : HandleHandshake(c) \/ HandleTurn(c)
    BY <1>1, <2>1, <2>2 DEF ServerNext, ClockTick, DropInactive, Restart
  <2>4. UNCHANGED roster \/ Replicas!Form
    <3>1. CASE HandleHandshake(c)
      BY <1>0, <1>1, <3>1, HandshakeForms
    <3>2. CASE HandleTurn(c)
      BY <3>2 DEF HandleTurn
    <3> QED
      BY <2>3, <3>1, <3>2
  <2>5. UNCHANGED <<outgoing_sequence, turns>>
    BY <1>1 DEF client, egress, game
  <2>6. \A d \in Client : roster'[d] = roster[d] \/ roster[d] = NoGame
    BY <2>4 DEF Replicas!Form, NoGame
  <2>7. IssuedInv'
    BY <1>1, <2>6, ServerIssues
  <2> QED
    BY <2>4, <2>5, <2>7 DEF Replicas!Next, Replicas!replicas
<1>2. ASSUME NEW c \in Client, ClientStep(c) \/ ClientFault(c), UNCHANGED server
      PROVE  [Replicas!Next]_(Replicas!replicas) /\ IssuedInv'
  <2>1. UNCHANGED roster /\ Issued(c)
    BY <1>2 DEF server, IssuedInv
  <2>2. CASE Tick(c) \/ SendFails(c)
    <3>1. roster[c] # NoGame
      BY <2>2, RunnerIsAt DEF Tick, SendFails, Running
    <3>2. /\ outgoing_sequence' = [outgoing_sequence EXCEPT ![c] = @ + 1]
          /\ UNCHANGED turns
      BY <2>2 DEF Tick, SendFails, MakeTurn, game
    <3>3. Replicas!Issue(c)
      BY <2>1, <3>1, <3>2 DEF Replicas!Issue, NoGame
    <3> QED
      BY <1>0, <1>2, <3>3, ClientIssues DEF Replicas!Next
  <2>3. CASE Simulate(c)
    <3>1. Replicas!Apply(c)
      BY <1>2, <2>1, <2>3, SimulateApplies
    <3> QED
      BY <1>0, <1>2, <3>1, ClientIssues DEF Replicas!Next
  <2>4. CASE ~(Tick(c) \/ SendFails(c) \/ Simulate(c))
    <3>1. UNCHANGED <<outgoing_sequence, turns>>
      BY <1>2, <2>4 DEF ClientStep, ClientFault, SendHandshake, ReceiveStart,
                        Exit2, Ingress, Stall, GiveUp, Close, egress, game
    <3> QED
      BY <1>0, <1>2, <2>1, <3>1, ClientIssues DEF Replicas!replicas
  <2> QED
    BY <2>2, <2>3, <2>4
<1>3. CASE (NetworkFault /\ UNCHANGED <<server, client>>) \/ UNCHANGED vars
  <2>1. /\ UNCHANGED <<roster, outgoing_sequence, turns>>
        /\ UNCHANGED <<player_received, logic_updates>>
    BY <1>3 DEF vars, server, client, egress, ingress, game
  <2>2. IssuedInv'
    BY <2>1 DEF IssuedInv, Issued
  <2> QED
    BY <2>1, <2>2 DEF Replicas!replicas
<1> QED
  BY <1>1, <1>2, <1>3 DEF Next

LEMMA ReplicasInit == Init => Replicas!Init /\ IssuedInv
<1> SUFFICES ASSUME Init PROVE Replicas!Init /\ IssuedInv
  OBVIOUS
<1>1. Replicas!Init
  BY DEF Init, ServerInit, ClientInit, NoGame, Replicas!Init
<1>2. \A c \in Client : DOMAIN roster[c] = {}
  BY NoGameIsEmpty DEF Init, ServerInit
<1> QED
  BY <1>1, <1>2 DEF IssuedInv, Issued

\* In a game that is fit for lockstep, where every greeting is sent (the code goes
\* on without it, server.cc:152), the network code keeps its promise to the
\* simulation ("Apply player commands for turn N", space.cc:237): the players of
\* a game are replicas that apply the same turns in the same order, each of them
\* when all of them have made it.
THEOREM GameImplementsLockstep ==
  ASSUME FitForLockstep
  PROVE  Spec => ImplementsLockstep
<1>1. Init => Inv /\ IssuedInv /\ Replicas!Init
  BY InvInit, ReplicasInit
<1>2. Inv /\ IssuedInv /\ [Next]_vars
        => Inv' /\ IssuedInv' /\ [Replicas!Next]_(Replicas!replicas)
  <2> SUFFICES ASSUME Inv, IssuedInv, [Next]_vars
               PROVE  Inv' /\ IssuedInv' /\ [Replicas!Next]_(Replicas!replicas)
    OBVIOUS
  <2>1. Inv'
    BY InvNext
  <2> QED
    BY <2>1, ReplicasStep
<1> QED
  BY <1>1, <1>2, PTL DEF Spec, ImplementsLockstep, Replicas!Spec
=============================================================================
