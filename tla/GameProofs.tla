----------------------------- MODULE GameProofs -----------------------------
(***************************************************************************)
(* What holds of the game whatever the medium and the processes do: facts  *)
(* about the medium and the frame queue; type correctness; the input       *)
(* history is preserved until it is acknowledged, and every input on the   *)
(* wire is what a player did.                                              *)
(***************************************************************************)
EXTENDS Game, FiniteSetTheorems, WellFoundedInduction, TLAPS

-----------------------------------------------------------------------------
(* The medium invents nothing: a set that holds every datagram in flight    *)
(* still does after a fault.                                               *)

\* Losing a datagram leaves datagrams that were in flight.
LEMMA RemoveAtType ==
  ASSUME NEW S, NEW q \in Seq(S), NEW i \in DOMAIN q
  PROVE  RemoveAt(q, i) \in Seq(S)
<1>1. i \in 1 .. Len(q)
  OBVIOUS
<1>2. SubSeq(q, 1, i - 1) \in Seq(S) /\ SubSeq(q, i + 1, Len(q)) \in Seq(S)
  BY <1>1
<1> QED
  BY <1>2 DEF RemoveAt

\* Inserting a datagram that was in flight does too.
LEMMA InsertAtType ==
  ASSUME NEW S, NEW q \in Seq(S), NEW e \in S, NEW j \in 1 .. Len(q) + 1
  PROVE  InsertAt(q, j, e) \in Seq(S)
<1>1. SubSeq(q, 1, j - 1) \in Seq(S) /\ SubSeq(q, j, Len(q)) \in Seq(S)
  OBVIOUS
<1>2. <<e>> \in Seq(S)
  OBVIOUS
<1> QED
  BY <1>1, <1>2 DEF InsertAt

LEMMA RemoveAtLen ==
  ASSUME NEW S, NEW q \in Seq(S), NEW i \in DOMAIN q
  PROVE  Len(RemoveAt(q, i)) = Len(q) - 1
<1> DEFINE before == SubSeq(q, 1, i - 1)
           after == SubSeq(q, i + 1, Len(q))
<1>1. i \in 1 .. Len(q)
  OBVIOUS
<1>2. before \in Seq(S) /\ Len(before) = i - 1
  BY <1>1
<1>3. after \in Seq(S) /\ Len(after) = Len(q) - i
  BY <1>1
<1>4. Len(before \o after) = Len(before) + Len(after)
  BY <1>2, <1>3
<1>5. RemoveAt(q, i) = before \o after
  BY DEF RemoveAt
<1>6. Len(RemoveAt(q, i)) = (i - 1) + (Len(q) - i)
  BY <1>2, <1>3, <1>4, <1>5
<1>7. i \in Int /\ Len(q) \in Int
  BY <1>1
<1> HIDE DEF before, after
<1> QED
  BY <1>6, <1>7

\* What the medium may make of the datagrams in flight are datagrams of the
\* same kind.
LEMMA FaultsType ==
  ASSUME NEW S, NEW q \in Seq(S)
  PROVE  /\ Lost(q) \subseteq Seq(S)
         /\ Copied(q) \subseteq Seq(S)
         /\ Delayed(q) \subseteq Seq(S)
<1>1. Lost(q) \subseteq Seq(S)
  BY RemoveAtType DEF Lost
<1>2. Copied(q) \subseteq Seq(S)
  <2>1. SUFFICES ASSUME NEW i \in DOMAIN q, NEW j \in i + 1 .. Len(q) + 1
                 PROVE  InsertAt(q, j, q[i]) \in Seq(S)
    BY DEF Copied
  <2>2. i \in 1 .. Len(q) /\ q[i] \in S
    OBVIOUS
  <2> QED
    BY <2>2, InsertAtType
<1>3. Delayed(q) \subseteq Seq(S)
  <2>1. SUFFICES ASSUME NEW i \in DOMAIN q, NEW j \in i + 1 .. Len(q)
                 PROVE  InsertAt(RemoveAt(q, i), j, q[i]) \in Seq(S)
    BY DEF Delayed
  <2>2. i \in 1 .. Len(q) /\ q[i] \in S
    OBVIOUS
  <2>3. RemoveAt(q, i) \in Seq(S) /\ Len(RemoveAt(q, i)) = Len(q) - 1
    BY RemoveAtType, RemoveAtLen
  <2>4. j \in 1 .. Len(RemoveAt(q, i)) + 1
    BY <2>2, <2>3
  <2> QED
    BY <2>2, <2>3, <2>4, InsertAtType
<1> QED
  BY <1>1, <1>2, <1>3

-----------------------------------------------------------------------------
(* The frame queue. *)

LEMMA SlotType ==
  ASSUME NEW s \in Nat
  PROVE  NETQUEUE_SLOT(s) \in Slot
BY NetQueueAssumption DEF NETQUEUE_SLOT, Slot

\* Two different turns that share a slot are at least NetQueue turns apart.
LEMMA SlotsApart ==
  ASSUME NEW s \in Nat, NEW t \in Nat, s < t, t - s < NetQueue
  PROVE  NETQUEUE_SLOT(s) # NETQUEUE_SLOT(t)
<1>1. NetQueue \in Nat \ {0}
  BY NetQueueAssumption
<1>2. PICK q \in Int, r \in 0 .. NetQueue - 1 : s = NetQueue * q + r
                                               /\ r = s % NetQueue
  <2>1. s = NetQueue * (s \div NetQueue) + (s % NetQueue)
    BY <1>1
  <2>2. s \div NetQueue \in Int /\ s % NetQueue \in 0 .. NetQueue - 1
    BY <1>1
  <2> QED
    BY <2>1, <2>2
<1>3. PICK u \in Int, v \in 0 .. NetQueue - 1 : t = NetQueue * u + v
                                               /\ v = t % NetQueue
  <2>1. t = NetQueue * (t \div NetQueue) + (t % NetQueue)
    BY <1>1
  <2>2. t \div NetQueue \in Int /\ t % NetQueue \in 0 .. NetQueue - 1
    BY <1>1
  <2> QED
    BY <2>1, <2>2
<1>4. SUFFICES ASSUME r = v PROVE FALSE
  BY <1>2, <1>3 DEF NETQUEUE_SLOT
<1>5. t - s = NetQueue * u - NetQueue * q
  BY <1>1, <1>2, <1>3, <1>4
<1>6. t - s = NetQueue * (u - q)
  BY <1>1, <1>5
<1>7. u - q >= 1
  BY <1>1, <1>6
<1>8. NetQueue * (u - q) >= NetQueue
  BY <1>1, <1>7
<1> QED
  BY <1>1, <1>6, <1>8

-----------------------------------------------------------------------------
(* The types of datagrams, ids and variables.                              *)

LEMMA InputOfType ==
  ASSUME NEW c \in Client, NEW s \in Nat
  PROVE  InputOf(c, s) \in Input
BY DEF InputOf, Input

LEMMA HandshakeType ==
  ASSUME NEW n \in Nat
  PROVE  Handshake(n) \in ToServer
BY DEF Handshake, ToServer

LEMMA TurnType ==
  ASSUME NEW s \in Nat \ {0}, NEW e \in Input
  PROVE  Turn(s, e) \in ToServer
BY DEF Turn, ToServer

LEMMA NotifyStartType ==
  ASSUME NEW g \in Nat, NEW p \in Player, NEW n \in Nat
  PROVE  NotifyStart(g, p, n) \in ToClient
BY DEF NotifyStart, ToClient, Input

LEMMA NotifyTurnType ==
  ASSUME NEW f \in Nat, NEW p \in Player, NEW a \in Nat, NEW e \in Input
  PROVE  NotifyTurn(f, p, a, e) \in ToClient
BY DEF NotifyTurn, ToClient

\* The ids given to the waiting slots are player ids.
LEMMA NewIdType ==
  ASSUME NEW waiting \in SUBSET Player, NEW i \in waiting
  PROVE  /\ NewId(waiting, i) \in Player
         /\ IsFiniteSet(waiting)
         /\ NewId(waiting, i) < Cardinality(waiting)
<1> DEFINE before == {j \in waiting : j < i}
<1>1. IsFiniteSet(Player) /\ Cardinality(Player) = MaxPlayer
  <2>1. MaxPlayer - 1 \in Int /\ 0 \in Int
    BY MaxPlayerAssumption
  <2> QED
    BY <2>1, FS_Interval, MaxPlayerAssumption DEF Player
<1>2. /\ IsFiniteSet(waiting)
      /\ Cardinality(waiting) \in Nat
      /\ Cardinality(waiting) <= MaxPlayer
  BY <1>1, FS_Subset, FS_CardinalityType
<1>3. before \subseteq waiting /\ i \notin before /\ i \in waiting
  BY DEF Player
<1>4. IsFiniteSet(before) /\ Cardinality(before) \in Nat
  BY <1>2, <1>3, FS_Subset, FS_CardinalityType
<1>5. before # waiting
  BY <1>3
<1>6. Cardinality(before) < Cardinality(waiting)
  <2> HIDE DEF before
  <2>1. /\ Cardinality(before) <= Cardinality(waiting)
        /\ Cardinality(before) = Cardinality(waiting) => waiting = before
    BY <1>2, <1>3, FS_Subset
  <2> QED
    BY <1>2, <1>4, <1>5, <2>1
<1> QED
  BY <1>2, <1>4, <1>6, MaxPlayerAssumption DEF NewId, Player

-----------------------------------------------------------------------------
LEMMA InitType == Init => TypeOK
<1> SUFFICES ASSUME Init PROVE TypeOK
  OBVIOUS
<1> USE DEF Init
<1>1. NetworkTypeOK
  BY BudgetAssumption DEF NetworkInit, NetworkTypeOK
<1>2. ServerTypeOK
  <2>1. 0 \in Player
    BY MaxPlayerAssumption DEF Player
  <2>2. ZeroPlayer \in PlayerState
    BY <2>1 DEF ZeroPlayer, PlayerState
  <2>3. NoGame \in [{} -> Client \cup {NoPeer}] /\ {} \in SUBSET Player
    BY DEF NoGame
  <2>4. NoGame \in UNION {[ids -> Client \cup {NoPeer}] : ids \in SUBSET Player}
    BY <2>3
  <2>5. roster \in [Client -> UNION {[ids -> Client \cup {NoPeer}] :
                                      ids \in SUBSET Player}]
    BY <2>4 DEF ServerInit
  <2>6. /\ player \in [Player -> PlayerState]
        /\ idle \in [Player -> 0 .. Timeout + 1]
        /\ next_game_id \in Nat \ {0}
    BY <2>2, TimeoutAssumption DEF ServerInit
  <2> QED
    BY <2>5, <2>6 DEF ServerTypeOK
<1>3. ClientTypeOK
  <2>1. 0 \in Player
    BY MaxPlayerAssumption DEF Player
  <2>2. 0 \in 0 .. MaxSend
    BY MaxSendAssumption
  <2> QED
    BY <2>1, <2>2 DEF ClientInit, ClientTypeOK, Input
<1> QED
  BY <1>1, <1>2, <1>3 DEF TypeOK

LEMMA SpendType ==
  ASSUME NetworkTypeOK, NEW k \in Fault, Spend(k)
  PROVE  faults' \in [Fault -> Nat]
BY DEF Spend, NetworkTypeOK

\* A fault of the medium.
LEMMA NetworkFaultType ==
  ASSUME NetworkTypeOK, NetworkFault
  PROVE  NetworkTypeOK'
<1> USE DEF NetworkTypeOK
<1>1. ASSUME NEW c \in Client, NEW k \in Fault, NEW outcomes,
             outcomes \subseteq Seq(ToServer), FaultUp(c, k, outcomes)
      PROVE  NetworkTypeOK'
  BY <1>1 DEF FaultUp, Spend
<1>2. ASSUME NEW c \in Client, NEW k \in Fault, NEW outcomes,
             outcomes \subseteq Seq(ToClient), FaultDown(c, k, outcomes)
      PROVE  NetworkTypeOK'
  BY <1>2 DEF FaultDown, Spend
<1>3. PICK c \in Client : \/ LoseUp(c) \/ CopyUp(c) \/ DelayUp(c)
                          \/ LoseDown(c) \/ CopyDown(c) \/ DelayDown(c)
  BY DEF NetworkFault
<1>4. toServer[c] \in Seq(ToServer) /\ toClient[c] \in Seq(ToClient)
  OBVIOUS
<1>5. CASE LoseUp(c)
  BY <1>1, <1>4, <1>5, FaultsType DEF LoseUp, Fault
<1>6. CASE CopyUp(c)
  BY <1>1, <1>4, <1>6, FaultsType DEF CopyUp, Fault
<1>7. CASE DelayUp(c)
  BY <1>1, <1>4, <1>7, FaultsType DEF DelayUp, Fault
<1>8. CASE LoseDown(c)
  BY <1>2, <1>4, <1>8, FaultsType DEF LoseDown, Fault
<1>9. CASE CopyDown(c)
  BY <1>2, <1>4, <1>9, FaultsType DEF CopyDown, Fault
<1>10. CASE DelayDown(c)
  BY <1>2, <1>4, <1>10, FaultsType DEF DelayDown, Fault
<1> QED
  BY <1>3, <1>5, <1>6, <1>7, <1>8, <1>9, <1>10

-----------------------------------------------------------------------------
(* The server. *)

LEMMA ReceivedType ==
  ASSUME NetworkTypeOK, NEW c \in Client, Received(c)
  PROVE  /\ toServer' \in [Client -> Seq(ToServer)]
         /\ Head(toServer[c]) \in ToServer
<1>1. toServer[c] \in Seq(ToServer) /\ toServer[c] # <<>>
  BY DEF NetworkTypeOK, Received
<1>2. Tail(toServer[c]) \in Seq(ToServer) /\ Head(toServer[c]) \in ToServer
  BY <1>1
<1> QED
  BY <1>2 DEF NetworkTypeOK, Received

LEMMA FirstType ==
  ASSUME Free # {}
  PROVE  First(Free) \in Free
<1>1. Free \subseteq Player /\ Player \subseteq Nat
  BY DEF Free, Player
<1> DEFINE less == {ss \in Nat \X Nat : ss[1] < ss[2]}
<1>2. IsWellFoundedOn(less, Nat)
  BY NatLessThanWellFounded DEF OpToRel
<1>3. PICK i \in Free : \A j \in Free : ~ (<<j, i>> \in less)
  <2> HIDE DEF less
  <2> QED
    BY <1>1, <1>2, WFMin
<1>4. ASSUME NEW j \in Free PROVE i <= j
  <2>1. i \in Nat /\ j \in Nat
    BY <1>1
  <2>2. <<j, i>> \in less <=> j < i
    BY <2>1
  <2> QED
    BY <1>3, <2>1, <2>2
<1> QED
  BY <1>4 DEF First

LEMMA AcceptedType ==
  ASSUME ServerTypeOK, NEW c \in Client, NEW n \in Nat, NEW i \in Player
  PROVE  Accepted(c, n, i) \in [Player -> PlayerState]
BY DEF ServerTypeOK, Accepted, PlayerState

LEMMA GreetType ==
  ASSUME NetworkTypeOK, ServerTypeOK,
         NEW table \in [Player -> PlayerState],
         NEW waiting \in SUBSET Player, NEW n \in Nat,
         Greet(table, waiting, n)
  PROVE  /\ toClient' \in [Client -> Seq(ToClient)]
         /\ faults' \in [Fault -> Nat]
         /\ player' \in [Player -> PlayerState]
         /\ next_game_id' \in Nat \ {0}
         /\ roster' \in [Client -> UNION {[ids -> Client \cup {NoPeer}] :
                                           ids \in SUBSET Player}]
<1> DEFINE member(d) == \E i \in waiting : table[i].peer = d
           slotOf(d) == CHOOSE i \in waiting : table[i].peer = d
           withId(id) == CHOOSE i \in waiting : NewId(waiting, i) = id
           allIds == {NewId(waiting, i) : i \in waiting}
           group == [id \in allIds |-> table[withId(id)].peer]
<1>1. \A i \in waiting : NewId(waiting, i) \in Player
  BY NewIdType
<1>2. next_game_id \in Nat \ {0}
  BY DEF ServerTypeOK
<1>3. ASSUME NEW i \in Player
      PROVE  player'[i] \in PlayerState
  <2>1. CASE i \in waiting
    <3>1. player'[i] = [table[i] EXCEPT !.game_id = next_game_id,
                                        !.player_id = NewId(waiting, i)]
      BY <2>1 DEF Greet
    <3> QED
      BY <1>1, <1>2, <2>1, <3>1 DEF PlayerState
  <2>2. CASE i \notin waiting
    BY <2>2 DEF Greet
  <2> QED
    BY <2>1, <2>2
<1>4. player' \in [Player -> PlayerState]
  <2>1. player' = [i \in Player |-> player'[i]]
    BY DEF Greet
  <2> QED
    BY <1>3, <2>1
<1>5. ASSUME NEW d \in Client
      PROVE  toClient'[d] \in Seq(ToClient)
  <2>1. toClient[d] \in Seq(ToClient)
    BY DEF NetworkTypeOK
  <2>4. PICK missed \in SUBSET waiting :
          toClient' =
            [e \in Client |->
               IF member(e) /\ slotOf(e) \notin missed
                 THEN Append(toClient[e],
                             NotifyStart(next_game_id,
                                         NewId(waiting, slotOf(e)), n))
                 ELSE toClient[e]]
    BY Zenon DEF Greet
  <2>2. CASE member(d) /\ slotOf(d) \notin missed
    <3>1. slotOf(d) \in waiting
      BY <2>2
    <3> HIDE DEF slotOf
    <3>2. NewId(waiting, slotOf(d)) \in Player
      BY <1>1, <3>1
    <3>3. NotifyStart(next_game_id, NewId(waiting, slotOf(d)), n) \in ToClient
      BY <1>2, <3>2, NotifyStartType
    <3>4. toClient'[d] = Append(toClient[d],
                  NotifyStart(next_game_id, NewId(waiting, slotOf(d)), n))
      BY <2>2, <2>4 DEF slotOf
    <3> QED
      BY <2>1, <3>3, <3>4
  <2>3. CASE ~(member(d) /\ slotOf(d) \notin missed)
    BY <2>1, <2>3, <2>4
  <2> QED
    BY <2>2, <2>3
<1>6. toClient' \in [Client -> Seq(ToClient)]
  <2>1. toClient' = [d \in Client |-> toClient'[d]]
    BY DEF Greet
  <2> QED
    BY <1>5, <2>1
<1>12. faults' \in [Fault -> Nat]
  <2>1. PICK missed \in SUBSET waiting : GreetingsFail(missed)
    BY DEF Greet
  <2>2. UNCHANGED faults \/ Spend("greet")
    BY <2>1 DEF GreetingsFail
  <2> QED
    BY <2>2, SpendType DEF NetworkTypeOK, Fault
<1>7. group \in UNION {[ids -> Client \cup {NoPeer}] : ids \in SUBSET Player}
  <2>1. allIds \in SUBSET Player
    BY <1>1
  <2>2. ASSUME NEW id \in allIds PROVE table[withId(id)].peer \in Client \cup {NoPeer}
    <3>1. withId(id) \in waiting
      BY <2>2
    <3> HIDE DEF withId
    <3> QED
      BY <3>1 DEF PlayerState
  <2>3. group \in [allIds -> Client \cup {NoPeer}]
    BY <2>2
  <2> QED
    BY <2>1, <2>3
<1>8. roster' = [d \in Client |-> IF member(d) THEN group ELSE roster[d]]
  BY DEF Greet
<1>9. roster' \in [Client -> UNION {[ids -> Client \cup {NoPeer}] :
                                     ids \in SUBSET Player}]
  <2> HIDE DEF group, member
  <2> QED
    BY <1>7, <1>8 DEF ServerTypeOK
<1>10. next_game_id' = next_game_id + 1
  BY ZenonT(30) DEF Greet
<1>11. next_game_id' \in Nat \ {0}
  <2> HIDE DEF group, member
  <2> QED
    BY <1>2, <1>10
<1> QED
  BY <1>4, <1>6, <1>9, <1>11, <1>12

LEMMA HandleHandshakeType ==
  ASSUME NetworkTypeOK, ServerTypeOK, NEW c \in Client, HandleHandshake(c)
  PROVE  NetworkTypeOK' /\ ServerTypeOK'
<1> DEFINE n == Head(toServer[c]).num_players
           i == First(Free)
           table == Accepted(c, n, i)
           waiting == Waiting(table, n)
<1>1. /\ toServer' \in [Client -> Seq(ToServer)]
      /\ n \in Nat
  <2>1. Received(c) /\ Head(toServer[c]).kind = "handshake"
    BY DEF HandleHandshake
  <2> QED
    BY <2>1, ReceivedType DEF ToServer
<1>3. CASE Free = {} \/ Known(c)
  BY <1>1, <1>3 DEF HandleHandshake, NetworkTypeOK, ServerTypeOK, server
<1>4. CASE ~(Free = {} \/ Known(c))
  <2>1. i \in Player
    BY <1>4, FirstType DEF Free
  <2>2. table \in [Player -> PlayerState]
    BY <1>1, <2>1, AcceptedType
  <2>3. waiting \in SUBSET Player
    BY DEF Waiting
  <2>4. /\ idle' = [idle EXCEPT ![i] = 0]
        /\ \/ Greet(table, waiting, n)
           \/ /\ player' = table
              /\ UNCHANGED <<toClient, faults, next_game_id, roster>>
    BY <1>4 DEF HandleHandshake
  <2>5. idle' \in [Player -> 0 .. Timeout + 1]
    BY <2>1, <2>4, TimeoutAssumption DEF ServerTypeOK
  <2> HIDE DEF n, i, table, waiting
  <2>6. CASE Greet(table, waiting, n)
    BY <1>1, <2>2, <2>3, <2>5, <2>6, GreetType
       DEF NetworkTypeOK, ServerTypeOK
  <2>7. CASE /\ player' = table
             /\ UNCHANGED <<toClient, faults, next_game_id, roster>>
    BY <1>1, <2>2, <2>5, <2>7 DEF NetworkTypeOK, ServerTypeOK
  <2> QED
    BY <2>4, <2>6, <2>7
<1> QED
  BY <1>3, <1>4

LEMMA HandleTurnType ==
  ASSUME NetworkTypeOK, ServerTypeOK, NEW c \in Client, HandleTurn(c)
  PROVE  NetworkTypeOK' /\ ServerTypeOK'
<1> DEFINE turn == Head(toServer[c])
<1>1. /\ toServer' \in [Client -> Seq(ToServer)]
      /\ turn.sequence \in Nat \ {0} /\ turn.event \in Input
  <2>1. Received(c) /\ turn.kind = "turn"
    BY DEF HandleTurn
  <2>2. turn \in ToServer
    BY <2>1, ReceivedType
  <2> HIDE DEF turn
  <2> QED
    BY <2>1, <2>2, ReceivedType DEF ToServer
<1>2. UNCHANGED <<next_game_id, roster>>
  BY DEF HandleTurn
<1>3. CASE UNCHANGED <<toClient, faults, player, idle>>
  BY <1>1, <1>2, <1>3 DEF NetworkTypeOK, ServerTypeOK
<1>4. ASSUME NEW i \in Player,
             idle' = [idle EXCEPT ![i] = 0],
             UNCHANGED <<toClient, faults, player>>
      PROVE  NetworkTypeOK' /\ ServerTypeOK'
  <2>1. idle' \in [Player -> 0 .. Timeout + 1]
    BY <1>4, TimeoutAssumption DEF ServerTypeOK
  <2> QED
    BY <1>1, <1>2, <1>4, <2>1 DEF NetworkTypeOK, ServerTypeOK
<1>5. ASSUME NEW i \in Player, NEW stop \in 0 .. MaxPlayer,
             idle' = [idle EXCEPT ![i] = 0],
             player' = [player EXCEPT ![i].sequence = turn.sequence],
             SendToFailsAt(i, stop),
             Echo(i, turn.sequence, turn.event, stop)
      PROVE  NetworkTypeOK' /\ ServerTypeOK'
  <2>1. idle' \in [Player -> 0 .. Timeout + 1]
    BY <1>5, TimeoutAssumption DEF ServerTypeOK
  <2>2. player' \in [Player -> PlayerState]
    <3>1. player' = [player EXCEPT ![i] =
                                     [player[i] EXCEPT !.sequence = turn.sequence]]
      BY <1>5
    <3>2. player[i] \in PlayerState
      BY DEF ServerTypeOK
    <3> HIDE DEF turn
    <3>3. [player[i] EXCEPT !.sequence = turn.sequence] \in PlayerState
      BY <1>1, <3>2 DEF PlayerState
    <3> QED
      BY <3>1, <3>3 DEF ServerTypeOK
  <2>3. faults' \in [Fault -> Nat]
    <3>1. CASE UNCHANGED faults
      BY <3>1 DEF NetworkTypeOK
    <3>2. CASE Spend("send")
      BY <3>2, SpendType DEF Fault
    <3> QED
      BY <1>5, <3>1, <3>2 DEF SendToFailsAt
  <2>4. player[i].player_id \in Player
    BY DEF ServerTypeOK, PlayerState
  <2> DEFINE echo == NotifyTurn(turn.sequence, player[i].player_id,
                                turn.sequence, turn.event)
  <2>5. echo \in ToClient
    <3> HIDE DEF turn
    <3> QED
      BY <1>1, <2>4, NotifyTurnType
  <2>6. toClient' = [d \in Client |->
                       IF d \in Echoed(player[i].game_id, stop)
                         THEN Append(toClient[d], echo)
                         ELSE toClient[d]]
    BY <1>5 DEF Echo
  <2>7. toClient' \in [Client -> Seq(ToClient)]
    <3> HIDE DEF echo
    <3> QED
      BY <2>5, <2>6 DEF NetworkTypeOK
  <2> HIDE DEF turn, echo
  <2>8. ServerTypeOK'
    BY <1>2, <2>1, <2>2 DEF ServerTypeOK
  <2>9. NetworkTypeOK'
    BY <1>1, <1>2, <2>3, <2>7 DEF NetworkTypeOK
  <2> QED
    BY <2>8, <2>9
<1> QED
  BY <1>3, <1>4, <1>5 DEF HandleTurn

LEMMA ServerNextType ==
  ASSUME NetworkTypeOK, ServerTypeOK, ServerNext
  PROVE  NetworkTypeOK' /\ ServerTypeOK'
<1>1. ZeroPlayer \in PlayerState
  BY MaxPlayerAssumption DEF ZeroPlayer, PlayerState, Player
<1>2. CASE \E c \in Client : HandleHandshake(c) \/ HandleTurn(c)
  BY <1>2, HandleHandshakeType, HandleTurnType
<1>3. CASE ClockTick
  <2>1. idle' \in [Player -> 0 .. Timeout + 1]
    BY <1>3, TimeoutAssumption DEF ClockTick, ServerTypeOK
  <2>2. faults' \in [Fault -> Nat]
    BY <1>3, SpendType DEF ClockTick, Fault
  <2>3. UNCHANGED <<toServer, toClient, player, next_game_id, roster>>
    BY <1>3 DEF ClockTick
  <2> QED
    BY <2>1, <2>2, <2>3 DEF NetworkTypeOK, ServerTypeOK
<1>4. CASE DropInactive
  <2>1. player' = [i \in Player |-> IF i \in Overdue THEN ZeroPlayer
                                                    ELSE player[i]]
    BY <1>4 DEF DropInactive
  <2>2. UNCHANGED <<toServer, toClient, faults, idle, next_game_id, roster>>
    BY <1>4 DEF DropInactive, network
  <2>3. player' \in [Player -> PlayerState]
    BY <1>1, <2>1 DEF ServerTypeOK
  <2> QED
    BY <2>2, <2>3 DEF NetworkTypeOK, ServerTypeOK
<1>5. CASE Restart
  <2>1. faults' \in [Fault -> Nat]
    BY <1>5, SpendType DEF Restart, Fault
  <2>2. /\ player' = [i \in Player |-> ZeroPlayer]
        /\ idle' = [i \in Player |-> 0]
        /\ next_game_id' = 1
        /\ toServer' = [c \in Client |-> <<>>]
        /\ UNCHANGED <<toClient, roster>>
    BY <1>5 DEF Restart
  <2>3. <<>> \in Seq(ToServer)
    OBVIOUS
  <2> QED
    BY <1>1, <2>1, <2>2, <2>3, TimeoutAssumption DEF NetworkTypeOK, ServerTypeOK
<1> QED
  BY <1>2, <1>3, <1>4, <1>5 DEF ServerNext

-----------------------------------------------------------------------------
(* The clients. *)

LEMMA ReceivesType ==
  ASSUME NetworkTypeOK, NEW c \in Client, Receives(c)
  PROVE  /\ NetworkTypeOK'
         /\ Head(toClient[c]) \in ToClient
<1>1. toClient[c] \in Seq(ToClient) /\ toClient[c] # <<>>
  BY DEF NetworkTypeOK, Receives
<1>2. Tail(toClient[c]) \in Seq(ToClient) /\ Head(toClient[c]) \in ToClient
  BY <1>1
<1> QED
  BY <1>2 DEF NetworkTypeOK, Receives

LEMMA HandshakePhaseType ==
  ASSUME NetworkTypeOK, ClientTypeOK, NEW c \in Client,
         SendHandshake(c) \/ ReceiveStart(c) \/ GiveUp(c)
  PROVE  NetworkTypeOK' /\ ClientTypeOK'
<1>1. CASE SendHandshake(c)
  <2>1. Handshake(NumPlayers[c]) \in ToServer
    BY HandshakeType, NumPlayersAssumption
  <2>2. toServer' \in [Client -> Seq(ToServer)]
    <3>1. Append(toServer[c], Handshake(NumPlayers[c])) \in Seq(ToServer)
      BY <2>1 DEF NetworkTypeOK
    <3> QED
      BY <1>1, <3>1 DEF SendHandshake, NetworkTypeOK
  <2>3. send_count' \in [Client -> 0 .. MaxSend]
    BY <1>1, MaxSendAssumption DEF SendHandshake, ClientTypeOK
  <2>4. UNCHANGED <<pc, outgoing_sequence, input, ingress, identity, game,
                    toClient, faults>>
    BY <1>1 DEF SendHandshake
  <2>5. NetworkTypeOK'
    BY <2>2, <2>4 DEF NetworkTypeOK
  <2>6. ClientTypeOK'
    BY <2>3, <2>4 DEF ClientTypeOK, ingress, identity, game
  <2> QED
    BY <2>5, <2>6
<1>2. CASE ReceiveStart(c)
  <2>1. NetworkTypeOK' /\ Head(toClient[c]) \in ToClient
    BY <1>2, ReceivesType DEF ReceiveStart
  <2>2. Head(toClient[c]).second \in Player /\ Head(toClient[c]).third \in Nat
    BY <2>1 DEF ToClient
  <2>3. /\ UNCHANGED <<egress, ingress, game>>
        /\ \/ /\ player_id' = [player_id EXCEPT ![c] = Head(toClient[c]).second]
              /\ player_count' =
                   [player_count EXCEPT ![c] = Head(toClient[c]).third]
              /\ Goto(c, "input")
           \/ Goto(c, "nogame") /\ UNCHANGED identity
    BY <1>2 DEF ReceiveStart
  <2>4. ClientTypeOK'
    BY <2>2, <2>3 DEF Goto, ClientTypeOK, egress, ingress, identity, game
  <2> QED
    BY <2>1, <2>4
<1>3. CASE GiveUp(c)
  <2>1. faults' \in [Fault -> Nat]
    BY <1>3, SpendType DEF GiveUp, Fault
  <2>2. /\ Goto(c, "nogame")
        /\ UNCHANGED <<egress, ingress, identity, game, toServer, toClient>>
    BY <1>3 DEF GiveUp
  <2>3. NetworkTypeOK'
    BY <2>1, <2>2 DEF NetworkTypeOK
  <2>4. ClientTypeOK'
    BY <2>2 DEF Goto, ClientTypeOK, egress, ingress, identity, game
  <2> QED
    BY <2>3, <2>4
<1> QED
  BY <1>1, <1>2, <1>3

\* The turns a client sends are turns, with what its history holds.
LEMMA UnacknowledgedType ==
  ASSUME ClientTypeOK, NEW c \in Client, MakeTurn(c)
  PROVE  /\ outgoing_sequence' \in [Client -> Nat \ {0}]
         /\ input' \in [Client -> [Slot -> Input]]
         /\ UNCHANGED send_count
         /\ LocalAck(c) \in Nat
         /\ Unacknowledged(c) \in Seq(ToServer)
<1> DEFINE s == outgoing_sequence[c]
           ack == LocalAck(c)
           m == outgoing_sequence'[c] - 1 - ack
<1>1. s \in Nat \ {0} /\ ack \in Nat
  BY DEF ClientTypeOK, LocalAck
<1>2. ~Overrun(c) /\ ack <= s
  BY <1>1 DEF MakeTurn, Overrun
<1>3. outgoing_sequence' = [outgoing_sequence EXCEPT ![c] = s + 1]
  BY DEF MakeTurn
<1>4. outgoing_sequence' \in [Client -> Nat \ {0}] /\ outgoing_sequence'[c] = s + 1
  BY <1>1, <1>3 DEF ClientTypeOK
<1>5. InputOf(c, s) \in Input /\ NETQUEUE_SLOT(s) \in Slot
  BY <1>1, InputOfType, SlotType
<1>6. input' = [input EXCEPT ![c][NETQUEUE_SLOT(s)] = InputOf(c, s)]
  BY DEF MakeTurn
<1>7. input' \in [Client -> [Slot -> Input]]
  BY <1>5, <1>6 DEF ClientTypeOK
<1>8. m \in Nat
  BY <1>1, <1>2, <1>4
<1>9. ASSUME NEW k \in 1 .. m
      PROVE  Turn(ack + k, input'[c][NETQUEUE_SLOT(ack + k)]) \in ToServer
  <2>1. ack + k \in Nat \ {0}
    BY <1>1, <1>8
  <2>2. NETQUEUE_SLOT(ack + k) \in Slot
    BY <2>1, SlotType
  <2> QED
    BY <1>7, <2>1, <2>2, TurnType
<1>10. Unacknowledged(c) =
         [k \in 1 .. m |-> Turn(ack + k, input'[c][NETQUEUE_SLOT(ack + k)])]
  BY DEF Unacknowledged
<1>11. Unacknowledged(c) \in Seq(ToServer)
  <2> HIDE DEF m, ack
  <2> QED
    BY <1>8, <1>9, <1>10
<1>12. UNCHANGED send_count
  BY DEF MakeTurn
<1> QED
  BY <1>1, <1>4, <1>7, <1>11, <1>12

LEMMA SendsType ==
  ASSUME NetworkTypeOK, NEW c \in Client, NEW ds \in Seq(ToServer), Sends(c, ds)
  PROVE  toServer' \in [Client -> Seq(ToServer)]
<1>1. toServer[c] \o ds \in Seq(ToServer)
  BY DEF NetworkTypeOK
<1> QED
  BY <1>1 DEF Sends, NetworkTypeOK

LEMMA EgressType ==
  ASSUME NetworkTypeOK, ClientTypeOK, NEW c \in Client,
         Exit2(c) \/ Tick(c) \/ SendFails(c) \/ Close(c)
  PROVE  NetworkTypeOK' /\ ClientTypeOK'
<1>1. CASE Exit2(c)
  BY <1>1 DEF Exit2, Goto, NetworkTypeOK, ClientTypeOK,
              network, egress, ingress, identity, game
<1>2. ASSUME MakeTurn(c), NEW ds \in Seq(ToServer), Sends(c, ds),
             Goto(c, "ingress") \/ Goto(c, "exit1"),
             UNCHANGED <<ingress, identity, game, toClient>>,
             faults' \in [Fault -> Nat]
      PROVE  NetworkTypeOK' /\ ClientTypeOK'
  <2>1. toServer' \in [Client -> Seq(ToServer)]
    BY <1>2, SendsType
  <2>2. /\ outgoing_sequence' \in [Client -> Nat \ {0}]
        /\ input' \in [Client -> [Slot -> Input]]
        /\ UNCHANGED send_count
    BY <1>2, UnacknowledgedType
  <2>3. NetworkTypeOK'
    BY <1>2, <2>1 DEF NetworkTypeOK
  <2>4. ClientTypeOK'
    BY <1>2, <2>2 DEF ClientTypeOK, Goto, ingress, identity, game
  <2> QED
    BY <2>3, <2>4
<1>3. CASE Tick(c)
  <2>1. faults' \in [Fault -> Nat]
    BY <1>3 DEF Tick, NetworkTypeOK
  <2>2. MakeTurn(c) /\ Sends(c, Unacknowledged(c)) /\ Goto(c, "ingress")
    BY <1>3 DEF Tick
  <2>3. UNCHANGED <<ingress, identity, game, toClient>>
    BY <1>3 DEF Tick
  <2>4. Unacknowledged(c) \in Seq(ToServer)
    BY <2>2, UnacknowledgedType
  <2> QED
    BY <1>2, <2>1, <2>2, <2>3, <2>4
<1>4. CASE SendFails(c)
  <2>1. faults' \in [Fault -> Nat]
    BY <1>4, SpendType DEF SendFails, Fault
  <2>2. MakeTurn(c) /\ Goto(c, "exit1")
    BY <1>4 DEF SendFails
  <2>3. UNCHANGED <<ingress, identity, game, toClient>>
    BY <1>4 DEF SendFails
  <2>4. Unacknowledged(c) \in Seq(ToServer)
    BY <2>2, UnacknowledgedType
  <2>5. PICK n \in 0 .. Len(Unacknowledged(c)) - 1 :
               Sends(c, SubSeq(Unacknowledged(c), 1, n))
    BY <1>4 DEF SendFails
  <2>6. ASSUME NEW q \in Seq(ToServer), NEW n0 \in 0 .. Len(q) - 1
        PROVE  SubSeq(q, 1, n0) \in Seq(ToServer)
    OBVIOUS
  <2>7. SubSeq(Unacknowledged(c), 1, n) \in Seq(ToServer)
    BY <2>4, <2>6
  <2> QED
    BY <1>2, <2>1, <2>2, <2>3, <2>5, <2>7
<1>5. CASE Close(c)
  <2>1. faults' \in [Fault -> Nat]
    BY <1>5, SpendType DEF Close, Fault
  <2>2. /\ Goto(c, "closed")
        /\ UNCHANGED <<egress, ingress, identity, game, toServer, toClient>>
    BY <1>5 DEF Close
  <2>3. NetworkTypeOK'
    BY <2>1, <2>2 DEF NetworkTypeOK
  <2>4. ClientTypeOK'
    BY <2>2 DEF Goto, ClientTypeOK, egress, ingress, identity, game
  <2> QED
    BY <2>3, <2>4
<1> QED
  BY <1>1, <1>3, <1>4, <1>5

LEMMA FrameType ==
  ASSUME NetworkTypeOK, ClientTypeOK, NEW c \in Client,
         Ingress(c) \/ Simulate(c) \/ Stall(c)
  PROVE  NetworkTypeOK' /\ ClientTypeOK'
<1>1. CASE Ingress(c)
  <2> DEFINE turn == Head(toClient[c])
             slot == NETQUEUE_SLOT(turn.first)
             p == turn.second
  <2>1. NetworkTypeOK' /\ turn \in ToClient
    BY <1>1, ReceivesType DEF Ingress
  <2>2. /\ turn.first \in Nat /\ p \in Player
        /\ turn.third \in Nat /\ turn.event \in Input
    <3> HIDE DEF turn
    <3> QED
      BY <2>1 DEF ToClient
  <2>3. slot \in Slot
    BY <2>2, SlotType
  <2>4. /\ UNCHANGED <<egress, identity, game>>
        /\ \/ UNCHANGED <<pc, ingress>>
           \/ Goto(c, "exit1") /\ UNCHANGED ingress
           \/ /\ player_input' = [player_input EXCEPT ![c][slot][p] = turn.event]
              /\ player_received' =
                   [player_received EXCEPT ![c][slot][p] = TRUE]
              /\ outgoing_ack' =
                   [outgoing_ack EXCEPT
                      ![c][p] = IF turn.third > @ THEN turn.third ELSE @]
              /\ UNCHANGED pc
    BY <1>1 DEF Ingress
  <2> HIDE DEF turn, slot, p
  <2>5. CASE UNCHANGED <<pc, ingress>>
    BY <2>1, <2>4, <2>5 DEF ClientTypeOK, egress, ingress, identity, game
  <2>6. CASE Goto(c, "exit1") /\ UNCHANGED ingress
    BY <2>1, <2>4, <2>6 DEF Goto, ClientTypeOK, egress, ingress, identity, game
  <2>7. CASE /\ player_input' = [player_input EXCEPT ![c][slot][p] = turn.event]
             /\ player_received' = [player_received EXCEPT ![c][slot][p] = TRUE]
             /\ outgoing_ack' =
                  [outgoing_ack EXCEPT
                     ![c][p] = IF turn.third > @ THEN turn.third ELSE @]
             /\ UNCHANGED pc
    <3>1. player_input' \in [Client -> [Slot -> [Player -> Input]]]
      BY <2>2, <2>3, <2>7 DEF ClientTypeOK
    <3>2. player_received' \in [Client -> [Slot -> [Player -> BOOLEAN]]]
      BY <2>2, <2>3, <2>7 DEF ClientTypeOK
    <3>3. outgoing_ack' \in [Client -> [Player -> Nat]]
      BY <2>2, <2>7 DEF ClientTypeOK
    <3> QED
      BY <2>1, <2>4, <2>7, <3>1, <3>2, <3>3
         DEF ClientTypeOK, egress, identity, game
  <2> QED
    BY <2>4, <2>5, <2>6, <2>7
<1>2. CASE Simulate(c)
  <2> DEFINE slot == NETQUEUE_SLOT(logic_updates[c])
  <2>1. slot \in Slot
    BY SlotType DEF ClientTypeOK
  <2>2. /\ player_received' =
             [player_received EXCEPT ![c][slot] = [p \in Player |-> FALSE]]
        /\ turns' = [turns EXCEPT ![c] = Append(@, player_input[c][slot])]
        /\ logic_updates' = [logic_updates EXCEPT ![c] = @ + 1]
        /\ Goto(c, "input")
        /\ UNCHANGED <<network, egress, identity, outgoing_ack, player_input>>
    BY <1>2 DEF Simulate
  <2> HIDE DEF slot
  <2>3. player_received' \in [Client -> [Slot -> [Player -> BOOLEAN]]]
    BY <2>1, <2>2 DEF ClientTypeOK
  <2>4. turns' \in [Client -> Seq([Player -> Input])]
    <3>1. Append(turns[c], player_input[c][slot]) \in Seq([Player -> Input])
      BY <2>1 DEF ClientTypeOK
    <3> QED
      BY <2>2, <3>1 DEF ClientTypeOK
  <2>5. NetworkTypeOK'
    BY <2>2 DEF NetworkTypeOK, network
  <2>6. logic_updates' \in [Client -> Nat]
    BY <2>2 DEF ClientTypeOK
  <2>7. pc' \in [Client -> {"handshake", "input", "ingress",
                            "exit1", "exit2", "nogame", "closed"}]
    BY <2>2 DEF Goto, ClientTypeOK
  <2>8. UNCHANGED <<send_count, outgoing_sequence, input, player_id,
                    player_count, outgoing_ack, player_input>>
    BY <2>2 DEF egress, identity
  <2>9. ClientTypeOK'
    BY <2>3, <2>4, <2>6, <2>7, <2>8 DEF ClientTypeOK
  <2> QED
    BY <2>5, <2>9
<1>3. CASE Stall(c)
  BY <1>3 DEF Stall, Goto, NetworkTypeOK, ClientTypeOK,
              network, egress, ingress, identity, game
<1> QED
  BY <1>1, <1>2, <1>3

-----------------------------------------------------------------------------
LEMMA NextType == TypeOK /\ [Next]_vars => TypeOK'
<1> SUFFICES ASSUME TypeOK, [Next]_vars PROVE TypeOK'
  OBVIOUS
<1> USE DEF TypeOK
<1>1. CASE ServerNext /\ UNCHANGED client
  <2>1. ClientTypeOK'
    BY <1>1 DEF ClientTypeOK, client, egress, ingress, identity, game
  <2> QED
    BY <1>1, <2>1, ServerNextType
<1>2. ASSUME NEW c \in Client, ClientStep(c) \/ ClientFault(c), UNCHANGED server
      PROVE  TypeOK'
  <2>1. ServerTypeOK'
    BY <1>2 DEF ServerTypeOK, server
  <2>2. \/ SendHandshake(c) \/ ReceiveStart(c) \/ GiveUp(c)
        \/ Exit2(c) \/ Tick(c) \/ SendFails(c) \/ Close(c)
        \/ Ingress(c) \/ Simulate(c) \/ Stall(c)
    BY <1>2 DEF ClientStep, ClientFault
  <2>3. CASE SendHandshake(c) \/ ReceiveStart(c) \/ GiveUp(c)
    BY <2>1, <2>3, HandshakePhaseType
  <2>4. CASE Exit2(c) \/ Tick(c) \/ SendFails(c) \/ Close(c)
    BY <2>1, <2>4, EgressType
  <2>5. CASE Ingress(c) \/ Simulate(c) \/ Stall(c)
    BY <2>1, <2>5, FrameType
  <2> QED
    BY <2>2, <2>3, <2>4, <2>5
<1>3. CASE NetworkFault /\ UNCHANGED <<server, client>>
  <2>1. ServerTypeOK' /\ ClientTypeOK'
    BY <1>3 DEF ServerTypeOK, server, ClientTypeOK, client,
                egress, ingress, identity, game
  <2> QED
    BY <1>3, <2>1, NetworkFaultType
<1>4. CASE UNCHANGED vars
  BY <1>4 DEF vars, network, server, client, egress, ingress, identity, game,
              NetworkTypeOK, ServerTypeOK, ClientTypeOK
<1> QED
  BY <1>1, <1>2, <1>3, <1>4 DEF Next

\* Whatever the network and the processes do, every variable keeps its type;
\* no client ever indexes its per-player arrays out of bounds.
THEOREM TypeCorrect == Spec => []TypeOK
<1>1. Init => TypeOK
  BY InitType
<1>2. TypeOK /\ [Next]_vars => TypeOK'
  BY NextType
<1> QED
  BY <1>1, <1>2, PTL DEF Spec

-----------------------------------------------------------------------------
(* HistoryInv, client by client. *)

History(c) ==
  /\ pc[c] = "handshake" =>
       /\ outgoing_sequence[c] = 1
       /\ \A p \in Player : outgoing_ack[c][p] = 0
  /\ outgoing_sequence[c] - LocalAck(c) <= NetQueue
  /\ \A s \in LocalAck(c) + 1 .. outgoing_sequence[c] - 1 :
       input[c][NETQUEUE_SLOT(s)] = InputOf(c, s)

LEMMA HistoryByClient == HistoryInv <=> \A c \in Client : History(c)
BY DEF HistoryInv, HistoryPreserved, History

LEMMA LocalAckType ==
  ASSUME ClientTypeOK, NEW c \in Client
  PROVE  LocalAck(c) \in Nat /\ outgoing_sequence[c] \in Nat \ {0}
BY DEF ClientTypeOK, LocalAck

LEMMA HistoryInit == Init => HistoryInv
<1> SUFFICES ASSUME Init, NEW c \in Client PROVE History(c)
  BY HistoryByClient
<1>1. LocalAck(c) = 0 /\ outgoing_sequence[c] = 1
  BY MaxPlayerAssumption DEF Init, ClientInit, LocalAck, Player
<1>2. \A p \in Player : outgoing_ack[c][p] = 0
  BY DEF Init, ClientInit
<1> QED
  BY <1>1, <1>2, NetQueueAssumption DEF History

\* A step that leaves a client's history and acknowledgements alone.
LEMMA HistoryUnchanged ==
  ASSUME NEW c \in Client, History(c),
         UNCHANGED <<outgoing_sequence[c], outgoing_ack[c], player_id[c],
                     input[c]>>,
         pc'[c] = "handshake" => pc[c] = "handshake"
  PROVE  History(c)'
BY DEF History, LocalAck

\* A new turn takes the slot of an acknowledged one.
LEMMA HistoryMakeTurn ==
  ASSUME ClientTypeOK, NEW c \in Client, History(c), MakeTurn(c),
         UNCHANGED <<outgoing_ack, player_id>>, pc'[c] # "handshake"
  PROVE  History(c)'
<1> DEFINE s == outgoing_sequence[c]
           ack == LocalAck(c)
<1>1. s \in Nat \ {0} /\ ack \in Nat
  BY LocalAckType
<1>2. ack <= s /\ s - ack < NetQueue
  BY <1>1, NetQueueAssumption DEF MakeTurn, Overrun
<1>3. LocalAck(c)' = ack
  BY DEF LocalAck
<1>4. outgoing_sequence'[c] = s + 1
  BY DEF MakeTurn, ClientTypeOK
<1>5. input'[c] = [input[c] EXCEPT ![NETQUEUE_SLOT(s)] = InputOf(c, s)]
  BY DEF MakeTurn, ClientTypeOK
<1>6. NETQUEUE_SLOT(s) \in Slot /\ input[c] \in [Slot -> Input]
  BY <1>1, SlotType DEF ClientTypeOK
<1>7. ASSUME NEW t \in ack + 1 .. s
      PROVE  input'[c][NETQUEUE_SLOT(t)] = InputOf(c, t)
  <2>1. CASE t = s
    BY <1>5, <1>6, <2>1
  <2>2. CASE t # s
    <3>1. t \in Nat /\ t < s /\ s - t < NetQueue
      BY <1>1, <1>2, <2>2, NetQueueAssumption
    <3>2. NETQUEUE_SLOT(t) # NETQUEUE_SLOT(s)
      BY <1>1, <3>1, SlotsApart
    <3>3. NETQUEUE_SLOT(t) \in Slot
      BY <3>1, SlotType
    <3>4. input[c][NETQUEUE_SLOT(t)] = InputOf(c, t)
      BY <1>1, <3>1 DEF History
    <3> QED
      BY <1>5, <1>6, <3>2, <3>3, <3>4
  <2> QED
    BY <2>1, <2>2
<1>8. outgoing_sequence'[c] - LocalAck(c)' <= NetQueue
  BY <1>1, <1>2, <1>3, <1>4, NetQueueAssumption
<1>9. \A t \in LocalAck(c)' + 1 .. outgoing_sequence'[c] - 1 :
        input'[c][NETQUEUE_SLOT(t)] = InputOf(c, t)
  BY <1>1, <1>3, <1>4, <1>7
<1> QED
  BY <1>8, <1>9 DEF History

\* An acknowledgement only shortens the history.
LEMMA HistoryAck ==
  ASSUME ClientTypeOK, ClientTypeOK', NEW c \in Client, History(c),
         LocalAck(c) <= LocalAck(c)',
         UNCHANGED <<outgoing_sequence[c], input[c]>>, pc'[c] # "handshake"
  PROVE  History(c)'
<1>1. LocalAck(c) \in Nat /\ LocalAck(c)' \in Nat /\ outgoing_sequence[c] \in Nat
  BY DEF ClientTypeOK, LocalAck
<1> QED
  BY <1>1, NetQueueAssumption DEF History

\* Only client c takes a step of client c.
LEMMA OtherClients ==
  ASSUME NEW c \in Client, ClientStep(c) \/ ClientFault(c), TypeOK,
         NEW d \in Client, d # c
  PROVE  /\ UNCHANGED <<outgoing_sequence[d], outgoing_ack[d], player_id[d],
                        input[d], pc[d], player_count[d]>>
         /\ UNCHANGED <<player_input[d], player_received[d], turns[d],
                        logic_updates[d]>>
<1> USE DEF TypeOK, ClientTypeOK, Goto, egress, ingress, identity, game
<1>1. CASE SendHandshake(c)
  BY <1>1 DEF SendHandshake
<1>2. CASE ReceiveStart(c)
  BY <1>2 DEF ReceiveStart
<1>3. CASE GiveUp(c)
  BY <1>3 DEF GiveUp
<1>4. CASE Exit2(c)
  BY <1>4 DEF Exit2
<1>5. CASE Tick(c)
  BY <1>5 DEF Tick, MakeTurn
<1>6. CASE SendFails(c)
  BY <1>6 DEF SendFails, MakeTurn
<1>7. CASE Close(c)
  BY <1>7 DEF Close
<1>8. CASE Ingress(c)
  BY <1>8 DEF Ingress
<1>9. CASE Simulate(c)
  BY <1>9 DEF Simulate
<1>10. CASE Stall(c)
  BY <1>10 DEF Stall
<1> QED
  BY <1>1, <1>2, <1>3, <1>4, <1>5, <1>6, <1>7, <1>8, <1>9, <1>10
     DEF ClientStep, ClientFault

LEMMA HistoryOwnStep ==
  ASSUME TypeOK, TypeOK', NEW c \in Client, History(c),
         ClientStep(c) \/ ClientFault(c)
  PROVE  History(c)'
<1> USE DEF TypeOK
<1>1. CASE SendHandshake(c)
  BY <1>1, HistoryUnchanged
     DEF SendHandshake, ingress, identity
<1>2. CASE ReceiveStart(c)
  <2>1. /\ pc[c] = "handshake" /\ pc'[c] # "handshake"
        /\ UNCHANGED <<egress, ingress>>
    BY <1>2 DEF ReceiveStart, Goto, ClientTypeOK
  <2>2. outgoing_sequence[c] = 1 /\ \A p \in Player : outgoing_ack[c][p] = 0
    BY <2>1 DEF History
  <2>3. player_id[c] \in Player /\ player_id'[c] \in Player
    BY DEF ClientTypeOK
  <2>4. LocalAck(c) = 0 /\ LocalAck(c)' = 0
    BY <2>1, <2>2, <2>3 DEF LocalAck, ingress
  <2> QED
    BY <2>1, <2>2, <2>4, NetQueueAssumption DEF History, egress
<1>3. CASE GiveUp(c)
  BY <1>3, HistoryUnchanged DEF GiveUp, Goto, ClientTypeOK,
                                egress, ingress, identity
<1>4. CASE Exit2(c)
  BY <1>4, HistoryUnchanged DEF Exit2, Goto, ClientTypeOK,
                                egress, ingress, identity
<1>5. CASE Tick(c)
  <2>1. MakeTurn(c) /\ UNCHANGED <<outgoing_ack, player_id>>
        /\ pc'[c] # "handshake"
    BY <1>5 DEF Tick, Goto, ClientTypeOK, ingress, identity
  <2> QED
    BY <2>1, HistoryMakeTurn
<1>6. CASE SendFails(c)
  <2>1. MakeTurn(c) /\ UNCHANGED <<outgoing_ack, player_id>>
        /\ pc'[c] # "handshake"
    BY <1>6 DEF SendFails, Goto, ClientTypeOK, ingress, identity
  <2> QED
    BY <2>1, HistoryMakeTurn
<1>7. CASE Close(c)
  BY <1>7, HistoryUnchanged DEF Close, Goto, ClientTypeOK,
                                egress, ingress, identity
<1>8. CASE Ingress(c)
  <2> DEFINE turn == Head(toClient[c])
  <2>1. turn \in ToClient
    BY <1>8, ReceivesType DEF Ingress
  <2>2. turn.second \in Player /\ turn.third \in Nat
    <3> HIDE DEF turn
    <3> QED
      BY <2>1 DEF ToClient
  <2>3. /\ UNCHANGED <<egress, identity>>
        /\ pc'[c] # "handshake"
        /\ \/ UNCHANGED outgoing_ack
           \/ outgoing_ack' =
                [outgoing_ack EXCEPT ![c][turn.second] =
                   IF turn.third > @ THEN turn.third ELSE @]
    BY <1>8 DEF Ingress, Goto, ClientTypeOK, ingress
  <2> HIDE DEF turn
  <2>4. player_id[c] \in Player /\ outgoing_ack[c] \in [Player -> Nat]
    BY DEF ClientTypeOK
  <2>5. LocalAck(c) <= LocalAck(c)'
    <3>1. LocalAck(c)' = outgoing_ack'[c][player_id[c]]
      BY <2>3 DEF LocalAck, identity
    <3>2. CASE UNCHANGED outgoing_ack
      BY <2>4, <3>1, <3>2 DEF LocalAck
    <3>3. CASE outgoing_ack' =
                 [outgoing_ack EXCEPT ![c][turn.second] =
                    IF turn.third > @ THEN turn.third ELSE @]
      <4>1. outgoing_ack'[c] =
              [outgoing_ack[c] EXCEPT ![turn.second] =
                 IF turn.third > @ THEN turn.third ELSE @]
        BY <3>3 DEF ClientTypeOK
      <4> QED
        BY <2>2, <2>4, <3>1, <4>1 DEF LocalAck
    <3> QED
      BY <2>3, <3>2, <3>3
  <2> QED
    BY <2>3, <2>5, HistoryAck DEF egress
<1>9. CASE Simulate(c)
  BY <1>9, HistoryUnchanged DEF Simulate, Goto, ClientTypeOK, egress, identity
<1>10. CASE Stall(c)
  BY <1>10, HistoryUnchanged DEF Stall, Goto, ClientTypeOK,
                                 egress, ingress, identity
<1> QED
  BY <1>1, <1>2, <1>3, <1>4, <1>5, <1>6, <1>7, <1>8, <1>9, <1>10
     DEF ClientStep, ClientFault

LEMMA HistoryNext == TypeOK /\ TypeOK' /\ HistoryInv /\ [Next]_vars => HistoryInv'
<1> SUFFICES ASSUME TypeOK, TypeOK', \A d \in Client : History(d), [Next]_vars,
                    NEW d \in Client
             PROVE  History(d)'
  <2>1. (\A d \in Client : History(d)') => HistoryInv'
    BY DEF HistoryInv, HistoryPreserved, History
  <2> QED
    BY <2>1, HistoryByClient
<1>1. CASE UNCHANGED client
  BY <1>1, HistoryUnchanged DEF client, egress, ingress, identity
<1>2. ASSUME NEW c \in Client, ClientStep(c) \/ ClientFault(c)
      PROVE  History(d)'
  <2>1. CASE d = c
    BY <1>2, <2>1, HistoryOwnStep
  <2>2. CASE d # c
    BY <1>2, <2>2, OtherClients, HistoryUnchanged
  <2> QED
    BY <2>1, <2>2
<1> QED
  BY <1>1, <1>2 DEF Next, vars

\* For every number of clients, queue length and budget of faults: what a
\* client re-sends after its acknowledgement is what its player did.
THEOREM HistoryIsPreserved == Spec => []HistoryPreserved
<1>1. Init => TypeOK /\ HistoryInv
  BY InitType, HistoryInit
<1>2. TypeOK /\ HistoryInv /\ [Next]_vars => TypeOK' /\ HistoryInv'
  BY NextType, HistoryNext
<1>3. HistoryInv => HistoryPreserved
  BY DEF HistoryInv
<1> QED
  BY <1>1, <1>2, <1>3, PTL DEF Spec

-----------------------------------------------------------------------------
(* WireFaithful: the datagrams that may be in flight, as sets. *)

FaithfulTurn(c) ==
  {m \in ToServer : m.kind = "turn" => /\ m.event = InputOf(c, m.sequence)
                                       /\ m.sequence < outgoing_sequence[c]}

FaithfulEcho ==
  {m \in ToClient : m.sent_as = "turn" =>
     \E d \in Client : /\ m.event = InputOf(d, m.first)
                       /\ m.first < outgoing_sequence[d]
                       /\ m.third = m.first}

OnlyFaithful ==
  \A c \in Client : /\ toServer[c] \in Seq(FaithfulTurn(c))
                    /\ toClient[c] \in Seq(FaithfulEcho)

LEMMA OnlyFaithfulIsWireFaithful ==
  OnlyFaithful => WireFaithful
<1> SUFFICES ASSUME OnlyFaithful, NEW c \in Client
             PROVE  /\ \A k \in DOMAIN toServer[c] :
                         toServer[c][k] \in FaithfulTurn(c)
                    /\ \A k \in DOMAIN toClient[c] :
                         toClient[c][k] \in FaithfulEcho
  BY DEF WireFaithful, FaithfulTurn, FaithfulEcho
<1>1. toServer[c] \in Seq(FaithfulTurn(c)) /\ toClient[c] \in Seq(FaithfulEcho)
  BY DEF OnlyFaithful
<1> HIDE DEF OnlyFaithful
<1> QED
  BY <1>1

LEMMA SeqMonotone ==
  ASSUME NEW S, NEW T, S \subseteq T
  PROVE  Seq(S) \subseteq Seq(T)
OBVIOUS

\* Players only make further turns, so what was faithful stays so.
LEMMA FaithfulGrows ==
  ASSUME TypeOK, TypeOK',
         \A d \in Client : outgoing_sequence[d] <= outgoing_sequence'[d]
  PROVE  /\ \A c \in Client : Seq(FaithfulTurn(c)) \subseteq Seq(FaithfulTurn(c)')
         /\ Seq(FaithfulEcho) \subseteq Seq(FaithfulEcho')
<1>1. \A d \in Client : outgoing_sequence[d] \in Nat /\ outgoing_sequence'[d] \in Nat
  BY DEF TypeOK, ClientTypeOK
<1>2. ASSUME NEW c \in Client PROVE FaithfulTurn(c) \subseteq FaithfulTurn(c)'
  <2>1. \A m \in ToServer : m.kind = "turn" => m.sequence \in Nat
    BY DEF ToServer
  <2> QED
    BY <1>1, <2>1 DEF FaithfulTurn
<1>3. FaithfulEcho \subseteq FaithfulEcho'
  <2>1. \A m \in ToClient : m.first \in Nat
    BY DEF ToClient
  <2> QED
    BY <1>1, <2>1 DEF FaithfulEcho
<1> QED
  BY <1>2, <1>3, SeqMonotone

LEMMA FaithfulInit == Init => OnlyFaithful
<1>1. \A S : <<>> \in Seq(S)
  OBVIOUS
<1>2. Init => \A c \in Client : toServer[c] = <<>> /\ toClient[c] = <<>>
  BY DEF Init, NetworkInit
<1> QED
  BY <1>1, <1>2 DEF OnlyFaithful

LEMMA AppendType ==
  ASSUME NEW S, NEW q \in Seq(S), NEW e \in S
  PROVE  Append(q, e) \in Seq(S)
OBVIOUS

\* A datagram is taken, lost, repeated or delayed: nothing new is in flight.
LEMMA FaithfulFault ==
  ASSUME TypeOK, OnlyFaithful, NetworkFault
  PROVE  \A c \in Client : /\ toServer'[c] \in Seq(FaithfulTurn(c))
                           /\ toClient'[c] \in Seq(FaithfulEcho)
<1> USE DEF OnlyFaithful
<1>1. ASSUME NEW c \in Client, NEW k, NEW outcomes,
             outcomes \subseteq Seq(FaithfulTurn(c)), FaultUp(c, k, outcomes)
      PROVE  \A d \in Client : /\ toServer'[d] \in Seq(FaithfulTurn(d))
                               /\ toClient'[d] \in Seq(FaithfulEcho)
  BY <1>1 DEF FaultUp, TypeOK, NetworkTypeOK
<1>2. ASSUME NEW c \in Client, NEW k, NEW outcomes,
             outcomes \subseteq Seq(FaithfulEcho), FaultDown(c, k, outcomes)
      PROVE  \A d \in Client : /\ toServer'[d] \in Seq(FaithfulTurn(d))
                               /\ toClient'[d] \in Seq(FaithfulEcho)
  BY <1>2 DEF FaultDown, TypeOK, NetworkTypeOK
<1>3. PICK c \in Client : \/ LoseUp(c) \/ CopyUp(c) \/ DelayUp(c)
                          \/ LoseDown(c) \/ CopyDown(c) \/ DelayDown(c)
  BY DEF NetworkFault
<1>4. /\ toServer[c] \in Seq(FaithfulTurn(c))
      /\ toClient[c] \in Seq(FaithfulEcho)
  OBVIOUS
<1>5. /\ Lost(toServer[c]) \subseteq Seq(FaithfulTurn(c))
      /\ Copied(toServer[c]) \subseteq Seq(FaithfulTurn(c))
      /\ Delayed(toServer[c]) \subseteq Seq(FaithfulTurn(c))
  BY <1>4, FaultsType
<1>6. /\ Lost(toClient[c]) \subseteq Seq(FaithfulEcho)
      /\ Copied(toClient[c]) \subseteq Seq(FaithfulEcho)
      /\ Delayed(toClient[c]) \subseteq Seq(FaithfulEcho)
  BY <1>4, FaultsType
<1>7. CASE LoseUp(c) \/ CopyUp(c) \/ DelayUp(c)
  BY <1>1, <1>5, <1>7 DEF LoseUp, CopyUp, DelayUp
<1>8. CASE LoseDown(c) \/ CopyDown(c) \/ DelayDown(c)
  BY <1>2, <1>6, <1>8 DEF LoseDown, CopyDown, DelayDown
<1> QED
  BY <1>3, <1>7, <1>8

LEMMA FaithfulServer ==
  ASSUME TypeOK, OnlyFaithful, ServerNext
  PROVE  \A c \in Client : /\ toServer'[c] \in Seq(FaithfulTurn(c))
                           /\ toClient'[c] \in Seq(FaithfulEcho)
<1> USE DEF OnlyFaithful
<1>1. ASSUME NEW c \in Client, Received(c)
      PROVE  /\ \A d \in Client : toServer'[d] \in Seq(FaithfulTurn(d))
             /\ Head(toServer[c]) \in FaithfulTurn(c)
  <2>1. toServer[c] \in Seq(FaithfulTurn(c)) /\ toServer[c] # <<>>
    BY <1>1 DEF Received
  <2>2. /\ Tail(toServer[c]) \in Seq(FaithfulTurn(c))
        /\ Head(toServer[c]) \in FaithfulTurn(c)
    BY <2>1
  <2> QED
    BY <1>1, <2>2 DEF Received, TypeOK, NetworkTypeOK
<1>2. ASSUME NEW c \in Client, HandleHandshake(c)
      PROVE  \A d \in Client : toClient'[d] \in Seq(FaithfulEcho)
  <2> DEFINE n == Head(toServer[c]).num_players
             table == Accepted(c, n, First(Free))
             waiting == Waiting(table, n)
  <2>1. n \in Nat
    <3>1. Head(toServer[c]) \in ToServer /\ Head(toServer[c]).kind = "handshake"
      BY <1>2, ReceivedType DEF HandleHandshake, TypeOK
    <3> QED
      BY <3>1 DEF ToServer
  <2>2. CASE UNCHANGED toClient
    BY <2>2
  <2>3. CASE Greet(table, waiting, n)
    <3>1. \A i \in waiting : NewId(waiting, i) \in Player
      BY NewIdType DEF Waiting
    <3>2. next_game_id \in Nat
      BY DEF TypeOK, ServerTypeOK
    <3>3. \A i \in waiting :
            NotifyStart(next_game_id, NewId(waiting, i), n) \in FaithfulEcho
      <4>1. ASSUME NEW i \in waiting
            PROVE  /\ NotifyStart(next_game_id, NewId(waiting, i), n) \in ToClient
                   /\ NotifyStart(next_game_id, NewId(waiting, i), n).sent_as
                        = "start"
        <5> HIDE DEF n, waiting
        <5>1. NewId(waiting, i) \in Player
          BY <3>1
        <5> QED
          BY <2>1, <3>2, <5>1, NotifyStartType DEF NotifyStart
      <4> HIDE DEF n, waiting
      <4> QED
        BY <4>1 DEF FaithfulEcho
    <3>4. ASSUME NEW d \in Client
          PROVE  \/ toClient'[d] = toClient[d]
                 \/ \E i \in waiting : toClient'[d] =
                      Append(toClient[d],
                             NotifyStart(next_game_id, NewId(waiting, i), n))
      <4> HIDE DEF n, waiting, table
      <4>1. CASE \E i \in waiting : table[i].peer = d
        BY <2>3, <4>1 DEF Greet
      <4>2. CASE ~(\E i \in waiting : table[i].peer = d)
        BY <2>3, <4>2 DEF Greet
      <4> QED
        BY <4>1, <4>2
    <3> HIDE DEF n, waiting, table
    <3> SUFFICES ASSUME NEW d \in Client
                 PROVE  toClient'[d] \in Seq(FaithfulEcho)
      OBVIOUS
    <3>5. toClient[d] \in Seq(FaithfulEcho)
      OBVIOUS
    <3> HIDE DEF OnlyFaithful
    <3> QED
      BY <3>3, <3>4, <3>5, AppendType
  <2> QED
    BY <1>2, <2>2, <2>3 DEF HandleHandshake, server
<1>3. ASSUME NEW c \in Client, HandleTurn(c)
      PROVE  \A d \in Client : toClient'[d] \in Seq(FaithfulEcho)
  <2> DEFINE turn == Head(toServer[c])
  <2>1. turn \in FaithfulTurn(c) /\ turn \in ToServer /\ turn.kind = "turn"
    BY <1>1, <1>3, ReceivedType DEF HandleTurn, TypeOK
  <2>2. /\ turn.sequence \in Nat /\ turn.event \in Input
        /\ turn.event = InputOf(c, turn.sequence)
        /\ turn.sequence < outgoing_sequence[c]
    <3> HIDE DEF turn
    <3> QED
      BY <2>1 DEF FaithfulTurn, ToServer
  <2>3. CASE UNCHANGED toClient
    BY <2>3
  <2>4. ASSUME NEW i \in Player, NEW stop,
               Echo(i, turn.sequence, turn.event, stop)
        PROVE  \A d \in Client : toClient'[d] \in Seq(FaithfulEcho)
    <3> DEFINE echo == NotifyTurn(turn.sequence, player[i].player_id,
                                  turn.sequence, turn.event)
    <3>1. player[i].player_id \in Player
      BY DEF TypeOK, ServerTypeOK, PlayerState
    <3>2. echo \in FaithfulEcho
      <4> HIDE DEF turn
      <4>1. echo \in ToClient
        BY <2>2, <3>1, NotifyTurnType
      <4>2. /\ echo.first = turn.sequence /\ echo.third = turn.sequence
            /\ echo.event = turn.event
        BY DEF NotifyTurn
      <4> HIDE DEF echo
      <4> QED
        BY <2>2, <4>1, <4>2 DEF FaithfulEcho
    <3>3. \A d \in Client : \/ toClient'[d] = toClient[d]
                            \/ toClient'[d] = Append(toClient[d], echo)
      BY <2>4 DEF Echo
    <3> HIDE DEF echo
    <3> SUFFICES ASSUME NEW d \in Client
                 PROVE  toClient'[d] \in Seq(FaithfulEcho)
      OBVIOUS
    <3>4. toClient[d] \in Seq(FaithfulEcho)
      OBVIOUS
    <3> HIDE DEF OnlyFaithful
    <3> QED
      BY <3>2, <3>3, <3>4, AppendType
  <2> QED
    BY <1>3, <2>3, <2>4 DEF HandleTurn
<1>4. CASE ClockTick \/ DropInactive
  BY <1>4 DEF ClockTick, DropInactive, network
<1>5. CASE Restart
  BY <1>5 DEF Restart
<1> QED
  BY <1>1, <1>2, <1>3, <1>4, <1>5
     DEF ServerNext, HandleHandshake, HandleTurn

\* What a client sends in a tick is its history after the acknowledgement.
LEMMA UnacknowledgedFaithful ==
  ASSUME TypeOK, TypeOK', HistoryInv', NEW c \in Client, MakeTurn(c),
         UNCHANGED <<outgoing_ack, player_id>>
  PROVE  Unacknowledged(c) \in Seq(FaithfulTurn(c)')
<1> DEFINE ack == LocalAck(c)
           m == outgoing_sequence'[c] - 1 - ack
<1>1. /\ LocalAck(c)' = ack /\ ack \in Nat
      /\ outgoing_sequence'[c] = outgoing_sequence[c] + 1
      /\ ack <= outgoing_sequence[c]
  <2>1. outgoing_sequence[c] \in Nat /\ ack \in Nat
    BY DEF TypeOK, ClientTypeOK, LocalAck
  <2> QED
    BY <2>1 DEF MakeTurn, LocalAck, Overrun, TypeOK, ClientTypeOK
<1>2. outgoing_sequence[c] \in Nat /\ input' \in [Client -> [Slot -> Input]]
  BY DEF TypeOK, ClientTypeOK
<1>3. m \in Nat
  BY <1>1, <1>2
<1>4. ASSUME NEW k \in 1 .. m
      PROVE  Turn(ack + k, input'[c][NETQUEUE_SLOT(ack + k)])
               \in FaithfulTurn(c)'
  <2>1. /\ ack + k \in Nat \ {0}
        /\ ack + k \in LocalAck(c)' + 1 .. outgoing_sequence'[c] - 1
        /\ ack + k < outgoing_sequence'[c]
    BY <1>1, <1>2, <1>3
  <2>2. input'[c][NETQUEUE_SLOT(ack + k)] = InputOf(c, ack + k)
    BY <2>1 DEF HistoryInv, HistoryPreserved
  <2>3. InputOf(c, ack + k) \in Input
    BY <2>1, InputOfType
  <2>4. Turn(ack + k, InputOf(c, ack + k)) \in ToServer
    BY <2>1, <2>3, TurnType
  <2> HIDE DEF ack, m
  <2> QED
    BY <2>1, <2>2, <2>4 DEF FaithfulTurn, Turn
<1>5. Unacknowledged(c) =
        [k \in 1 .. m |-> Turn(ack + k, input'[c][NETQUEUE_SLOT(ack + k)])]
  BY DEF Unacknowledged
<1> HIDE DEF m, ack
<1> QED
  BY <1>3, <1>4, <1>5

\* The steps of a client: a handshake, its history, or nothing new.
LEMMA FaithfulClient ==
  ASSUME TypeOK, TypeOK', HistoryInv', OnlyFaithful, NEW c \in Client,
         ClientStep(c) \/ ClientFault(c)
  PROVE  OnlyFaithful'
<1>1. \A d \in Client : outgoing_sequence[d] <= outgoing_sequence'[d]
  <2>1. \A d \in Client : outgoing_sequence[d] \in Nat
    BY DEF TypeOK, ClientTypeOK
  <2>2. \/ UNCHANGED outgoing_sequence
        \/ outgoing_sequence' =
             [outgoing_sequence EXCEPT ![c] = outgoing_sequence[c] + 1]
    BY DEF ClientStep, ClientFault, SendHandshake, ReceiveStart, GiveUp, Exit2,
           Tick, SendFails, Close, Ingress, Simulate, Stall, MakeTurn, egress
  <2>3. outgoing_sequence \in [Client -> Nat \ {0}]
    BY DEF TypeOK, ClientTypeOK
  <2>4. CASE UNCHANGED outgoing_sequence
    BY <2>1, <2>4
  <2>5. CASE outgoing_sequence' =
               [outgoing_sequence EXCEPT ![c] = outgoing_sequence[c] + 1]
    BY <2>1, <2>3, <2>5
  <2> QED
    BY <2>2, <2>4, <2>5
<1>2. \A d \in Client : /\ toServer[d] \in Seq(FaithfulTurn(d)')
                        /\ toClient[d] \in Seq(FaithfulEcho')
  BY <1>1, FaithfulGrows DEF OnlyFaithful
<1>3. ASSUME NEW ds \in Seq(FaithfulTurn(c)'), Sends(c, ds), UNCHANGED toClient
      PROVE  OnlyFaithful'
  <2>1. toServer[c] \o ds \in Seq(FaithfulTurn(c)')
    BY <1>2
  <2>2. toServer' = [toServer EXCEPT ![c] = toServer[c] \o ds]
    BY <1>3 DEF Sends
  <2> QED
    BY <1>2, <1>3, <2>1, <2>2 DEF OnlyFaithful, TypeOK, NetworkTypeOK
<1>4. ASSUME Receives(c)
      PROVE  OnlyFaithful'
  <2>1. Tail(toClient[c]) \in Seq(FaithfulEcho')
    BY <1>2, <1>4 DEF Receives
  <2> QED
    BY <1>2, <1>4, <2>1 DEF OnlyFaithful, Receives, TypeOK, NetworkTypeOK
<1>5. CASE SendHandshake(c)
  <2>1. Handshake(NumPlayers[c]) \in FaithfulTurn(c)'
    BY HandshakeType, NumPlayersAssumption DEF FaithfulTurn, Handshake
  <2>2. Append(toServer[c], Handshake(NumPlayers[c])) \in Seq(FaithfulTurn(c)')
    BY <1>2, <2>1, AppendType
  <2> QED
    BY <1>2, <1>5, <2>2
       DEF OnlyFaithful, SendHandshake, TypeOK, NetworkTypeOK
<1>6. CASE Tick(c)
  <2>1. MakeTurn(c) /\ UNCHANGED <<outgoing_ack, player_id>>
    BY <1>6 DEF Tick, ingress, identity
  <2>2. Unacknowledged(c) \in Seq(FaithfulTurn(c)')
    BY <2>1, UnacknowledgedFaithful
  <2> QED
    BY <1>3, <1>6, <2>2 DEF Tick
<1>7. CASE SendFails(c)
  <2>1. MakeTurn(c) /\ UNCHANGED <<outgoing_ack, player_id>>
    BY <1>7 DEF SendFails, ingress, identity
  <2>2. Unacknowledged(c) \in Seq(FaithfulTurn(c)')
    BY <2>1, UnacknowledgedFaithful
  <2>3. PICK n \in 0 .. Len(Unacknowledged(c)) - 1 :
               Sends(c, SubSeq(Unacknowledged(c), 1, n))
    BY <1>7 DEF SendFails
  <2>4. ASSUME NEW S, NEW q \in Seq(S), NEW n0 \in 0 .. Len(q) - 1
        PROVE  SubSeq(q, 1, n0) \in Seq(S)
    OBVIOUS
  <2>5. SubSeq(Unacknowledged(c), 1, n) \in Seq(FaithfulTurn(c)')
    BY <2>2, <2>4
  <2> QED
    BY <1>3, <1>7, <2>3, <2>5 DEF SendFails
<1>8. CASE ReceiveStart(c) \/ Ingress(c)
  BY <1>4, <1>8 DEF ReceiveStart, Ingress
<1>9. CASE GiveUp(c) \/ Exit2(c) \/ Close(c) \/ Simulate(c) \/ Stall(c)
  BY <1>2, <1>9
     DEF OnlyFaithful, GiveUp, Exit2, Close, Simulate, Stall, network
<1> QED
  BY <1>5, <1>6, <1>7, <1>8, <1>9 DEF ClientStep, ClientFault

LEMMA FaithfulNext ==
  TypeOK /\ TypeOK' /\ HistoryInv' /\ OnlyFaithful /\ [Next]_vars
    => OnlyFaithful'
<1> SUFFICES ASSUME TypeOK, TypeOK', HistoryInv', OnlyFaithful, [Next]_vars
             PROVE  OnlyFaithful'
  OBVIOUS
<1>1. ASSUME UNCHANGED client,
             \A c \in Client : /\ toServer'[c] \in Seq(FaithfulTurn(c))
                               /\ toClient'[c] \in Seq(FaithfulEcho)
      PROVE  OnlyFaithful'
  BY <1>1 DEF OnlyFaithful, FaithfulTurn, FaithfulEcho, client, egress
<1>2. CASE ServerNext /\ UNCHANGED client
  BY <1>1, <1>2, FaithfulServer
<1>3. CASE NetworkFault /\ UNCHANGED <<server, client>>
  BY <1>1, <1>3, FaithfulFault
<1>4. CASE UNCHANGED vars
  BY <1>1, <1>4 DEF vars, network, OnlyFaithful
<1> QED
  BY <1>2, <1>3, <1>4, FaithfulClient DEF Next

\* Whatever is lost, repeated, delayed or restarted, the input that travels is
\* input that a player made, under the number of the turn it was made in.
THEOREM WireIsFaithful == Spec => []WireFaithful
<1>1. Init => TypeOK /\ HistoryInv /\ OnlyFaithful
  BY InitType, HistoryInit, FaithfulInit
<1>2. TypeOK /\ HistoryInv /\ OnlyFaithful /\ [Next]_vars
        => TypeOK' /\ HistoryInv' /\ OnlyFaithful'
  BY NextType, HistoryNext, FaithfulNext
<1> QED
  BY <1>1, <1>2, OnlyFaithfulIsWireFaithful, PTL DEF Spec
=============================================================================
