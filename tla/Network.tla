------------------------------- MODULE Network -------------------------------
(***************************************************************************)
(* The UDP medium between the clients and the server: one sequence of      *)
(* datagrams in flight per client and direction.  A receiver takes the     *)
(* head.  The medium may lose, duplicate and delay datagrams; `faults'     *)
(* counts how many faults of each kind a behaviour still may contain, so   *)
(* that a model chooses its network, and the faults of the processes, by   *)
(* the constant Budget.                                                    *)
(***************************************************************************)
EXTENDS Protocol, Sequences, SequencesExt

CONSTANT Budget  \* Budget[k]: how many faults of kind k may happen

Fault == {"lose_up", "copy_up", "delay_up",        \* client to server
          "lose_down", "copy_down", "delay_down",  \* server to client
          "tick",      \* the server's clock advances by one unit
          "greet",     \* the server fails to send some greetings of a game
          "send",      \* the server fails to send the echo of a turn
          "restart",   \* the server process is restarted
          "quit",      \* a client's window closes or its Send fails
          "giveup"}    \* a client ends its handshake without an answer

ASSUME BudgetAssumption == Budget \in [Fault -> Nat]

VARIABLES
  toServer,  \* toServer[c]: datagrams from client c, in flight
  toClient,  \* toClient[c]: datagrams to client c, in flight
  faults     \* faults[k]: faults of kind k that still may happen

network == <<toServer, toClient, faults>>

NetworkTypeOK ==
  /\ toServer \in [Client -> Seq(ToServer)]
  /\ toClient \in [Client -> Seq(ToClient)]
  /\ faults \in [Fault -> Nat]

NetworkInit ==
  /\ toServer = [c \in Client |-> <<>>]
  /\ toClient = [c \in Client |-> <<>>]
  /\ faults = Budget

-----------------------------------------------------------------------------
Spend(k) ==
  /\ faults[k] > 0
  /\ faults' = [faults EXCEPT ![k] = @ - 1]

\* What the medium may make of the datagrams q in flight: one is lost, one
\* arrives a second time, or one is overtaken by some that were sent later.
Lost(q) == {RemoveAt(q, i) : i \in DOMAIN q}

Copied(q) ==
  UNION {{InsertAt(q, j, q[i]) : j \in i + 1 .. Len(q) + 1} : i \in DOMAIN q}

Delayed(q) ==
  UNION {{InsertAt(RemoveAt(q, i), j, q[i]) : j \in i + 1 .. Len(q)} :
           i \in DOMAIN q}

FaultUp(c, kind, outcomes) ==
  /\ Spend(kind)
  /\ \E q \in outcomes : toServer' = [toServer EXCEPT ![c] = q]
  /\ UNCHANGED toClient

FaultDown(c, kind, outcomes) ==
  /\ Spend(kind)
  /\ \E q \in outcomes : toClient' = [toClient EXCEPT ![c] = q]
  /\ UNCHANGED toServer

LoseUp(c) == FaultUp(c, "lose_up", Lost(toServer[c]))
CopyUp(c) == FaultUp(c, "copy_up", Copied(toServer[c]))
DelayUp(c) == FaultUp(c, "delay_up", Delayed(toServer[c]))
LoseDown(c) == FaultDown(c, "lose_down", Lost(toClient[c]))
CopyDown(c) == FaultDown(c, "copy_down", Copied(toClient[c]))
DelayDown(c) == FaultDown(c, "delay_down", Delayed(toClient[c]))

NetworkFault ==
  \E c \in Client :
    \/ LoseUp(c) \/ CopyUp(c) \/ DelayUp(c)
    \/ LoseDown(c) \/ CopyDown(c) \/ DelayDown(c)
=============================================================================
