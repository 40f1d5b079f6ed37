------------------------------ MODULE Lockstep ------------------------------
(***************************************************************************)
(* What the network code promises the simulation: the clients of a game    *)
(* are replicas that apply the same turns in the same order.  A replica    *)
(* applies turn n after turn n - 1, when every player of its game has made *)
(* turn n, and applies exactly what they did in it.                        *)
(***************************************************************************)
EXTENDS Protocol, Sequences

VARIABLES
  group,    \* group[c]: the players of c's game, by their player ids
  issued,   \* issued[c]: the next turn of player c; frame 0 needs none
  applied   \* applied[c]: the turns replica c has applied

replicas == <<group, issued, applied>>

Init ==
  /\ group = [c \in Client |-> <<>>]
  /\ issued = [c \in Client |-> 1]
  /\ applied = [c \in Client |-> <<>>]

\* A game starts for all its players at once.
Form ==
  \E n \in 1 .. MaxPlayer : \E g \in [0 .. n - 1 -> Client] :
    LET members == {g[p] : p \in 0 .. n - 1}
    IN  /\ \A p, q \in 0 .. n - 1 : g[p] = g[q] => p = q
        /\ \A c \in members : group[c] = <<>>
        /\ group' = [c \in Client |-> IF c \in members THEN g ELSE group[c]]
        /\ UNCHANGED <<issued, applied>>

Issue(c) ==
  /\ group[c] # <<>>
  /\ issued' = [issued EXCEPT ![c] = @ + 1]
  /\ UNCHANGED <<group, applied>>

Apply(c) ==
  LET n == Len(applied[c])
  IN  /\ group[c] # <<>>
      /\ \A p \in DOMAIN group[c] : n < issued[group[c][p]]
      /\ applied' = [applied EXCEPT ![c] = Append(@, TurnVector(group[c], n))]
      /\ UNCHANGED <<group, issued>>

Next == Form \/ \E c \in Client : Issue(c) \/ Apply(c)

Spec == Init /\ [][Next]_replicas
=============================================================================
