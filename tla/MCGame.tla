------------------------------- MODULE MCGame -------------------------------
(***************************************************************************)
(* Small instances of Game for TLC.                                        *)
(***************************************************************************)
EXTENDS Agreement

CONSTANTS Alice, Bob

-----------------------------------------------------------------------------
(* Who plays, and when nothing is pressed. *)

BothInOneGame == [c \in Client |-> 2]

\* Bob makes no input for turns 1 and 2, Alice none for turn 2.
SomeQuiet == {<<Bob, 1>>, <<Bob, 2>>, <<Alice, 2>>}

-----------------------------------------------------------------------------
(* Faults. *)

Faults(kinds) == [k \in Fault |-> IF k \in kinds THEN 1 ELSE 0]

Benign == Faults({})

LossUp == Faults({"lose_up"})

\* Faults of the network and of the processes that cannot confuse a client: of
\* the server's sends only those of the echo fail.
Fit == Faults({"lose_up", "delay_up", "send", "quit", "giveup"})

\* What may go wrong with the sessions of a server: it is restarted, it drops
\* who is silent, and a datagram to it comes twice.
Sessions == Faults({"restart", "copy_up", "tick"})

\* What may happen to datagrams on their way to a client; greetings may not
\* even be sent.
Downlink == Faults({"lose_down", "copy_down", "delay_down", "greet"})

GreetOnly == Faults({"greet"})

DelayDownOnly == Faults({"delay_down"})

CopyDownOnly == Faults({"copy_down"})
=============================================================================
