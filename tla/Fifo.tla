-------------------------------- MODULE Fifo --------------------------------
(***************************************************************************)
(* What DECLARE_QUEUE promises ("Pop<type>() - return the next queued      *)
(* element, Push<type>(value) - append value to the queue"): a first in,   *)
(* first out queue of at most Capacity elements.                           *)
(***************************************************************************)
EXTENDS Naturals, Sequences

CONSTANTS
  Value,     \* the elements that are pushed
  Zero,      \* type{}, what an empty queue returns
  Capacity   \* max_count

VARIABLES
  content,   \* the queued elements
  popped     \* what the last Pop returned

Init == content = <<>> /\ popped = Zero

\* Append, or drop the value when the queue is full.
Push(v) ==
  /\ content' = IF Len(content) < Capacity THEN Append(content, v) ELSE content
  /\ UNCHANGED popped

Pop ==
  IF content = <<>>
    THEN popped' = Zero /\ UNCHANGED content
    ELSE popped' = Head(content) /\ content' = Tail(content)

Next == Pop \/ \E v \in Value : Push(v)

Spec == Init /\ [][Next]_<<content, popped>>
=============================================================================
