------------------------------- MODULE Queue -------------------------------
(***************************************************************************)
(* DECLARE_QUEUE of src/src/common/queue.cc: a ring buffer under two       *)
(* unsigned counters that are never reset.  They wrap at Wrap, 2^64 in the *)
(* code; the capacity is a power of two and so divides Wrap.               *)
(***************************************************************************)
EXTENDS Integers, Sequences

CONSTANTS
  Value,     \* the elements that are pushed
  Zero,      \* type{}
  Capacity,  \* max_count
  Wrap       \* 2^64

ASSUME CapacityAssumption == Capacity \in Nat \ {0}
ASSUME WrapAssumption ==
  Wrap \in Nat /\ Capacity < Wrap /\ Wrap % Capacity = 0

VARIABLES
  storage,  \* k<type>, the array
  read,     \* kRead<type>
  write,    \* kWrite<type>
  popped    \* what the last Pop returned

ring == <<storage, read, write, popped>>

Place == 0 .. Capacity - 1

QueueInit ==
  /\ storage = [i \in Place |-> Zero]
  /\ read = 0
  /\ write = 0
  /\ popped = Zero

\* (Bug: the counters are compared, not subtracted.)
CountByOrder == IF write > read THEN write - read ELSE 0

\* Count<type>: the unsigned difference of the counters.
Count == (write - read) % Wrap

Advance(counter) == (counter + 1) % Wrap

\* (Bug: a full queue is found full one element late.)
PushLate(v) ==
  IF Count > Capacity
    THEN UNCHANGED ring
    ELSE /\ storage' = [storage EXCEPT ![write % Capacity] = v]
         /\ write' = Advance(write)
         /\ UNCHANGED <<read, popped>>

Push(v) ==
  IF Count = Capacity
    THEN UNCHANGED ring
    ELSE /\ storage' = [storage EXCEPT ![write % Capacity] = v]
         /\ write' = Advance(write)
         /\ UNCHANGED <<read, popped>>

Pop ==
  IF Count = 0
    THEN popped' = Zero /\ UNCHANGED <<storage, read, write>>
    ELSE /\ popped' = storage[read % Capacity]
         /\ read' = Advance(read)
         /\ UNCHANGED <<storage, write>>

QueueNext == Pop \/ \E v \in Value : Push(v)

QueueSpec == QueueInit /\ [][QueueNext]_ring

-----------------------------------------------------------------------------
\* The elements between the counters, oldest first.
Content == [k \in 1 .. Count |-> storage[((read + k - 1) % Wrap) % Capacity]]

Promise == INSTANCE Fifo WITH content <- Content

\* However often the counters wrap around ("expect unsigned overflow",
\* queue_test.cc:53), the queue is a first in, first out queue that drops what
\* is pushed while it is full.
ImplementsFifo == Promise!Spec

\* The counters never drift apart by more than the capacity, across their
\* wrap-around as well.
QueueInv ==
  /\ storage \in [Place -> Value \cup {Zero}]
  /\ read \in 0 .. Wrap - 1
  /\ write \in 0 .. Wrap - 1
  /\ popped \in Value \cup {Zero}
  /\ Count <= Capacity
=============================================================================
