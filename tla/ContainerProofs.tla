---------------------------- MODULE ContainerProofs ------------------------
(***************************************************************************)
(* The containers of src/common implement what they promise.               *)
(*                                                                         *)
(* For every capacity that divides the wrap-around of its counters, the    *)
(* ring buffer of Queue is a first in, first out queue.  For every number  *)
(* of elements, DECLARE_ARRAY implements a set.                            *)
(***************************************************************************)
EXTENDS Queue, Array, SequenceTheorems, FiniteSetTheorems, TLAPS

-----------------------------------------------------------------------------
(* The queue. *)

\* Division with remainder, and what it implies, in the terms of one divisor.
LEMMA Remainder ==
  ASSUME NEW d \in Nat \ {0}, NEW a \in Int
  PROVE  /\ a \div d \in Int
         /\ a % d \in 0 .. d - 1
         /\ a = d * (a \div d) + (a % d)
  OBVIOUS

\* A remainder is determined by the equation it satisfies.
LEMMA RemainderUnique ==
  ASSUME NEW d \in Nat \ {0}, NEW q \in Int, NEW r \in 0 .. d - 1,
         NEW p \in Int, NEW s \in 0 .. d - 1, d * q + r = d * p + s
  PROVE  r = s
<1>1. d * (q - p) = s - r
  OBVIOUS
<1>2. q - p < 1
  <2>1. SUFFICES ASSUME q - p >= 1 PROVE FALSE
    OBVIOUS
  <2>2. d * (q - p) >= d
    BY <2>1
  <2> QED
    BY <1>1, <2>2
<1>3. q - p > -1
  <2>1. SUFFICES ASSUME q - p <= -1 PROVE FALSE
    OBVIOUS
  <2>2. d * (p - q) >= d
    BY <2>1
  <2>3. d * (p - q) = r - s
    BY <1>1
  <2> QED
    BY <2>2, <2>3
<1>4. q - p = 0
  BY <1>2, <1>3
<1> QED
  BY <1>1, <1>4

\* Less than a wrap-around too far, the remainder is one subtraction away.
LEMMA Wrapped ==
  ASSUME NEW x \in 0 .. 2 * Wrap - 1
  PROVE  x % Wrap = IF x < Wrap THEN x ELSE x - Wrap
<1>1. Wrap \in Nat \ {0}
  BY CapacityAssumption, WrapAssumption
<1>2. x % Wrap \in 0 .. Wrap - 1 /\ x = Wrap * (x \div Wrap) + (x % Wrap) /\ x \div Wrap \in Int
  BY <1>1, Remainder
<1>3. CASE x < Wrap
  BY <1>1, <1>2, <1>3, RemainderUnique, x = Wrap * 0 + x, x \in 0 .. Wrap - 1
<1>4. CASE x >= Wrap
  BY <1>1, <1>2, <1>4, RemainderUnique, x = Wrap * 1 + (x - Wrap), x - Wrap \in 0 .. Wrap - 1
<1> QED
  BY <1>1, <1>3, <1>4

\* A difference of counters, if the writer has wrapped around once more.
LEMMA WrappedDifference ==
  ASSUME NEW x \in -(Wrap - 1) .. Wrap - 1
  PROVE  x % Wrap = IF x >= 0 THEN x ELSE x + Wrap
<1>1. Wrap \in Nat \ {0}
  BY CapacityAssumption, WrapAssumption
<1>2. x % Wrap \in 0 .. Wrap - 1 /\ x = Wrap * (x \div Wrap) + (x % Wrap) /\ x \div Wrap \in Int
  BY <1>1, Remainder
<1>3. CASE x >= 0
  BY <1>1, <1>2, <1>3, RemainderUnique, x = Wrap * 0 + x, x \in 0 .. Wrap - 1
<1>4. CASE x < 0
  BY <1>1, <1>2, <1>4, RemainderUnique, x = Wrap * (-1) + (x + Wrap), x + Wrap \in 0 .. Wrap - 1
<1> QED
  BY <1>1, <1>3, <1>4

\* The place of a counter is the same before and after its wrap-around.
LEMMA PlaceOfWrapped ==
  ASSUME NEW x \in 0 .. 2 * Wrap - 1
  PROVE  (x % Wrap) % Capacity = x % Capacity
<1>1. Capacity \in Nat \ {0} /\ Wrap \in Nat
  BY CapacityAssumption, WrapAssumption
<1>2. PICK n \in Int : Wrap = Capacity * n
  <2>1. Wrap = Capacity * (Wrap \div Capacity) + 0 /\ Wrap \div Capacity \in Int
    BY <1>1, WrapAssumption, Remainder
  <2> QED
    BY <1>1, <2>1
<1>3. CASE x < Wrap
  BY <1>3, Wrapped
<1>4. CASE x >= Wrap
  <2> DEFINE y == x - Wrap
  <2>1. x % Wrap = y /\ y \in Int
    BY <1>1, <1>4, Wrapped
  <2>2. /\ x = Capacity * (x \div Capacity) + (x % Capacity)
        /\ x % Capacity \in 0 .. Capacity - 1 /\ x \div Capacity \in Int
    BY <1>1, Remainder
  <2>3. /\ y = Capacity * (y \div Capacity) + (y % Capacity)
        /\ y % Capacity \in 0 .. Capacity - 1 /\ y \div Capacity \in Int
    BY <1>1, <2>1, Remainder
  <2> HIDE DEF y
  <2>4. x = y + Wrap
    BY <1>1 DEF y
  <2>5. Capacity * (x \div Capacity) + (x % Capacity)
          = Capacity * ((y \div Capacity) + n) + (y % Capacity)
    BY <1>1, <1>2, <2>2, <2>3, <2>4
  <2>6. (y \div Capacity) + n \in Int
    BY <2>3
  <2>7. x % Capacity = y % Capacity
    BY ONLY <1>1, <2>2, <2>3, <2>5, <2>6, RemainderUnique
  <2> QED
    BY <2>1, <2>7
<1> QED
  BY <1>1, <1>3, <1>4

\* Counters less than the capacity apart have places of their own.
LEMMA PlacesApart ==
  ASSUME NEW x \in Nat, NEW y \in Nat, x < y, y - x < Capacity
  PROVE  x % Capacity # y % Capacity
<1>1. Capacity \in Nat \ {0}
  BY CapacityAssumption
<1>2. /\ x = Capacity * (x \div Capacity) + (x % Capacity)
      /\ y = Capacity * (y \div Capacity) + (y % Capacity)
      /\ x \div Capacity \in Int /\ y \div Capacity \in Int
      /\ x % Capacity \in Int
  BY <1>1, Remainder
<1>3. SUFFICES ASSUME x % Capacity = y % Capacity PROVE FALSE
  OBVIOUS
<1>4. y - x = Capacity * ((y \div Capacity) - (x \div Capacity))
  BY <1>1, <1>2, <1>3
<1>5. (y \div Capacity) - (x \div Capacity) >= 1
  BY <1>1, <1>2, <1>4
<1>6. Capacity * ((y \div Capacity) - (x \div Capacity)) >= Capacity
  BY <1>1, <1>2, <1>5
<1> QED
  BY <1>1, <1>4, <1>6

-----------------------------------------------------------------------------
(* The counters.                                                           *)

\* The number of elements between two counters, and where the writer is.
LEMMA CountBetween ==
  ASSUME QueueInv
  PROVE  /\ Count \in 0 .. Capacity
         /\ write = (IF read + Count < Wrap THEN read + Count
                                            ELSE read + Count - Wrap)
<1>1. Wrap \in Nat /\ Capacity \in Nat /\ Capacity < Wrap
  BY CapacityAssumption, WrapAssumption
<1>2. read \in 0 .. Wrap - 1 /\ write \in 0 .. Wrap - 1 /\ Count <= Capacity
  BY DEF QueueInv
<1>3. write - read \in -(Wrap - 1) .. Wrap - 1
  BY <1>1, <1>2
<1>4. Count = IF write - read >= 0 THEN write - read ELSE write - read + Wrap
  BY <1>3, WrappedDifference DEF Count
<1> QED
  BY <1>1, <1>2, <1>4

\* A counter that advances does so by one or to zero.
LEMMA AdvanceByOne ==
  ASSUME NEW c \in 0 .. Wrap - 1
  PROVE  Advance(c) = IF c = Wrap - 1 THEN 0 ELSE c + 1
<1>1. Wrap \in Nat \ {0}
  BY CapacityAssumption, WrapAssumption
<1>2. c + 1 \in 0 .. 2 * Wrap - 1
  BY <1>1
<1> QED
  BY <1>1, <1>2, Wrapped DEF Advance

\* Whatever is pushed, the queue holds one more.
LEMMA PushCounts ==
  ASSUME QueueInv, Count # Capacity, write' = Advance(write), read' = read
  PROVE  Count' = Count + 1 /\ write' \in 0 .. Wrap - 1
<1>1. Wrap \in Nat /\ Capacity \in Nat /\ Capacity < Wrap
  BY CapacityAssumption, WrapAssumption
<1>2. /\ read \in 0 .. Wrap - 1 /\ write \in 0 .. Wrap - 1
      /\ Count \in 0 .. Capacity - 1
      /\ write = IF read + Count < Wrap THEN read + Count
                                        ELSE read + Count - Wrap
  BY <1>1, CountBetween DEF QueueInv
<1>3. write' = IF write = Wrap - 1 THEN 0 ELSE write + 1
  BY <1>2, AdvanceByOne
<1>4. write' - read \in -(Wrap - 1) .. Wrap - 1
  BY <1>1, <1>2, <1>3
<1>5. Count' = (write' - read) % Wrap
  BY DEF Count
<1>6. Count' = IF write' - read >= 0 THEN write' - read ELSE write' - read + Wrap
  BY <1>4, <1>5, WrappedDifference
<1> QED
  BY <1>1, <1>2, <1>3, <1>6

\* Whatever is popped, the queue holds one less.
LEMMA PopCounts ==
  ASSUME QueueInv, Count # 0, read' = Advance(read), write' = write
  PROVE  Count' = Count - 1 /\ read' \in 0 .. Wrap - 1
<1>1. Wrap \in Nat /\ Capacity \in Nat /\ Capacity < Wrap
  BY CapacityAssumption, WrapAssumption
<1>2. /\ read \in 0 .. Wrap - 1 /\ write \in 0 .. Wrap - 1
      /\ Count \in 1 .. Capacity
      /\ write = IF read + Count < Wrap THEN read + Count
                                        ELSE read + Count - Wrap
  BY <1>1, CountBetween DEF QueueInv
<1>3. read' = IF read = Wrap - 1 THEN 0 ELSE read + 1
  BY <1>2, AdvanceByOne
<1>4. write - read' \in -(Wrap - 1) .. Wrap - 1
  BY <1>1, <1>2, <1>3
<1>5. Count' = (write - read') % Wrap
  BY DEF Count
<1>6. Count' = IF write - read' >= 0 THEN write - read' ELSE write - read' + Wrap
  BY <1>4, <1>5, WrappedDifference
<1> QED
  BY <1>1, <1>2, <1>3, <1>6

-----------------------------------------------------------------------------
(* The invariant.                                                          *)

\* A step of the queue keeps its types and its capacity.
LEMMA QueueStep ==
  ASSUME QueueInv, [QueueNext]_ring
  PROVE  QueueInv'
<1>1. Wrap \in Nat /\ Capacity \in Nat \ {0} /\ Capacity < Wrap
  BY CapacityAssumption, WrapAssumption
<1>2. Count \in 0 .. Capacity /\ read % Capacity \in Place
                              /\ write % Capacity \in Place
  <2>1. Count \in 0 .. Capacity /\ read \in Int /\ write \in Int
    BY <1>1, CountBetween DEF QueueInv
  <2>2. read % Capacity \in 0 .. Capacity - 1
    BY <1>1, <2>1, Remainder
  <2>3. write % Capacity \in 0 .. Capacity - 1
    BY <1>1, <2>1, Remainder
  <2> QED
    BY <2>1, <2>2, <2>3 DEF Place
<1>3. ASSUME UNCHANGED ring PROVE QueueInv'
  BY <1>3 DEF QueueInv, ring, Count
<1>4. ASSUME NEW v \in Value, Push(v) PROVE QueueInv'
  <2>1. CASE Count = Capacity
    BY <1>3, <1>4, <2>1 DEF Push
  <2>2. CASE Count # Capacity
    <3>1. /\ storage' = [storage EXCEPT ![write % Capacity] = v]
          /\ write' = Advance(write) /\ read' = read /\ popped' = popped
      BY <1>4, <2>2 DEF Push
    <3>2. Count' = Count + 1 /\ write' \in 0 .. Wrap - 1
      BY <2>2, <3>1, PushCounts
    <3>3. storage' \in [Place -> Value \cup {Zero}]
      BY <3>1, <1>2 DEF QueueInv
    <3> QED
      BY <1>1, <1>2, <2>2, <3>1, <3>2, <3>3 DEF QueueInv
  <2> QED
    BY <2>1, <2>2
<1>5. ASSUME Pop PROVE QueueInv'
  <2>1. CASE Count = 0
    <3>1. /\ popped' = Zero /\ storage' = storage
          /\ read' = read /\ write' = write
      BY <1>5, <2>1 DEF Pop
    <3> QED
      BY <3>1 DEF QueueInv, Count
  <2>2. CASE Count # 0
    <3>1. /\ popped' = storage[read % Capacity] /\ storage' = storage
          /\ read' = Advance(read) /\ write' = write
      BY <1>5, <2>2 DEF Pop
    <3>2. Count' = Count - 1 /\ read' \in 0 .. Wrap - 1
      BY <2>2, <3>1, PopCounts
    <3>3. popped' \in Value \cup {Zero}
      BY <1>2, <3>1 DEF QueueInv
    <3> QED
      BY <1>1, <1>2, <3>1, <3>2, <3>3 DEF QueueInv
  <2> QED
    BY <2>1, <2>2
<1> QED
  BY <1>3, <1>4, <1>5 DEF QueueNext

\* Initially all is empty.
LEMMA QueueInvInit == QueueInit => QueueInv
<1>1. Wrap \in Nat \ {0} /\ Capacity \in Nat \ {0}
  BY CapacityAssumption, WrapAssumption
<1>2. 0 % Wrap = 0
  BY <1>1, WrappedDifference, 0 \in -(Wrap - 1) .. Wrap - 1
<1> QED
  BY <1>1, <1>2 DEF QueueInit, QueueInv, Count, Place

\* The counters of DECLARE_QUEUE are never more than the capacity apart, for
\* every capacity that divides the range of the counters.
THEOREM QueueKeepsCapacity == QueueSpec => []QueueInv
  BY QueueInvInit, QueueStep, PTL DEF QueueSpec

-----------------------------------------------------------------------------
(* The content.                                                            *)

Element == Value \cup {Zero}

\* The queued elements are a sequence, and lie one after the other.
LEMMA ContentType ==
  ASSUME QueueInv
  PROVE  /\ Content \in Seq(Element)
         /\ Len(Content) = Count
         /\ \A k \in 1 .. Count : Content[k] = storage[(read + k - 1) % Capacity]
<1>1. Wrap \in Nat /\ Capacity \in Nat \ {0} /\ Capacity < Wrap
  BY CapacityAssumption, WrapAssumption
<1>2. Count \in 0 .. Capacity
  BY CountBetween
<1>3. ASSUME NEW k \in 1 .. Count
      PROVE  /\ Content[k] = storage[(read + k - 1) % Capacity]
             /\ Content[k] \in Element
  <2>1. read + k - 1 \in 0 .. 2 * Wrap - 1
    BY <1>1, <1>2 DEF QueueInv
  <2>2. Content[k] = storage[((read + k - 1) % Wrap) % Capacity]
    BY DEF Content
  <2>3. Content[k] = storage[(read + k - 1) % Capacity]
    BY <2>1, <2>2, PlaceOfWrapped
  <2>4. (read + k - 1) % Capacity \in 0 .. Capacity - 1
    BY <1>1, <2>1, Remainder, read + k - 1 \in Int
  <2> QED
    BY <2>3, <2>4 DEF QueueInv, Place, Element
<1>4. Content \in [1 .. Count -> Element]
  BY <1>3 DEF Content
<1>5. Content \in Seq(Element)
  BY <1>2, <1>4, SeqDef
<1>6. Len(Content) = Count
  BY <1>2, <1>4, <1>5, LenProperties
<1> QED
  BY <1>3, <1>5, <1>6

\* The same of the state after a step.
LEMMA NextContentType ==
  QueueInv' => (/\ Content \in Seq(Element)
                /\ Len(Content) = Count
                /\ \A k \in 1 .. Count :
                     Content[k] = storage[(read + k - 1) % Capacity])'
<1>1. QueueInv => /\ Content \in Seq(Element)
                  /\ Len(Content) = Count
                  /\ \A k \in 1 .. Count :
                       Content[k] = storage[(read + k - 1) % Capacity]
  BY ContentType
<1> QED
  BY <1>1, PTL

\* What is pushed comes last, and the rest stays.
LEMMA PushAppends ==
  ASSUME QueueInv, QueueInv', NEW v \in Value, Push(v)
  PROVE  Promise!Push(v)
<1>1. Wrap \in Nat /\ Capacity \in Nat \ {0} /\ Capacity < Wrap
  BY CapacityAssumption, WrapAssumption
<1>2. /\ Count \in 0 .. Capacity /\ Len(Content) = Count
      /\ Content \in Seq(Element)
      /\ read \in 0 .. Wrap - 1
  BY CountBetween, ContentType DEF QueueInv
<1>3. CASE Count = Capacity
  <2>1. Content' = Content /\ popped' = popped
    BY <1>3 DEF Push, ring, Content, Count
  <2> QED
    BY <1>2, <1>3, <2>1, ~(Count < Capacity) DEF Promise!Push
<1>4. CASE Count # Capacity
  <2>1. /\ storage' = [storage EXCEPT ![write % Capacity] = v]
        /\ write' = Advance(write) /\ read' = read /\ popped' = popped
    BY <1>4 DEF Push
  <2>2. Count' = Count + 1
    BY <1>4, <2>1, PushCounts
  <2>3. /\ Content' \in Seq(Element) /\ Len(Content') = Count + 1
        /\ \A k \in 1 .. Count + 1 :
             Content'[k] = storage'[(read + k - 1) % Capacity]
    BY <2>1, <2>2, NextContentType
  <2>4. write % Capacity = (read + Count) % Capacity
    <3>1. read + Count \in 0 .. 2 * Wrap - 1
      BY <1>1, <1>2
    <3>2. (read + Count) % Wrap = IF read + Count < Wrap THEN read + Count
                                                        ELSE read + Count - Wrap
      <4>1. read \in Int /\ Count \in Int
        BY <1>2
      <4> QED
        BY <1>1, <3>1, <4>1, Wrapped
    <3>3. write = (read + Count) % Wrap
      BY <3>2, CountBetween
    <3> QED
      BY <3>1, <3>3, PlaceOfWrapped
  <2>5. write % Capacity \in Place
    BY <1>1, <1>2, <2>4, Remainder, read + Count \in Int DEF Place
  <2>6. Content'[Count + 1] = v
    <3>1. Content'[Count + 1] = storage'[(read + Count) % Capacity]
      BY <1>2, <2>3, Count + 1 \in 1 .. Count + 1, read + (Count + 1) - 1 = read + Count
    <3> QED
      BY <2>1, <2>4, <2>5, <3>1 DEF QueueInv
  <2>7. ASSUME NEW k \in 1 .. Count PROVE Content'[k] = Content[k]
    <3>1. (read + k - 1) % Capacity # (read + Count) % Capacity
      BY <1>1, <1>2, <1>4, PlacesApart, read + k - 1 \in Nat, read + Count \in Nat,
         read + k - 1 < read + Count, (read + Count) - (read + k - 1) < Capacity
    <3>2. (read + k - 1) % Capacity \in Place
      BY <1>1, <1>2, Remainder, read + k - 1 \in Int DEF Place
    <3>3. Content'[k] = storage'[(read + k - 1) % Capacity]
      BY <1>2, <2>3, k \in 1 .. Count + 1
    <3>4. Content[k] = storage[(read + k - 1) % Capacity]
      BY ContentType
    <3> QED
      BY <2>1, <2>4, <3>1, <3>2, <3>3, <3>4 DEF QueueInv
  <2>8. v \in Element
    BY DEF Element
  <2>9. /\ Append(Content, v) \in Seq(Element)
        /\ Len(Append(Content, v)) = Count + 1
        /\ \A k \in 1 .. Count : Append(Content, v)[k] = Content[k]
        /\ Append(Content, v)[Count + 1] = v
    BY <1>2, <2>8, LenProperties
  <2>10. Content' = Append(Content, v)
    <3>1. ASSUME NEW k \in 1 .. Count + 1
          PROVE  Content'[k] = Append(Content, v)[k]
      BY <1>2, <2>6, <2>7, <2>9
    <3> QED
      BY <2>3, <2>9, <3>1, SeqEqual
  <2> QED
    BY <1>1, <1>2, <1>4, <2>1, <2>10, Len(Content) < Capacity DEF Promise!Push
<1> QED
  BY <1>3, <1>4

\* What is popped was first, and the rest moves up.
LEMMA PopRemoves ==
  ASSUME QueueInv, QueueInv', Pop
  PROVE  Promise!Pop
<1>1. Wrap \in Nat /\ Capacity \in Nat \ {0} /\ Capacity < Wrap
  BY CapacityAssumption, WrapAssumption
<1>2. /\ Count \in 0 .. Capacity /\ Len(Content) = Count
      /\ Content \in Seq(Element)
      /\ read \in 0 .. Wrap - 1
  BY CountBetween, ContentType DEF QueueInv
<1>3. CASE Count = 0
  <2>1. Content = << >>
    BY <1>2, <1>3, EmptySeq
  <2>2. Content' = Content /\ popped' = Zero
    BY <1>3 DEF Pop, Content, Count
  <2> QED
    BY <2>1, <2>2 DEF Promise!Pop
<1>4. CASE Count # 0
  <2>1. /\ popped' = storage[read % Capacity] /\ storage' = storage
        /\ read' = Advance(read) /\ write' = write
    BY <1>4 DEF Pop
  <2>2. Count' = Count - 1
    BY <1>4, <2>1, PopCounts
  <2>3. /\ Content' \in Seq(Element) /\ Len(Content') = Count - 1
        /\ \A k \in 1 .. Count - 1 :
             Content'[k] = storage[(read' + k - 1) % Capacity]
    BY <2>1, <2>2, NextContentType
  <2>4. Content # << >>
    BY <1>2, <1>4, EmptySeq
  <2>5. popped' = Head(Content)
    <3>1. Content[1] = storage[(read + 1 - 1) % Capacity]
      BY <1>2, <1>4, ContentType, 1 \in 1 .. Count
    <3>2. read + 1 - 1 = read
      BY <1>2
    <3>3. Head(Content) = Content[1]
      BY <1>2, <2>4
    <3> QED
      BY <2>1, <3>1, <3>2, <3>3
  <2>6. ASSUME NEW k \in 1 .. Count - 1 PROVE Content'[k] = Content[k + 1]
    <3>1. Content'[k] = storage[(read' + k - 1) % Capacity]
      BY <2>3
    <3>2. read' = (read + 1) % Wrap
      BY <2>1 DEF Advance
    <3>3. (read' + k - 1) % Capacity = (read + k) % Capacity
      <4>1. read' = IF read = Wrap - 1 THEN 0 ELSE read + 1
        BY <1>2, <2>1, AdvanceByOne
      <4>2. CASE read # Wrap - 1
        BY <1>1, <1>2, <4>1, <4>2, (read + 1) + k - 1 = read + k
      <4>3. CASE read = Wrap - 1
        <5>1. read + k \in 0 .. 2 * Wrap - 1 /\ read + k >= Wrap
          BY <1>1, <1>2, <4>3
        <5>2. (read + k) % Wrap = read + k - Wrap
          <6>1. k \in Int /\ read \in Int
            BY <1>2
          <6>2. (read + k) % Wrap = IF read + k < Wrap THEN read + k
                                                      ELSE read + k - Wrap
            BY <1>1, <5>1, <6>1, Wrapped
          <6> QED
            BY <1>1, <5>1, <6>1, <6>2
        <5>3. read + k - Wrap = read' + k - 1
          BY <1>1, <1>2, <4>1, <4>3
        <5> QED
          BY <5>1, <5>2, <5>3, PlaceOfWrapped
      <4> QED
        BY <4>2, <4>3
    <3>4. Content[k + 1] = storage[(read + (k + 1) - 1) % Capacity]
      BY <1>2, ContentType, k + 1 \in 1 .. Count
    <3>5. read + (k + 1) - 1 = read + k
      BY <1>2
    <3> QED
      BY <3>1, <3>3, <3>4, <3>5
  <2>7. /\ Tail(Content) \in Seq(Element)
        /\ Len(Tail(Content)) = Count - 1
        /\ \A k \in 1 .. Count - 1 : Tail(Content)[k] = Content[k + 1]
    BY <1>2, <2>4, HeadTailProperties
  <2>8. Content' = Tail(Content)
    <3>1. ASSUME NEW k \in 1 .. Count - 1
          PROVE  Content'[k] = Tail(Content)[k]
      BY <2>6, <2>7
    <3> QED
      BY <2>3, <2>7, <3>1, SeqEqual
  <2> QED
    BY <2>4, <2>5, <2>8 DEF Promise!Pop
<1> QED
  BY <1>3, <1>4

\* DECLARE_QUEUE is a bounded first in, first out queue that drops what is
\* pushed while it is full, however often its counters wrap around, for every
\* capacity that divides the range of the counters.
THEOREM QueueIsFifo == QueueSpec => ImplementsFifo
<1>1. QueueInit => Promise!Init
  <2>1. SUFFICES ASSUME QueueInit PROVE Promise!Init
    OBVIOUS
  <2>2. QueueInv
    BY <2>1, QueueInvInit
  <2>3. Content \in Seq(Element) /\ Len(Content) = Count
    BY <2>2, ContentType
  <2>4. Count = 0
    <3>1. write - read = 0 /\ Wrap \in Nat \ {0}
      BY <2>1, CapacityAssumption, WrapAssumption DEF QueueInit
    <3> QED
      BY <3>1, WrappedDifference, 0 \in -(Wrap - 1) .. Wrap - 1 DEF Count
  <2> QED
    BY <2>1, <2>3, <2>4, EmptySeq DEF Promise!Init, QueueInit
<1>2. QueueInv /\ QueueInv' /\ [QueueNext]_ring => [Promise!Next]_<<Content, popped>>
  <2>1. SUFFICES ASSUME QueueInv, QueueInv', [QueueNext]_ring
                 PROVE  [Promise!Next]_<<Content, popped>>
    OBVIOUS
  <2>2. CASE UNCHANGED ring
    BY <2>2 DEF ring, Content, Count
  <2>3. CASE Pop
    BY <2>1, <2>3, PopRemoves DEF Promise!Next
  <2>4. ASSUME NEW v \in Value, Push(v) PROVE Promise!Next
    BY <2>1, <2>4, PushAppends DEF Promise!Next
  <2> QED
    BY <2>1, <2>2, <2>3, <2>4 DEF QueueNext
<1> QED
  BY <1>1, <1>2, QueueKeepsCapacity, PTL DEF QueueSpec, ImplementsFifo, Promise!Spec

-----------------------------------------------------------------------------
(* The array. *)

\* The elements in use are instances, and no two are the same.
ArrayInv ==
  /\ element \in [Index -> Instance \cup {Nothing}]
  /\ kUsed \in 0 .. MaxCount
  /\ granted \in BOOLEAN
  /\ \A i \in 0 .. kUsed - 1 : element[i] \in Instance
  /\ \A i, j \in 0 .. kUsed - 1 : element[i] = element[j] => i = j

LEMMA ArrayInvInit ==
  ASSUME ArrayInit PROVE ArrayInv
<1>1. /\ kUsed = 0
      /\ element = [i \in Index |-> Nothing]
      /\ granted = FALSE
  BY DEF ArrayInit
<1>2. 0 .. kUsed - 1 = {}
  BY <1>1
<1>3. kUsed \in 0 .. MaxCount
  BY <1>1, ArrayAssumption
<1> QED
  BY <1>1, <1>2, <1>3 DEF ArrayInv

LEMMA UseKeepsInv ==
  ASSUME ArrayInv, NEW v \in Instance, Use(v)
  PROVE  ArrayInv'
<1>1. CASE kUsed >= MaxCount
  BY <1>1 DEF ArrayInv, Use, Index
<1>2. CASE ~(kUsed >= MaxCount)
  <2>1. kUsed \in Index /\ kUsed + 1 \in 0 .. MaxCount
    BY <1>2, ArrayAssumption DEF ArrayInv, Index
  <2>2. /\ element' = [element EXCEPT ![kUsed] = v]
        /\ kUsed' = kUsed + 1
        /\ granted' = TRUE
    BY <1>2 DEF Use
  <2>3. \A i \in 0 .. kUsed - 1 : element'[i] = element[i] /\ element[i] # v
    BY <2>1, <2>2, ArrayAssumption DEF ArrayInv, Use, InUse, Index
  <2>4. element'[kUsed] = v
    BY <2>1, <2>2 DEF ArrayInv
  <2>5. \A i \in 0 .. kUsed' - 1 : i \in 0 .. kUsed - 1 \/ i = kUsed
    BY <2>2 DEF ArrayInv
  <2> QED
    BY <2>1, <2>2, <2>3, <2>4, <2>5 DEF ArrayInv
<1> QED
  BY <1>1, <1>2

LEMMA ReleaseKeepsInv ==
  ASSUME ArrayInv, NEW id \in Id, Release(id)
  PROVE  ArrayInv'
<1>1. CASE id >= kUsed
  BY <1>1 DEF ArrayInv, Release, Index
<1>2. CASE ~(id >= kUsed)
  <2>1. /\ id \in 0 .. kUsed - 1
        /\ kUsed' = kUsed - 1
        /\ kUsed' \in 0 .. MaxCount
        /\ kUsed' \in 0 .. kUsed - 1
        /\ 0 .. kUsed - 1 \subseteq Index
    BY <1>2, ArrayAssumption DEF ArrayInv, Release, Index
  <2>2. CASE id = kUsed'
    <3>1. element' = element /\ granted' = granted
      BY <1>2, <2>2 DEF Release
    <3> QED
      BY <2>1, <3>1 DEF ArrayInv
  <2>3. CASE id # kUsed'
    <3>1. /\ element' = [element EXCEPT ![id] = element[kUsed']]
          /\ granted' = granted
      BY <1>2, <2>3 DEF Release
    <3>2. \A i \in 0 .. kUsed' - 1 :
            element'[i] = IF i = id THEN element[kUsed'] ELSE element[i]
      BY <2>1, <3>1 DEF ArrayInv, Index
    <3>3. element' \in [Index -> Instance \cup {Nothing}]
      BY <2>1, <3>1 DEF ArrayInv
    <3>4. \A i \in 0 .. kUsed' - 1 : i \in 0 .. kUsed - 1 /\ i # kUsed'
      BY <2>1
    <3> QED
      BY <2>1, <3>1, <3>2, <3>3, <3>4 DEF ArrayInv
  <2> QED
    BY <2>2, <2>3
<1> QED
  BY <1>1, <1>2

\* What is in use are as many instances as the counter says.
LEMMA UsedCounts ==
  ASSUME ArrayInv
  PROVE  IsFiniteSet(InUse) /\ Cardinality(InUse) = kUsed
<1> DEFINE places == 0 .. kUsed - 1
           at == [i \in places |-> element[i]]
<1>1. kUsed \in Nat /\ kUsed - 1 \in Int /\ 0 \in Int
  BY ArrayAssumption DEF ArrayInv
<1>2. IsFiniteSet(places) /\ Cardinality(places) = kUsed
  BY <1>1, FS_Interval
<1>3. at \in Bijection(places, InUse)
  BY Zenon DEF ArrayInv, InUse, Bijection, Injection, Surjection, IsInjective
<1>4. IsFiniteSet(InUse) /\ Cardinality(InUse) = Cardinality(places)
  <2>1. ExistsBijection(places, InUse)
    BY <1>3 DEF ExistsBijection
  <2> QED
    BY <1>2, <2>1, FS_Bijection
<1> QED
  BY <1>2, <1>4

-----------------------------------------------------------------------------
(* Every call is a step of Pool, or changes nothing Pool can see.          *)

LEMMA UseIsRequest ==
  ASSUME ArrayInv, NEW v \in Instance, Use(v)
  PROVE  Allocator!Request(v)
<1>1. kUsed \in 0 .. MaxCount /\ MaxCount \in Nat
  BY ArrayAssumption DEF ArrayInv
<1>2. Cardinality(InUse) = kUsed /\ v \in Instance \ InUse
  BY UsedCounts DEF Use
<1> USE DEF Allocator!Cardinality, Cardinality
<1>3. CASE kUsed >= MaxCount
  <2>1. granted' = FALSE /\ element' = element /\ kUsed' = kUsed
    BY <1>3 DEF Use
  <2>2. InUse' = InUse
    BY <2>1 DEF InUse
  <2>3. ~(Cardinality(InUse) < MaxCount)
    BY <1>1, <1>2, <1>3
  <2> QED
    BY <1>2, <2>1, <2>2, <2>3 DEF Allocator!Request
<1>4. CASE ~(kUsed >= MaxCount)
  <2>1. /\ element' = [element EXCEPT ![kUsed] = v]
        /\ kUsed' = kUsed + 1
        /\ granted' = TRUE
    BY <1>4 DEF Use
  <2>2. kUsed \in Index /\ Cardinality(InUse) < MaxCount
    BY <1>1, <1>2, <1>4 DEF Index
  <2>3. element'[kUsed] = v
    BY <2>1, <2>2 DEF ArrayInv
  <2>4. \A i \in 0 .. kUsed - 1 : element'[i] = element[i]
    BY <1>1, <1>4, <2>1 DEF ArrayInv, Index
  <2>5. 0 .. kUsed' - 1 = (0 .. kUsed - 1) \cup {kUsed}
    BY <1>1, <2>1
  <2>6. InUse' = {element'[i] : i \in 0 .. kUsed' - 1}
    BY DEF InUse
  <2>7. InUse' = InUse \cup {v}
    BY <2>3, <2>4, <2>5, <2>6 DEF InUse
  <2> QED
    BY <1>2, <2>1, <2>2, <2>7 DEF Allocator!Request
<1> QED
  BY <1>3, <1>4

LEMMA ReleaseIsReturn ==
  ASSUME ArrayInv, NEW id \in Id, Release(id)
  PROVE  \/ \E v \in Instance : Allocator!Return(v)
         \/ UNCHANGED <<InUse, granted>>
<1>1. granted' = granted
  BY DEF Release
<1>2. CASE id >= kUsed
  <2>1. element' = element /\ kUsed' = kUsed
    BY <1>2 DEF Release
  <2> QED
    BY <1>1, <2>1 DEF InUse
<1>3. CASE ~(id >= kUsed)
  <2>1. /\ id \in 0 .. kUsed - 1
        /\ kUsed' = kUsed - 1
        /\ kUsed' \in 0 .. kUsed - 1
        /\ 0 .. kUsed - 1 = (0 .. kUsed' - 1) \cup {kUsed'}
        /\ 0 .. kUsed - 1 \subseteq Index
        /\ 0 .. kUsed' - 1 \subseteq 0 .. kUsed - 1
        /\ kUsed' \notin 0 .. kUsed' - 1
    BY <1>3, ArrayAssumption DEF ArrayInv, Release, Index
  <2>2. element[id] \in Instance
    BY <2>1 DEF ArrayInv
  <2>3. InUse' = {element'[i] : i \in 0 .. kUsed' - 1}
    BY DEF InUse
  <2>4. \A i, j \in 0 .. kUsed - 1 : element[i] = element[j] => i = j
    BY DEF ArrayInv
  <2>5. CASE id = kUsed'
    <3>1. element' = element
      BY <1>3, <2>5 DEF Release
    <3>2. InUse' = InUse \ {element[id]}
      BY <2>1, <2>3, <2>4, <2>5, <3>1 DEF InUse
    <3> QED
      BY <1>1, <2>2, <3>2 DEF Allocator!Return
  <2>6. CASE id # kUsed'
    <3>1. element' = [element EXCEPT ![id] = element[kUsed']]
      BY <1>3, <2>6 DEF Release
    <3>2. \A i \in 0 .. kUsed' - 1 :
            element'[i] = IF i = id THEN element[kUsed'] ELSE element[i]
      BY <2>1, <3>1 DEF ArrayInv
    <3>3. id \in 0 .. kUsed' - 1
      BY <2>1, <2>6
    <3>4. ASSUME NEW x \in InUse' PROVE x \in InUse \ {element[id]}
      <4>1. PICK i \in 0 .. kUsed' - 1 : x = element'[i]
        BY <2>3
      <4> QED
        BY <2>1, <2>4, <2>6, <3>2, <4>1 DEF InUse
    <3>5. ASSUME NEW x \in InUse \ {element[id]} PROVE x \in InUse'
      <4>1. PICK i \in 0 .. kUsed - 1 : x = element[i] /\ i # id
        BY DEF InUse
      <4>2. CASE i = kUsed'
        <5>1. x = element'[id]
          BY <3>2, <3>3, <4>1, <4>2
        <5> QED
          BY <2>3, <3>3, <5>1
      <4>3. CASE i # kUsed'
        <5>1. i \in 0 .. kUsed' - 1 /\ x = element'[i]
          BY <2>1, <3>2, <4>1, <4>3
        <5> QED
          BY <2>3, <5>1
      <4> QED
        BY <4>2, <4>3
    <3>6. InUse' = InUse \ {element[id]}
      BY <3>4, <3>5
    <3> QED
      BY <1>1, <2>2, <3>6 DEF Allocator!Return
  <2> QED
    BY <2>5, <2>6
<1> QED
  BY <1>2, <1>3

LEMMA InitIsEmpty ==
  ASSUME ArrayInit PROVE Allocator!PoolInit
<1>1. kUsed = 0 /\ granted = FALSE
  BY DEF ArrayInit
<1>2. 0 .. kUsed - 1 = {}
  BY <1>1
<1>3. InUse = {}
  BY <1>2 DEF InUse
<1> QED
  BY <1>1, <1>3 DEF Allocator!PoolInit

LEMMA StepKeepsInv ==
  ArrayInv /\ [ArrayNext]_array => ArrayInv'
<1> SUFFICES ASSUME ArrayInv, [ArrayNext]_array PROVE ArrayInv'
  OBVIOUS
<1>1. CASE \E v \in Instance : Use(v)
  BY <1>1, UseKeepsInv
<1>2. CASE \E id \in Id : Release(id)
  BY <1>2, ReleaseKeepsInv
<1>3. CASE UNCHANGED array
  BY <1>3 DEF ArrayInv, array
<1> QED
  BY <1>1, <1>2, <1>3 DEF ArrayNext

LEMMA StepIsPoolStep ==
  ArrayInv /\ [ArrayNext]_array => [Allocator!PoolNext]_<<InUse, granted>>
<1> SUFFICES ASSUME ArrayInv, [ArrayNext]_array
             PROVE  [Allocator!PoolNext]_<<InUse, granted>>
  OBVIOUS
<1>1. CASE \E v \in Instance : Use(v)
  BY <1>1, UseIsRequest DEF Allocator!PoolNext
<1>2. CASE \E id \in Id : Release(id)
  BY <1>2, ReleaseIsReturn DEF Allocator!PoolNext
<1>3. CASE UNCHANGED array
  BY <1>3 DEF array, InUse
<1> QED
  BY <1>1, <1>2, <1>3 DEF ArrayNext

\* array.cc, for every number of elements and whatever ids Release is called
\* with: in any order of calls the elements in use are the set of instances that
\* Pool promises.
THEOREM ArrayIsPool == ArraySpec => ImplementsPool
<1>1. ArraySpec => []ArrayInv
  BY ArrayInvInit, StepKeepsInv, PTL DEF ArraySpec
<1> QED
  BY <1>1, InitIsEmpty, StepIsPoolStep, PTL
     DEF ArraySpec, ImplementsPool, Allocator!PoolSpec
=============================================================================
