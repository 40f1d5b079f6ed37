----------------------------- MODULE FoldProofs -----------------------------
(***************************************************************************)
(* What FoldLeft and FlattenSeq of the community modules make of one more  *)
(* element: by induction over natural numbers, in the form in which the    *)
(* provers can use it, of a set.  The operator that is folded is a         *)
(* parameter: whoever needs the lemmas instantiates the module with an     *)
(* operator of the model.                                                  *)
(***************************************************************************)
EXTENDS Integers, SequencesExt, SequenceTheorems, WellFoundedInduction, TLAPS

CONSTANT op(_, _)

\* The fold of the parameter.
Fold(base, seq) == FoldLeft(op, base, seq)

\* Induction over the natural numbers, for a set of them.
LEMMA NatSetInduction ==
  ASSUME NEW S, 0 \in S, \A n \in Nat : n \in S => n + 1 \in S
  PROVE  Nat \subseteq S
<1> DEFINE R == {ss \in Nat \X Nat : ss[1] < ss[2]}
           T == Nat \ S
<1>1. IsWellFoundedOn(R, Nat)
  BY NatLessThanWellFounded DEF OpToRel
<1>2. SUFFICES ASSUME T # {} PROVE FALSE
  OBVIOUS
<1>3. PICK x \in T : \A y \in T : <<y, x>> \notin R
  <2> HIDE DEF R
  <2> QED BY <1>1, <1>2, WFMin
<1>4. x # 0 /\ x \in Nat
  BY <1>3
<1>5. x - 1 \in Nat /\ x - 1 < x /\ (x - 1) + 1 = x
  BY <1>4
<1>6. x - 1 \in T
  BY <1>3, <1>5
<1>7. <<x - 1, x>> \in R
  BY <1>4, <1>5
<1>8. QED
  BY <1>3, <1>6, <1>7

\* Two sequences have the first n elements in common.
Agree(s, t, n) == \A i \in 1 .. n : s[i] = t[i]

-----------------------------------------------------------------------------
(* FoldLeft, which folds sets of indices.                                  *)

\* g folds the subsets of 1 .. n, from the left.
IsFold(g, base, seq, n) ==
  g = [s \in SUBSET (1 .. n) |->
         IF s = {} THEN base ELSE op(g[s \ {Max(s)}], seq[Max(s)])]

\* FoldLeft is such a fold, of all indices.
LEMMA FoldIsIter ==
  ASSUME NEW base, NEW S, NEW seq \in Seq(S)
  PROVE  Fold(base, seq)
           = (CHOOSE g : IsFold(g, base, seq, Len(seq)))[1 .. Len(seq)]
<1>1. DOMAIN seq = 1 .. Len(seq)
  OBVIOUS
<1>2. QED
  BY <1>1 DEF Fold, FoldLeft, MapThenFoldSet, IsFold

\* The greatest of some of the first n + 1 indices, n + 1 being one of them.
LEMMA MaxIsLast ==
  ASSUME NEW n \in Nat, NEW s \in SUBSET (1 .. n + 1), n + 1 \in s
  PROVE  Max(s) = n + 1
<1>1. \A y \in s : n + 1 >= y
  OBVIOUS
<1>2. \A x \in s : (\A y \in s : x >= y) => x = n + 1
  <2>1. TAKE x \in s
  <2>2. HAVE \A y \in s : x >= y
  <2>3. x >= n + 1 /\ x \in 1 .. n + 1
    BY <2>2
  <2>4. QED BY <2>3
<1>3. QED
  BY <1>1, <1>2 DEF Max

\* A fold of n indices extends to n + 1.
LEMMA FoldGrows ==
  ASSUME NEW base, NEW seq, NEW n \in Nat, NEW g, IsFold(g, base, seq, n)
  PROVE  \E h : IsFold(h, base, seq, n + 1)
<1> DEFINE h == [s \in SUBSET (1 .. n + 1) |->
                   IF n + 1 \in s THEN op(g[s \ {n + 1}], seq[n + 1]) ELSE g[s]]
           step(f, s) == IF s = {} THEN base ELSE op(f[s \ {Max(s)}], seq[Max(s)])
<1>1. ASSUME NEW s \in SUBSET (1 .. n + 1)
      PROVE  h[s] = step(h, s)
  <2>1. CASE n + 1 \in s
    <3>1. Max(s) = n + 1 /\ s # {}
      BY <2>1, MaxIsLast
    <3>2. s \ {n + 1} \in SUBSET (1 .. n + 1) /\ n + 1 \notin s \ {n + 1}
      OBVIOUS
    <3>3. h[s \ {n + 1}] = g[s \ {n + 1}]
      BY <3>2
    <3>4. h[s] = op(g[s \ {n + 1}], seq[n + 1])
      BY <2>1
    <3>5. QED
      BY <3>1, <3>3, <3>4
  <2>2. CASE n + 1 \notin s
    <3>1. s \in SUBSET (1 .. n)
      <4>1. \A x \in s : x \in 1 .. n + 1 /\ x # n + 1
        BY <2>2
      <4>2. QED BY <4>1
    <3>2. h[s] = g[s]
      BY <2>2
    <3>3. g[s] = step(g, s)
      BY <3>1 DEF IsFold
    <3>4. s \ {Max(s)} \in SUBSET (1 .. n + 1) /\ n + 1 \notin s \ {Max(s)}
      BY <2>2
    <3>5. h[s \ {Max(s)}] = g[s \ {Max(s)}]
      BY <3>4
    <3>6. QED
      BY <3>2, <3>3, <3>5
  <2>3. QED
    BY <2>1, <2>2
<1>2. h = [s \in SUBSET (1 .. n + 1) |-> step(h, s)]
  <2>1. h = [s \in SUBSET (1 .. n + 1) |-> h[s]]
    OBVIOUS
  <2> HIDE DEF h, step
  <2>2. QED
    BY <2>1, <1>1
<1>3. IsFold(h, base, seq, n + 1)
  BY <1>2 DEF IsFold
<1>4. QED
  BY <1>3

\* So there are folds of all sizes.
LEMMA FoldExists ==
  ASSUME NEW base, NEW seq
  PROVE  \A n \in Nat : \E g : IsFold(g, base, seq, n)
<1> DEFINE S == {n \in Nat : \E g : IsFold(g, base, seq, n)}
<1>1. 0 \in S
  <2> DEFINE g == [s \in SUBSET (1 .. 0) |-> base]
  <2>1. \A s \in SUBSET (1 .. 0) : s = {}
    OBVIOUS
  <2>2. g = [s \in SUBSET (1 .. 0) |->
               IF s = {} THEN base ELSE op(g[s \ {Max(s)}], seq[Max(s)])]
    BY <2>1
  <2>3. IsFold(g, base, seq, 0)
    BY <2>2 DEF IsFold
  <2>4. QED
    BY <2>3
<1>2. \A n \in Nat : n \in S => n + 1 \in S
  BY FoldGrows
<1>3. Nat \subseteq S
  <2> HIDE DEF S
  <2> QED BY <1>1, <1>2, NatSetInduction
<1>4. QED
  BY <1>3

\* What a fold makes of the first k + 1 elements.
LEMMA FoldStep ==
  ASSUME NEW base, NEW seq, NEW n \in Nat, NEW g, IsFold(g, base, seq, n)
  PROVE  /\ g[1 .. 0] = base
         /\ \A k \in Nat : k + 1 <= n => g[1 .. k + 1] = op(g[1 .. k], seq[k + 1])
<1>1. \A s \in SUBSET (1 .. n) :
        g[s] = IF s = {} THEN base ELSE op(g[s \ {Max(s)}], seq[Max(s)])
  <2> DEFINE step(s) == IF s = {} THEN base ELSE op(g[s \ {Max(s)}], seq[Max(s)])
  <2>1. g = [s \in SUBSET (1 .. n) |-> step(s)]
    BY DEF IsFold
  <2> HIDE DEF step
  <2>2. \A s \in SUBSET (1 .. n) : g[s] = step(s)
    BY <2>1
  <2>3. QED
    BY <2>2 DEF step
<1>2. 1 .. 0 = {} /\ {} \in SUBSET (1 .. n)
  OBVIOUS
<1>3. g[{}] = base
  BY <1>1, <1>2
<1>4. ASSUME NEW k \in Nat, k + 1 <= n
      PROVE  g[1 .. k + 1] = op(g[1 .. k], seq[k + 1])
  <2>1. Max(1 .. k + 1) = k + 1 /\ 1 .. k + 1 # {}
    BY MaxIsLast
  <2>2. (1 .. k + 1) \ {k + 1} = 1 .. k
    OBVIOUS
  <2>3. 1 .. k + 1 \in SUBSET (1 .. n)
    BY <1>4
  <2>4. QED
    BY <1>1, <2>1, <2>2, <2>3
<1>5. QED
  BY <1>2, <1>3, <1>4

\* Folds of sequences with a common beginning agree on it.
LEMMA FoldAgree ==
  ASSUME NEW base, NEW seq, NEW t, NEW n \in Nat, NEW m \in Nat, n <= m,
         Agree(seq, t, n), NEW g, IsFold(g, base, seq, n), NEW h, IsFold(h, base, t, m)
  PROVE  g[1 .. n] = h[1 .. n]
<1> DEFINE S == {k \in Nat : k <= n => g[1 .. k] = h[1 .. k]}
<1>1. 0 \in S
  <2>1. g[1 .. 0] = base
    BY FoldStep
  <2>2. h[1 .. 0] = base
    BY ONLY m \in Nat, IsFold(h, base, t, m), FoldStep
  <2>3. QED
    BY <2>1, <2>2
<1>2. ASSUME NEW k \in Nat, k \in S, k + 1 <= n
      PROVE  g[1 .. k + 1] = h[1 .. k + 1]
  <2>1. g[1 .. k + 1] = op(g[1 .. k], seq[k + 1])
    BY <1>2, FoldStep
  <2>2. h[1 .. k + 1] = op(h[1 .. k], t[k + 1])
    BY <1>2, FoldStep
  <2>3. seq[k + 1] = t[k + 1] /\ g[1 .. k] = h[1 .. k]
    BY <1>2 DEF Agree
  <2>4. QED
    BY <2>1, <2>2, <2>3
<1>3. Nat \subseteq S
  <2>1. \A k \in Nat : k \in S => k + 1 \in S
    BY <1>2
  <2> HIDE DEF S
  <2>2. QED
    BY <1>1, <2>1, NatSetInduction
<1>4. QED
  BY <1>3

\* Nothing is folded into what one starts with.
LEMMA FoldEmpty ==
  ASSUME NEW base
  PROVE  Fold(base, <<>>) = base
<1> DEFINE g == CHOOSE g : IsFold(g, base, <<>>, 0)
<1>1. \E f : IsFold(f, base, <<>>, 0)
  BY FoldExists
<1>2. IsFold(g, base, <<>>, 0)
  BY <1>1
<1>3. <<>> \in Seq({}) /\ Len(<<>>) = 0
  OBVIOUS
<1>4. Fold(base, <<>>) = g[1 .. 0]
  BY <1>3, FoldIsIter
<1> HIDE DEF g
<1>5. QED
  BY <1>2, <1>4, FoldStep

\* One more element at the end is folded in last.
LEMMA FoldAppend ==
  ASSUME NEW S, NEW base, NEW s \in Seq(S), NEW e \in S
  PROVE  Fold(base, Append(s, e)) = op(Fold(base, s), e)
<1> DEFINE t == Append(s, e)
           n == Len(s)
           g == CHOOSE g : IsFold(g, base, s, n)
           h == CHOOSE h : IsFold(h, base, t, n + 1)
<1>1. /\ n \in Nat
      /\ t \in Seq(S)
      /\ Len(t) = n + 1
      /\ t[n + 1] = e
      /\ Agree(s, t, n)
  BY DEF Agree
<1>2. Fold(base, s) = g[1 .. n]
  BY FoldIsIter
<1> HIDE DEF n, t
<1>3. Fold(base, t) = h[1 .. n + 1]
  BY <1>1, FoldIsIter
<1>4. /\ \E f : IsFold(f, base, s, n)
      /\ \E f : IsFold(f, base, t, n + 1)
  <2>1. n \in Nat /\ n + 1 \in Nat
    BY <1>1
  <2>2. \A m \in Nat : \E f : IsFold(f, base, s, m)
    BY FoldExists
  <2>3. \A m \in Nat : \E f : IsFold(f, base, t, m)
    BY FoldExists
  <2>4. QED
    BY <2>1, <2>2, <2>3
<1>5. IsFold(g, base, s, n) /\ IsFold(h, base, t, n + 1)
  BY <1>4
<1> HIDE DEF g, h
<1>6. g[1 .. n] = h[1 .. n]
  BY <1>1, <1>5, FoldAgree
<1>7. h[1 .. n + 1] = op(h[1 .. n], t[n + 1])
  BY <1>1, <1>5, FoldStep
<1>8. QED
  BY <1>1, <1>2, <1>3, <1>6, <1>7 DEF t

\* So folding the beginnings of a sequence takes one step at a time.
LEMMA FoldPrefix ==
  ASSUME NEW S, NEW base, NEW s \in Seq(S), NEW n \in Nat, n + 1 <= Len(s)
  PROVE  Fold(base, SubSeq(s, 1, n + 1)) = op(Fold(base, SubSeq(s, 1, n)), s[n + 1])
<1> DEFINE t == SubSeq(s, 1, n)
           e == s[n + 1]
<1>1. t \in Seq(S) /\ e \in S /\ SubSeq(s, 1, n + 1) = Append(t, e)
  OBVIOUS
<1> HIDE DEF t, e
<1>2. Fold(base, Append(t, e)) = op(Fold(base, t), e)
  BY <1>1, FoldAppend
<1>3. QED
  BY <1>1, <1>2 DEF t, e

-----------------------------------------------------------------------------
(* FlattenSeq of the library, which is a recursive function.               *)

\* g flattens the first 1 .. n of some sequences.
IsFlat(g, seqs, n) ==
  g = [i \in 1 .. n |-> IF i = 1 THEN seqs[i] ELSE g[i - 1] \o seqs[i]]

\* What a flattening makes of the first sequence.
LEMMA FlatFirst ==
  ASSUME NEW seqs, NEW n \in Nat, n > 0, NEW g, IsFlat(g, seqs, n)
  PROVE  g[1] = seqs[1]
<1>1. 1 \in 1 .. n
  OBVIOUS
<1>2. QED
  BY <1>1 DEF IsFlat

\* And of one more.
LEMMA FlatStep ==
  ASSUME NEW seqs, NEW n \in Nat, NEW g, IsFlat(g, seqs, n), NEW k \in 1 .. n - 1
  PROVE  g[k + 1] = g[k] \o seqs[k + 1]
<1> DEFINE step(i) == IF i = 1 THEN seqs[i] ELSE g[i - 1] \o seqs[i]
<1>1. g = [i \in 1 .. n |-> step(i)]
  BY DEF IsFlat
<1> HIDE DEF step
<1>2. \A i \in 1 .. n : g[i] = step(i)
  BY <1>1
<1>3. k + 1 \in 1 .. n /\ k + 1 # 1 /\ (k + 1) - 1 = k
  OBVIOUS
<1>4. g[k + 1] = step(k + 1)
  BY <1>2, <1>3
<1>5. QED
  BY <1>3, <1>4 DEF step

\* A flattening of n sequences extends to n + 1.
LEMMA FlatExists ==
  ASSUME NEW seqs
  PROVE  \A n \in Nat : \E g : IsFlat(g, seqs, n)
<1> DEFINE N == {n \in Nat : \E g : IsFlat(g, seqs, n)}
<1>1. 0 \in N
  <2> DEFINE g == [i \in 1 .. 0 |-> seqs]
  <2>1. IsFlat(g, seqs, 0)
    BY DEF IsFlat
  <2>2. QED
    BY <2>1
<1>2. ASSUME NEW n \in Nat, NEW g, IsFlat(g, seqs, n)
      PROVE  \E h : IsFlat(h, seqs, n + 1)
  <2> DEFINE step(f, i) == IF i = 1 THEN seqs[i] ELSE f[i - 1] \o seqs[i]
             h == [i \in 1 .. n + 1 |-> IF i = n + 1 THEN step(g, i) ELSE g[i]]
  <2>1. ASSUME NEW i \in 1 .. n + 1
        PROVE  h[i] = step(h, i)
    <3>1. CASE i = 1
      <4>1. n > 0 => g[1] = seqs[1]
        BY <1>2, FlatFirst
      <4>2. QED
        BY <3>1, <4>1
    <3>2. CASE i # 1
      <4>1. i - 1 \in 1 .. n + 1 /\ i - 1 # n + 1 /\ i - 1 \in 1 .. n
        BY <3>2
      <4>2. h[i - 1] = g[i - 1]
        BY <4>1
      <4>3. i # n + 1 => g[i] = g[i - 1] \o seqs[i]
        <5>1. HAVE i # n + 1
        <5>2. i - 1 \in 1 .. n - 1 /\ (i - 1) + 1 = i
          BY <5>1, <4>1
        <5>3. QED
          BY <1>2, <5>2, FlatStep
      <4>4. QED
        BY <3>2, <4>2, <4>3
    <3>3. QED
      BY <3>1, <3>2
  <2>2. h = [i \in 1 .. n + 1 |-> step(h, i)]
    <3>1. h = [i \in 1 .. n + 1 |-> h[i]]
      OBVIOUS
    <3> HIDE DEF h, step
    <3>2. QED
      BY <2>1, <3>1
  <2>3. IsFlat(h, seqs, n + 1)
    BY <2>2 DEF IsFlat
  <2>4. QED
    BY <2>3
<1>3. \A n \in Nat : n \in N => n + 1 \in N
  BY <1>2
<1>4. Nat \subseteq N
  <2> HIDE DEF N
  <2> QED
    BY <1>1, <1>3, NatSetInduction
<1>5. QED
  BY <1>4

\* Flattenings of sequences with a common beginning agree on it.
LEMMA FlatAgree ==
  ASSUME NEW seqs, NEW t, NEW n \in Nat, NEW m \in Nat, n <= m, n > 0,
         Agree(seqs, t, n), NEW g, IsFlat(g, seqs, n), NEW h, IsFlat(h, t, m)
  PROVE  g[n] = h[n]
<1> DEFINE N == {k \in Nat : k + 1 <= n => g[k + 1] = h[k + 1]}
<1>1. 0 \in N
  <2>1. g[1] = seqs[1]
    BY FlatFirst
  <2>2. h[1] = t[1]
    <3>1. m > 0
      OBVIOUS
    <3>2. QED
      BY ONLY <3>1, m \in Nat, IsFlat(h, t, m), FlatFirst
  <2>3. QED
    BY <2>1, <2>2 DEF Agree
<1>2. ASSUME NEW k \in Nat, k \in N, (k + 1) + 1 <= n
      PROVE  g[(k + 1) + 1] = h[(k + 1) + 1]
  <2>1. k + 1 \in 1 .. n - 1 /\ k + 1 \in 1 .. m - 1
    BY <1>2
  <2>2. g[(k + 1) + 1] = g[k + 1] \o seqs[(k + 1) + 1]
    BY ONLY n \in Nat, IsFlat(g, seqs, n), <2>1, FlatStep
  <2>3. h[(k + 1) + 1] = h[k + 1] \o t[(k + 1) + 1]
    BY ONLY m \in Nat, IsFlat(h, t, m), <2>1, FlatStep
  <2>4. g[k + 1] = h[k + 1] /\ seqs[(k + 1) + 1] = t[(k + 1) + 1]
    BY <1>2 DEF Agree
  <2>5. QED
    BY <2>2, <2>3, <2>4
<1>3. Nat \subseteq N
  <2>1. \A k \in Nat : k \in N => k + 1 \in N
    BY <1>2
  <2> HIDE DEF N
  <2>2. QED
    BY <1>1, <2>1, NatSetInduction
<1>4. n - 1 \in N /\ (n - 1) + 1 = n
  BY <1>3
<1>5. QED
  BY <1>4

\* FlattenSeq is such a flattening.
LEMMA FlattenIsFlat ==
  ASSUME NEW S, NEW seqs \in Seq(S), Len(seqs) > 0
  PROVE  \E g : IsFlat(g, seqs, Len(seqs)) /\ FlattenSeq(seqs) = g[Len(seqs)]
<1> DEFINE g == CHOOSE g : IsFlat(g, seqs, Len(seqs))
<1>1. Len(seqs) \in Nat
  OBVIOUS
<1>2. \E f : IsFlat(f, seqs, Len(seqs))
  BY <1>1, FlatExists
<1>3. IsFlat(g, seqs, Len(seqs))
  BY <1>2
<1>4. FlattenSeq(seqs) = g[Len(seqs)]
  BY DEF FlattenSeq, IsFlat
<1>5. QED
  BY <1>3, <1>4

\* One more sequence comes last.
LEMMA FlattenAppend ==
  ASSUME NEW S, NEW seqs \in Seq(Seq(S)), NEW x \in Seq(S)
  PROVE  FlattenSeq(Append(seqs, x)) = FlattenSeq(seqs) \o x
<1> DEFINE t == Append(seqs, x)
           n == Len(seqs)
<1>1. /\ n \in Nat
      /\ t \in Seq(Seq(S))
      /\ Len(t) = n + 1
      /\ t[n + 1] = x
      /\ Agree(seqs, t, n)
  BY DEF Agree
<1> HIDE DEF t, n
<1>2. PICK h : IsFlat(h, t, n + 1) /\ FlattenSeq(t) = h[n + 1]
  <2>1. t \in Seq(Seq(S)) /\ Len(t) > 0
    BY <1>1
  <2>2. \E h : IsFlat(h, t, Len(t)) /\ FlattenSeq(t) = h[Len(t)]
    BY <2>1, FlattenIsFlat
  <2>3. QED
    BY <1>1, <2>2
<1>3. CASE n = 0
  <2>1. FlattenSeq(seqs) = <<>>
    BY <1>3 DEF FlattenSeq, n
  <2>2. h[1] = t[1]
    <3>1. n + 1 \in Nat /\ n + 1 > 0
      BY <1>1
    <3>2. QED
      BY ONLY <1>2, <3>1, FlatFirst
  <2>3. <<>> \o x = x
    OBVIOUS
  <2>4. QED
    BY <1>1, <1>2, <1>3, <2>1, <2>2, <2>3 DEF t
<1>4. CASE n > 0
  <2>1. PICK g : IsFlat(g, seqs, n) /\ FlattenSeq(seqs) = g[n]
    BY <1>4, FlattenIsFlat DEF n
  <2>2. g[n] = h[n]
    <3>1. n + 1 \in Nat /\ n <= n + 1
      BY <1>1
    <3>2. n \in Nat /\ Agree(seqs, t, n)
      BY <1>1
    <3>3. IsFlat(g, seqs, n) /\ IsFlat(h, t, n + 1)
      BY <1>2, <2>1
    <3>4. QED
      BY ONLY <1>4, <3>1, <3>2, <3>3, FlatAgree
  <2>3. h[n + 1] = h[n] \o t[n + 1]
    <3>1. n + 1 \in Nat /\ n \in 1 .. (n + 1) - 1
      BY <1>1, <1>4
    <3>2. QED
      BY ONLY <1>2, <3>1, FlatStep
  <2>4. QED
    BY <1>1, <1>2, <2>1, <2>2, <2>3 DEF t
<1>5. QED
  BY <1>1, <1>3, <1>4

\* The type of what is flattened.
LEMMA FlattenType ==
  ASSUME NEW S, NEW seqs \in Seq(Seq(S))
  PROVE  FlattenSeq(seqs) \in Seq(S)
<1> DEFINE n == Len(seqs)
<1>1. CASE n = 0
  <2>1. seqs = <<>>
    BY <1>1
  <2>2. QED
    BY <2>1 DEF FlattenSeq
<1>2. CASE n > 0
  <2>1. PICK g : IsFlat(g, seqs, n) /\ FlattenSeq(seqs) = g[n]
    BY <1>2, FlattenIsFlat
  <2> DEFINE N == {k \in Nat : k + 1 <= n => g[k + 1] \in Seq(S)}
  <2>2. n \in Nat /\ \A k \in 1 .. n : seqs[k] \in Seq(S)
    OBVIOUS
  <2> HIDE DEF n
  <2>3. 0 \in N
    <3>1. g[1] = seqs[1]
      BY <1>2, <2>1, <2>2, FlatFirst
    <3>2. QED
      BY <1>2, <2>2, <3>1
  <2>4. ASSUME NEW k \in Nat, k \in N, (k + 1) + 1 <= n
        PROVE  g[(k + 1) + 1] \in Seq(S)
    <3>1. k + 1 \in 1 .. n - 1 /\ (k + 1) + 1 \in 1 .. n
      BY <2>2, <2>4
    <3>2. g[(k + 1) + 1] = g[k + 1] \o seqs[(k + 1) + 1]
      BY <2>1, <2>2, <3>1, FlatStep
    <3>3. g[k + 1] \in Seq(S)
      BY <2>2, <2>4
    <3>4. QED
      BY <2>2, <3>1, <3>2, <3>3
  <2>5. \A k \in Nat : k \in N => k + 1 \in N
    BY <2>4
  <2>6. Nat \subseteq N
    <3> HIDE DEF N
    <3> QED
      BY <2>3, <2>5, NatSetInduction
  <2>7. n - 1 \in N /\ (n - 1) + 1 = n
    BY <1>2, <2>2, <2>6
  <2>8. QED
    BY <2>1, <2>2, <2>7
<1>3. QED
  BY <1>1, <1>2
=============================================================================
