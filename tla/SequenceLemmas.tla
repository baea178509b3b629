--------------------------- MODULE SequenceLemmas ---------------------------
(***************************************************************************)
(* Lemmas that the proofs of several components cite: induction over the   *)
(* naturals as a least counterexample, and what FlattenSeq, which is       *)
(* defined by recursion, does to a sequence of sequences.                  *)
(***************************************************************************)
EXTENDS Integers, Sequences, FiniteSets, SequencesExt, Progress, SequenceTheorems,
        FiniteSetTheorems, TLAPS

-----------------------------------------------------------------------------
(* Least counterexamples.                                                  *)

\* A set of naturals has a least element: the initial segments below its elements
\* are finite sets, and one of them contains no other.
LEMMA LeastNatural ==
  ASSUME NEW T \in SUBSET Nat, T # {}
  PROVE  \E m \in T : \A n \in T : m <= n
  <1> DEFINE F == {0 .. n - 1 : n \in T}
             R == StrictSubsetOrdering(Nat)
             S == FiniteSubsetsOf(Nat)
  <1>1. F \subseteq S /\ F # {}
    <2>1. \A n \in T : 0 .. n - 1 \in SUBSET Nat /\ IsFiniteSet(0 .. n - 1)
      BY FS_Interval
    <2> QED
      BY <2>1 DEF FiniteSubsetsOf
  <1>2. PICK U \in F : \A V \in F : ~(<<V, U>> \in R)
    <2>1. IsWellFoundedOn(R, S)
      BY FS_StrictSubsetOrderingWellFounded
    <2> HIDE DEF F, R, S
    <2> QED
      BY <1>1, <2>1, WFMin
  <1>3. PICK m \in T : U = 0 .. m - 1
    BY <1>2
  <1>4. ASSUME NEW n \in T, n < m
        PROVE  FALSE
    <2>1. 0 .. n - 1 \in F /\ 0 .. n - 1 \in SUBSET U /\ n \in U /\ n \notin 0 .. n - 1
      BY <1>3, <1>4
    <2>2. <<0 .. n - 1, U>> \in R
      BY <1>3, <2>1 DEF StrictSubsetOrdering
    <2> QED
      BY <1>2, <2>1, <2>2
  <1> QED
    BY <1>4

\* Min of the community modules is that element.
LEMMA MinOfNaturals ==
  ASSUME NEW T \in SUBSET Nat, T # {}
  PROVE  Min(T) \in T /\ \A n \in T : Min(T) <= n
  <1>1. \E m \in T : \A n \in T : m <= n
    BY LeastNatural
  <1> QED
    BY <1>1 DEF Min

\* A set of naturals that a successor never leaves upwards: induction, without an operator
\* for the induction hypothesis.
LEMMA InductionUpTo ==
  ASSUME NEW N \in Nat, NEW T, 0 \in T, \A n \in 0 .. N - 1 : n \in T => n + 1 \in T
  PROVE  0 .. N \subseteq T
  <1> DEFINE C == {n \in 0 .. N : n \notin T}
  <1> SUFFICES ASSUME C # {} PROVE FALSE
    OBVIOUS
  <1>1. PICK m \in C : \A n \in C : m <= n
    <2>1. C \in SUBSET Nat
      OBVIOUS
    <2> HIDE DEF C
    <2> QED
      BY <2>1, LeastNatural
  <1>2. m - 1 \in 0 .. N - 1 /\ m - 1 \notin C
    BY <1>1
  <1> QED
    BY <1>1, <1>2

-----------------------------------------------------------------------------
(* FlattenSeq.                                                             *)

\* f is the recursive function in the definition of FlattenSeq, on the first n sequences.
Flattens(f, seqs, n) ==
  f = [i \in 1 .. n |-> IF i = 1 THEN seqs[i] ELSE f[i - 1] \o seqs[i]]

\* Its values, from the first to the last.
LEMMA FlattensAt ==
  ASSUME NEW seqs, NEW n \in Nat, NEW f, Flattens(f, seqs, n)
  PROVE  /\ \A i \in 1 .. n : f[i] = IF i = 1 THEN seqs[i] ELSE f[i - 1] \o seqs[i]
         /\ \A k \in 0 .. n - 1 : f[k + 1] = IF k = 0 THEN seqs[1] ELSE f[k] \o seqs[k + 1]
  <1>1. \A i \in 1 .. n : f[i] = IF i = 1 THEN seqs[i] ELSE f[i - 1] \o seqs[i]
    BY DEF Flattens
  <1> QED
    BY <1>1

\* There is such a function: the one for n - 1 sequences is extended by one value.
LEMMA FlattensExists ==
  ASSUME NEW seqs, NEW n \in Nat
  PROVE  \E f : Flattens(f, seqs, n)
  <1> DEFINE T == {k \in Nat : \E f : Flattens(f, seqs, k)}
  <1>1. 0 \in T
    <2>1. Flattens([i \in {} |-> 0], seqs, 0)
      BY DEF Flattens
    <2> QED
      BY <2>1
  <1>2. ASSUME NEW k \in 0 .. n - 1, k \in T
        PROVE  k + 1 \in T
    <2>1. PICK f : Flattens(f, seqs, k)
      BY <1>2
    <2> DEFINE g == [i \in 1 .. k + 1 |->
                       IF i = 1 THEN seqs[i] ELSE f[i - 1] \o seqs[i]]
    <2>2. \A i \in 1 .. k : g[i] = f[i]
      BY <2>1, FlattensAt
    <2>3. g = [i \in 1 .. k + 1 |-> IF i = 1 THEN seqs[i] ELSE g[i - 1] \o seqs[i]]
      <3>1. ASSUME NEW i \in 1 .. k + 1, i # 1
            PROVE  f[i - 1] \o seqs[i] = g[i - 1] \o seqs[i]
        <4>1. i - 1 \in 1 .. k
          BY <3>1
        <4> HIDE DEF g
        <4> QED
          BY <2>2, <4>1
      <3> QED
        BY <3>1
    <2> HIDE DEF g
    <2>4. Flattens(g, seqs, k + 1)
      BY <2>3 DEF Flattens
    <2> QED
      BY <2>4
  <1> HIDE DEF T
  <1>3. n \in T
    BY <1>1, <1>2, InductionUpTo
  <1> QED
    BY <1>3 DEF T

\* Two of them agree where both are defined.
LEMMA FlattensUnique ==
  ASSUME NEW s, NEW t, NEW m \in Nat, NEW n \in Nat, NEW f, NEW g,
         m <= n, \A i \in 1 .. m : s[i] = t[i], Flattens(f, s, m), Flattens(g, t, n)
  PROVE  \A i \in 1 .. m : f[i] = g[i]
  <1> DEFINE T == {k \in Nat : k \in 1 .. m => f[k] = g[k]}
  <1>1. 0 \in T
    OBVIOUS
  <1>2. ASSUME NEW k \in 0 .. m - 1, k \in T
        PROVE  k + 1 \in T
    <2>1. f[k + 1] = IF k = 0 THEN s[1] ELSE f[k] \o s[k + 1]
      BY FlattensAt
    <2>2. g[k + 1] = IF k = 0 THEN t[1] ELSE g[k] \o t[k + 1]
      <3>1. k \in 0 .. n - 1
        OBVIOUS
      <3> QED
        BY <3>1, FlattensAt
    <2>3. k # 0 => f[k] = g[k]
      BY <1>2
    <2> QED
      BY <2>1, <2>2, <2>3
  <1> HIDE DEF T
  <1>3. 0 .. m \subseteq T
    BY <1>1, <1>2, InductionUpTo
  <1> QED
    BY <1>3 DEF T

\* FlattenSeq is the last value of the function.
LEMMA FlattenDef ==
  ASSUME NEW S, NEW s \in Seq(S), s # <<>>
  PROVE  \E f : Flattens(f, s, Len(s)) /\ FlattenSeq(s) = f[Len(s)]
  <1> DEFINE f == CHOOSE f : f = [i \in 1 .. Len(s) |-> IF i = 1 THEN s[i] ELSE f[i - 1] \o s[i]]
  <1>1. Len(s) \in Nat \ {0}
    BY EmptySeq
  <1>2. f = [i \in 1 .. Len(s) |-> IF i = 1 THEN s[i] ELSE f[i - 1] \o s[i]]
    <2>1. \E g : g = [i \in 1 .. Len(s) |-> IF i = 1 THEN s[i] ELSE g[i - 1] \o s[i]]
      BY <1>1, FlattensExists DEF Flattens
    <2> HIDE DEF f
    <2> QED
      BY <2>1, Zenon DEF f
  <1>3. FlattenSeq(s) = f[Len(s)]
    BY <1>1 DEF FlattenSeq
  <1> HIDE DEF f
  <1> QED
    BY <1>2, <1>3 DEF Flattens

\* Nothing flattened is nothing.
LEMMA FlattenEmpty == FlattenSeq(<<>>) = <<>>
  BY DEF FlattenSeq

\* What is appended comes last.
LEMMA FlattenAppend ==
  ASSUME NEW S, NEW s \in Seq(Seq(S)), NEW t \in Seq(S)
  PROVE  FlattenSeq(Append(s, t)) = FlattenSeq(s) \o t
  <1> DEFINE a == Append(s, t)
  <1>1. /\ a \in Seq(Seq(S)) /\ a # <<>> /\ Len(a) = Len(s) + 1 /\ Len(s) \in Nat
        /\ a[Len(a)] = t /\ \A i \in 1 .. Len(s) : s[i] = a[i]
    BY LenProperties, AppendProperties
  <1>2. PICK g : Flattens(g, a, Len(a)) /\ FlattenSeq(a) = g[Len(a)]
    BY <1>1, FlattenDef
  <1> HIDE DEF a
  <1>3. g[Len(a)] = IF Len(s) = 0 THEN t ELSE g[Len(s)] \o t
    <2>1. Len(s) \in 0 .. Len(a) - 1
      BY <1>1
    <2> QED
      BY <1>1, <1>2, <2>1, FlattensAt
  <1>4. CASE s = <<>>
    <2>1. FlattenSeq(s) = <<>> /\ Len(s) = 0
      BY <1>4, FlattenEmpty
    <2>2. FlattenSeq(a) = t
      BY <1>1, <1>2, <1>3, <2>1
    <2> QED
      BY <2>1, <2>2, ConcatEmptySeq DEF a
  <1>5. CASE s # <<>>
    <2>1. PICK f : Flattens(f, s, Len(s)) /\ FlattenSeq(s) = f[Len(s)]
      BY <1>5, FlattenDef
    <2>2. Len(s) \in 1 .. Len(s)
      BY <1>5, EmptySeq
    <2>3. f[Len(s)] = g[Len(s)]
      <3>1. Len(s) \in Nat /\ Len(a) \in Nat /\ Len(s) <= Len(a)
        BY <1>1
      <3>2. \A i \in 1 .. Len(s) : s[i] = a[i]
        BY <1>1
      <3>3. \A i \in 1 .. Len(s) : f[i] = g[i]
        <4>1. PICK m \in Nat, n \in Nat : m = Len(s) /\ n = Len(a)
          BY <3>1
        <4>2. m <= n /\ (\A i \in 1 .. m : s[i] = a[i]) /\ Flattens(f, s, m) /\ Flattens(g, a, n)
          BY <1>2, <2>1, <3>1, <3>2, <4>1
        <4>3. \A i \in 1 .. m : f[i] = g[i]
          BY <4>2, FlattensUnique
        <4> QED
          BY <4>1, <4>3
      <3> QED
        BY <2>2, <3>3
    <2> QED
      BY <1>1, <1>2, <1>3, <2>1, <2>2, <2>3 DEF a
  <1> QED
    BY <1>4, <1>5

\* One sequence more.
LEMMA FlattenNext ==
  ASSUME NEW S, NEW s \in Seq(Seq(S)), NEW n \in 0 .. Len(s) - 1
  PROVE  FlattenSeq(SubSeq(s, 1, n + 1)) = FlattenSeq(SubSeq(s, 1, n)) \o s[n + 1]
  <1>1. SubSeq(s, 1, n) \in Seq(Seq(S)) /\ s[n + 1] \in Seq(S) /\ n \in Nat
    BY SubSeqProperties, ElementOfSeq, LenProperties
  <1>2. SubSeq(s, 1, n + 1) = SubSeq(s, 1, n) \o <<s[n + 1]>>
    <2>1. n + 1 \in 1 .. Len(s) /\ 1 \in 1 .. Len(s) /\ n + 1 \in 1 .. Len(s) /\ (n + 1) - 1 = n
      BY <1>1, LenProperties
    <2>2. SubSeq(s, 1, n + 1) = SubSeq(s, 1, (n + 1) - 1) \o <<s[n + 1]>>
      BY <2>1, SubSeqRecursiveSecond
    <2> QED
      BY <2>1, <2>2
  <1>3. SubSeq(s, 1, n + 1) = Append(SubSeq(s, 1, n), s[n + 1])
    BY <1>1, <1>2, AppendIsConcat
  <1> QED
    BY <1>1, <1>3, FlattenAppend

\* A sequence of sequences of elements flattens to a sequence of elements.
LEMMA FlattenType ==
  ASSUME NEW S, NEW s \in Seq(Seq(S))
  PROVE  FlattenSeq(s) \in Seq(S)
  <1> DEFINE T == {n \in 0 .. Len(s) : FlattenSeq(SubSeq(s, 1, n)) \in Seq(S)}
  <1>0. Len(s) \in Nat
    BY LenProperties
  <1>1. 0 \in T
    <2>1. SubSeq(s, 1, 0) = <<>>
      BY <1>0
    <2>2. FlattenSeq(SubSeq(s, 1, 0)) \in Seq(S)
      BY <2>1, FlattenEmpty, EmptySeq
    <2> QED
      BY <1>0, <2>2
  <1>2. ASSUME NEW n \in 0 .. Len(s) - 1, n \in T
        PROVE  n + 1 \in T
    <2>1. FlattenSeq(SubSeq(s, 1, n + 1)) = FlattenSeq(SubSeq(s, 1, n)) \o s[n + 1]
      BY FlattenNext
    <2>2. s[n + 1] \in Seq(S) /\ FlattenSeq(SubSeq(s, 1, n)) \in Seq(S)
      BY <1>0, <1>2, ElementOfSeq
    <2>3. FlattenSeq(SubSeq(s, 1, n + 1)) \in Seq(S)
      BY <2>1, <2>2, ConcatProperties
    <2> QED
      BY <1>0, <2>3
  <1> HIDE DEF T
  <1>3. 0 .. Len(s) \subseteq T
    BY <1>0, <1>1, <1>2, InductionUpTo
  <1>4. Len(s) \in T
    BY <1>0, <1>3
  <1> QED
    BY <1>4, SubSeqFull DEF T

\* The first n elements of a sequence, and one more.
LEMMA FirstOnes ==
  ASSUME NEW S, NEW s \in Seq(S), NEW N \in Nat, N = Len(s), NEW n \in 0 .. N
  PROVE  /\ SubSeq(s, 1, n) \in Seq(S) /\ Len(SubSeq(s, 1, n)) = n
         /\ n < N => s[n + 1] \in S /\ SubSeq(s, 1, n + 1) = Append(SubSeq(s, 1, n), s[n + 1])
  <1>1. \A i \in 1 .. N : s[i] \in S
    BY ElementOfSeq
  <1>2. \A i \in 1 .. n : s[i] \in S
    BY <1>1
  <1>3. SubSeq(s, 1, n) \in Seq(S) /\ Len(SubSeq(s, 1, n)) = n
    BY <1>2, SubSeqProperties
  <1>4. ASSUME n < N
        PROVE  s[n + 1] \in S /\ SubSeq(s, 1, n + 1) = Append(SubSeq(s, 1, n), s[n + 1])
    <2>1. PICK m \in 1 .. N : m = n + 1 /\ m - 1 = n
      BY <1>4
    <2>2. 1 \in 1 .. Len(s) /\ m \in 1 .. Len(s)
      BY <2>1
    <2>3. SubSeq(s, 1, m) = SubSeq(s, 1, m - 1) \o <<s[m]>>
      BY <2>2, SubSeqRecursiveSecond
    <2>4. s[m] \in S
      BY <1>1
    <2> QED
      BY <1>3, <2>1, <2>3, <2>4, AppendIsConcat
  <1> QED
    BY <1>3, <1>4

\* The last elements of a sequence: the first of them, and the others.
LEMMA LastOnes ==
  ASSUME NEW S, NEW s \in Seq(S), NEW N \in Nat, N = Len(s), NEW n \in 0 .. N,
         NEW t, t = SubSeq(s, n + 1, N)
  PROVE  /\ t \in Seq(S) /\ Len(t) = N - n
         /\ t # <<>> => /\ n < N /\ Head(t) = s[n + 1]
                        /\ Tail(t) = SubSeq(s, n + 2, N) /\ Len(Tail(t)) = N - (n + 1)
  <1>1. \A i \in n + 1 .. N : s[i] \in S
    BY ElementOfSeq
  <1>2. t \in Seq(S) /\ Len(t) = N - n
    <2>1. n + 1 \in Int /\ N \in Int
      OBVIOUS
    <2>2. t \in Seq(S) /\ Len(t) = IF n + 1 <= N THEN N - (n + 1) + 1 ELSE 0
      BY <1>1, <2>1, SubSeqProperties
    <2> QED
      BY <2>2
  <1>3. ASSUME t # <<>>
        PROVE  /\ n < N /\ Head(t) = s[n + 1]
               /\ Tail(t) = SubSeq(s, n + 2, N) /\ Len(Tail(t)) = N - (n + 1)
    <2>1. n < N
      <3>1. Len(t) # 0
        BY <1>2, <1>3, EmptySeq
      <3> QED
        BY <1>2, <3>1
    <2>2. PICK m \in 1 .. N : m = n + 1 /\ m + 1 = n + 2
      BY <2>1
    <2>3. m \in 1 .. Len(s) /\ N \in m .. Len(s)
      BY <2>2
    <2>4. Head(t) = s[m] /\ Tail(t) = SubSeq(s, m + 1, N)
      BY <2>2, <2>3, HeadTailOfSubSeq
    <2>5. Len(Tail(t)) = Len(t) - 1
      BY <1>2, <1>3, HeadTailProperties
    <2> QED
      BY <1>2, <2>1, <2>2, <2>4, <2>5
  <1> QED
    BY <1>2, <1>3

\* Three sequences, put together from the left or from the right.
Associates(a, b, c) == a \o (b \o c) = (a \o b) \o c
LEMMA ConcatAssociates ==
  ASSUME NEW S, NEW a \in Seq(S), NEW b \in Seq(S), NEW c \in Seq(S)
  PROVE  Associates(a, b, c)
  BY ConcatAssociative DEF Associates

\* What comes first in the sequence of sequences comes first in the sequence.
LEMMA FlattenFirst ==
  ASSUME NEW S, NEW a \in Seq(S), NEW t \in Seq(Seq(S))
  PROVE  FlattenSeq(<<a>> \o t) = a \o FlattenSeq(t)
  <1>N. PICK N \in Nat : N = Len(t)
    BY LenProperties
  <1> DEFINE T == {n \in 0 .. N : FlattenSeq(<<a>> \o SubSeq(t, 1, n))
                                    = a \o FlattenSeq(SubSeq(t, 1, n))}
  <1>0. <<a>> \in Seq(Seq(S)) /\ <<>> \in Seq(Seq(S)) /\ <<>> \in Seq(S)
    OBVIOUS
  <1>1. 0 \in T
    <2>1. SubSeq(t, 1, 0) = <<>> /\ FlattenSeq(<<>>) = <<>>
      BY SubSeqEmpty, FlattenEmpty
    <2>2. <<a>> \o <<>> = Append(<<>>, a)
      BY <1>0, ConcatEmptySeq
    <2>3. FlattenSeq(<<a>> \o <<>>) = <<>> \o a
      BY <1>0, <2>1, <2>2, FlattenAppend
    <2>4. <<>> \o a = a \o <<>>
      BY ConcatEmptySeq
    <2>5. FlattenSeq(<<a>> \o SubSeq(t, 1, 0)) = a \o FlattenSeq(SubSeq(t, 1, 0))
      BY <2>1, <2>3, <2>4
    <2>6. 0 \in 0 .. N
      OBVIOUS
    <2> QED
      BY <2>5, <2>6, Zenon
  <1>2. ASSUME NEW n \in 0 .. N - 1, n \in T
        PROVE  n + 1 \in T
    <2>0. n \in 0 .. N /\ n < N /\ n + 1 \in 0 .. N
      OBVIOUS
    <2>1. PICK u \in Seq(Seq(S)) : u = SubSeq(t, 1, n)
      BY <1>N, <2>0, FirstOnes
    <2>2. PICK e \in Seq(S) : e = t[n + 1]
      BY <1>N, <2>0, FirstOnes
    <2>3. SubSeq(t, 1, n + 1) = Append(u, e)
      BY <1>N, <2>0, <2>1, <2>2, FirstOnes
    <2>4. FlattenSeq(<<a>> \o u) = a \o FlattenSeq(u)
      BY <1>2, <2>1
    <2>5. <<a>> \o Append(u, e) = Append(<<a>> \o u, e) /\ <<a>> \o u \in Seq(Seq(S))
      <3>1. <<e>> \in Seq(Seq(S)) /\ <<a>> \o u \in Seq(Seq(S))
        BY <1>0, ConcatProperties
      <3>2. <<a>> \o (u \o <<e>>) = (<<a>> \o u) \o <<e>>
        BY <1>0, <3>1, ConcatAssociative
      <3> QED
        BY <3>1, <3>2, AppendIsConcat
    <2>6. FlattenSeq(<<a>> \o Append(u, e)) = (a \o FlattenSeq(u)) \o e
      BY <2>4, <2>5, FlattenAppend
    <2>7. FlattenSeq(Append(u, e)) = FlattenSeq(u) \o e
      BY FlattenAppend
    <2>8. (a \o FlattenSeq(u)) \o e = a \o (FlattenSeq(u) \o e)
      <3>1. PICK f \in Seq(S) : f = FlattenSeq(u)
        BY FlattenType
      <3>2. Associates(a, f, e)
        BY ConcatAssociates
      <3> QED
        BY <3>1, <3>2, Zenon DEF Associates
    <2>9. FlattenSeq(<<a>> \o SubSeq(t, 1, n + 1)) = a \o FlattenSeq(SubSeq(t, 1, n + 1))
      BY <2>3, <2>6, <2>7, <2>8, Zenon
    <2> QED
      BY <2>0, <2>9, Zenon
  <1> HIDE DEF T
  <1>3. N \in T
    <2>1. 0 .. N \subseteq T
      BY <1>1, <1>2, InductionUpTo
    <2> QED
      BY <2>1
  <1>4. SubSeq(t, 1, N) = t
    BY <1>N, SubSeqFull
  <1> QED
    BY <1>3, <1>4 DEF T

\* What the first n sequences flatten to comes first in what all do.
LEMMA FlattenSplit ==
  ASSUME NEW S, NEW s \in Seq(Seq(S)), NEW n \in 0 .. Len(s)
  PROVE  \E rest \in Seq(S) : FlattenSeq(s) = FlattenSeq(SubSeq(s, 1, n)) \o rest
  <1>N. PICK N \in Nat : N = Len(s)
    BY LenProperties
  <1> DEFINE first == FlattenSeq(SubSeq(s, 1, n))
             From(k) == \E rest \in Seq(S) : FlattenSeq(SubSeq(s, 1, k)) = first \o rest
             T == {k \in 0 .. N : k >= n => From(k)}
  <1>1. n \in 0 .. N /\ first \in Seq(S) /\ <<>> \in Seq(S)
    <2>1. n \in 0 .. N
      BY <1>N
    <2>2. SubSeq(s, 1, n) \in Seq(Seq(S))
      BY <1>N, <2>1, FirstOnes
    <2>3. <<>> \in Seq(S)
      OBVIOUS
    <2> QED
      BY <2>1, <2>2, <2>3, FlattenType
  <1>2. From(n)
    BY <1>1, ConcatEmptySeq
  <1>3. 0 \in T
    <2>1. 0 >= n => n = 0
      BY <1>1
    <2> HIDE DEF From
    <2> QED
      BY <1>2, <2>1
  <1>4. ASSUME NEW k \in 0 .. N - 1, k \in T
        PROVE  k + 1 \in T
    <2>1. ASSUME k >= n
          PROVE  From(k + 1)
      <3>1. PICK rest \in Seq(S) : FlattenSeq(SubSeq(s, 1, k)) = first \o rest
        BY <1>4, <2>1
      <3>0. k \in 0 .. N /\ k < N
        OBVIOUS
      <3>2. PICK u \in Seq(Seq(S)) : u = SubSeq(s, 1, k)
        BY <1>N, <3>0, FirstOnes
      <3>3. PICK e \in Seq(S) : SubSeq(s, 1, k + 1) = Append(u, e)
        BY <1>N, <3>0, <3>2, FirstOnes
      <3>4. FlattenSeq(SubSeq(s, 1, k + 1)) = (first \o rest) \o e
        BY <3>1, <3>2, <3>3, FlattenAppend
      <3>5. (first \o rest) \o e = first \o (rest \o e) /\ rest \o e \in Seq(S)
        BY <1>1, ConcatAssociative, ConcatProperties
      <3> QED
        BY <3>4, <3>5
    <2>2. k + 1 = n \/ k >= n \/ ~(k + 1 >= n)
      BY <1>1
    <2>3. k + 1 \in 0 .. N
      OBVIOUS
    <2> HIDE DEF From
    <2> QED
      BY <1>2, <2>1, <2>2, <2>3
  <1> HIDE DEF T
  <1>5. N \in T
    <2>1. 0 .. N \subseteq T
      BY <1>3, <1>4, InductionUpTo
    <2> QED
      BY <2>1
  <1>6. SubSeq(s, 1, N) = s /\ N >= n
    BY <1>N, <1>1, SubSeqFull
  <1> QED
    BY <1>5, <1>6 DEF T

-----------------------------------------------------------------------------
(* Prefixes.                                                               *)

\* What a sequence begins with.
LEMMA PrefixOfConcat ==
  ASSUME NEW S, NEW s \in Seq(S), NEW t \in Seq(S)
  PROVE  IsPrefix(s, s \o t)
  <1>1. PICK n \in Nat : n = Len(s)
    BY LenProperties
  <1>2. Len(s) <= Len(s \o t)
    BY ConcatProperties, LenProperties
  <1>3. SubSeq(s, 1, n) = SubSeq(s \o t, 1, n)
    <2>1. CASE n = 0
      BY <2>1, SubSeqEmpty
    <2>2. CASE n # 0
      <3>1. 1 \in 1 .. Len(s) /\ n \in 1 .. Len(s)
        BY <1>1, <2>2
      <3> QED
        BY <3>1, SubSeqOfConcat1
    <2> QED
      BY <2>1, <2>2
  <1> QED
    BY <1>1, <1>2, <1>3 DEF IsPrefix

\* q has the elements of U, a set of numbers, from the smallest to the largest.
Enumerates(q, U) ==
  /\ q \in Seq(U)
  /\ \A i \in U : \E k \in 1 .. Len(q) : q[k] = i
  /\ \A j, k \in 1 .. Len(q) : j < k => q[j] < q[k]

\* A larger number comes last.
LEMMA EnumeratesMore ==
  ASSUME NEW U \in SUBSET Nat, NEW q, Enumerates(q, U), NEW x \in Nat, \A i \in U : i < x
  PROVE  Enumerates(Append(q, x), U \union {x})
  <1>1. PICK n \in Nat : n = Len(q)
    BY LenProperties DEF Enumerates
  <1>2. PICK t : t = Append(q, x)
    OBVIOUS
  <1>3. q \in Seq(U \union {x}) /\ \A k \in 1 .. n : q[k] \in U
    BY <1>1, ElementOfSeq DEF Enumerates
  <1>4. /\ t \in Seq(U \union {x}) /\ Len(t) = n + 1 /\ t[n + 1] = x
        /\ \A k \in 1 .. n : t[k] = q[k]
    BY <1>1, <1>2, <1>3, AppendProperties
  <1>5. ASSUME NEW i \in U \union {x} PROVE \E k \in 1 .. Len(t) : t[k] = i
    <2>1. CASE i = x
      <3>1. n + 1 \in 1 .. Len(t)
        BY <1>4
      <3> QED
        BY <1>4, <2>1, <3>1
    <2>2. CASE i \in U
      <3>1. PICK k \in 1 .. n : q[k] = i
        BY <1>1, <2>2 DEF Enumerates
      <3>2. k \in 1 .. Len(t) /\ t[k] = i
        BY <1>4, <3>1
      <3> QED
        BY <3>2
    <2> QED
      BY <2>1, <2>2
  <1>6. ASSUME NEW j \in 1 .. Len(t), NEW k \in 1 .. Len(t), j < k PROVE t[j] < t[k]
    <2>1. CASE k = n + 1
      <3>1. j \in 1 .. n
        BY <1>4, <1>6, <2>1
      <3> QED
        BY <1>3, <1>4, <2>1, <3>1
    <2>2. CASE k # n + 1
      <3>1. j \in 1 .. n /\ k \in 1 .. n
        BY <1>4, <1>6, <2>2
      <3>2. q[j] < q[k]
        BY <1>1, <1>6, <3>1 DEF Enumerates
      <3> QED
        BY <1>4, <3>1, <3>2
    <2> QED
      BY <2>1, <2>2
  <1> QED
    BY <1>2, <1>4, <1>5, <1>6 DEF Enumerates

\* The indices that a loop does not skip, in their order.
LEMMA IndicesInOrder ==
  ASSUME NEW n \in Nat, NEW T \in SUBSET (1 .. n), NEW s,
         s = [i \in 1 .. n |-> IF i \in T THEN <<i>> ELSE <<>>]
  PROVE  Enumerates(FlattenSeq(s), T)
  <1> DEFINE First(m) == FlattenSeq(SubSeq(s, 1, m))
             M == {m \in 0 .. n : Enumerates(First(m), {i \in T : i <= m})}
  <1>0. \A i \in T : i \in Nat /\ 1 <= i /\ i <= n
    OBVIOUS
  <1>1. s \in Seq(Seq(Nat)) /\ Len(s) = n
    <2>1. \A i \in 1 .. n : s[i] \in Seq(Nat)
      OBVIOUS
    <2>2. s \in [1 .. n -> Seq(Nat)]
      BY <2>1
    <2> QED
      BY <2>2
  <1>2. 0 \in M
    <2>1. SubSeq(s, 1, 0) = <<>>
      BY <1>1
    <2>2. First(0) = <<>>
      BY <2>1, FlattenEmpty
    <2>3. {i \in T : i <= 0} = {}
      <3>1. \A i \in T : ~(i <= 0)
        BY <1>0
      <3> QED
        BY <3>1
    <2>4. <<>> \in Seq({}) /\ Len(<<>>) = 0
      OBVIOUS
    <2>5. Enumerates(<<>>, {})
      BY <2>4 DEF Enumerates
    <2>6. Enumerates(First(0), {i \in T : i <= 0})
      BY <2>2, <2>3, <2>5, Zenon
    <2> HIDE DEF First
    <2> QED
      BY <2>6
  <1>3. ASSUME NEW m \in 0 .. n - 1, m \in M
        PROVE  m + 1 \in M
    <2>1. First(m + 1) = First(m) \o s[m + 1]
      BY <1>1, FlattenNext
    <2>2. PICK q : q = First(m)
      OBVIOUS
    <2>3. Enumerates(q, {i \in T : i <= m})
      BY <1>3, <2>2
    <2>4. q \in Seq(Nat) /\ Len(q) \in Nat
      <3>1. q \in Seq({i \in T : i <= m})
        BY <2>3 DEF Enumerates
      <3>2. {i \in T : i <= m} \subseteq Nat
        BY <1>0
      <3>3. Len(q) \in Nat /\ \A k \in 1 .. Len(q) : q[k] \in Nat
        BY <3>1, <3>2, ElementOfSeq, LenProperties
      <3> QED
        BY <3>1, <3>3
    <2>5. m + 1 \in 0 .. n /\ m + 1 \in 1 .. n
      OBVIOUS
    <2>6. CASE m + 1 \in T
      <3>1. s[m + 1] = <<m + 1>>
        BY <2>5, <2>6
      <3>2. q \o s[m + 1] = Append(q, m + 1)
        <4>1. m + 1 \in Nat
          OBVIOUS
        <4>2. Append(q, m + 1) = q \o <<m + 1>>
          BY <2>4, <4>1, AppendIsConcat
        <4> QED
          BY <3>1, <4>2
      <3>3. {i \in T : i <= m + 1} = {i \in T : i <= m} \union {m + 1}
        <4>1. \A i \in T : i <= m + 1 <=> (i <= m \/ i = m + 1)
          BY <1>0
        <4> QED
          BY <2>6, <4>1
      <3>4. \A i \in {i \in T : i <= m} : i < m + 1
        OBVIOUS
      <3>5. {i \in T : i <= m} \in SUBSET Nat
        BY <1>0
      <3>6. Enumerates(Append(q, m + 1), {i \in T : i <= m} \union {m + 1})
        BY <2>3, <3>4, <3>5, EnumeratesMore
      <3>7. Enumerates(First(m + 1), {i \in T : i <= m + 1})
        BY <2>1, <2>2, <3>2, <3>3, <3>6
      <3> HIDE DEF First
      <3> QED
        BY <2>5, <3>7
    <2>7. CASE m + 1 \notin T
      <3>1. s[m + 1] = <<>>
        BY <2>5, <2>7
      <3>2. q \o s[m + 1] = q
        BY <2>4, <3>1, ConcatEmptySeq
      <3>3. {i \in T : i <= m + 1} = {i \in T : i <= m}
        <4>1. \A i \in T : i <= m + 1 <=> i <= m
          <5>1. \A i \in T : i # m + 1
            BY <2>7
          <5> QED
            BY <1>0, <5>1
        <4> QED
          BY <4>1
      <3>4. Enumerates(First(m + 1), {i \in T : i <= m + 1})
        BY <2>1, <2>2, <2>3, <3>2, <3>3
      <3> HIDE DEF First
      <3> QED
        BY <2>5, <3>4
    <2> QED
      BY <2>6, <2>7
  <1>4. n \in M
    <2> HIDE DEF M
    <2>1. 0 .. n \subseteq M
      BY <1>2, <1>3, InductionUpTo
    <2> QED
      BY <2>1
  <1>5. {i \in T : i <= n} = T
    BY <1>0
  <1>6. SubSeq(s, 1, n) = s
    BY <1>1, SubSeqFull
  <1> QED
    BY <1>4, <1>5, <1>6

\* What is listed in order: the least of a set comes first, the greatest last.
LEMMA InOrder ==
  ASSUME NEW U \in SUBSET Nat, NEW q, Enumerates(q, U)
  PROVE  /\ Len(q) \in Nat
         /\ \A j \in 1 .. Len(q) : q[j] \in U
         /\ \A j, k \in 1 .. Len(q) : q[j] < q[k] => j < k
         /\ \A y \in U : (\A x \in U : y <= x) => Len(q) >= 1 /\ q[1] = y
         /\ \A j \in 1 .. Len(q) : (\A x \in U : x <= q[j]) => j = Len(q)
  <1>1. PICK n \in Nat : n = Len(q)
    BY LenProperties DEF Enumerates
  <1>2. \A j \in 1 .. n : q[j] \in U /\ q[j] \in Nat
    BY <1>1, ElementOfSeq DEF Enumerates
  <1>3. \A j, k \in 1 .. n : j < k => q[j] < q[k]
    BY <1>1 DEF Enumerates
  <1>4. ASSUME NEW j \in 1 .. n, NEW k \in 1 .. n, q[j] < q[k] PROVE j < k
    <2>1. CASE j = k
      BY <1>2, <1>4, <2>1
    <2>2. CASE k < j
      <3>1. q[k] < q[j]
        BY <1>3, <2>2
      <3> QED
        BY <1>2, <1>4, <3>1
    <2> QED
      BY <2>1, <2>2
  <1>5. ASSUME NEW y \in U, \A x \in U : y <= x PROVE n >= 1 /\ q[1] = y
    <2>1. PICK k \in 1 .. n : q[k] = y
      BY <1>1 DEF Enumerates
    <2>2. CASE k > 1
      <3>1. 1 \in 1 .. n /\ q[1] < q[k]
        BY <1>3, <2>2
      <3> QED
        BY <1>2, <1>5, <2>1, <3>1
    <2>3. CASE k = 1
      BY <2>1, <2>3
    <2> QED
      BY <2>2, <2>3
  <1>6. ASSUME NEW j \in 1 .. n, \A x \in U : x <= q[j] PROVE j = n
    <2> SUFFICES ASSUME j < n PROVE FALSE
      OBVIOUS
    <2>1. n \in 1 .. n
      OBVIOUS
    <2>2. q[j] < q[n] /\ q[n] \in U /\ q[j] \in Nat /\ q[n] \in Nat
      BY <1>2, <1>3, <2>1
    <2> QED
      BY <1>6, <2>2
  <1> QED
    BY <1>1, <1>2, <1>4, <1>5, <1>6

\* After one of them comes the next.
LEMMA NextInOrder ==
  ASSUME NEW U \in SUBSET Nat, NEW q, Enumerates(q, U), NEW j \in 1 .. Len(q), NEW y \in U,
         q[j] < y, \A x \in U : x <= q[j] \/ y <= x
  PROVE  j + 1 \in 1 .. Len(q) /\ q[j + 1] = y
  <1>1. PICK n \in Nat : n = Len(q)
    BY LenProperties DEF Enumerates
  <1>2. /\ \A i \in 1 .. n : q[i] \in U /\ q[i] \in Nat
        /\ \A i, k \in 1 .. n : q[i] < q[k] => i < k
    BY <1>1, InOrder
  <1>3. PICK k \in 1 .. n : q[k] = y
    BY <1>1 DEF Enumerates
  <1>4. j \in 1 .. n /\ j < k
    BY <1>1, <1>2, <1>3
  <1>5. CASE k > j + 1
    <2>1. j + 1 \in 1 .. n
      BY <1>4, <1>5
    <2>2. q[j] < q[j + 1] /\ q[j + 1] < q[k] /\ q[j + 1] \in U
      BY <1>1, <1>2, <1>4, <1>5, <2>1 DEF Enumerates
    <2>3. q[j + 1] <= q[j] \/ y <= q[j + 1]
      BY <2>2
    <2> QED
      BY <1>2, <1>3, <1>4, <2>1, <2>2, <2>3
  <1>6. CASE k = j + 1
    BY <1>1, <1>3, <1>6
  <1> QED
    BY <1>4, <1>5, <1>6

-----------------------------------------------------------------------------
(* Sums.                                                                   *)

\* What is in front of each of n sizes.
PartSums(at, sizes, n) == at = [k \in 1 .. n |-> IF k = 1 THEN 0 ELSE at[k - 1] + sizes[k - 1]]

\* The offsets of the fields that Unmarshal fills exist: one field more is one sum more.
LEMMA PartSumsExist ==
  ASSUME NEW sizes, NEW n \in Nat
  PROVE  \E at : PartSums(at, sizes, n)
  <1> DEFINE T == {k \in Nat : \E at : PartSums(at, sizes, k)}
  <1>1. 0 \in T
    <2>1. PartSums([i \in {} |-> 0], sizes, 0)
      BY DEF PartSums
    <2> QED
      BY <2>1
  <1>2. ASSUME NEW k \in 0 .. n - 1, k \in T
        PROVE  k + 1 \in T
    <2>1. PICK at : PartSums(at, sizes, k)
      BY <1>2
    <2> DEFINE g == [i \in 1 .. k + 1 |-> IF i = 1 THEN 0 ELSE at[i - 1] + sizes[i - 1]]
    <2>2. \A i \in 1 .. k : g[i] = at[i]
      BY <2>1 DEF PartSums
    <2>3. g = [i \in 1 .. k + 1 |-> IF i = 1 THEN 0 ELSE g[i - 1] + sizes[i - 1]]
      <3>1. ASSUME NEW i \in 1 .. k + 1, i # 1
            PROVE  at[i - 1] + sizes[i - 1] = g[i - 1] + sizes[i - 1]
        <4>1. i - 1 \in 1 .. k
          BY <3>1
        <4> HIDE DEF g
        <4> QED
          BY <2>2, <4>1
      <3> QED
        BY <3>1
    <2> HIDE DEF g
    <2>4. PartSums(g, sizes, k + 1)
      BY <2>3 DEF PartSums
    <2> QED
      BY <2>4
  <1> HIDE DEF T
  <1>3. n \in T
    BY <1>1, <1>2, InductionUpTo
  <1> QED
    BY <1>3 DEF T


-----------------------------------------------------------------------------
(* Measures.                                                               *)

\* A loop has a natural number of turns left, and one less after each.
LEMMA TurnsAreLeft ==
  ASSUME NEW n \in Nat, NEW k \in Nat
  PROVE  /\ TurnsLeft(n, k) \in Nat
         /\ k <= n => /\ TurnsLeft(n, k + 1) < TurnsLeft(n, k)
                      /\ TurnsLeft(n, n + 1) < TurnsLeft(n, k)
  BY DEF TurnsLeft

\* Ten natural numbers are a measure: those of the two components with goroutines.
LEMMA TenNumbers ==
  ASSUME NEW t, DOMAIN t = 1 .. 10,
         t[1] \in Nat, t[2] \in Nat, t[3] \in Nat, t[4] \in Nat, t[5] \in Nat,
         t[6] \in Nat, t[7] \in Nat, t[8] \in Nat, t[9] \in Nat, t[10] \in Nat
  PROVE  IsMeasure(t)
  BY DEF IsMeasure

\* The first of ten numbers that differs makes one measure smaller than the other.
SmallerAt(s, t, k) == s[k] < t[k] /\ \A j \in 1 .. k - 1 : s[j] = t[j]
LEMMA FirstDifference ==
  ASSUME NEW s, NEW t, DOMAIN t = 1 .. 10, NEW k \in 1 .. 10, SmallerAt(s, t, k)
  PROVE  Below(s, t)
  BY DEF Below, SmallerAt

\* The same for the sixth number.
SmallerSixth(s, t) ==
  s[1] = t[1] /\ s[2] = t[2] /\ s[3] = t[3] /\ s[4] = t[4] /\ s[5] = t[5] /\ s[6] < t[6]

LEMMA SixthDifference ==
  ASSUME NEW s, NEW t, DOMAIN t = 1 .. 10, SmallerSixth(s, t)
  PROVE  Below(s, t)
  <1>1. 6 \in 1 .. 10
    OBVIOUS
  <1>2. SmallerAt(s, t, 6)
    BY DEF SmallerAt, SmallerSixth
  <1> QED
    BY <1>1, <1>2, FirstDifference

\* The same for one of the last four, when the first six are equal.
SameFront(s, t) ==
  s[1] = t[1] /\ s[2] = t[2] /\ s[3] = t[3] /\ s[4] = t[4] /\ s[5] = t[5] /\ s[6] = t[6]
SmallerBack(s, t) ==
  \/ s[7] < t[7]
  \/ s[7] = t[7] /\ s[8] < t[8]
  \/ s[7] = t[7] /\ s[8] = t[8] /\ s[9] < t[9]
  \/ s[7] = t[7] /\ s[8] = t[8] /\ s[9] = t[9] /\ s[10] < t[10]

LEMMA LateDifference ==
  ASSUME NEW s, NEW t, DOMAIN t = 1 .. 10, SameFront(s, t), SmallerBack(s, t)
  PROVE  Below(s, t)
  <1>1. s[7] < t[7] => SmallerAt(s, t, 7)
    BY DEF SmallerAt, SameFront
  <1>2. s[7] = t[7] /\ s[8] < t[8] => SmallerAt(s, t, 8)
    BY DEF SmallerAt, SameFront
  <1>3. s[7] = t[7] /\ s[8] = t[8] /\ s[9] < t[9] => SmallerAt(s, t, 9)
    BY DEF SmallerAt, SameFront
  <1>4. s[7] = t[7] /\ s[8] = t[8] /\ s[9] = t[9] /\ s[10] < t[10] => SmallerAt(s, t, 10)
    BY DEF SmallerAt, SameFront
  <1>5. 7 \in 1 .. 10 /\ 8 \in 1 .. 10 /\ 9 \in 1 .. 10 /\ 10 \in 1 .. 10
    OBVIOUS
  <1>6. \A k \in 1 .. 10 : SmallerAt(s, t, k) => Below(s, t)
    BY FirstDifference
  <1> QED
    BY <1>1, <1>2, <1>3, <1>4, <1>5, <1>6 DEF SmallerBack
=============================================================================
