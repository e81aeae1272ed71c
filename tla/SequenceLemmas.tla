--------------------------- MODULE SequenceLemmas ----------------------------
(***************************************************************************)
(* What the proofs about protocols need to know of sequences.              *)
(*                                                                         *)
(* First induction on the natural numbers, stated for sets instead of      *)
(* predicates so that it can be applied by name, and what it shows about   *)
(* functions that are defined by recursion: there is one, and FlattenSeq   *)
(* returns a sequence with the elements of all sequences.                  *)
(*                                                                         *)
(* Then the queue of the network in lock step: its messages are due in     *)
(* this tick or in the next, in that order, and how sending and handling   *)
(* a message keeps it so.                                                  *)
(*                                                                         *)
(* And recursion that does not go along the numbers: down to elements of a *)
(* lower rank, and over the subsets of a finite set.                       *)
(***************************************************************************)
EXTENDS SequencesExt, FiniteSetTheorems, SequenceTheorems, TLAPS

\* A set of natural numbers that is not empty has a least element: the initial
\* segments that end in an element are finite, and one of them includes no other.
LEMMA LeastElement ==
  ASSUME NEW T, T \subseteq Nat, T # {}
  PROVE  \E n \in T : \A m \in T : n <= m
<1> DEFINE Below == {0..n : n \in T}
<1>1. IsWellFoundedOn(StrictSubsetOrdering(Nat), FiniteSubsetsOf(Nat))
  BY FS_StrictSubsetOrderingWellFounded
<1>2. Below \subseteq FiniteSubsetsOf(Nat) /\ Below # {}
  <2>1. ASSUME NEW n \in T PROVE 0..n \in FiniteSubsetsOf(Nat)
    BY FS_Interval DEF FiniteSubsetsOf
  <2> QED BY <2>1
<1>3. PICK b \in Below : \A c \in Below : ~ (<<c, b>> \in StrictSubsetOrdering(Nat))
  <2> HIDE DEF Below
  <2> QED BY <1>1, <1>2, WFMin
<1>4. PICK n \in T : b = 0..n
  OBVIOUS
<1>5. ASSUME NEW m \in T, m < n PROVE FALSE
  <2>1. 0..m \in Below /\ 0..m \subseteq 0..n /\ 0..m # 0..n
    <3>1. n \in 0..n /\ n \notin 0..m
      BY <1>5
    <3> QED BY <3>1, <1>5
  <2> QED BY <2>1, <1>3, <1>4, <1>2 DEF StrictSubsetOrdering, FiniteSubsetsOf
<1>6. QED
  BY <1>5

\* A set with 0 and the successors of its elements has all natural numbers.
LEMMA SetInduction ==
  ASSUME NEW T, 0 \in T, \A n \in Nat : n \in T => n + 1 \in T
  PROVE  Nat \subseteq T
<1> DEFINE U == Nat \ T
<1>1. SUFFICES ASSUME U # {} PROVE FALSE
  OBVIOUS
<1>2. PICK n \in U : \A m \in U : n <= m
  BY <1>1, LeastElement
<1>3. n # 0 /\ n - 1 \in Nat /\ n - 1 \notin U
  BY <1>2
<1> QED
  BY <1>3

\* The same for the numbers up to n.
LEMMA UptoInduction ==
  ASSUME NEW n \in Nat, NEW T,
         1 \in T, \A k \in 1..n : k \in T /\ k # n => k + 1 \in T
  PROVE  1..n \subseteq T
<1> DEFINE U == {k \in Nat : k \in 1..n => k \in T}
<1>1. 0 \in U
  OBVIOUS
<1>2. ASSUME NEW k \in Nat, k \in U PROVE k + 1 \in U
  <2>1. CASE k = 0
    BY <2>1
  <2>2. CASE k # 0
    BY <2>2, <1>2
  <2> QED BY <2>1, <2>2
<1>3. Nat \subseteq U
  <2> HIDE DEF U
  <2> QED BY <1>1, <1>2, SetInduction
<1> QED
  BY <1>3

IsRecursion(f, n, base, step) ==
  \A i \in 1..n : f[i] = IF i = 1 THEN base ELSE step[i][f[i - 1]]

\* A function on 1..n is defined by its first value and the step from each to the next.
LEMMA RecursionExists ==
  ASSUME NEW X, NEW base \in X, NEW n \in Nat, NEW step \in [1..n -> [X -> X]]
  PROVE  \E f \in [1..n -> X] : IsRecursion(f, n, base, step)
<1> DEFINE Upto(k) == {f \in [1..k -> X] :
                        \A i \in 1..k : f[i] = IF i = 1 THEN base ELSE step[i][f[i - 1]]}
           T == {k \in Nat : k <= n => Upto(k) # {}}
<1>1. 0 \in T
  <2>1. [i \in 1..0 |-> base] \in Upto(0)
    OBVIOUS
  <2> QED BY <2>1
<1>2. ASSUME NEW k \in T, k + 1 <= n
      PROVE  Upto(k + 1) # {}
  <2>1. PICK f \in Upto(k) : TRUE
    BY <1>2
  <2> DEFINE g == [i \in 1..(k + 1) |->
                    IF i <= k THEN f[i] ELSE IF i = 1 THEN base ELSE step[i][f[i - 1]]]
  <2>2. g \in [1..(k + 1) -> X]
    <3>1. ASSUME NEW i \in 1..(k + 1), i > k, i # 1 PROVE step[i][f[i - 1]] \in X
      BY <3>1, <2>1, <1>2
    <3> QED BY <3>1, <2>1
  <2>3. \A i \in 1..(k + 1) : g[i] = IF i = 1 THEN base ELSE step[i][g[i - 1]]
    BY <2>1, <2>2
  <2> QED BY <2>2, <2>3
<1>3. n \in T
  <2> HIDE DEF T
  <2>1. \A k \in Nat : k \in T => k + 1 \in T
    BY <1>2 DEF T
  <2> QED BY <1>1, <2>1, SetInduction
<1>4. PICK f \in Upto(n) : TRUE
  BY <1>3
<1> QED
  BY <1>4 DEF IsRecursion

IsConcatenation(f, n, seqs) ==
  \A i \in 1..n : f[i] = IF i = 1 THEN seqs[i] ELSE f[i - 1] \o seqs[i]

\* FlattenSeq chooses a function that concatenates the sequences one after the other:
\* all such functions end with the same value, ...
LEMMA ConcatenationUnique ==
  ASSUME NEW n \in Nat \ {0}, NEW seqs, NEW f, NEW g,
         IsConcatenation(f, n, seqs),
         IsConcatenation(g, n, seqs)
  PROVE  f[n] = g[n]
<1> DEFINE Same == {i \in 1..n : f[i] = g[i]}
<1>2. 1 \in Same
  BY DEF IsConcatenation
<1>3. ASSUME NEW k \in 1..n, k \in Same, k # n
      PROVE  k + 1 \in Same
  <2>1. k + 1 \in 1..n /\ k + 1 # 1 /\ (k + 1) - 1 = k
    BY <1>3
  <2>2. f[k + 1] = f[k] \o seqs[k + 1] /\ g[k + 1] = g[k] \o seqs[k + 1]
    BY <2>1 DEF IsConcatenation
  <2> QED BY <2>1, <2>2, <1>3
<1> HIDE DEF Same
<1>4. 1..n \subseteq Same
  BY <1>2, <1>3, UptoInduction
<1> QED
  BY <1>4 DEF Same

\* ... there is one, ...
LEMMA ConcatenationExists ==
  ASSUME NEW T, NEW n \in Nat \ {0}, NEW seqs, \A i \in 1..n : seqs[i] \in Seq(T)
  PROVE  \E f \in [1..n -> Seq(T)] :
           IsConcatenation(f, n, seqs)
<1> DEFINE step == [i \in 1..n |-> [s \in Seq(T) |-> s \o seqs[i]]]
<1>1. step \in [1..n -> [Seq(T) -> Seq(T)]]
  BY ConcatProperties
<1>2. PICK f \in [1..n -> Seq(T)] :
        IsRecursion(f, n, seqs[1], step)
  <2> HIDE DEF step
  <2>1. seqs[1] \in Seq(T) /\ n \in Nat
    OBVIOUS
  <2> QED BY <1>1, <2>1, RecursionExists, Zenon
<1>3. ASSUME NEW i \in 1..n, i # 1
      PROVE  step[i][f[i - 1]] = f[i - 1] \o seqs[i]
  <2>1. f[i - 1] \in Seq(T)
    BY <1>3
  <2> QED BY <2>1
<1>4. IsConcatenation(f, n, seqs)
  <2> HIDE DEF step
  <2> QED BY <1>2, <1>3 DEF IsRecursion, IsConcatenation
<1> QED
  BY <1>4, Zenon

\* ... which is therefore what FlattenSeq returns.
LEMMA FlattenSeqRecursion ==
  ASSUME NEW T, NEW seqs, NEW n \in Nat \ {0}, n = Len(seqs),
         \A i \in 1..n : seqs[i] \in Seq(T)
  PROVE  \E f \in [1..n -> Seq(T)] :
           /\ FlattenSeq(seqs) = f[n]
           /\ IsConcatenation(f, n, seqs)
<1> DEFINE Def(f) == f = [i \in 1..n |-> IF i = 1 THEN seqs[i] ELSE f[i - 1] \o seqs[i]]
           flat == CHOOSE f : Def(f)
<1>2. FlattenSeq(seqs) = flat[n]
  BY DEF FlattenSeq
<1>3. PICK f \in [1..n -> Seq(T)] :
        IsConcatenation(f, n, seqs)
  BY ConcatenationExists, Zenon
<1>4. Def(flat)
  <2>1. Def(f)
    BY <1>3 DEF IsConcatenation
  <2> HIDE DEF Def
  <2> QED BY <2>1
<1>5. flat[n] = f[n]
  <2> HIDE DEF flat
  <2>1. IsConcatenation(flat, n, seqs)
    BY <1>4 DEF IsConcatenation
  <2> HIDE DEF Def
  <2> QED BY <2>1, <1>3, ConcatenationUnique
<1> HIDE DEF Def, flat
<1> QED
  BY <1>2, <1>3, <1>5, Zenon

\* The elements of a concatenation are those of the sequences.
LEMMA ConcatenationRange ==
  ASSUME NEW T, NEW n \in Nat \ {0}, NEW seqs, \A i \in 1..n : seqs[i] \in Seq(T),
         NEW f \in [1..n -> Seq(T)],
         IsConcatenation(f, n, seqs)
  PROVE  Range(f[n]) = UNION {Range(seqs[i]) : i \in 1..n}
<1> DEFINE Good == {k \in 1..n : Range(f[k]) = UNION {Range(seqs[i]) : i \in 1..k}}
<1>1. 1 \in Good
  <2>1. 1..1 = {1}
    OBVIOUS
  <2>2. 1 \in 1..n
    OBVIOUS
  <2>3. f[1] = seqs[1]
    BY <2>2, Zenon DEF IsConcatenation
  <2> QED BY <2>1, <2>2, <2>3, Zenon
<1>2. ASSUME NEW k \in 1..n, k \in Good, k # n
      PROVE  k + 1 \in Good
  <2>1. k + 1 \in 1..n /\ k + 1 # 1 /\ (k + 1) - 1 = k
    BY <1>2
  <2>2. f[k + 1] = f[k] \o seqs[k + 1]
    BY <2>1 DEF IsConcatenation
  <2>3. Range(f[k] \o seqs[k + 1]) = Range(f[k]) \union Range(seqs[k + 1])
    BY <2>1, RangeConcatenation
  <2>4. 1..(k + 1) = 1..k \union {k + 1}
    BY <2>1
  <2> QED BY <1>2, <2>1, <2>2, <2>3, <2>4
<1>3. n \in Good
  <2> HIDE DEF Good
  <2>1. 1..n \subseteq Good
    BY <1>1, <1>2, UptoInduction
  <2> QED BY <2>1
<1> QED
  BY <1>3

\* FlattenSeq returns a sequence with the elements of all sequences.
LEMMA FlattenSeqProperties ==
  ASSUME NEW T, NEW seqs \in Seq(Seq(T))
  PROVE  /\ FlattenSeq(seqs) \in Seq(T)
         /\ Range(FlattenSeq(seqs)) = UNION {Range(seqs[i]) : i \in DOMAIN seqs}
<1>1. CASE seqs = <<>>
  BY <1>1, FlattenSeq(seqs) = <<>> DEF FlattenSeq, Range
<1>2. CASE seqs # <<>>
  <2>1. PICK n \in Nat \ {0} : n = Len(seqs) /\ DOMAIN seqs = 1..n
    BY <1>2
  <2>2. \A i \in 1..n : seqs[i] \in Seq(T)
    BY <2>1
  <2>3. PICK f \in [1..n -> Seq(T)] :
          /\ FlattenSeq(seqs) = f[n]
          /\ IsConcatenation(f, n, seqs)
    BY <2>1, <2>2, FlattenSeqRecursion, Zenon
  <2>4. Range(f[n]) = UNION {Range(seqs[i]) : i \in 1..n}
    BY <2>2, <2>3, ConcatenationRange, Zenon
  <2>5. f[n] \in Seq(T)
    OBVIOUS
  <2> QED BY <2>1, <2>3, <2>4, <2>5, Zenon
<1> QED
  BY <1>1, <1>2

\* What holds of the sequences joined so far, whatever has been joined, holds of the result.
LEMMA FlattenSeqInduction ==
  ASSUME NEW T, NEW seqs \in Seq(Seq(T)), NEW good,
         <<>> \in good[0],
         \A k \in 1..Len(seqs) : \A s \in good[k - 1] : s \o seqs[k] \in good[k]
  PROVE  FlattenSeq(seqs) \in good[Len(seqs)]
<1>1. CASE seqs = <<>>
  BY <1>1, FlattenSeq(seqs) = <<>> DEF FlattenSeq
<1>2. CASE seqs # <<>>
  <2>1. PICK n \in Nat \ {0} : n = Len(seqs) /\ DOMAIN seqs = 1..n
    BY <1>2
  <2>2. \A i \in 1..n : seqs[i] \in Seq(T)
    BY <2>1
  <2>3. PICK f \in [1..n -> Seq(T)] :
          /\ FlattenSeq(seqs) = f[n]
          /\ IsConcatenation(f, n, seqs)
    BY <2>1, <2>2, FlattenSeqRecursion, Zenon
  <2> DEFINE Good == {k \in 1..n : f[k] \in good[k]}
  <2>4. 1 \in Good
    <3>1. 1 \in 1..n /\ 1 - 1 = 0
      OBVIOUS
    <3>2. f[1] = seqs[1]
      BY <3>1, <2>3, Zenon DEF IsConcatenation
    <3>3. <<>> \o seqs[1] = seqs[1]
      BY <3>1, <2>2
    <3>4. <<>> \o seqs[1] \in good[1]
      BY <3>1, <2>1
    <3> QED BY <3>1, <3>2, <3>3, <3>4
  <2>5. ASSUME NEW k \in 1..n, k \in Good, k # n
        PROVE  k + 1 \in Good
    <3>1. k + 1 \in 1..n /\ k + 1 # 1 /\ (k + 1) - 1 = k
      BY <2>5
    <3>2. f[k + 1] = f[k] \o seqs[k + 1]
      BY <3>1, <2>3 DEF IsConcatenation
    <3>3. f[k] \in good[(k + 1) - 1]
      BY <2>5, <3>1
    <3>4. f[k] \o seqs[k + 1] \in good[k + 1]
      BY <3>1, <3>3, <2>1
    <3> QED BY <3>1, <3>2, <3>4
  <2>6. n \in Good
    <3> HIDE DEF Good
    <3>1. 1..n \subseteq Good
      BY <2>4, <2>5, UptoInduction
    <3> QED BY <3>1
  <2> QED BY <2>1, <2>3, <2>6
<1> QED
  BY <1>1, <1>2

\* One sequence is joined to itself.
LEMMA FlattenSeqOfOne ==
  ASSUME NEW T, NEW s \in Seq(T)
  PROVE  FlattenSeq(<<s>>) = s
<1> DEFINE seqs == <<s>>
<1>1. Len(seqs) = 1 /\ \A i \in 1..1 : seqs[i] \in Seq(T)
  OBVIOUS
<1>2. seqs[1] = s /\ 1 \in Nat \ {0} /\ 1 \in 1..1
  OBVIOUS
<1> HIDE DEF seqs
<1>3. PICK f \in [1..1 -> Seq(T)] : FlattenSeq(seqs) = f[1] /\ IsConcatenation(f, 1, seqs)
  BY <1>1, <1>2, FlattenSeqRecursion
<1>4. f[1] = seqs[1]
  BY <1>2, <1>3, Zenon DEF IsConcatenation
<1> QED BY <1>2, <1>3, <1>4 DEF seqs

\* Sequences of one element each are joined to the sequence of these.
LEMMA FlattenSeqOfSingletons ==
  ASSUME NEW T, NEW s \in Seq(T)
  PROVE  FlattenSeq([i \in DOMAIN s |-> <<s[i]>>]) = s
<1> DEFINE n == Len(s)
           seqs == [i \in DOMAIN s |-> <<s[i]>>]
           upto(k) == [i \in 1..k |-> s[i]]
           good == [k \in 0..n |-> {upto(k)}]
<1>1. n \in Nat /\ DOMAIN s = 1..n /\ s = upto(n) /\ \A i \in 1..n : s[i] \in T
  BY LenProperties
<1>2. seqs \in Seq(Seq(T)) /\ Len(seqs) = n
  <2>1. \A i \in 1..n : <<s[i]>> \in Seq(T)
    BY <1>1
  <2> QED BY <1>1, <2>1
<1>3. <<>> \in good[0]
  BY <1>1
<1>4. ASSUME NEW k \in 1..n
      PROVE  upto(k - 1) \o seqs[k] = upto(k)
  <2>0. \A l \in 0..n : upto(l) \in Seq(T) /\ Len(upto(l)) = l
    <3>1. ASSUME NEW l \in 0..n PROVE upto(l) \in Seq(T) /\ Len(upto(l)) = l
      <4>1. l \in Nat /\ upto(l) \in [1..l -> T]
        BY <1>1
      <4> HIDE DEF upto
      <4> QED BY <4>1, IsASeq, LenProperties
    <3> QED BY <3>1
  <2>1. /\ upto(k - 1) \in Seq(T) /\ Len(upto(k - 1)) = k - 1
        /\ seqs[k] = <<s[k]>> /\ <<s[k]>> \in Seq(T) /\ Len(<<s[k]>>) = 1
        /\ upto(k) \in Seq(T) /\ Len(upto(k)) = k /\ k - 1 \in Nat
    <3>1. k \in 0..n /\ k - 1 \in 0..n /\ s[k] \in T
      BY <1>1
    <3>2. seqs[k] = <<s[k]>> /\ <<s[k]>> \in Seq(T) /\ Len(<<s[k]>>) = 1
      BY <1>1, <3>1
    <3> HIDE DEF upto, seqs
    <3> QED BY <2>0, <3>1, <3>2
  <2> HIDE DEF seqs
  <2>2. /\ upto(k - 1) \o <<s[k]>> \in Seq(T) /\ Len(upto(k - 1) \o <<s[k]>>) = k
        /\ \A i \in 1..k : (upto(k - 1) \o <<s[k]>>)[i] = IF i <= k - 1 THEN upto(k - 1)[i] ELSE <<s[k]>>[i - (k - 1)]
    BY <2>1, ConcatProperties
  <2>3. \A i \in 1..k : (upto(k - 1) \o <<s[k]>>)[i] = upto(k)[i]
    <3>1. ASSUME NEW i \in 1..k
          PROVE  (upto(k - 1) \o <<s[k]>>)[i] = s[i]
      <4>1. CASE i <= k - 1
        BY <4>1, <2>1, <2>2
      <4>2. CASE i = k
        BY <4>2, <2>1, <2>2
      <4> QED BY <4>1, <4>2, <2>1
    <3> QED BY <3>1
  <2>4. DOMAIN (upto(k - 1) \o <<s[k]>>) = 1..k /\ DOMAIN upto(k) = 1..k
    BY <2>1, <2>2, LenProperties
  <2>5. upto(k - 1) \o <<s[k]>> = upto(k)
    <3> DEFINE a == upto(k - 1) \o <<s[k]>>
               b == upto(k)
    <3>1. a \in Seq(T) /\ b \in Seq(T) /\ Len(a) = Len(b) /\ \A i \in 1..Len(a) : a[i] = b[i]
      BY <2>1, <2>2, <2>3
    <3> HIDE DEF a, b
    <3>2. a = b
      BY <3>1, SeqEqual
    <3> QED BY <3>2 DEF a, b
  <2> QED BY <2>1, <2>5
<1>5. \A k \in 1..n : \A t \in good[k - 1] : t \o seqs[k] \in good[k]
  <2>1. \A k \in 1..n : k - 1 \in 0..n /\ k \in 0..n
    BY <1>1
  <2> HIDE DEF seqs, upto
  <2> QED BY <1>4, <2>1
<1>6. FlattenSeq(seqs) \in good[n]
  <2> HIDE DEF seqs, good, n
  <2> QED BY <1>2, <1>3, <1>5, FlattenSeqInduction
<1>7. good[n] = {upto(n)}
  BY <1>1
<1> HIDE DEF good, upto
<1> QED BY <1>1, <1>6, <1>7

\* The elements of a set of numbers that are less than p.
Less(S, p) == {r \in S : r < p}

\* Less than the elements of S are 0, 1, 2, ... n - 1 elements.
Ranked(S, n) ==
  /\ n \in Nat
  /\ \A p \in S : Cardinality(Less(S, p)) \in 0..(n - 1)
  /\ \A p, q \in S : Cardinality(Less(S, p)) = Cardinality(Less(S, q)) => p = q
  /\ \A i \in 1..n : \E p \in S : Cardinality(Less(S, p)) = i - 1

LEMMA RankedByNumber ==
  ASSUME NEW S, IsFiniteSet(S), S \subseteq Nat,
         NEW n, n = Cardinality(S)
  PROVE  Ranked(S, n)
<1>1. n \in Nat
  BY FS_CardinalityType
<1>2. ASSUME NEW p \in S
      PROVE  IsFiniteSet(Less(S, p)) /\ Cardinality(Less(S, p)) \in 0..(n - 1)
  <2>1. Less(S, p) \subseteq S /\ Less(S, p) # S
    BY DEF Less
  <2>2. /\ IsFiniteSet(Less(S, p)) /\ Cardinality(Less(S, p)) <= n
        /\ (Cardinality(Less(S, p)) = n => Less(S, p) = S)
    BY <2>1, FS_Subset
  <2>3. Cardinality(Less(S, p)) \in Nat
    BY <2>2, FS_CardinalityType
  <2> QED BY <1>1, <2>1, <2>2, <2>3
<1>3. ASSUME NEW p \in S, NEW q \in S, p < q
      PROVE  Cardinality(Less(S, p)) < Cardinality(Less(S, q))
  <2>1. p \in Nat /\ q \in Nat
    OBVIOUS
  <2>2. Less(S, p) \subseteq Less(S, q) /\ p \in Less(S, q) /\ p \notin Less(S, p)
    <3>1. ASSUME NEW r \in S, r < p PROVE r < q
      <4>1. r \in Nat
        OBVIOUS
      <4> QED BY <4>1, <3>1, <2>1, <1>3
    <3>2. ~(p < p)
      BY <2>1
    <3> QED BY <3>1, <3>2, <1>3, Zenon DEF Less
  <2>3. IsFiniteSet(Less(S, q))
    BY <1>2
  <2>4. /\ Cardinality(Less(S, p)) <= Cardinality(Less(S, q))
        /\ (Cardinality(Less(S, p)) = Cardinality(Less(S, q)) => Less(S, p) = Less(S, q))
    BY <2>2, <2>3, FS_Subset
  <2>5. Cardinality(Less(S, p)) \in Nat /\ Cardinality(Less(S, q)) \in Nat
    BY <1>1, <1>2
  <2> QED BY <2>2, <2>4, <2>5
<1>4. ASSUME NEW p \in S, NEW q \in S, Cardinality(Less(S, p)) = Cardinality(Less(S, q))
      PROVE  p = q
  <2>1. p \in Nat /\ q \in Nat
    OBVIOUS
  <2>2. Cardinality(Less(S, p)) \in Nat /\ Cardinality(Less(S, q)) \in Nat
    BY <1>1, <1>2
  <2>3. ~(p < q) /\ ~(q < p)
    BY <1>3, <1>4, <2>2
  <2> QED BY <2>1, <2>3
<1> DEFINE rank == [p \in S |-> Cardinality(Less(S, p))]
<1>5. rank \in [S -> 0..(n - 1)]
  BY <1>2
<1>6. rank \in Injection(S, 0..(n - 1))
  BY <1>4, <1>5 DEF Injection, IsInjective
<1>7. IsFiniteSet(0..(n - 1)) /\ Cardinality(0..(n - 1)) = n
  <2>1. CASE n = 0
    <3>1. 0..(n - 1) = {}
      BY <2>1
    <3> QED BY <2>1, <3>1, FS_EmptySet
  <2>2. CASE n # 0
    <3>1. 0 \in Int /\ n - 1 \in Int /\ ~(0 > n - 1) /\ (n - 1) - 0 + 1 = n
      BY <1>1, <2>2
    <3> QED BY <3>1, FS_Interval
  <2> QED BY <2>1, <2>2
<1>8. rank \in Surjection(S, 0..(n - 1))
  <2> HIDE DEF rank
  <2> QED BY <1>6, <1>7, FS_Injection
<1>9. ASSUME NEW i \in 1..n
      PROVE  \E p \in S : Cardinality(Less(S, p)) = i - 1
  <2>1. i - 1 \in 0..(n - 1)
    BY <1>1
  <2>2. PICK p \in S : rank[p] = i - 1
    BY <1>8, <2>1 DEF Surjection
  <2> QED BY <2>2
<1> QED BY <1>1, <1>2, <1>4, <1>9 DEF Ranked

\* The list of a finite set of numbers in their order.
Listing(S, n) == [i \in 1..n |-> CHOOSE p \in S : Cardinality(Less(S, p)) = i - 1]

LEMMA ListedInOrder ==
  ASSUME NEW S, IsFiniteSet(S), S \subseteq Nat, NEW n, n = Cardinality(S),
         NEW s, s = Listing(S, n)
  PROVE  /\ n \in Nat /\ s \in Seq(S) /\ Len(s) = n /\ DOMAIN s = 1..n
         /\ Range(s) = S /\ IsInjective(s)
         /\ \A i \in 1..n : s[i] \in S /\ Cardinality(Less(S, s[i])) = i - 1
<1>1. /\ n \in Nat
      /\ \A p \in S : Cardinality(Less(S, p)) \in 0..(n - 1)
      /\ \A p, q \in S : Cardinality(Less(S, p)) = Cardinality(Less(S, q)) => p = q
      /\ \A i \in 1..n : \E p \in S : Cardinality(Less(S, p)) = i - 1
  <2>1. Ranked(S, n)
    BY RankedByNumber
  <2> QED BY <2>1 DEF Ranked
<1>2. ASSUME NEW i \in 1..n
      PROVE  s[i] \in S /\ Cardinality(Less(S, s[i])) = i - 1
  <2>1. s[i] = CHOOSE p \in S : Cardinality(Less(S, p)) = i - 1
    BY DEF Listing
  <2>2. \E p \in S : Cardinality(Less(S, p)) = i - 1
    BY <1>1
  <2> QED BY <2>1, <2>2, Zenon
<1>3. s \in [1..n -> S]
  BY <1>2 DEF Listing
<1>4. s \in Seq(S) /\ Len(s) = n /\ DOMAIN s = 1..n
  <2>1. s \in Seq(S)
    <3>1. n \in Nat
      BY <1>1
    <3> QED BY <3>1, <1>3, IsASeq
  <2>2. DOMAIN s = 1..n
    BY <1>3
  <2>3. Len(s) \in Nat /\ DOMAIN s = 1..Len(s)
    BY <2>1, LenProperties
  <2>4. Len(s) = n
    BY <1>1, <2>2, <2>3
  <2> QED BY <2>1, <2>2, <2>4
<1>5. ASSUME NEW p \in S PROVE \E i \in 1..n : s[i] = p
  <2>1. PICK k \in 0..(n - 1) : Cardinality(Less(S, p)) = k
    BY <1>1
  <2>2. k + 1 \in 1..n /\ (k + 1) - 1 = k
    BY <1>1
  <2>3. s[k + 1] \in S /\ Cardinality(Less(S, s[k + 1])) = Cardinality(Less(S, p))
    BY <1>2, <2>1, <2>2
  <2> QED BY <1>1, <2>2, <2>3
<1>6. ASSUME NEW i \in 1..n, NEW j \in 1..n, s[i] = s[j]
      PROVE  i = j
  <2>1. i - 1 = j - 1
    BY <1>2, <1>6
  <2> QED BY <1>1, <2>1
<1>7. IsInjective(s)
  BY <1>4, <1>6 DEF IsInjective
<1>8. Range(s) = S
  BY <1>2, <1>4, <1>5 DEF Range
<1> QED
  BY <1>1, <1>2, <1>4, <1>7, <1>8

-----------------------------------------------------------------------------
(***************************************************************************)
(* The queue.                                                              *)
(***************************************************************************)

\* The messages of a queue are due at the time `now` or a tick later, in this order.
InLockStep(q, now) ==
  /\ \A i \in DOMAIN q : q[i].at \in {now, now + 1}
  /\ \A i, j \in DOMAIN q : i < j => q[i].at <= q[j].at

\* No two messages with a body in B have the same sender and addressee.
Distinct(q, B) ==
  \A i, j \in DOMAIN q :
    /\ q[i].body \in B /\ q[j].body \in B
    /\ q[i].from = q[j].from /\ q[i].to = q[j].to
    => i = j

\* A queue that is not empty has its head and the messages of its tail.
LEMMA HeadAndTail ==
  ASSUME NEW M, NEW q \in Seq(M), q # <<>>
  PROVE  /\ Head(q) \in M /\ Tail(q) \in Seq(M)
         /\ Head(q) \in Range(q)
         /\ Range(Tail(q)) \subseteq Range(q)
         /\ Range(q) = {Head(q)} \union Range(Tail(q))
<1>1. /\ Head(q) = q[1] /\ 1 \in DOMAIN q /\ Tail(q) \in Seq(M)
      /\ Len(q) \in Nat /\ DOMAIN q = 1..Len(q)
      /\ DOMAIN Tail(q) = 1..(Len(q) - 1)
      /\ \A i \in 1..(Len(q) - 1) : Tail(q)[i] = q[i + 1]
  BY HeadTailProperties, LenProperties
<1>2. ASSUME NEW i \in DOMAIN q, i # 1
      PROVE  q[i] \in Range(Tail(q))
  <2>1. i - 1 \in DOMAIN Tail(q) /\ Tail(q)[i - 1] = q[i]
    BY <1>1, <1>2
  <2> QED BY <2>1 DEF Range
<1>3. Range(Tail(q)) \subseteq Range(q)
  BY <1>1 DEF Range
<1>4. Head(q) \in Range(q) /\ Head(q) \in M
  BY <1>1 DEF Range
<1> QED
  BY <1>1, <1>2, <1>3, <1>4 DEF Range

\* Handling the first message leaves a queue in lock step with its time.
LEMMA HandledInLockStep ==
  ASSUME NEW M, NEW q \in Seq(M), q # <<>>, \A m \in M : m.at \in Nat,
         NEW now \in Nat, InLockStep(q, now)
  PROVE  /\ Head(q).at \in {now, now + 1}
         /\ InLockStep(Tail(q), Head(q).at)
<1>1. /\ Head(q) = q[1] /\ 1 \in DOMAIN q
      /\ Len(q) \in Nat /\ DOMAIN q = 1..Len(q)
      /\ DOMAIN Tail(q) = 1..(Len(q) - 1)
      /\ \A i \in 1..(Len(q) - 1) : Tail(q)[i] = q[i + 1]
  BY HeadTailProperties, LenProperties
<1>2. \A i \in DOMAIN q : q[i].at \in Nat /\ q[i].at \in {now, now + 1} /\ q[1].at <= q[i].at
  BY <1>1 DEF InLockStep
<1>3. ASSUME NEW i \in DOMAIN Tail(q)
      PROVE  Tail(q)[i].at \in {Head(q).at, Head(q).at + 1}
  <2>1. i + 1 \in DOMAIN q /\ Tail(q)[i] = q[i + 1]
    BY <1>1
  <2>2. /\ q[i + 1].at \in Nat /\ q[i + 1].at \in {now, now + 1} /\ q[1].at <= q[i + 1].at
        /\ q[1].at \in {now, now + 1}
    BY <1>1, <1>2, <2>1
  <2> QED BY <1>1, <2>1, <2>2
<1>4. ASSUME NEW i \in DOMAIN Tail(q), NEW j \in DOMAIN Tail(q), i < j
      PROVE  Tail(q)[i].at <= Tail(q)[j].at
  <2>1. /\ i + 1 \in DOMAIN q /\ Tail(q)[i] = q[i + 1]
        /\ j + 1 \in DOMAIN q /\ Tail(q)[j] = q[j + 1]
        /\ i + 1 < j + 1
    BY <1>1, <1>4
  <2> QED BY <2>1 DEF InLockStep
<1> QED
  BY <1>1, <1>2, <1>3, <1>4 DEF InLockStep

\* Messages that are sent at a time at which no message is overdue are due a tick later.
LEMMA SentInLockStep ==
  ASSUME NEW M, NEW q \in Seq(M), NEW t \in Seq(M), \A m \in M : m.at \in Nat,
         NEW before \in Nat, NEW now \in Nat, before <= now, InLockStep(q, before),
         \A i \in DOMAIN q : q[i].at >= now,
         \A i \in DOMAIN t : t[i].at = now + 1
  PROVE  InLockStep(q \o t, now)
<1>1. /\ Len(q) \in Nat /\ Len(t) \in Nat /\ DOMAIN q = 1..Len(q) /\ DOMAIN t = 1..Len(t)
      /\ DOMAIN (q \o t) = 1..(Len(q) + Len(t))
      /\ \A i \in 1..(Len(q) + Len(t)) : (q \o t)[i] = IF i <= Len(q) THEN q[i] ELSE t[i - Len(q)]
  BY ConcatProperties, LenProperties
<1>2. ASSUME NEW i \in DOMAIN q
      PROVE  q[i].at \in Nat /\ q[i].at \in {now, now + 1}
  <2>1. q[i].at \in {before, before + 1} /\ q[i].at >= now
    BY DEF InLockStep
  <2> QED BY <2>1
<1>3. ASSUME NEW i \in DOMAIN (q \o t)
      PROVE  (q \o t)[i].at \in {now, now + 1}
  BY <1>1, <1>2
<1>4. ASSUME NEW i \in DOMAIN (q \o t), NEW j \in DOMAIN (q \o t), i < j
      PROVE  (q \o t)[i].at <= (q \o t)[j].at
  <2>1. CASE j <= Len(q)
    <3>1. i \in DOMAIN q /\ j \in DOMAIN q /\ (q \o t)[i] = q[i] /\ (q \o t)[j] = q[j]
      BY <1>1, <1>4, <2>1
    <3> QED BY <1>4, <3>1 DEF InLockStep
  <2>2. CASE j > Len(q)
    <3>1. (q \o t)[j].at = now + 1
      BY <1>1, <2>2
    <3>2. (q \o t)[i].at \in {now, now + 1}
      BY <1>3
    <3> QED BY <3>1, <3>2
  <2> QED BY <1>1, <2>1, <2>2
<1> QED
  BY <1>3, <1>4 DEF InLockStep

\* A sequence in which nothing occurs twice, without its head or with one element more.
LEMMA InjectiveTail ==
  ASSUME NEW M, NEW q \in Seq(M), q # <<>>, IsInjective(q)
  PROVE  IsInjective(Tail(q)) /\ Head(q) \notin Range(Tail(q))
<1>1. /\ Head(q) = q[1] /\ 1 \in DOMAIN q
      /\ Len(q) \in Nat /\ DOMAIN q = 1..Len(q)
      /\ DOMAIN Tail(q) = 1..(Len(q) - 1)
      /\ \A i \in 1..(Len(q) - 1) : Tail(q)[i] = q[i + 1]
  BY HeadTailProperties, LenProperties
<1>2. IsInjective(Tail(q))
  BY <1>1 DEF IsInjective
<1>3. \A i \in DOMAIN Tail(q) : Tail(q)[i] # Head(q)
  BY <1>1 DEF IsInjective
<1> QED
  BY <1>2, <1>3 DEF Range

LEMMA InjectiveAppend ==
  ASSUME NEW M, NEW q \in Seq(M), NEW e \in M, IsInjective(q), e \notin Range(q)
  PROVE  IsInjective(Append(q, e)) /\ Range(Append(q, e)) = Range(q) \union {e}
<1>1. /\ Len(q) \in Nat /\ DOMAIN q = 1..Len(q) /\ DOMAIN Append(q, e) = 1..(Len(q) + 1)
      /\ \A i \in 1..Len(q) : Append(q, e)[i] = q[i]
      /\ Append(q, e)[Len(q) + 1] = e
  BY AppendProperties, LenProperties
<1>2. IsInjective(Append(q, e))
  BY <1>1 DEF IsInjective, Range
<1>3. Range(Append(q, e)) = Range(q) \union {e}
  <2>1. \A i \in DOMAIN Append(q, e) : i \in DOMAIN q \/ i = Len(q) + 1
    BY <1>1
  <2>2. \A i \in DOMAIN q : i \in DOMAIN Append(q, e)
    BY <1>1
  <2>3. Len(q) + 1 \in DOMAIN Append(q, e)
    BY <1>1
  <2> QED BY <1>1, <2>1, <2>2, <2>3 DEF Range
<1> QED
  BY <1>2, <1>3

\* Distinct messages remain so when the first is handled, and no other is like it ...
LEMMA HandledDistinct ==
  ASSUME NEW M, NEW q \in Seq(M), q # <<>>, NEW B, Distinct(q, B)
  PROVE  /\ Distinct(Tail(q), B)
         /\ \A m \in Range(Tail(q)) :
              Head(q).body \in B /\ m.body \in B => m.from # Head(q).from \/ m.to # Head(q).to
<1>1. /\ Head(q) = q[1] /\ 1 \in DOMAIN q
      /\ Len(q) \in Nat /\ DOMAIN q = 1..Len(q)
      /\ DOMAIN Tail(q) = 1..(Len(q) - 1)
      /\ \A i \in 1..(Len(q) - 1) : Tail(q)[i] = q[i + 1]
  BY HeadTailProperties, LenProperties
<1>2. Distinct(Tail(q), B)
  BY <1>1 DEF Distinct
<1>3. ASSUME NEW i \in DOMAIN Tail(q), Head(q).body \in B, Tail(q)[i].body \in B
      PROVE  Tail(q)[i].from # Head(q).from \/ Tail(q)[i].to # Head(q).to
  BY <1>1, <1>3 DEF Distinct
<1> QED
  BY <1>2, <1>3 DEF Range

\* ... and when distinct messages are sent that are not like those of the queue.
LEMMA SentDistinct ==
  ASSUME NEW M, NEW q \in Seq(M), NEW t \in Seq(M), NEW B, Distinct(q, B), Distinct(t, B),
         \A m \in Range(q), k \in Range(t) :
           m.body \in B /\ k.body \in B => m.from # k.from \/ m.to # k.to
  PROVE  Distinct(q \o t, B)
<1>1. /\ Len(q) \in Nat /\ Len(t) \in Nat /\ DOMAIN q = 1..Len(q) /\ DOMAIN t = 1..Len(t)
      /\ DOMAIN (q \o t) = 1..(Len(q) + Len(t))
      /\ \A i \in 1..(Len(q) + Len(t)) : (q \o t)[i] = IF i <= Len(q) THEN q[i] ELSE t[i - Len(q)]
  BY ConcatProperties, LenProperties
<1>2. ASSUME NEW i \in DOMAIN (q \o t), NEW j \in DOMAIN (q \o t), i <= j,
             (q \o t)[i].body \in B, (q \o t)[j].body \in B,
             (q \o t)[i].from = (q \o t)[j].from, (q \o t)[i].to = (q \o t)[j].to
      PROVE  i = j
  <2>1. CASE j <= Len(q)
    BY <1>1, <1>2, <2>1 DEF Distinct
  <2>2. CASE i > Len(q)
    <3>1. /\ i - Len(q) \in DOMAIN t /\ j - Len(q) \in DOMAIN t
          /\ (q \o t)[i] = t[i - Len(q)] /\ (q \o t)[j] = t[j - Len(q)]
      BY <1>1, <1>2, <2>2
    <3>2. i - Len(q) = j - Len(q)
      BY <1>2, <3>1 DEF Distinct
    <3> QED BY <3>2, <1>1
  <2>3. CASE i <= Len(q) /\ j > Len(q)
    <3>1. (q \o t)[i] \in Range(q) /\ (q \o t)[j] \in Range(t)
      BY <1>1, <1>2, <2>3 DEF Range
    <3> QED BY <3>1, <1>2
  <2> QED BY <1>1, <1>2, <2>1, <2>2, <2>3
<1>3. \A i, j \in DOMAIN (q \o t) : i <= j \/ j <= i
  BY <1>1
<1> QED
  BY <1>2, <1>3 DEF Distinct
\* Two sequences one after the other have the elements of both.
LEMMA RangeOfConcatenation ==
  ASSUME NEW M, NEW s \in Seq(M), NEW t \in Seq(M)
  PROVE  s \o t \in Seq(M) /\ Range(s \o t) = Range(s) \union Range(t)
<1>1. /\ Len(s) \in Nat /\ Len(t) \in Nat /\ DOMAIN s = 1..Len(s) /\ DOMAIN t = 1..Len(t)
      /\ DOMAIN (s \o t) = 1..(Len(s) + Len(t)) /\ s \o t \in Seq(M)
      /\ \A i \in 1..(Len(s) + Len(t)) : (s \o t)[i] = IF i <= Len(s) THEN s[i] ELSE t[i - Len(s)]
  BY ConcatProperties, LenProperties
<1>2. \A i \in DOMAIN (s \o t) : (s \o t)[i] \in Range(s) \union Range(t)
  BY <1>1 DEF Range
<1>3. \A i \in DOMAIN s : i \in DOMAIN (s \o t) /\ (s \o t)[i] = s[i]
  BY <1>1
<1>4. \A i \in DOMAIN t : i + Len(s) \in DOMAIN (s \o t) /\ (s \o t)[i + Len(s)] = t[i]
  BY <1>1
<1>5. Range(s) \subseteq Range(s \o t)
  BY <1>3 DEF Range
<1>6. Range(t) \subseteq Range(s \o t)
  BY <1>4 DEF Range
<1>7. Range(s \o t) \subseteq Range(s) \union Range(t)
  BY <1>2 DEF Range
<1> QED
  BY <1>1, <1>5, <1>6, <1>7

\* A sequence in the opposite order.
LEMMA ReversedIsASequence ==
  ASSUME NEW M, NEW s \in Seq(M)
  PROVE  Reverse(s) \in Seq(M)
<1>1. PICK n \in Nat : n = Len(s)
  BY LenProperties
<1>2. \A i \in 1..n : s[i] \in M
  BY <1>1, ElementOfSeq, LenProperties
<1>3. \A i \in 1..n : (n - i) + 1 \in 1..n
  OBVIOUS
<1>4. Reverse(s) \in [1..n -> M]
  BY <1>1, <1>2, <1>3 DEF Reverse
<1> QED
  BY <1>4, IsASeq

-----------------------------------------------------------------------------
(***************************************************************************)
(* Counting.                                                               *)
(***************************************************************************)

\* The sequence of a finite set has its elements.
LEMMA SetToSeqProperties ==
  ASSUME NEW S, IsFiniteSet(S)
  PROVE  /\ Cardinality(S) \in Nat
         /\ SetToSeq(S) \in [1..Cardinality(S) -> S]
         /\ Range(SetToSeq(S)) = S
<1> DEFINE n == Cardinality(S)
<1>1. n \in Nat /\ ExistsBijection(1..n, S)
  BY FS_CardinalityType
<1>2. PICK g \in Bijection(1..n, S) : TRUE
  BY <1>1 DEF ExistsBijection
<1>3. g \in [1..n -> S] /\ IsInjective(g)
  BY <1>2 DEF Bijection, Injection
<1>4. SetToSeq(S) \in [1..n -> S] /\ IsInjective(SetToSeq(S))
  BY <1>3 DEF SetToSeq
<1>5. IsFiniteSet(1..n) /\ Cardinality(1..n) = n
  BY <1>1, FS_Interval
<1>6. SetToSeq(S) \in Injection(1..n, S)
  BY <1>4 DEF Injection
<1>7. SetToSeq(S) \in Surjection(1..n, S)
  BY <1>5, <1>6, FS_Injection
<1>8. Range(SetToSeq(S)) = S
  BY <1>4, <1>7 DEF Surjection, Range
<1> QED BY <1>1, <1>4, <1>8

\* The positions at which a sequence has a member of T.
Occurrences(q, T) == {j \in DOMAIN q : q[j] \in T}

LEMMA OccurrencesAreFinite ==
  ASSUME NEW V, NEW q \in Seq(V), NEW T
  PROVE  IsFiniteSet(Occurrences(q, T)) /\ Cardinality(Occurrences(q, T)) \in Nat
<1>0. Len(q) \in Nat /\ DOMAIN q = 1..Len(q)
  BY LenProperties
<1>1. IsFiniteSet(1..Len(q)) /\ Occurrences(q, T) \in SUBSET (1..Len(q))
  BY <1>0, FS_Interval DEF Occurrences
<1> QED BY <1>1, FS_Subset, FS_CardinalityType

\* One more element counts if it is a member of T.
LEMMA OccurrencesInAppend ==
  ASSUME NEW V, NEW q \in Seq(V), NEW v \in V, NEW T
  PROVE  /\ v \in T => Cardinality(Occurrences(Append(q, v), T)) =
                         Cardinality(Occurrences(q, T)) + 1
         /\ v \notin T => Occurrences(Append(q, v), T) = Occurrences(q, T)
<1>1. /\ Len(q) \in Nat /\ DOMAIN q = 1..Len(q) /\ DOMAIN Append(q, v) = 1..(Len(q) + 1)
      /\ \A i \in 1..Len(q) : Append(q, v)[i] = q[i]
      /\ Append(q, v)[Len(q) + 1] = v
  BY AppendProperties, LenProperties
<1>2. CASE v \in T
  <2>1. Occurrences(Append(q, v), T) = Occurrences(q, T) \union {Len(q) + 1}
    BY <1>1, <1>2 DEF Occurrences
  <2>2. Len(q) + 1 \notin Occurrences(q, T)
    BY <1>1 DEF Occurrences
  <2>3. IsFiniteSet(Occurrences(q, T))
    BY OccurrencesAreFinite
  <2> QED BY <1>2, <2>1, <2>2, <2>3, FS_AddElement
<1>3. CASE v \notin T
  BY <1>1, <1>3 DEF Occurrences
<1> QED BY <1>2, <1>3

\* A set of positions that is not empty has a last one.
LEMMA LastPosition ==
  ASSUME NEW n \in Nat, NEW T, T \subseteq 1..n, T # {}
  PROVE  \E k \in T : \A j \in T : j <= k
<1> DEFINE U == {n - k : k \in T}
<1>0. \A k \in T : k \in Nat /\ n - k \in Nat
  <2>1. \A k \in 1..n : k \in Nat /\ n - k \in Nat
    OBVIOUS
  <2> QED BY <2>1
<1>1. U \subseteq Nat /\ U # {}
  BY <1>0
<1>2. PICK u \in U : \A w \in U : u <= w
  BY <1>1, LeastElement, Zenon
<1>3. PICK k \in T : u = n - k
  BY <1>2
<1>4. ASSUME NEW j \in T PROVE j <= k
  <2>1. u <= n - j
    BY <1>2
  <2>2. j \in Nat /\ k \in Nat
    BY <1>0
  <2> QED BY <1>3, <2>1, <2>2
<1> QED BY <1>4

-----------------------------------------------------------------------------
(***************************************************************************)
(* Recursion over ranks, and over finite sets.                             *)
(***************************************************************************)

\* A set with every number all smaller ones of which it has contains all numbers.
LEMMA StrongInduction ==
  ASSUME NEW T, \A n \in Nat : (\A m \in 0..(n - 1) : m \in T) => n \in T
  PROVE  Nat \subseteq T
<1> DEFINE U == {n \in Nat : \A m \in 0..n : m \in T}
<1>1. 0 \in U
  <2>1. 0 \in T
    BY 0 \in Nat
  <2> QED BY <2>1
<1>2. ASSUME NEW n \in Nat, n \in U PROVE n + 1 \in U
  <2>1. \A m \in 0..((n + 1) - 1) : m \in T
    BY <1>2
  <2>2. n + 1 \in T
    BY <2>1
  <2>3. \A m \in 0..(n + 1) : m \in 0..n \/ m = n + 1
    OBVIOUS
  <2> QED BY <2>2, <2>3, <1>2
<1>3. Nat \subseteq U
  <2> HIDE DEF U
  <2> QED BY <1>1, <1>2, SetInduction
<1> QED
  BY <1>3

\* The values of f follow from those at next[i], down to elements that are not in C.
IsDescent(f, D, C, base, step, next) ==
  \A i \in D : f[i] = IF i \in C THEN step[i][f[next[i]]] ELSE base[i]

\* A function whose values follow from those at elements of lower rank exists.
LEMMA DescentExists ==
  ASSUME NEW X, NEW D, NEW C \in SUBSET D, NEW n \in Nat,
         NEW rank \in [D -> 0..n], NEW next \in [C -> D],
         \A i \in C : rank[next[i]] < rank[i],
         NEW base \in [D -> X], NEW step \in [D -> [X -> X]]
  PROVE  \E f \in [D -> X] : IsDescent(f, D, C, base, step, next)
<1> DEFINE Low(k) == {i \in D : rank[i] < k}
           Upto(k) == {f \in [Low(k) -> X] :
                        \A i \in Low(k) : f[i] = IF i \in C THEN step[i][f[next[i]]] ELSE base[i]}
           T == {k \in Nat : Upto(k) # {}}
<1>1. 0 \in T
  <2>1. Low(0) = {}
    OBVIOUS
  <2>2. [i \in Low(0) |-> base[i]] \in Upto(0)
    BY <2>1
  <2> QED BY <2>2
<1>2. ASSUME NEW k \in Nat, k \in T
      PROVE  k + 1 \in T
  <2>1. PICK f \in Upto(k) : TRUE
    BY <1>2
  <2> DEFINE g == [i \in Low(k + 1) |->
                    IF rank[i] < k THEN f[i] ELSE IF i \in C THEN step[i][f[next[i]]] ELSE base[i]]
  <2>2. \A i \in Low(k + 1) : i \in C => next[i] \in Low(k) /\ f[next[i]] \in X
    BY <2>1
  <2>4. \A i \in Low(k + 1) : rank[i] < k => i \in Low(k)
    OBVIOUS
  <2>5. \A i \in Low(k + 1) : i \in C => step[i][f[next[i]]] \in X
    BY <2>2
  <2>6. g \in [Low(k + 1) -> X]
    BY <2>1, <2>4, <2>5
  <2>7. \A i \in Low(k) : i \in Low(k + 1) /\ g[i] = f[i]
    OBVIOUS
  <2>3. \A i \in Low(k + 1) : g[i] = IF i \in C THEN step[i][g[next[i]]] ELSE base[i]
    BY <2>1, <2>2, <2>4, <2>7
  <2>8. g \in Upto(k + 1)
    <3> HIDE DEF g
    <3> QED BY <2>3, <2>6
  <2> HIDE DEF Upto
  <2> QED BY <2>8
<1>3. n + 1 \in T
  <2> HIDE DEF T
  <2> QED BY <1>1, <1>2, SetInduction
<1>4. PICK f \in Upto(n + 1) : TRUE
  BY <1>3
<1>5. Low(n + 1) = D
  OBVIOUS
<1> QED
  BY <1>4, <1>5 DEF IsDescent


\* What is shown along the recursion holds everywhere.
LEMMA DescentStays ==
  ASSUME NEW D, NEW C \in SUBSET D, NEW n \in Nat,
         NEW rank \in [D -> 0..n], NEW next \in [C -> D],
         \A i \in C : rank[next[i]] < rank[i],
         NEW Values, NEW f,
         \A i \in D \ C : f[i] \in Values[i],
         \A i \in C : f[next[i]] \in Values[next[i]] => f[i] \in Values[i]
  PROVE  \A i \in D : f[i] \in Values[i]
<1> DEFINE T == {k \in Nat : \A i \in D : rank[i] = k => f[i] \in Values[i]}
<1>1. ASSUME NEW k \in Nat, \A m \in 0..(k - 1) : m \in T
      PROVE  k \in T
  <2>1. ASSUME NEW i \in D, rank[i] = k
        PROVE  f[i] \in Values[i]
    <3>1. CASE i \notin C
      BY <3>1
    <3>2. CASE i \in C
      <4>1. next[i] \in D /\ rank[next[i]] \in 0..(k - 1)
        BY <3>2, <2>1
      <4>2. f[next[i]] \in Values[next[i]]
        BY <4>1, <1>1
      <4> QED BY <4>2, <3>2
    <3> QED BY <3>1, <3>2
  <2> QED BY <2>1
<1>2. Nat \subseteq T
  <2> HIDE DEF T
  <2> QED BY <1>1, StrongInduction
<1> QED
  BY <1>2

\* A function is defined by recursion if each step leads from a value that is allowed to
\* one that is.
LEMMA DescentInto ==
  ASSUME NEW D, NEW C \in SUBSET D, NEW n \in Nat,
         NEW rank \in [D -> 0..n], NEW next \in [C -> D],
         \A i \in C : rank[next[i]] < rank[i],
         NEW Values, NEW base, NEW step,
         \A i \in D \ C : base[i] \in Values[i],
         \A i \in C : \A x \in Values[next[i]] : step[i][x] \in Values[i]
  PROVE  \E f : /\ f = [i \in D |-> f[i]]
                /\ \A i \in D : f[i] \in Values[i]
                /\ IsDescent(f, D, C, base, step, next)
<1> DEFINE X == {{}} \union UNION {Values[i] : i \in D}
           start == [i \in D |-> IF i \in C THEN {} ELSE base[i]]
           go == [i \in D |-> [x \in X |->
                   IF i \in C /\ x \in Values[next[i]] THEN step[i][x] ELSE {}]]
<1>1. start \in [D -> X]
  OBVIOUS
<1>2. go \in [D -> [X -> X]]
  <2>1. ASSUME NEW i \in D, NEW x \in X, i \in C, x \in Values[next[i]]
        PROVE  step[i][x] \in X
    BY <2>1
  <2> QED BY <2>1
<1>3. PICK f \in [D -> X] : IsDescent(f, D, C, start, go, next)
  <2> HIDE DEF X, start, go
  <2> QED BY <1>1, <1>2, DescentExists
<1>4. \A i \in D : f[i] = IF i \in C THEN go[i][f[next[i]]] ELSE start[i]
  BY <1>3 DEF IsDescent
<1>5. \A i \in C : f[next[i]] \in X
  OBVIOUS
<1>6. \A i \in C : f[next[i]] \in Values[next[i]] => f[i] = step[i][f[next[i]]]
  <2>1. ASSUME NEW i \in C, f[next[i]] \in Values[next[i]]
        PROVE  f[i] = step[i][f[next[i]]]
    <3>1. f[i] = go[i][f[next[i]]]
      BY <1>4
    <3>2. go[i][f[next[i]]] = step[i][f[next[i]]]
      BY <2>1, <1>5
    <3> QED BY <3>1, <3>2
  <2> QED BY <2>1
<1>7. \A i \in D \ C : f[i] = base[i]
  BY <1>4
<1> HIDE DEF X, start, go
<1>8. \A i \in D : f[i] \in Values[i]
  <2>1. \A i \in D \ C : f[i] \in Values[i]
    BY <1>7
  <2>2. \A i \in C : f[next[i]] \in Values[next[i]] => f[i] \in Values[i]
    BY <1>6
  <2> QED BY <2>1, <2>2, DescentStays
<1>9. IsDescent(f, D, C, base, step, next)
  BY <1>6, <1>7, <1>8 DEF IsDescent
<1>10. f = [i \in D |-> f[i]]
  OBVIOUS
<1> QED
  BY <1>8, <1>9, <1>10

\* Folding a set, whose elements are picked one after the other.
LEMMA FoldRanks ==
  ASSUME NEW S, IsFiniteSet(S), NEW pick, \A s \in SUBSET S : s # {} => pick[s] \in s
  PROVE  /\ Cardinality(S) \in Nat
         /\ [s \in SUBSET S |-> Cardinality(s)] \in [SUBSET S -> 0..Cardinality(S)]
         /\ \A s \in SUBSET S : s # {} =>
              /\ s \ {pick[s]} \in SUBSET S
              /\ Cardinality(s \ {pick[s]}) < Cardinality(s)
<1>1. Cardinality(S) \in Nat
  BY FS_CardinalityType
<1>2. ASSUME NEW s \in SUBSET S
      PROVE  IsFiniteSet(s) /\ Cardinality(s) \in 0..Cardinality(S)
  <2>1. IsFiniteSet(s) /\ Cardinality(s) <= Cardinality(S)
    BY FS_Subset
  <2>2. Cardinality(s) \in Nat
    BY <2>1, FS_CardinalityType
  <2> QED BY <2>1, <2>2, <1>1
<1>3. ASSUME NEW s \in SUBSET S, s # {}
      PROVE  s \ {pick[s]} \in SUBSET S /\ Cardinality(s \ {pick[s]}) < Cardinality(s)
  <2>1. Cardinality(s \ {pick[s]}) = Cardinality(s) - 1
    BY <1>2, <1>3, FS_RemoveElement
  <2>2. Cardinality(s) \in Int
    BY <1>2
  <2> QED BY <2>1, <2>2
<1> QED
  BY <1>1, <1>2, <1>3

\* What is shown along a fold holds of its result.
LEMMA FoldStays ==
  ASSUME NEW S, IsFiniteSet(S), NEW pick, \A s \in SUBSET S : s # {} => pick[s] \in s,
         NEW Values, NEW f, f[{}] \in Values[{}],
         \A s \in SUBSET S : s # {} /\ f[s \ {pick[s]}] \in Values[s \ {pick[s]}] => f[s] \in Values[s]
  PROVE  f[S] \in Values[S]
<1> DEFINE D == SUBSET S
           C == D \ {{}}
           rank == [s \in D |-> Cardinality(s)]
           next == [s \in C |-> s \ {pick[s]}]
<1>1. /\ Cardinality(S) \in Nat /\ rank \in [D -> 0..Cardinality(S)]
      /\ C \in SUBSET D /\ next \in [C -> D]
      /\ \A s \in C : rank[next[s]] < rank[s]
  BY FoldRanks
<1>2. /\ \A s \in D \ C : f[s] \in Values[s]
      /\ \A s \in C : f[next[s]] \in Values[next[s]] => f[s] \in Values[s]
  OBVIOUS
<1>3. PICK n \in Nat : n = Cardinality(S)
  BY <1>1
<1>4. \A s \in D : f[s] \in Values[s]
  <2>1. rank \in [D -> 0..n]
    BY <1>1, <1>3, Zenon
  <2> HIDE DEF D, C, rank, next
  <2> QED BY <1>1, <1>2, <2>1, DescentStays
<1> QED
  BY <1>4

\* f is the fold of the subsets of S in the order of pick, as MapThenFoldSet defines it.
IsFold(f, S, base, step, pick) ==
  f = [s \in SUBSET S |-> IF s = {} THEN base ELSE step[s][f[s \ {pick[s]}]]]

\* A fold exists if each step leads from a value that is allowed to one that is.
LEMMA FoldInto ==
  ASSUME NEW S, IsFiniteSet(S), NEW pick, \A s \in SUBSET S : s # {} => pick[s] \in s,
         NEW Values, NEW base \in Values[{}], NEW step,
         \A s \in SUBSET S : s # {} =>
           \A x \in Values[s \ {pick[s]}] : step[s][x] \in Values[s]
  PROVE  \E f : /\ IsFold(f, S, base, step, pick)
                /\ \A s \in SUBSET S : f[s] \in Values[s]
<1> DEFINE D == SUBSET S
           C == D \ {{}}
           rank == [s \in D |-> Cardinality(s)]
           next == [s \in C |-> s \ {pick[s]}]
           start == [s \in D |-> base]
<1>1. /\ Cardinality(S) \in Nat /\ rank \in [D -> 0..Cardinality(S)]
      /\ C \in SUBSET D /\ next \in [C -> D]
      /\ \A s \in C : rank[next[s]] < rank[s]
  BY FoldRanks
<1>2. /\ \A s \in D \ C : start[s] \in Values[s]
      /\ \A s \in C : \A x \in Values[next[s]] : step[s][x] \in Values[s]
  OBVIOUS
<1>3. PICK f : /\ f = [s \in D |-> f[s]]
               /\ \A s \in D : f[s] \in Values[s]
               /\ IsDescent(f, D, C, start, step, next)
  <2> HIDE DEF D, C, rank, next, start
  <2> QED BY <1>1, <1>2, DescentInto
<1>4. ASSUME NEW s \in D
      PROVE  f[s] = IF s = {} THEN base ELSE step[s][f[s \ {pick[s]}]]
  BY <1>3 DEF IsDescent
<1>5. f = [s \in D |-> IF s = {} THEN base ELSE step[s][f[s \ {pick[s]}]]]
  <2> DEFINE g == [s \in D |-> f[s]]
  <2>1. g = [s \in D |-> IF s = {} THEN base ELSE step[s][f[s \ {pick[s]}]]]
    BY <1>4
  <2>2. f = g
    BY <1>3, Zenon
  <2> QED BY <2>1, <2>2, Zenon
<1>6. \A s \in D : f[s] \in Values[s]
  BY <1>3
<1>7. IsFold(f, S, base, step, pick)
  BY <1>5 DEF IsFold
<1> QED
  BY <1>6, <1>7, Zenon
=============================================================================
