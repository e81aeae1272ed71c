-------------------------- MODULE SimulatorsProofs --------------------------
(***************************************************************************)
(* The array heaps keep their order, the sequential simulator implements   *)
(* DiscreteEvents and the concurrent one ParallelTicks, for any number of  *)
(* events, delays and targets.                                             *)
(*                                                                         *)
(* The way of the hole in UpHeap and DownHeap is described by a set of     *)
(* places that is closed under its steps (UpPath, DownPath); what an add   *)
(* or a remove does to a queue follows (QueueAdd, QueueRemove), and the    *)
(* proofs about the simulators use nothing else about the arrays.          *)
(***************************************************************************)
EXTENDS SimulatorsMC, FiniteSetTheorems, TLAPS

SL == INSTANCE SequenceLemmas

-----------------------------------------------------------------------------
(***************************************************************************)
(* An array heap: what UpHeap and DownHeap do to it.                       *)
(***************************************************************************)

\* The place above is in the array, and is another one.
LEMMA ParentProperties ==
  ASSUME NEW i \in Nat \ {0}
  PROVE  Parent(i) \in Nat /\ Parent(i) < i /\ Parent(i) \in 0..(i - 1)
BY DEF Parent

\* The way of an item from the position p up to its place q.
UpPath(stamped, h, p, item, q, S) ==
  /\ q \in 0..p
  /\ S \in SUBSET ((q + 1)..p)
  /\ p \in S \/ p = q
  /\ \A j \in S : (Parent(j) \in S \/ Parent(j) = q) /\ Precedes(stamped, item, h[Parent(j)])
  /\ \A j, k \in S : Parent(j) = Parent(k) => j = k
  /\ \A j \in S \union {q} : j # p => \E k \in S : Parent(k) = j
  /\ q = 0 \/ ~ Precedes(stamped, item, h[Parent(q)])

IsPlace(place, stamped, h, p, item) ==
  \A i \in 0..p :
    place[i] = IF i > 0 /\ Precedes(stamped, item, h[Parent(i)]) THEN place[Parent(i)] ELSE i

IsPath(path, p, q) ==
  \A i \in 0..p : path[i] = IF i > q THEN {i} \union path[Parent(i)] ELSE {}

\* The recursion that UpHeap names `place` has a solution.
LEMMA UpHeapPlace ==
  ASSUME NEW stamped, NEW h, NEW p \in Nat, NEW item
  PROVE  \E f \in [0..p -> 0..p] : IsPlace(f, stamped, h, p, item)
<1> DEFINE D == 0..p
           C == {i \in 0..p : i > 0 /\ Precedes(stamped, item, h[Parent(i)])}
           rank == [i \in D |-> i]
           next == [i \in C |-> Parent(i)]
           base == [i \in D |-> i]
           step == [i \in D |-> [x \in D |-> x]]
<1>1. C \in SUBSET D /\ rank \in [D -> 0..p] /\ base \in [D -> D] /\ step \in [D -> [D -> D]]
  OBVIOUS
<1>2. next \in [C -> D] /\ \A i \in C : rank[next[i]] < rank[i]
  BY ParentProperties
<1>3. PICK f \in [D -> D] : SL!IsDescent(f, D, C, base, step, next)
  <2> HIDE DEF D, C, rank, next, base, step
  <2> QED BY <1>1, <1>2, SL!DescentExists
<1>4. ASSUME NEW i \in D
      PROVE  f[i] = IF i > 0 /\ Precedes(stamped, item, h[Parent(i)]) THEN f[Parent(i)] ELSE i
  <2>1. f[i] = IF i \in C THEN step[i][f[next[i]]] ELSE base[i]
    BY <1>3 DEF SL!IsDescent
  <2>2. CASE i \in C
    <3>1. next[i] = Parent(i) /\ Parent(i) \in D
      BY <2>2, <1>2
    <3>2. step[i][f[Parent(i)]] = f[Parent(i)]
      BY <3>1
    <3> QED BY <2>1, <2>2, <3>1, <3>2
  <2>3. CASE i \notin C
    BY <2>1, <2>3
  <2> QED BY <2>2, <2>3
<1> QED
  BY <1>4 DEF IsPlace

\* So has the recursion that it names `path`.
LEMMA UpHeapWay ==
  ASSUME NEW p \in Nat, NEW q \in 0..p
  PROVE  \E f \in [0..p -> SUBSET (0..p)] : IsPath(f, p, q)
<1> DEFINE D == 0..p
           X == SUBSET D
           C == {i \in 0..p : i > q}
           rank == [i \in D |-> i]
           next == [i \in C |-> Parent(i)]
           base == [i \in D |-> {}]
           step == [i \in D |-> [x \in X |-> {i} \union x]]
<1>1. C \in SUBSET D /\ rank \in [D -> 0..p] /\ base \in [D -> X] /\ step \in [D -> [X -> X]]
  OBVIOUS
<1>2. next \in [C -> D] /\ \A i \in C : rank[next[i]] < rank[i]
  BY ParentProperties
<1>3. PICK f \in [D -> X] : SL!IsDescent(f, D, C, base, step, next)
  <2> HIDE DEF D, C, rank, next, base, step, X
  <2> QED BY <1>1, <1>2, SL!DescentExists
<1>4. ASSUME NEW i \in D
      PROVE  f[i] = IF i > q THEN {i} \union f[Parent(i)] ELSE {}
  <2>1. f[i] = IF i \in C THEN step[i][f[next[i]]] ELSE base[i]
    BY <1>3 DEF SL!IsDescent
  <2>2. CASE i \in C
    <3>1. next[i] = Parent(i) /\ Parent(i) \in D
      BY <2>2, <1>2
    <3>2. step[i][f[Parent(i)]] = {i} \union f[Parent(i)]
      <4> HIDE DEF D
      <4>1. f[Parent(i)] \in X
        BY <3>1, <1>3
      <4> QED BY <4>1
    <3> QED BY <2>1, <2>2, <3>1, <3>2
  <2>3. CASE i \notin C
    BY <2>1, <2>3
  <2> QED BY <2>2, <2>3
<1> QED
  BY <1>4 DEF IsPath

\* The two functions that UpHeap chooses are the place and the way.
LEMMA UpHeapIsPath ==
  ASSUME NEW stamped, NEW h, NEW p \in Nat, NEW item,
         NEW place, NEW path, IsPlace(place, stamped, h, p, item), IsPath(path, p, place[p])
  PROVE  UpPath(stamped, h, p, item, place[p], path[p])
<1> DEFINE q == place[p]
           T == {i \in Nat : i \in 0..p /\ place[i] = q => UpPath(stamped, h, i, item, q, path[i])}
<1>1. ASSUME NEW i \in Nat, \A m \in 0..(i - 1) : m \in T
      PROVE  i \in T
  <2> SUFFICES ASSUME i \in 0..p, place[i] = q
               PROVE  UpPath(stamped, h, i, item, q, path[i])
    OBVIOUS
  <2>1. path[i] = IF i > q THEN {i} \union path[Parent(i)] ELSE {}
    BY DEF IsPath
  <2>2. place[i] = IF i > 0 /\ Precedes(stamped, item, h[Parent(i)]) THEN place[Parent(i)] ELSE i
    BY DEF IsPlace
  <2>3. CASE ~ (i > 0 /\ Precedes(stamped, item, h[Parent(i)]))
    <3>1. q = i /\ path[i] = {}
      BY <2>1, <2>2, <2>3
    <3> QED BY <3>1, <2>3 DEF UpPath
  <2>4. CASE i > 0 /\ Precedes(stamped, item, h[Parent(i)])
    <3>1. Parent(i) \in 0..(i - 1) /\ Parent(i) \in 0..p /\ Parent(i) \in Nat
      BY <2>4, ParentProperties
    <3>2. UpPath(stamped, h, Parent(i), item, q, path[Parent(i)])
      BY <1>1, <3>1, <2>2, <2>4
    <3>3. q \in Nat /\ q <= Parent(i) /\ q < i
      BY <3>1, <3>2 DEF UpPath
    <3>4. path[i] = {i} \union path[Parent(i)]
      BY <2>1, <3>3
    <3> DEFINE S == path[Parent(i)]
    <3> HIDE DEF S, q, T
    <3>5. S \in SUBSET ((q + 1)..Parent(i))
      BY <3>2 DEF UpPath, S
    <3>6. \A j \in S : j \in Nat \ {0} /\ Parent(j) < Parent(i) /\ j <= Parent(i)
      BY <3>5, <3>3, <3>1, ParentProperties
    <3>7. \A j \in {i} \union S : (Parent(j) \in {i} \union S \/ Parent(j) = q) /\ Precedes(stamped, item, h[Parent(j)])
      BY <3>2, <2>4 DEF UpPath, S
    <3>8. \A j, k \in {i} \union S : Parent(j) = Parent(k) => j = k
      <4>1. \A j, k \in S : Parent(j) = Parent(k) => j = k
        BY <3>2 DEF UpPath, S
      <4>2. \A j \in S : Parent(j) # Parent(i)
        BY <3>6, <3>1
      <4> QED BY <4>1, <4>2
    <3>9. \A j \in ({i} \union S) \union {q} : j # i => \E k \in {i} \union S : Parent(k) = j
      <4>1. \A j \in S \union {q} : j # Parent(i) => \E k \in S : Parent(k) = j
        BY <3>2 DEF UpPath, S
      <4> QED BY <4>1
    <3>10. q = 0 \/ ~ Precedes(stamped, item, h[Parent(q)])
      BY <3>2 DEF UpPath
    <3>11. path[i] = {i} \union S /\ q \in 0..i /\ {i} \union S \in SUBSET ((q + 1)..i)
      BY <3>4, <3>3, <3>5, <3>1 DEF S
    <3> QED BY <3>7, <3>8, <3>9, <3>10, <3>11 DEF UpPath
  <2> QED BY <2>3, <2>4
<1>2. Nat \subseteq T
  <2> HIDE DEF T
  <2> QED BY <1>1, SL!StrongInduction
<1> QED
  BY <1>2

UpResult(h, p, item, q, S) ==
  [i \in 0..p |-> IF i = q THEN item ELSE IF i \in S THEN h[Parent(i)] ELSE h[i]]

\* What UpHeap does to the array.
LEMMA UpHeapProperties ==
  ASSUME NEW stamped, NEW h, NEW p \in Nat, NEW item
  PROVE  \E q, S :
           /\ UpPath(stamped, h, p, item, q, S)
           /\ UpHeap(stamped, h, p, item) = UpResult(h, p, item, q, S)
<1> DEFINE DefPlace(f) == f = [i \in 0..p |-> IF i > 0 /\ Precedes(stamped, item, h[Parent(i)]) THEN f[Parent(i)] ELSE i]
           place == CHOOSE f : DefPlace(f)
           DefPath(f) == f = [i \in 0..p |-> IF i > place[p] THEN {i} \union f[Parent(i)] ELSE {}]
           path == CHOOSE f : DefPath(f)
<1>1. UpHeap(stamped, h, p, item) =
        [i \in 0..p |-> IF i = place[p] THEN item ELSE IF i \in path[p] THEN h[Parent(i)] ELSE h[i]]
  BY DEF UpHeap
<1>2. DefPlace(place)
  <2>1. PICK f \in [0..p -> 0..p] : IsPlace(f, stamped, h, p, item)
    BY UpHeapPlace, Zenon
  <2>2. DefPlace(f)
    BY <2>1 DEF IsPlace
  <2> HIDE DEF DefPlace
  <2> QED BY <2>2
<1>3. IsPlace(place, stamped, h, p, item)
  <2> HIDE DEF place
  <2> QED BY <1>2 DEF IsPlace
<1>4. place[p] \in 0..p
  <2> DEFINE T == {i \in Nat : i \in 0..p => place[i] \in 0..p}
  <2> HIDE DEF place, path, DefPlace, DefPath
  <2>1. ASSUME NEW i \in Nat, \A m \in 0..(i - 1) : m \in T PROVE i \in T
    <3>1. SUFFICES ASSUME i \in 0..p PROVE place[i] \in 0..p
      OBVIOUS
    <3>2. place[i] = IF i > 0 /\ Precedes(stamped, item, h[Parent(i)]) THEN place[Parent(i)] ELSE i
      BY <1>3, <3>1 DEF IsPlace
    <3>3. CASE i > 0
      <4>1. Parent(i) \in 0..(i - 1) /\ Parent(i) \in 0..p
        BY <3>3, <3>1, ParentProperties
      <4> QED BY <4>1, <2>1, <3>2, <3>1
    <3>4. CASE ~ (i > 0)
      BY <3>4, <3>2, <3>1
    <3> QED BY <3>3, <3>4
  <2>2. Nat \subseteq T
    <3> HIDE DEF T
    <3> QED BY <2>1, SL!StrongInduction
  <2> QED BY <2>2
<1>5. DefPath(path)
  <2> HIDE DEF place, DefPlace
  <2>1. PICK f \in [0..p -> SUBSET (0..p)] : IsPath(f, p, place[p])
    BY UpHeapWay, <1>4
  <2>2. DefPath(f)
    BY <2>1 DEF IsPath
  <2> HIDE DEF DefPath
  <2> QED BY <2>2
<1>6. IsPath(path, p, place[p])
  <2> HIDE DEF path, place, DefPlace
  <2> QED BY <1>5 DEF IsPath
<1> HIDE DEF place, path, DefPlace, DefPath
<1>7. UpPath(stamped, h, p, item, place[p], path[p])
  BY <1>3, <1>6, UpHeapIsPath
<1> QED
  BY <1>1, <1>7 DEF UpResult

-----------------------------------------------------------------------------

Sinks(stamped, h, item, i) ==
  2 * i + 1 \in DOMAIN h /\ Precedes(stamped, h[SmallerChild(stamped, h, i)], item)

\* The smaller child is further down in the array, and its parent is where it was looked for.
LEMMA ChildProperties ==
  ASSUME NEW stamped, NEW h, NEW n \in Nat, DOMAIN h = 0..(n - 1), NEW i \in 0..(n - 1),
         2 * i + 1 \in DOMAIN h
  PROVE  /\ SmallerChild(stamped, h, i) \in (i + 1)..(n - 1)
         /\ Parent(SmallerChild(stamped, h, i)) = i
BY DEF SmallerChild, Parent

\* The way of an item from the position i down to its place q.
DownPath(stamped, h, i, item, q, S) ==
  /\ q \in DOMAIN h
  /\ S \in SUBSET (i..(q - 1))
  /\ i \in S \/ i = q
  /\ \A j \in S : /\ Sinks(stamped, h, item, j)
                  /\ SmallerChild(stamped, h, j) \in S \/ SmallerChild(stamped, h, j) = q
  /\ ~ Sinks(stamped, h, item, q)
  /\ \A j \in S \union {q} : j # i => Parent(j) \in S /\ SmallerChild(stamped, h, Parent(j)) = j

IsPlaceDown(place, stamped, h, item) ==
  \A i \in DOMAIN h :
    place[i] = IF Sinks(stamped, h, item, i) THEN place[SmallerChild(stamped, h, i)] ELSE i

IsPathDown(path, stamped, h, item) ==
  \A i \in DOMAIN h :
    path[i] = IF Sinks(stamped, h, item, i) THEN {i} \union path[SmallerChild(stamped, h, i)] ELSE {}

\* The recursion that DownHeap names `place` has a solution.
LEMMA DownHeapPlace ==
  ASSUME NEW stamped, NEW h, NEW n \in Nat, DOMAIN h = 0..(n - 1), NEW item
  PROVE  \E f \in [DOMAIN h -> DOMAIN h] : IsPlaceDown(f, stamped, h, item)
<1> DEFINE D == DOMAIN h
           C == {i \in D : Sinks(stamped, h, item, i)}
           rank == [i \in D |-> n - i]
           next == [i \in C |-> SmallerChild(stamped, h, i)]
           base == [i \in D |-> i]
           step == [i \in D |-> [x \in D |-> x]]
<1>1. C \in SUBSET D /\ rank \in [D -> 0..n] /\ base \in [D -> D] /\ step \in [D -> [D -> D]]
  OBVIOUS
<1>2. \A i \in C : SmallerChild(stamped, h, i) \in D /\ SmallerChild(stamped, h, i) > i
  <2>1. ASSUME NEW i \in C PROVE SmallerChild(stamped, h, i) \in (i + 1)..(n - 1)
    BY ChildProperties DEF Sinks
  <2> QED BY <2>1
<1>3. next \in [C -> D] /\ \A i \in C : rank[next[i]] < rank[i]
  BY <1>2
<1>4. PICK f \in [D -> D] : SL!IsDescent(f, D, C, base, step, next)
  <2> HIDE DEF D, C, rank, next, base, step
  <2> QED BY <1>1, <1>3, SL!DescentExists
<1>5. ASSUME NEW i \in D
      PROVE  f[i] = IF Sinks(stamped, h, item, i) THEN f[SmallerChild(stamped, h, i)] ELSE i
  <2>1. f[i] = IF i \in C THEN step[i][f[next[i]]] ELSE base[i]
    BY <1>4 DEF SL!IsDescent
  <2>2. CASE i \in C
    <3>1. next[i] = SmallerChild(stamped, h, i) /\ SmallerChild(stamped, h, i) \in D
      BY <2>2, <1>2
    <3>2. step[i][f[SmallerChild(stamped, h, i)]] = f[SmallerChild(stamped, h, i)]
      BY <3>1
    <3> QED BY <2>1, <2>2, <3>1, <3>2
  <2>3. CASE i \notin C
    BY <2>1, <2>3
  <2> QED BY <2>2, <2>3
<1> QED
  BY <1>5 DEF IsPlaceDown

\* So has the recursion that it names `path`.
LEMMA DownHeapWay ==
  ASSUME NEW stamped, NEW h, NEW n \in Nat, DOMAIN h = 0..(n - 1), NEW item
  PROVE  \E f \in [DOMAIN h -> SUBSET (DOMAIN h)] : IsPathDown(f, stamped, h, item)
<1> DEFINE D == DOMAIN h
           X == SUBSET D
           C == {i \in D : Sinks(stamped, h, item, i)}
           rank == [i \in D |-> n - i]
           next == [i \in C |-> SmallerChild(stamped, h, i)]
           base == [i \in D |-> {}]
           step == [i \in D |-> [x \in X |-> {i} \union x]]
<1>1. C \in SUBSET D /\ rank \in [D -> 0..n] /\ base \in [D -> X] /\ step \in [D -> [X -> X]]
  OBVIOUS
<1>2. \A i \in C : SmallerChild(stamped, h, i) \in D /\ SmallerChild(stamped, h, i) > i
  <2>1. ASSUME NEW i \in C PROVE SmallerChild(stamped, h, i) \in (i + 1)..(n - 1)
    BY ChildProperties DEF Sinks
  <2> QED BY <2>1
<1>3. next \in [C -> D] /\ \A i \in C : rank[next[i]] < rank[i]
  BY <1>2
<1>4. PICK f \in [D -> X] : SL!IsDescent(f, D, C, base, step, next)
  <2> HIDE DEF D, C, rank, next, base, step, X
  <2> QED BY <1>1, <1>3, SL!DescentExists
<1>5. ASSUME NEW i \in D
      PROVE  f[i] = IF Sinks(stamped, h, item, i) THEN {i} \union f[SmallerChild(stamped, h, i)] ELSE {}
  <2>1. f[i] = IF i \in C THEN step[i][f[next[i]]] ELSE base[i]
    BY <1>4 DEF SL!IsDescent
  <2>2. CASE i \in C
    <3>1. next[i] = SmallerChild(stamped, h, i) /\ SmallerChild(stamped, h, i) \in D
      BY <2>2, <1>2
    <3>2. step[i][f[SmallerChild(stamped, h, i)]] = {i} \union f[SmallerChild(stamped, h, i)]
      <4> HIDE DEF D
      <4>1. f[SmallerChild(stamped, h, i)] \in X
        BY <3>1, <1>4
      <4> QED BY <4>1
    <3> QED BY <2>1, <2>2, <3>1, <3>2
  <2>3. CASE i \notin C
    BY <2>1, <2>3
  <2> QED BY <2>2, <2>3
<1> QED
  BY <1>5 DEF IsPathDown

\* The two functions that DownHeap chooses are the place and the way.
LEMMA DownHeapIsPath ==
  ASSUME NEW stamped, NEW h, NEW n \in Nat \ {0}, DOMAIN h = 0..(n - 1), NEW item,
         NEW place, NEW path,
         IsPlaceDown(place, stamped, h, item), IsPathDown(path, stamped, h, item)
  PROVE  DownPath(stamped, h, 0, item, place[0], path[0])
<1> DEFINE T == {k \in Nat : \A i \in DOMAIN h : n - i = k => DownPath(stamped, h, i, item, place[i], path[i])}
<1>1. ASSUME NEW k \in Nat, \A m \in 0..(k - 1) : m \in T
      PROVE  k \in T
  <2> SUFFICES ASSUME NEW i \in DOMAIN h, n - i = k
               PROVE  DownPath(stamped, h, i, item, place[i], path[i])
    OBVIOUS
  <2> DEFINE c == SmallerChild(stamped, h, i)
  <2>1. path[i] = IF Sinks(stamped, h, item, i) THEN {i} \union path[c] ELSE {}
    BY DEF IsPathDown
  <2>2. place[i] = IF Sinks(stamped, h, item, i) THEN place[c] ELSE i
    BY DEF IsPlaceDown
  <2>3. CASE ~ Sinks(stamped, h, item, i)
    <3>1. place[i] = i /\ path[i] = {}
      BY <2>1, <2>2, <2>3
    <3> QED BY <3>1, <2>3 DEF DownPath
  <2>4. CASE Sinks(stamped, h, item, i)
    <3>1. c \in (i + 1)..(n - 1) /\ Parent(c) = i
      BY <2>4, ChildProperties DEF Sinks
    <3> DEFINE q == place[c]
               S == path[c]
    <3>2. c \in DOMAIN h /\ n - c \in 0..(k - 1)
      BY <3>1
    <3>3. DownPath(stamped, h, c, item, q, S)
      BY <1>1, <3>2
    <3>4. place[i] = q /\ path[i] = {i} \union S
      BY <2>1, <2>2, <2>4
    <3> HIDE DEF S, q, T
    <3>5. q \in DOMAIN h /\ q \in Nat /\ S \in SUBSET (c..(q - 1)) /\ (c \in S \/ c = q)
      BY <3>3 DEF DownPath
    <3>6. q >= c /\ c > i /\ c \in Nat /\ i \in Nat
      BY <3>5, <3>1
    <3>7. {i} \union S \in SUBSET (i..(q - 1))
      <4> HIDE DEF c
      <4>1. \A x \in S : x \in c..(q - 1)
        BY <3>5
      <4>2. ASSUME NEW x \in {i} \union S PROVE x \in i..(q - 1)
        <5>1. CASE x = i
          BY <5>1, <3>5, <3>6
        <5>2. CASE x \in S
          BY <5>2, <4>1, <3>5, <3>6
        <5> QED BY <5>1, <5>2
      <4> QED BY <4>2
    <3>8. \A j \in {i} \union S :
             /\ Sinks(stamped, h, item, j)
             /\ SmallerChild(stamped, h, j) \in {i} \union S \/ SmallerChild(stamped, h, j) = q
      BY <3>3, <3>5, <2>4 DEF DownPath
    <3>9. \A j \in ({i} \union S) \union {q} : j # i =>
             Parent(j) \in {i} \union S /\ SmallerChild(stamped, h, Parent(j)) = j
      BY <3>3, <3>1 DEF DownPath
    <3>10. ~ Sinks(stamped, h, item, q)
      BY <3>3 DEF DownPath
    <3> HIDE DEF c
    <3> QED BY <3>4, <3>5, <3>7, <3>8, <3>9, <3>10 DEF DownPath
  <2> QED BY <2>3, <2>4
<1>2. Nat \subseteq T
  <2> HIDE DEF T
  <2> QED BY <1>1, SL!StrongInduction
<1>3. 0 \in DOMAIN h /\ n - 0 = n /\ n \in T
  BY <1>2
<1> QED
  BY <1>3

DownResult(stamped, h, item, q, S) ==
  [i \in DOMAIN h |->
     IF i = q THEN item ELSE IF i \in S THEN h[SmallerChild(stamped, h, i)] ELSE h[i]]

\* What DownHeap does to the array.
LEMMA DownHeapProperties ==
  ASSUME NEW stamped, NEW h, NEW n \in Nat \ {0}, DOMAIN h = 0..(n - 1), NEW item
  PROVE  \E q, S :
           /\ DownPath(stamped, h, 0, item, q, S)
           /\ DownHeap(stamped, h, item) = DownResult(stamped, h, item, q, S)
<1> DEFINE DefPlace(f) == f = [i \in DOMAIN h |-> IF Sinks(stamped, h, item, i) THEN f[SmallerChild(stamped, h, i)] ELSE i]
           place == CHOOSE f : DefPlace(f)
           DefPath(f) == f = [i \in DOMAIN h |-> IF Sinks(stamped, h, item, i) THEN {i} \union f[SmallerChild(stamped, h, i)] ELSE {}]
           path == CHOOSE f : DefPath(f)
<1>1. DownHeap(stamped, h, item) =
        [i \in DOMAIN h |-> IF i = place[0] THEN item
                            ELSE IF i \in path[0] THEN h[SmallerChild(stamped, h, i)] ELSE h[i]]
  BY DEF DownHeap, Sinks
<1>2. DefPlace(place)
  <2>1. PICK f \in [DOMAIN h -> DOMAIN h] : IsPlaceDown(f, stamped, h, item)
    BY DownHeapPlace
  <2>2. DefPlace(f)
    BY <2>1 DEF IsPlaceDown
  <2> HIDE DEF DefPlace
  <2> QED BY <2>2
<1>3. IsPlaceDown(place, stamped, h, item)
  <2> HIDE DEF place
  <2> QED BY <1>2 DEF IsPlaceDown
<1>4. DefPath(path)
  <2>1. PICK f \in [DOMAIN h -> SUBSET (DOMAIN h)] : IsPathDown(f, stamped, h, item)
    BY DownHeapWay
  <2>2. DefPath(f)
    BY <2>1 DEF IsPathDown
  <2> HIDE DEF DefPath
  <2> QED BY <2>2
<1>5. IsPathDown(path, stamped, h, item)
  <2> HIDE DEF path, place, DefPlace
  <2> QED BY <1>4 DEF IsPathDown
<1> HIDE DEF place, path, DefPlace, DefPath
<1>6. DownPath(stamped, h, 0, item, place[0], path[0])
  BY <1>3, <1>5, DownHeapIsPath
<1> QED
  BY <1>1, <1>6 DEF DownResult

-----------------------------------------------------------------------------

Timed(e) == e.time \in Nat /\ e.stamp \in Nat

\* `a` may leave the heap before `b`.
NotAfter(stamped, a, b) == ~ Precedes(stamped, b, a)

\* NotAfter is a total preorder of events.
LEMMA OrderOfEvents ==
  ASSUME NEW stamped, NEW a, NEW b, NEW c, Timed(a), Timed(b), Timed(c)
  PROVE  /\ NotAfter(stamped, a, a)
         /\ Precedes(stamped, a, b) => NotAfter(stamped, a, b)
         /\ NotAfter(stamped, a, b) /\ NotAfter(stamped, b, c) => NotAfter(stamped, a, c)
BY DEF NotAfter, Precedes, Less, LessByTime, Timed

\* The array h is a heap of n items, none of which is there twice.
HeapOf(stamped, h, n) ==
  /\ DOMAIN h = 0..(n - 1)
  /\ \A i \in 0..(n - 1) : Timed(h[i])
  /\ \A i \in 1..(n - 1) : NotAfter(stamped, h[Parent(i)], h[i])
  /\ \A i, j \in 0..(n - 1) : h[i] = h[j] => i = j

\* An item that was put where UpHeap stops is in order with its parent and children.
LEMMA UpHeapKeepsOrder ==
  ASSUME NEW stamped, NEW h, NEW p \in Nat, HeapOf(stamped, h, p), NEW item, Timed(item),
         NEW q, NEW S, UpPath(stamped, h, p, item, q, S),
         NEW r, r = UpResult(h, p, item, q, S)
  PROVE  /\ \A i \in 0..p : Timed(r[i])
         /\ \A i \in 1..p : NotAfter(stamped, r[Parent(i)], r[i])
<1>1. q \in 0..p /\ S \in SUBSET ((q + 1)..p) /\ (p \in S \/ p = q)
  BY DEF UpPath
<1>2. \A j \in S : (Parent(j) \in S \/ Parent(j) = q) /\ Precedes(stamped, item, h[Parent(j)])
  BY DEF UpPath
<1>3. \A j \in S \union {q} : j # p => \E k \in S : Parent(k) = j
  BY DEF UpPath
<1>4. q = 0 \/ ~ Precedes(stamped, item, h[Parent(q)])
  BY DEF UpPath
<1>5. \A i \in 1..p : Parent(i) \in 0..(p - 1) /\ Parent(i) < i /\ Parent(i) \in Nat
  BY ParentProperties
<1>6. \A i \in 0..(p - 1) : Timed(h[i])
  BY DEF HeapOf
<1>7. \A i \in 1..(p - 1) : NotAfter(stamped, h[Parent(i)], h[i])
  BY DEF HeapOf
<1>8. \A i \in S : i \in 1..p /\ i # q
  BY <1>1
<1>9. \A i \in 0..p : i # q /\ i \notin S => i \in 0..(p - 1)
  BY <1>1
<1>10. /\ r[q] = item
       /\ \A i \in S : r[i] = h[Parent(i)]
       /\ \A i \in 0..p : i # q /\ i \notin S => r[i] = h[i]
  BY <1>1, <1>8 DEF UpResult
<1>11. \A i \in 0..p : Timed(r[i])
  <2>1. ASSUME NEW i \in 0..p PROVE Timed(r[i])
    <3>1. CASE i = q
      BY <3>1, <1>10
    <3>2. CASE i \in S
      BY <3>2, <1>10, <1>8, <1>5, <1>6
    <3>3. CASE i # q /\ i \notin S
      BY <3>3, <1>10, <1>9, <1>6
    <3> QED BY <3>1, <3>2, <3>3
  <2> QED BY <2>1
<1>12. ASSUME NEW i \in 1..p
       PROVE  NotAfter(stamped, r[Parent(i)], r[i])
  <2>1. Parent(i) \in 0..(p - 1) /\ Parent(i) \in 0..p /\ Parent(i) < i /\ i \in 0..p
    BY <1>5
  <2>2. Timed(h[Parent(i)])
    BY <2>1, <1>6
  <2>3. CASE i = q
    <3>1. Parent(i) # q /\ Parent(i) \notin S
      BY <2>1, <2>3, <1>1
    <3>2. r[Parent(i)] = h[Parent(i)] /\ r[i] = item
      BY <3>1, <2>1, <2>3, <1>10
    <3> QED BY <3>2, <2>3, <1>4 DEF NotAfter
  <2>4. CASE i \in S
    <3>1. r[i] = h[Parent(i)] /\ Precedes(stamped, item, h[Parent(i)])
      BY <2>4, <1>10, <1>2
    <3>2. CASE Parent(i) = q
      <4>1. r[Parent(i)] = item
        BY <3>2, <1>10
      <4> QED BY <4>1, <3>1, <2>2, OrderOfEvents
    <3>3. CASE Parent(i) \in S
      <4>1. r[Parent(i)] = h[Parent(Parent(i))]
        BY <3>3, <1>10
      <4>2. Parent(i) \in 1..(p - 1)
        BY <3>3, <1>8, <2>1
      <4> QED BY <4>1, <4>2, <3>1, <1>7
    <3> QED BY <3>2, <3>3, <2>4, <1>2
  <2>5. CASE i # q /\ i \notin S
    <3>1. r[i] = h[i] /\ i \in 1..(p - 1) /\ Timed(h[i])
      BY <2>5, <2>1, <1>9, <1>10, <1>6
    <3>2. NotAfter(stamped, h[Parent(i)], h[i])
      BY <3>1, <1>7
    <3>3. CASE Parent(i) = q
      <4>1. q # p
        BY <3>3, <2>1
      <4>2. PICK k \in S : Parent(k) = q
        BY <4>1, <1>3
      <4>3. Precedes(stamped, item, h[q])
        BY <4>2, <1>2
      <4>4. NotAfter(stamped, item, h[Parent(i)])
        BY <4>3, <3>3, <2>2, OrderOfEvents
      <4>5. NotAfter(stamped, item, h[i])
        BY <4>4, <3>2, <2>2, <3>1, OrderOfEvents
      <4> QED BY <4>5, <3>1, <3>3, <1>10
    <3>4. CASE Parent(i) \in S
      <4>1. r[Parent(i)] = h[Parent(Parent(i))]
        BY <3>4, <1>10
      <4>2. Parent(i) \in 1..(p - 1)
        BY <3>4, <1>8, <2>1
      <4>3. NotAfter(stamped, h[Parent(Parent(i))], h[Parent(i)])
        BY <4>2, <1>7
      <4>4. Timed(h[Parent(Parent(i))])
        BY <4>2, <1>5, <1>6
      <4> QED BY <4>1, <4>3, <4>4, <3>1, <3>2, <2>2, OrderOfEvents
    <3>5. CASE Parent(i) # q /\ Parent(i) \notin S
      BY <3>5, <2>1, <1>10, <3>1, <3>2
    <3> QED BY <3>3, <3>4, <3>5
  <2> QED BY <2>3, <2>4, <2>5
<1> QED
  BY <1>11, <1>12

\* UpHeap loses no item and makes no second copy of one.
LEMMA UpHeapKeepsItems ==
  ASSUME NEW stamped, NEW h, NEW p \in Nat, HeapOf(stamped, h, p), NEW item, item \notin Items(h),
         NEW q, NEW S, UpPath(stamped, h, p, item, q, S),
         NEW r, r = UpResult(h, p, item, q, S)
  PROVE  /\ Items(r) = Items(h) \union {item}
         /\ \A i, j \in 0..p : r[i] = r[j] => i = j
<1>1. q \in 0..p /\ S \in SUBSET ((q + 1)..p) /\ (p \in S \/ p = q)
  BY DEF UpPath
<1>2. \A j \in S : Parent(j) \in S \/ Parent(j) = q
  BY DEF UpPath
<1>3. \A j \in S \union {q} : j # p => \E k \in S : Parent(k) = j
  BY DEF UpPath
<1>4. \A j, k \in S : Parent(j) = Parent(k) => j = k
  BY DEF UpPath
<1>5. DOMAIN h = 0..(p - 1) /\ \A i, j \in 0..(p - 1) : h[i] = h[j] => i = j
  BY DEF HeapOf
<1>6. \A i \in S : i \in 1..p /\ i # q /\ Parent(i) \in 0..(p - 1)
  BY <1>1, ParentProperties
<1>7. \A i \in 0..p : i # q /\ i \notin S => i \in 0..(p - 1)
  BY <1>1
<1>8. /\ r[q] = item
      /\ \A i \in S : r[i] = h[Parent(i)]
      /\ \A i \in 0..p : i # q /\ i \notin S => r[i] = h[i]
  BY <1>1, <1>6 DEF UpResult
<1>9. \A i \in 0..(p - 1) : h[i] \in Items(h) /\ h[i] # item
  BY <1>5 DEF Items
<1>10. DOMAIN r = 0..p
  BY DEF UpResult
<1>11. ASSUME NEW i \in 0..p PROVE r[i] \in Items(h) \union {item}
  BY <1>6, <1>7, <1>8, <1>9
<1>12. ASSUME NEW i \in 0..(p - 1) PROVE \E k \in 0..p : r[k] = h[i]
  <2>1. CASE i \in S \union {q}
    <3>1. PICK k \in S : Parent(k) = i
      BY <2>1, <1>3
    <3> QED BY <3>1, <1>8, <1>6
  <2>2. CASE i \notin S \union {q}
    BY <2>2, <1>8
  <2> QED BY <2>1, <2>2
<1>13. Items(r) = Items(h) \union {item}
  <2>1. ASSUME NEW x \in Items(r) PROVE x \in Items(h) \union {item}
    BY <1>10, <1>11 DEF Items
  <2>2. ASSUME NEW x \in Items(h) PROVE x \in Items(r)
    <3>1. PICK i \in 0..(p - 1) : x = h[i]
      BY <1>5 DEF Items
    <3> QED BY <3>1, <1>12, <1>10 DEF Items
  <2>3. item \in Items(r)
    BY <1>8, <1>1, <1>10 DEF Items
  <2> QED BY <2>1, <2>2, <2>3
<1>14. ASSUME NEW i \in 0..p, NEW j \in 0..p, r[i] = r[j], i # j PROVE FALSE
  <2>1. i # q /\ j # q
    BY <1>14, <1>6, <1>7, <1>8, <1>9
  <2>2. CASE i \in S /\ j \in S
    BY <2>2, <1>14, <1>4, <1>5, <1>6, <1>8
  <2>3. CASE i \in S /\ j \notin S
    <3>1. Parent(i) = j
      BY <2>3, <2>1, <1>14, <1>5, <1>6, <1>7, <1>8
    <3> QED BY <3>1, <2>1, <2>3, <1>2
  <2>4. CASE i \notin S /\ j \in S
    <3>1. Parent(j) = i
      BY <2>4, <2>1, <1>14, <1>5, <1>6, <1>7, <1>8
    <3> QED BY <3>1, <2>1, <2>4, <1>2
  <2>5. CASE i \notin S /\ j \notin S
    BY <2>5, <2>1, <1>14, <1>5, <1>7, <1>8
  <2> QED BY <2>2, <2>3, <2>4, <2>5
<1> QED
  BY <1>13, <1>14

\* An item that is added is in the heap, and the heap keeps its order.
LEMMA AddProperties ==
  ASSUME NEW stamped, NEW h, NEW p \in Nat, HeapOf(stamped, h, p),
         NEW item, Timed(item), item \notin Items(h)
  PROVE  /\ HeapOf(stamped, UpHeap(stamped, h, p, item), p + 1)
         /\ Items(UpHeap(stamped, h, p, item)) = Items(h) \union {item}
<1>1. PICK q, S :
        /\ UpPath(stamped, h, p, item, q, S)
        /\ UpHeap(stamped, h, p, item) = UpResult(h, p, item, q, S)
  BY UpHeapProperties
<1> DEFINE r == UpHeap(stamped, h, p, item)
<1> HIDE DEF r
<1>6. r = UpResult(h, p, item, q, S)
  BY <1>1 DEF r
<1>2. /\ \A i \in 0..p : Timed(r[i])
      /\ \A i \in 1..p : NotAfter(stamped, r[Parent(i)], r[i])
  BY <1>1, <1>6, UpHeapKeepsOrder
<1>3. /\ Items(r) = Items(h) \union {item}
      /\ \A i, j \in 0..p : r[i] = r[j] => i = j
  BY <1>1, <1>6, UpHeapKeepsItems
<1>4. DOMAIN r = 0..p /\ (p + 1) - 1 = p
  BY <1>6 DEF UpResult
<1>5. HeapOf(stamped, r, p + 1)
  BY <1>2, <1>3, <1>4 DEF HeapOf
<1> QED
  BY <1>3, <1>5 DEF r

\* An item that was put where DownHeap stops is in order with its parent and children.
LEMMA DownHeapKeepsOrder ==
  ASSUME NEW stamped, NEW h, NEW n \in Nat \ {0}, HeapOf(stamped, h, n), NEW item, Timed(item),
         NEW q, NEW S, DownPath(stamped, h, 0, item, q, S),
         NEW r, r = DownResult(stamped, h, item, q, S)
  PROVE  /\ \A i \in 0..(n - 1) : Timed(r[i])
         /\ \A i \in 1..(n - 1) : NotAfter(stamped, r[Parent(i)], r[i])
<1> DEFINE c(i) == SmallerChild(stamped, h, i)
<1>1. DOMAIN h = 0..(n - 1) /\ DOMAIN r = 0..(n - 1)
  BY DEF HeapOf, DownResult
<1>2. q \in 0..(n - 1) /\ S \in SUBSET (0..(q - 1)) /\ (0 \in S \/ 0 = q)
  BY <1>1 DEF DownPath
<1>3. \A j \in S : Sinks(stamped, h, item, j) /\ (c(j) \in S \/ c(j) = q)
  BY DEF DownPath
<1>4. ~ Sinks(stamped, h, item, q)
  BY DEF DownPath
<1>5. \A j \in S \union {q} : j # 0 => Parent(j) \in S /\ c(Parent(j)) = j
  BY DEF DownPath
<1>6. \A i \in 0..(n - 1) : Timed(h[i])
  BY DEF HeapOf
<1>7. \A i \in 1..(n - 1) : NotAfter(stamped, h[Parent(i)], h[i])
  BY DEF HeapOf
<1>8. \A i \in 1..(n - 1) : /\ Parent(i) \in 0..(n - 1)
                            /\ Parent(i) < i
                            /\ i = 2 * Parent(i) + 1 \/ i = 2 * Parent(i) + 2
  BY DEF Parent
<1>9. \A i \in S : /\ i \in 0..(n - 1)
                   /\ i # q
                   /\ c(i) \in 1..(n - 1)
                   /\ Parent(c(i)) = i
                   /\ Precedes(stamped, h[c(i)], item)
  <2>1. ASSUME NEW i \in S
        PROVE  /\ i \in 0..(n - 1) /\ i # q
               /\ c(i) \in 1..(n - 1) /\ Parent(c(i)) = i
               /\ Precedes(stamped, h[c(i)], item)
    <3>1. i \in 0..(n - 1) /\ i # q
      BY <1>2
    <3>2. 2 * i + 1 \in DOMAIN h /\ Precedes(stamped, h[c(i)], item)
      BY <1>3 DEF Sinks
    <3>3. c(i) \in (i + 1)..(n - 1) /\ Parent(c(i)) = i
      BY <3>1, <3>2, <1>1, ChildProperties
    <3> HIDE DEF c
    <3> QED BY <3>1, <3>2, <3>3
  <2> QED BY <2>1
\* No child is before the smaller one.
<1>10. ASSUME NEW i \in 1..(n - 1)
       PROVE  /\ 2 * Parent(i) + 1 \in DOMAIN h
              /\ Timed(h[c(Parent(i))])
              /\ NotAfter(stamped, h[c(Parent(i))], h[i])
  <2>1. 2 * Parent(i) + 1 \in DOMAIN h /\ Parent(i) \in 0..(n - 1)
    BY <1>1 DEF Parent
  <2>2. Timed(h[i]) /\ Timed(h[2 * Parent(i) + 1])
    BY <2>1, <1>1, <1>6
  <2>3. CASE 2 * Parent(i) + 2 \in DOMAIN h /\ Precedes(stamped, h[2 * Parent(i) + 2], h[2 * Parent(i) + 1])
    <3>1. c(Parent(i)) = 2 * Parent(i) + 2 /\ Timed(h[2 * Parent(i) + 2])
      BY <2>3, <1>1, <1>6 DEF SmallerChild
    <3>2. NotAfter(stamped, h[2 * Parent(i) + 2], h[2 * Parent(i) + 1])
      BY <2>3, <2>2, <3>1, OrderOfEvents
    <3>3. NotAfter(stamped, h[2 * Parent(i) + 2], h[2 * Parent(i) + 2])
      BY <2>2, <3>1, OrderOfEvents
    <3>4. NotAfter(stamped, h[c(Parent(i))], h[i])
      <4>1. i = 2 * Parent(i) + 1 \/ i = 2 * Parent(i) + 2
        BY <1>8
      <4> HIDE DEF c
      <4> QED BY <4>1, <3>1, <3>2, <3>3
    <3> HIDE DEF c
    <3> QED BY <2>1, <3>1, <3>4
  <2>4. CASE ~ (2 * Parent(i) + 2 \in DOMAIN h /\ Precedes(stamped, h[2 * Parent(i) + 2], h[2 * Parent(i) + 1]))
    <3>1. c(Parent(i)) = 2 * Parent(i) + 1
      BY <2>4 DEF SmallerChild
    <3>2. NotAfter(stamped, h[2 * Parent(i) + 1], h[2 * Parent(i) + 1])
      BY <2>2, OrderOfEvents
    <3>3. 2 * Parent(i) + 2 \in DOMAIN h => NotAfter(stamped, h[2 * Parent(i) + 1], h[2 * Parent(i) + 2])
      BY <2>4 DEF NotAfter
    <3>4. NotAfter(stamped, h[c(Parent(i))], h[i])
      <4>1. i = 2 * Parent(i) + 1 \/ i = 2 * Parent(i) + 2
        BY <1>8
      <4> HIDE DEF c
      <4> QED BY <4>1, <3>1, <3>2, <3>3, <1>1
    <3> HIDE DEF c
    <3> QED BY <2>1, <2>2, <3>1, <3>4
  <2> QED BY <2>3, <2>4
<1>11. /\ r[q] = item
       /\ \A i \in S : r[i] = h[c(i)]
       /\ \A i \in 0..(n - 1) : i # q /\ i \notin S => r[i] = h[i]
  BY <1>1, <1>2, <1>9 DEF DownResult
<1> HIDE DEF c
<1>12. \A i \in 0..(n - 1) : Timed(r[i])
  <2>1. ASSUME NEW i \in 0..(n - 1) PROVE Timed(r[i])
    <3>1. CASE i = q
      BY <3>1, <1>11
    <3>2. CASE i \in S
      <4>1. c(i) \in 0..(n - 1)
        BY <3>2, <1>9
      <4> QED BY <4>1, <3>2, <1>11, <1>6
    <3>3. CASE i # q /\ i \notin S
      BY <3>3, <1>11, <1>6
    <3> QED BY <3>1, <3>2, <3>3
  <2> QED BY <2>1
<1>13. ASSUME NEW i \in 1..(n - 1)
       PROVE  NotAfter(stamped, r[Parent(i)], r[i])
  <2>1. Parent(i) \in 0..(n - 1) /\ Parent(i) < i /\ i \in 0..(n - 1) /\ i # 0
    BY DEF Parent
  <2>2. Timed(h[i]) /\ Timed(h[Parent(i)]) /\ Timed(h[c(Parent(i))])
    BY <2>1, <1>6, <1>10
  <2>3. CASE Parent(i) = q
    <3>1. i # q /\ i \notin S
      BY <2>3, <2>1, <1>2
    <3>2. NotAfter(stamped, item, h[c(q)])
      BY <2>3, <1>4, <1>10 DEF Sinks, NotAfter, c
    <3>3. NotAfter(stamped, item, h[i])
      BY <3>2, <2>2, <2>3, <1>10, OrderOfEvents
    <3> QED BY <3>1, <3>3, <2>1, <2>3, <1>11
  <2>4. CASE Parent(i) \in S
    <3>1. r[Parent(i)] = h[c(Parent(i))] /\ Precedes(stamped, h[c(Parent(i))], item)
      BY <2>4, <1>9, <1>11
    <3>2. CASE i = q
      BY <3>1, <3>2, <2>2, <1>11, OrderOfEvents
    <3>3. CASE i \in S
      <4>1. r[i] = h[c(i)] /\ Parent(c(i)) = i /\ c(i) \in 1..(n - 1) /\ c(Parent(i)) = i
        BY <3>3, <2>1, <1>5, <1>9, <1>11
      <4> QED BY <4>1, <3>1, <1>7
    <3>4. CASE i # q /\ i \notin S
      BY <3>1, <3>4, <2>1, <1>10, <1>11
    <3> QED BY <3>2, <3>3, <3>4
  <2>5. CASE Parent(i) # q /\ Parent(i) \notin S
    <3>1. i # q /\ i \notin S
      BY <2>5, <2>1, <1>5
    <3> QED BY <2>5, <3>1, <2>1, <1>7, <1>11
  <2> QED BY <2>3, <2>4, <2>5
<1> QED
  BY <1>12, <1>13

Rest(h, n) == {h[i] : i \in 1..(n - 1)}

\* DownHeap replaces the first item by the last one and keeps the others.
LEMMA DownHeapKeepsItems ==
  ASSUME NEW stamped, NEW h, NEW n \in Nat \ {0}, HeapOf(stamped, h, n),
         NEW item, item \notin Rest(h, n),
         NEW q, NEW S, DownPath(stamped, h, 0, item, q, S),
         NEW r, r = DownResult(stamped, h, item, q, S)
  PROVE  /\ Items(r) = Rest(h, n) \union {item}
         /\ \A i, j \in 0..(n - 1) : r[i] = r[j] => i = j
<1> DEFINE c(i) == SmallerChild(stamped, h, i)
<1>1. DOMAIN h = 0..(n - 1) /\ DOMAIN r = 0..(n - 1)
  BY DEF HeapOf, DownResult
<1>2. q \in 0..(n - 1) /\ S \in SUBSET (0..(q - 1)) /\ (0 \in S \/ 0 = q)
  BY <1>1 DEF DownPath
<1>3. \A j \in S : Sinks(stamped, h, item, j) /\ (c(j) \in S \/ c(j) = q)
  BY DEF DownPath
<1>5. \A j \in S \union {q} : j # 0 => Parent(j) \in S /\ c(Parent(j)) = j
  BY DEF DownPath
<1>4. \A i \in 1..(n - 1) : h[i] # item
  BY DEF Rest
<1>6. \A i, j \in 0..(n - 1) : h[i] = h[j] => i = j
  BY DEF HeapOf
<1>9. \A i \in S : /\ i \in 0..(n - 1)
                   /\ i # q
                   /\ c(i) \in 1..(n - 1)
                   /\ Parent(c(i)) = i
  <2>1. ASSUME NEW i \in S
        PROVE  i \in 0..(n - 1) /\ i # q /\ c(i) \in 1..(n - 1) /\ Parent(c(i)) = i
    <3>1. i \in 0..(n - 1) /\ i # q
      BY <1>2
    <3>2. 2 * i + 1 \in DOMAIN h
      BY <1>3 DEF Sinks
    <3>3. c(i) \in (i + 1)..(n - 1) /\ Parent(c(i)) = i
      BY <3>1, <3>2, <1>1, ChildProperties
    <3> HIDE DEF c
    <3> QED BY <3>1, <3>2, <3>3
  <2> QED BY <2>1
<1>10. /\ r[q] = item
       /\ \A i \in S : r[i] = h[c(i)]
       /\ \A i \in 0..(n - 1) : i # q /\ i \notin S => r[i] = h[i]
  BY <1>1, <1>2, <1>9 DEF DownResult
<1> HIDE DEF c
<1>11. \A i \in 0..(n - 1) : i # q /\ i \notin S => i \in 1..(n - 1)
  BY <1>2
<1>12. \A i \in 1..(n - 1) : i \in 0..(n - 1)
  OBVIOUS
<1>13. ASSUME NEW i \in 0..(n - 1) PROVE r[i] \in Rest(h, n) \union {item}
  BY <1>9, <1>10, <1>11 DEF Rest
<1>14. ASSUME NEW i \in 1..(n - 1) PROVE \E k \in 0..(n - 1) : r[k] = h[i]
  <2>1. CASE i \in S \union {q}
    <3>1. Parent(i) \in S /\ c(Parent(i)) = i
      BY <2>1, <1>5
    <3> QED BY <3>1, <1>9, <1>10
  <2>2. CASE i \notin S \union {q}
    BY <2>2, <1>10, <1>12
  <2> QED BY <2>1, <2>2
<1>15. Items(r) = Rest(h, n) \union {item}
  <2>1. ASSUME NEW x \in Items(r) PROVE x \in Rest(h, n) \union {item}
    BY <1>1, <1>13 DEF Items
  <2>2. ASSUME NEW x \in Rest(h, n) PROVE x \in Items(r)
    <3>1. PICK i \in 1..(n - 1) : x = h[i]
      BY DEF Rest
    <3> QED BY <3>1, <1>14, <1>1 DEF Items
  <2>3. item \in Items(r)
    BY <1>10, <1>1, <1>2 DEF Items
  <2> QED BY <2>1, <2>2, <2>3
<1>16. ASSUME NEW i \in 0..(n - 1), NEW j \in 0..(n - 1), r[i] = r[j] PROVE i = j
  <2>1. CASE i = q \/ j = q
    <3>1. \A k \in 0..(n - 1) : r[k] = item => k = q
      BY <1>4, <1>9, <1>10, <1>11
    <3> QED BY <2>1, <3>1, <1>16, <1>10
  <2>2. CASE i \in S /\ j \in S
    BY <2>2, <1>16, <1>6, <1>9, <1>10, <1>12
  <2>3. CASE i \in S /\ j \notin S /\ j # q
    <3>1. c(i) = j
      BY <2>3, <1>16, <1>6, <1>9, <1>10, <1>12
    <3> QED BY <3>1, <2>3, <1>3
  <2>4. CASE i \notin S /\ i # q /\ j \in S
    <3>1. c(j) = i
      BY <2>4, <1>16, <1>6, <1>9, <1>10, <1>12
    <3> QED BY <3>1, <2>4, <1>3
  <2>5. CASE i \notin S /\ i # q /\ j \notin S /\ j # q
    BY <2>5, <1>16, <1>6, <1>10
  <2> QED BY <2>1, <2>2, <2>3, <2>4, <2>5
<1> QED
  BY <1>15, <1>16

\* Count is the number of places in use.
LEMMA CountOfHeap ==
  ASSUME NEW n \in Nat, NEW h, DOMAIN h = 0..(n - 1)
  PROVE  Count(h) = n
<1>1. Cardinality(0..(n - 1)) = IF 0 <= n - 1 THEN (n - 1) - 0 + 1 ELSE 0
  BY FS_Interval
<1> QED
  BY <1>1 DEF Count

\* Without its first item the heap keeps the others and its order.
LEMMA RemoveProperties ==
  ASSUME NEW stamped, NEW h, NEW n \in Nat \ {0}, HeapOf(stamped, h, n)
  PROVE  /\ HeapOf(stamped, RemoveFirstBy(stamped, h), n - 1)
         /\ Items(RemoveFirstBy(stamped, h)) = Items(h) \ {h[0]}
<1> DEFINE last == n - 1
           k == [i \in 0..(last - 1) |-> h[i]]
           r == DownHeap(stamped, k, h[last])
<1>1. Count(h) = n /\ DOMAIN h = 0..(n - 1)
  BY CountOfHeap DEF HeapOf
<1>2. \A i, j \in 0..(n - 1) : h[i] = h[j] => i = j
  BY DEF HeapOf
<1>3. CASE last = 0
  <2>1. RemoveFirstBy(stamped, h) = EmptyHeap
    BY <1>1, <1>3 DEF RemoveFirstBy
  <2>2. HeapOf(stamped, EmptyHeap, 0)
    BY DEF HeapOf, EmptyHeap
  <2>3. Items(EmptyHeap) = {}
    BY DEF Items, EmptyHeap
  <2>4. Items(h) = {h[0]}
    BY <1>1, <1>3 DEF Items
  <2> QED BY <2>1, <2>2, <2>3, <2>4, <1>3
<1>4. CASE last # 0
  <2>1. RemoveFirstBy(stamped, h) = r
    BY <1>1, <1>4 DEF RemoveFirstBy
  <2>2. last \in Nat \ {0} /\ DOMAIN k = 0..(last - 1)
    BY <1>4
  <2>3. HeapOf(stamped, k, last)
    <3>1. \A i \in 1..(last - 1) : /\ Parent(i) \in 0..(last - 1)
                                 /\ i \in 1..(n - 1)
                                 /\ i \in 0..(last - 1)
      BY DEF Parent
    <3>2. \A i \in 0..(last - 1) : i \in 0..(n - 1) /\ k[i] = h[i]
      OBVIOUS
    <3> HIDE DEF k
    <3> QED BY <3>1, <3>2, <2>2 DEF HeapOf
  <2>4. Timed(h[last]) /\ h[last] \notin Rest(k, last)
    <3>1. last \in 0..(n - 1) /\ \A i \in 1..(last - 1) : i \in 0..(n - 1) /\ k[i] = h[i] /\ i # last
      OBVIOUS
    <3> HIDE DEF k, last
    <3>2. Timed(h[last])
      BY <3>1 DEF HeapOf
    <3> QED BY <3>1, <3>2, <1>2 DEF Rest
  <2> HIDE DEF last, k
  <2>5. PICK q, S :
          /\ DownPath(stamped, k, 0, h[last], q, S)
          /\ r = DownResult(stamped, k, h[last], q, S)
    BY <2>2, DownHeapProperties, Zenon
  <2> HIDE DEF r
  <2>6. /\ \A i \in 0..(last - 1) : Timed(r[i])
        /\ \A i \in 1..(last - 1) : NotAfter(stamped, r[Parent(i)], r[i])
    BY <2>2, <2>3, <2>4, <2>5, DownHeapKeepsOrder
  <2>7. /\ Items(r) = Rest(k, last) \union {h[last]}
        /\ \A i, j \in 0..(last - 1) : r[i] = r[j] => i = j
    BY <2>2, <2>3, <2>4, <2>5, DownHeapKeepsItems
  <2>8. HeapOf(stamped, r, last)
    BY <2>2, <2>5, <2>6, <2>7 DEF HeapOf, DownResult
  <2>9. Items(r) = Items(h) \ {h[0]}
    <3>1. \A i \in 1..(last - 1) : k[i] = h[i] /\ i \in 0..(n - 1) /\ i # 0
      BY <1>4 DEF k, last
    <3>2. last \in 0..(n - 1) /\ last # 0
      BY <1>4 DEF last
    <3>3. \A i \in 0..(n - 1) : i # 0 => i \in 1..(last - 1) \/ i = last
      BY DEF last
    <3>4. ASSUME NEW x \in Items(r) PROVE x \in Items(h) \ {h[0]}
      <4>1. CASE x = h[last]
        BY <4>1, <3>2, <1>1, <1>2 DEF Items
      <4>2. CASE x # h[last]
        <5>1. PICK i \in 1..(last - 1) : x = k[i]
          BY <4>2, <2>7 DEF Rest
        <5> QED BY <5>1, <3>1, <1>1, <1>2 DEF Items
      <4> QED BY <4>1, <4>2
    <3>5. ASSUME NEW x \in Items(h) \ {h[0]} PROVE x \in Items(r)
      <4>1. PICK i \in 0..(n - 1) : x = h[i]
        BY <1>1 DEF Items
      <4>2. i \in 1..(last - 1) \/ i = last
        BY <4>1, <3>3
      <4> QED BY <4>1, <4>2, <3>1, <2>7 DEF Rest
    <3> QED BY <3>4, <3>5
  <2> QED BY <2>1, <2>8, <2>9 DEF last
<1> QED
  BY <1>3, <1>4

\* No item of a heap leaves before the first one.
LEMMA FirstIsLeast ==
  ASSUME NEW stamped, NEW h, NEW n \in Nat, HeapOf(stamped, h, n), NEW e \in Items(h)
  PROVE  First(h) \in Items(h) /\ NotAfter(stamped, First(h), e) /\ Timed(e) /\ n > 0
<1>1. DOMAIN h = 0..(n - 1)
  BY DEF HeapOf
<1>2. PICK i \in 0..(n - 1) : e = h[i]
  BY <1>1 DEF Items
<1>3. n > 0 /\ 0 \in DOMAIN h /\ First(h) \in Items(h) /\ Timed(e)
  BY <1>1, <1>2 DEF Items, First, HeapOf
<1> DEFINE T == {m \in Nat : m \in 0..(n - 1) => NotAfter(stamped, h[0], h[m])}
<1>4. ASSUME NEW m \in Nat, \A l \in 0..(m - 1) : l \in T PROVE m \in T
  <2> SUFFICES ASSUME m \in 0..(n - 1) PROVE NotAfter(stamped, h[0], h[m])
    OBVIOUS
  <2>0. Timed(h[m]) /\ Timed(h[0])
    BY <1>3, <1>1 DEF HeapOf
  <2>1. CASE m = 0
    BY <2>0, <2>1, OrderOfEvents
  <2>2. CASE m # 0
    <3>1. Parent(m) \in 0..(m - 1) /\ Parent(m) \in 0..(n - 1) /\ m \in 1..(n - 1)
      BY <2>2, ParentProperties
    <3>2. NotAfter(stamped, h[0], h[Parent(m)])
      BY <3>1, <1>4
    <3>3. NotAfter(stamped, h[Parent(m)], h[m]) /\ Timed(h[Parent(m)])
      BY <3>1 DEF HeapOf
    <3> QED BY <2>0, <3>2, <3>3, OrderOfEvents
  <2> QED BY <2>1, <2>2
<1>5. Nat \subseteq T
  <2> HIDE DEF T
  <2> QED BY <1>4, SL!StrongInduction
<1>6. i \in T
  BY <1>5
<1> QED
  BY <1>2, <1>3, <1>6 DEF First

-----------------------------------------------------------------------------
(***************************************************************************)
(* Queues: heaps of events that were added under different numbers.        *)
(***************************************************************************)

\* An array, and not only something that has the items of one.
IsArray(h) == h = [i \in DOMAIN h |-> h[i]]

QueueOf(stamped, h, count, Ev) ==
  /\ Count(h) \in Nat
  /\ HeapOf(stamped, h, Count(h))
  /\ IsArray(h)
  /\ Items(h) \subseteq Ev
  /\ \A e \in Items(h) : e.stamp < count
  /\ \A e, f \in Items(h) : e.stamp = f.stamp => e = f

\* The queues begin empty.
LEMMA QueueOfNothing ==
  ASSUME NEW stamped, NEW count \in Nat, NEW Ev
  PROVE  QueueOf(stamped, EmptyHeap, count, Ev) /\ Items(EmptyHeap) = {}
<1>1. DOMAIN EmptyHeap = {} /\ DOMAIN EmptyHeap = 0..(0 - 1) /\ IsArray(EmptyHeap)
  BY DEF EmptyHeap, IsArray
<1>2. Count(EmptyHeap) = 0
  BY <1>1, CountOfHeap
<1>3. Items(EmptyHeap) = {}
  BY <1>1 DEF Items
<1>4. HeapOf(stamped, EmptyHeap, 0)
  BY <1>1 DEF HeapOf
<1> QED
  BY <1>1, <1>2, <1>3, <1>4 DEF QueueOf

\* A queue is the empty array exactly when it has no items.
LEMMA EmptyQueue ==
  ASSUME NEW stamped, NEW h, NEW count, NEW Ev, QueueOf(stamped, h, count, Ev)
  PROVE  h = EmptyHeap <=> Items(h) = {}
<1>1. CASE h = EmptyHeap
  BY <1>1 DEF Items, EmptyHeap
<1>2. CASE Items(h) = {}
  <2>1. DOMAIN h = {}
    BY <1>2 DEF Items
  <2>2. h = [i \in {} |-> h[i]]
    BY <2>1 DEF QueueOf, IsArray
  <2> QED BY <2>2, <1>2 DEF EmptyHeap
<1> QED
  BY <1>1, <1>2

\* `h` with one more item is `r`.
HasAlso(r, item, h) == Items(r) = Items(h) \union {item} /\ item \notin Items(h)

\* An add with a new stamp makes a queue with one more item.
LEMMA QueueAdd ==
  ASSUME NEW stamped, NEW h, NEW count \in Nat, NEW Ev, QueueOf(stamped, h, count, Ev),
         NEW item \in Ev, Timed(item), item.stamp = count,
         NEW r, r = UpHeap(stamped, h, Count(h), item)
  PROVE  /\ QueueOf(stamped, r, count + 1, Ev)
         /\ HasAlso(r, item, h)
<1>1. Count(h) \in Nat /\ HeapOf(stamped, h, Count(h)) /\ Items(h) \subseteq Ev
  BY DEF QueueOf
<1>2. \A e \in Items(h) : e.stamp < count /\ e.stamp \in Nat
  <2>1. ASSUME NEW e \in Items(h) PROVE e.stamp < count /\ Timed(e)
    BY <1>1, FirstIsLeast DEF QueueOf
  <2> QED BY <2>1 DEF Timed
<1>3. item \notin Items(h)
  BY <1>2
<1>4. HeapOf(stamped, r, Count(h) + 1) /\ Items(r) = Items(h) \union {item}
  BY <1>1, <1>3, AddProperties
<1>5. Count(r) = Count(h) + 1
  <2>1. DOMAIN r = 0..((Count(h) + 1) - 1) /\ Count(h) + 1 \in Nat
    BY <1>1, <1>4 DEF HeapOf
  <2> QED BY <2>1, CountOfHeap
<1>6. IsArray(r)
  <2>1. PICK q, S : r = UpResult(h, Count(h), item, q, S)
    BY <1>1, UpHeapProperties
  <2> QED BY <2>1 DEF UpResult, IsArray
<1>7. \A e \in Items(r) : e.stamp < count + 1
  BY <1>2, <1>4
<1>8. \A e, f \in Items(r) : e.stamp = f.stamp => e = f
  <2>1. \A e, f \in Items(h) : e.stamp = f.stamp => e = f
    BY DEF QueueOf
  <2> QED BY <2>1, <1>2, <1>4
<1>9. Items(r) \subseteq Ev
  BY <1>1, <1>4
<1> QED
  BY <1>1, <1>3, <1>4, <1>5, <1>6, <1>7, <1>8, <1>9 DEF QueueOf, HasAlso

\* A remove takes an item that no other precedes and leaves a queue of the others.
LEMMA QueueRemove ==
  ASSUME NEW stamped, NEW h, NEW count, NEW Ev, QueueOf(stamped, h, count, Ev), h # EmptyHeap,
         NEW r, r = RemoveFirstBy(stamped, h)
  PROVE  /\ First(h) \in Items(h)
         /\ \A e \in Items(h) : NotAfter(stamped, First(h), e)
         /\ QueueOf(stamped, r, count, Ev)
         /\ Items(r) = Items(h) \ {First(h)}
<1>1. Count(h) \in Nat /\ HeapOf(stamped, h, Count(h))
  BY DEF QueueOf
<1>2. PICK e \in Items(h) : TRUE
  BY EmptyQueue
<1>3. First(h) \in Items(h) /\ Count(h) > 0
  BY <1>1, <1>2, FirstIsLeast
<1>4. \A f \in Items(h) : NotAfter(stamped, First(h), f)
  BY <1>1, FirstIsLeast
<1>5. HeapOf(stamped, r, Count(h) - 1) /\ Items(r) = Items(h) \ {First(h)}
  BY <1>1, <1>3, RemoveProperties DEF First
<1>6. Count(r) = Count(h) - 1 /\ Count(h) - 1 \in Nat
  <2>1. DOMAIN r = 0..((Count(h) - 1) - 1) /\ Count(h) - 1 \in Nat
    BY <1>1, <1>3, <1>5 DEF HeapOf
  <2> QED BY <2>1, CountOfHeap
<1>7. IsArray(r)
  <2>1. CASE Count(h) - 1 = 0
    BY <2>1 DEF RemoveFirstBy, EmptyHeap, IsArray
  <2>2. CASE Count(h) - 1 # 0
    <3> DEFINE k == [i \in 0..((Count(h) - 1) - 1) |-> h[i]]
    <3>1. r = DownHeap(stamped, k, h[Count(h) - 1])
      BY <2>2 DEF RemoveFirstBy
    <3>2. DOMAIN k = 0..((Count(h) - 1) - 1) /\ Count(h) - 1 \in Nat \ {0}
      BY <2>2, <1>6
    <3> HIDE DEF k
    <3>3. PICK q, S : DownHeap(stamped, k, h[Count(h) - 1]) = DownResult(stamped, k, h[Count(h) - 1], q, S)
      BY <3>2, DownHeapProperties
    <3> QED BY <3>1, <3>3 DEF DownResult, IsArray
  <2> QED BY <2>1, <2>2
<1>8. \A f \in Items(r) : f \in Items(h)
  BY <1>5
<1>9. /\ Items(h) \subseteq Ev
      /\ \A f \in Items(h) : f.stamp < count
      /\ \A f, g \in Items(h) : f.stamp = g.stamp => f = g
  BY DEF QueueOf
<1>10. QueueOf(stamped, r, count, Ev)
  BY <1>5, <1>6, <1>7, <1>8, <1>9 DEF QueueOf
<1> QED
  BY <1>3, <1>4, <1>5, <1>10

-----------------------------------------------------------------------------
(***************************************************************************)
(* The sequential simulator.                                               *)
(***************************************************************************)

SequentialState ==
  /\ maxClock \in Nat
  /\ queueStamp \in 0..MaxEvents
  /\ loopbackStamp \in 0..MaxLoopbacks

\* Nothing waits for a tick that has passed.
NothingIsLate ==
  \A e \in Items(queue) \union Items(loopbackQueue) : e.time \in Nat /\ e.time >= clock

\* All loopbacks that wait have one time, and no message is due before it.
LoopbacksComeFirst ==
  \A e \in Items(loopbackQueue) :
    /\ \A f \in Items(loopbackQueue) : e.time = f.time
    /\ \A f \in Items(queue) : e.time <= f.time

\* The time of the loopbacks is that of the clock, except between the reset of the
\* clock by Run and the first event of that run.
LoopbacksAreNow == (pc # "loop" \/ halted) => \A e \in Items(loopbackQueue) : e.time = clock

OrderInv ==
  /\ clock \in Nat /\ pc \in {"idle", "loop", "handling"} /\ halted \in BOOLEAN
  /\ NothingIsLate /\ LoopbacksComeFirst /\ LoopbacksAreNow

SequentialInv ==
  /\ SequentialState
  /\ QueueOf(TRUE, queue, queueStamp, Event)
  /\ QueueOf(TRUE, loopbackQueue, loopbackStamp, Event)
  /\ OrderInv

\* The sequential simulator starts with the invariant.
LEMMA SequentialInit ==
  ASSUME Init, kind = "sequential"
  PROVE  SequentialInv
<1>1. Items(queue) = {} /\ Items(loopbackQueue) = {} /\ clock = 0 /\ pc = "idle"
  BY QueueOfNothing DEF Init
<1>2. halted \in BOOLEAN
  BY Zenon DEF Init
<1>3. NothingIsLate /\ LoopbacksComeFirst
  BY <1>1 DEF NothingIsLate, LoopbacksComeFirst
<1>4. LoopbacksAreNow
  BY <1>1, Zenon DEF LoopbacksAreNow
<1>5. OrderInv
  BY <1>1, <1>2, <1>3, <1>4 DEF OrderInv
<1>6. QueueOf(TRUE, queue, queueStamp, Event) /\ QueueOf(TRUE, loopbackQueue, loopbackStamp, Event)
  BY QueueOfNothing DEF Init
<1>7. SequentialState
  BY BoundsAssumption DEF Init, SequentialState
<1> QED
  BY <1>5, <1>6, <1>7 DEF SequentialInv

\* What the abstract simulator sees of the heaps.
LEMMA SequentialView ==
  ASSUME kind = "sequential"
  PROVE  /\ Sequential(clock, 0) = clock
         /\ Sequential(pc, "idle") = pc
         /\ Sequential(halted, FALSE) = halted
         /\ Sequential(Items(queue), {}) = Items(queue)
         /\ Sequential(Items(loopbackQueue), {}) = Items(loopbackQueue)
         /\ Sequential(queueStamp, 0) = queueStamp
         /\ Sequential(loopbackStamp, 0) = loopbackStamp
BY DEF Sequential

\* ... and in the next state.
LEMMA SequentialViewAfter ==
  ASSUME kind' = "sequential"
  PROVE  /\ Sequential(clock, 0)' = clock'
         /\ Sequential(pc, "idle")' = pc'
         /\ Sequential(halted, FALSE)' = halted'
         /\ Sequential(Items(queue), {})' = Items(queue)'
         /\ Sequential(Items(loopbackQueue), {})' = Items(loopbackQueue)'
BY DEF Sequential

\* A message that a handler sends is due now or later, a loopback that it posts is of its
\* own time, and what is dispatched is the first: every step of the abstract simulator
\* keeps the order.
LEMMA OrderIsKept ==
  ASSUME OrderInv, DES!Next, kind = "sequential", kind' = kind
  PROVE  OrderInv'
<1>1. PICK c, p, h, q, l : c = clock /\ p = pc /\ h = halted /\ q = Items(queue) /\ l = Items(loopbackQueue)
  OBVIOUS
<1>2. PICK d, r, g, s, k :
        d = clock' /\ r = pc' /\ g = halted' /\ s = Items(queue)' /\ k = Items(loopbackQueue)'
  OBVIOUS
<1>3. /\ Sequential(clock, 0) = c /\ Sequential(pc, "idle") = p /\ Sequential(halted, FALSE) = h
      /\ Sequential(Items(queue), {}) = q /\ Sequential(Items(loopbackQueue), {}) = l
      /\ Sequential(clock, 0)' = d /\ Sequential(pc, "idle")' = r /\ Sequential(halted, FALSE)' = g
      /\ Sequential(Items(queue), {})' = s /\ Sequential(Items(loopbackQueue), {})' = k
  BY <1>1, <1>2, SequentialView, SequentialViewAfter
<1>4. /\ c \in Nat /\ p \in {"idle", "loop", "handling"} /\ h \in BOOLEAN
      /\ \A e \in q \union l : e.time \in Nat /\ e.time >= c
      /\ \A e \in l : (\A f \in l : e.time = f.time) /\ (\A f \in q : e.time <= f.time)
      /\ (p # "loop" \/ h) => \A e \in l : e.time = c
  BY <1>1 DEF OrderInv, NothingIsLate, LoopbacksComeFirst, LoopbacksAreNow
<1> DEFINE Ordered ==
      /\ d \in Nat /\ r \in {"idle", "loop", "handling"} /\ g \in BOOLEAN
      /\ \A e \in s \union k : e.time \in Nat /\ e.time >= d
      /\ \A e \in k : (\A f \in k : e.time = f.time) /\ (\A f \in s : e.time <= f.time)
      /\ (r # "loop" \/ g) => \A e \in k : e.time = d
<1>5. SUFFICES Ordered
  BY <1>2 DEF OrderInv, NothingIsLate, LoopbacksComeFirst, LoopbacksAreNow
<1>6. CASE DES!Schedule
  <2>1. PICK e \in s \ q : e.time \in Nat /\ e.time >= c /\ s = q \union {e}
    BY <1>3, <1>6 DEF DES!Schedule, DES!Event
  <2>2. p # "loop" /\ d = c /\ r = p /\ g = h /\ k = l
    BY <1>3, <1>6 DEF DES!Schedule, DES!Scheduling
  <2>3. \A f \in l : p # "loop" => f.time = c
    BY <1>4
  <2> QED BY <2>1, <2>2, <2>3, <1>4
<1>7. CASE DES!Loopback
  <2>1. PICK stamp : k = l \union {[time |-> c, stamp |-> stamp]}
    BY <1>3, <1>7 DEF DES!Loopback
  <2>2. p # "loop" /\ d = c /\ r = p /\ g = h /\ s = q
    BY <1>3, <1>7 DEF DES!Loopback, DES!Scheduling
  <2> QED BY <2>1, <2>2, <1>4
<1>8. CASE DES!Halt
  <2>1. p # "loop" /\ d = c /\ r = p /\ s = q /\ k = l
    BY <1>3, <1>8 DEF DES!Halt, DES!Scheduling
  <2>2. g \in BOOLEAN
    BY <1>3, <1>8, Zenon DEF DES!Halt
  <2> QED BY <2>1, <2>2, <1>4
<1>9. CASE DES!Run
  <2>1. d = 0 /\ r = "loop" /\ s = q /\ k = l
    BY <1>3, <1>9 DEF DES!Run
  <2>2. g \in BOOLEAN /\ ~ g
    BY <1>3, <1>9, Zenon DEF DES!Run
  <2> QED BY <2>1, <2>2, <1>4
<1>10. CASE DES!DispatchLoopback
  <2>1. PICK e \in l : DES!Dispatch(e) /\ k = l \ {e} /\ s = q
    BY <1>3, <1>10 DEF DES!DispatchLoopback
  <2>2. d = e.time /\ r = "handling" /\ g = h
    BY <2>1, <1>3 DEF DES!Dispatch
  <2> QED BY <2>1, <2>2, <1>4
<1>11. CASE DES!DispatchTimed
  <2>1. /\ l = {}
        /\ \E e \in q : /\ \A f \in q : f = e \/ DES!Before(e, f)
                       /\ DES!Dispatch(e)
                       /\ s = q \ {e} /\ k = l
    BY <1>3, <1>11 DEF DES!DispatchTimed
  <2>2. PICK e \in q : /\ \A f \in q : f = e \/ DES!Before(e, f)
                      /\ DES!Dispatch(e)
                      /\ s = q \ {e} /\ k = l
    BY <2>1
  <2>3. d = e.time /\ r = "handling" /\ g = h
    BY <2>2, <1>3 DEF DES!Dispatch
  <2>4. \A f \in q : e.time <= f.time
    BY <2>2, <1>4 DEF DES!Before
  <2> QED BY <2>1, <2>2, <2>3, <2>4, <1>4
<1>12. CASE DES!HandlerReturns
  <2>1. d = c /\ r = "loop" /\ g = h /\ s = q /\ k = l /\ p = "handling"
    BY <1>3, <1>12 DEF DES!HandlerReturns
  <2> QED BY <2>1, <1>4
<1>13. CASE DES!Stop
  <2>1. d = c /\ r = "idle" /\ g = h /\ s = q /\ k = l /\ (h \/ (q = {} /\ l = {}))
    BY <1>3, <1>13 DEF DES!Stop
  <2> QED BY <2>1, <1>4
<1> QED
  BY <1>6, <1>7, <1>8, <1>9, <1>10, <1>11, <1>12, <1>13 DEF DES!Next

\* What the abstract simulator knows of the variables it sees.
LEMMA SequentialTypes ==
  ASSUME SequentialInv, kind = "sequential"
  PROVE  /\ clock \in Nat
         /\ pc \in {"idle", "loop", "handling"}
         /\ halted \in BOOLEAN
         /\ \A e \in Event : Timed(e)
         /\ queueStamp \in Nat /\ loopbackStamp \in Nat
         /\ \A e, f \in Items(loopbackQueue) : e.time = f.time
<1>1. /\ clock \in Nat /\ pc \in {"idle", "loop", "handling"} /\ halted \in BOOLEAN
      /\ LoopbacksComeFirst
  BY DEF SequentialInv, OrderInv
<1>2. \A e \in Event : Timed(e)
  BY DEF Event, Timed
<1>3. queueStamp \in Nat /\ loopbackStamp \in Nat
  BY BoundsAssumption DEF SequentialInv, SequentialState
<1>4. \A e, f \in Items(loopbackQueue) : e.time = f.time
  BY <1>1 DEF LoopbacksComeFirst
<1> QED
  BY <1>1, <1>2, <1>3, <1>4

\* One heap loses its first event, or gets another; the rest is a matter of names.
LEMMA SequentialSchedule ==
  ASSUME SequentialInv, NEW delay \in 0..MaxDelay, Schedule(delay),
         kind = "sequential", kind' = kind
  PROVE  /\ DES!Schedule
         /\ SequentialState'
         /\ QueueOf(TRUE, queue, queueStamp, Event)'
         /\ QueueOf(TRUE, loopbackQueue, loopbackStamp, Event)'
<1> DEFINE item == [time |-> clock + delay, stamp |-> queueStamp]
<1>1. clock \in Nat /\ queueStamp \in Nat /\ delay \in Nat
  BY SequentialTypes, BoundsAssumption
<1>2. item \in Event /\ Timed(item) /\ item.stamp = queueStamp /\ item.time >= clock
  BY <1>1 DEF Event, Timed
<1>3. /\ Scheduling /\ queueStamp < MaxEvents
      /\ queue' = UpHeap(TRUE, queue, Count(queue), item)
      /\ queueStamp' = queueStamp + 1
      /\ UNCHANGED <<clock, pc, halted, maxClock, loopbackQueue, loopbackStamp>>
  BY DEF Schedule, Add
<1> HIDE DEF item
<1>4. QueueOf(TRUE, queue, queueStamp, Event)
  BY DEF SequentialInv
<1>5. /\ QueueOf(TRUE, queue', queueStamp + 1, Event)
      /\ Items(queue') = Items(queue) \union {item}
      /\ item \notin Items(queue)
  <2>1. item \in Event /\ Timed(item) /\ item.stamp = queueStamp /\ queueStamp \in Nat
    BY <1>1, <1>2
  <2>2. queue' = UpHeap(TRUE, queue, Count(queue), item)
    BY <1>3
  <2>3. QueueOf(TRUE, queue', queueStamp + 1, Event) /\ HasAlso(queue', item, queue)
    BY <2>1, <2>2, <1>4, QueueAdd
  <2> QED BY <2>3 DEF HasAlso
<1>6. SequentialState'
  BY <1>1, <1>3, BoundsAssumption DEF SequentialInv, SequentialState
<1>7. QueueOf(TRUE, loopbackQueue, loopbackStamp, Event)'
  BY <1>3 DEF SequentialInv
<1>8. DES!Schedule
  <2>1. DES!Scheduling
    BY <1>3, SequentialView DEF Scheduling, DES!Scheduling
  <2>2. /\ Sequential(Items(queue), {}) = Items(queue)
        /\ Sequential(Items(queue), {})' = Items(queue')
        /\ Sequential(queueStamp, 0) = queueStamp
        /\ Sequential(queueStamp, 0)' = queueStamp'
        /\ Sequential(clock, 0) = clock
    BY DEF Sequential
  <2>3. UNCHANGED <<Sequential(clock, 0), Sequential(pc, "idle"), Sequential(halted, FALSE),
                    Sequential(Items(loopbackQueue), {}), Sequential(loopbackStamp, 0)>>
    BY <1>3 DEF Sequential
  <2>4. item \in DES!Event
    BY <1>2 DEF DES!Event, Event
  <2> QED BY <2>1, <2>2, <2>3, <2>4, <1>2, <1>3, <1>5 DEF DES!Schedule
<1> QED
  BY <1>3, <1>5, <1>6, <1>7, <1>8

\* A loopback is one more item of the other heap.
LEMMA SequentialLoopback ==
  ASSUME SequentialInv, Loopback, kind = "sequential", kind' = kind
  PROVE  /\ DES!Loopback
         /\ SequentialState'
         /\ QueueOf(TRUE, queue, queueStamp, Event)'
         /\ QueueOf(TRUE, loopbackQueue, loopbackStamp, Event)'
<1> DEFINE item == [time |-> clock, stamp |-> loopbackStamp]
<1>1. clock \in Nat /\ loopbackStamp \in Nat
  BY SequentialTypes
<1>2. item \in Event /\ Timed(item) /\ item.stamp = loopbackStamp
  BY <1>1 DEF Event, Timed
<1>3. /\ Scheduling /\ loopbackStamp < MaxLoopbacks
      /\ loopbackQueue' = UpHeap(TRUE, loopbackQueue, Count(loopbackQueue), item)
      /\ loopbackStamp' = loopbackStamp + 1
      /\ UNCHANGED <<clock, pc, halted, maxClock, queue, queueStamp>>
  BY DEF Loopback, Add
<1>4. QueueOf(TRUE, loopbackQueue, loopbackStamp, Event)
  BY DEF SequentialInv
<1>5. /\ QueueOf(TRUE, loopbackQueue', loopbackStamp + 1, Event)
      /\ Items(loopbackQueue') = Items(loopbackQueue) \union {item}
  <2> HIDE DEF item
  <2>1. item \in Event /\ Timed(item) /\ item.stamp = loopbackStamp /\ loopbackStamp \in Nat
    BY <1>1, <1>2
  <2>2. loopbackQueue' = UpHeap(TRUE, loopbackQueue, Count(loopbackQueue), item)
    BY <1>3
  <2>3. QueueOf(TRUE, loopbackQueue', loopbackStamp + 1, Event) /\ HasAlso(loopbackQueue', item, loopbackQueue)
    BY <2>1, <2>2, <1>4, QueueAdd
  <2> QED BY <2>3 DEF HasAlso
<1>6. SequentialState'
  BY <1>1, <1>3, BoundsAssumption DEF SequentialInv, SequentialState
<1>7. QueueOf(TRUE, queue, queueStamp, Event)'
  BY <1>3 DEF SequentialInv
<1>8. DES!Loopback
  <2>1. DES!Scheduling
    BY <1>3, SequentialView DEF Scheduling, DES!Scheduling
  <2>2. /\ Sequential(Items(loopbackQueue), {}) = Items(loopbackQueue)
        /\ Sequential(Items(loopbackQueue), {})' = Items(loopbackQueue')
        /\ Sequential(loopbackStamp, 0) = loopbackStamp
        /\ Sequential(loopbackStamp, 0)' = loopbackStamp'
        /\ Sequential(clock, 0) = clock
    BY DEF Sequential
  <2>3. UNCHANGED <<Sequential(clock, 0), Sequential(pc, "idle"), Sequential(halted, FALSE),
                    Sequential(Items(queue), {}), Sequential(queueStamp, 0)>>
    BY <1>3 DEF Sequential
  <2> QED BY <2>1, <2>2, <2>3, <1>3, <1>5 DEF DES!Loopback
<1> QED
  BY <1>3, <1>5, <1>6, <1>7, <1>8

\* The first loopback is the oldest one, as all are of the same time; the first
\* message is the one before which no other may be handled.
LEMMA SequentialDispatch ==
  ASSUME SequentialInv, Dispatch, kind = "sequential", kind' = kind
  PROVE  /\ DES!DispatchLoopback \/ DES!DispatchTimed
         /\ SequentialState'
         /\ QueueOf(TRUE, queue, queueStamp, Event)'
         /\ QueueOf(TRUE, loopbackQueue, loopbackStamp, Event)'
<1>1. /\ QueueOf(TRUE, queue, queueStamp, Event)
      /\ QueueOf(TRUE, loopbackQueue, loopbackStamp, Event)
      /\ SequentialState
  BY DEF SequentialInv
<1>2. /\ clock \in Nat
      /\ \A e \in Event : Timed(e)
      /\ \A e, f \in Items(loopbackQueue) : e.time = f.time
  BY SequentialTypes
<1>3. /\ pc = "loop" /\ ~ halted /\ Waiting
      /\ clock' = NextEvent.time
      /\ maxClock' = IF NextEvent.time > maxClock THEN NextEvent.time ELSE maxClock
      /\ pc' = "handling"
      /\ UNCHANGED <<halted, queueStamp, loopbackStamp>>
  BY DEF Dispatch
<1>4. /\ Sequential(Items(queue), {}) = Items(queue)
      /\ Sequential(Items(queue), {})' = Items(queue')
      /\ Sequential(Items(loopbackQueue), {}) = Items(loopbackQueue)
      /\ Sequential(Items(loopbackQueue), {})' = Items(loopbackQueue')
  BY DEF Sequential
<1>5. ASSUME NEW e, clock' = e.time PROVE DES!Dispatch(e)
  <2>1. /\ Sequential(pc, "idle") = pc /\ Sequential(pc, "idle")' = pc'
        /\ Sequential(halted, FALSE) = halted
        /\ Sequential(clock, 0)' = clock'
    BY DEF Sequential
  <2>2. UNCHANGED <<Sequential(halted, FALSE), Sequential(queueStamp, 0), Sequential(loopbackStamp, 0)>>
    BY <1>3 DEF Sequential
  <2> QED BY <2>1, <2>2, <1>3, <1>5 DEF DES!Dispatch
<1>6. CASE LoopbackFirst
  <2> DEFINE e == First(loopbackQueue)
  <2>1. /\ loopbackQueue # EmptyHeap
        /\ clock' = e.time
        /\ loopbackQueue' = RemoveFirstBy(TRUE, loopbackQueue)
        /\ queue' = queue
    BY <1>3, <1>6 DEF LoopbackFirst, NextEvent, Dispatch, RemoveFirst
  <2>2. /\ e \in Items(loopbackQueue)
        /\ \A f \in Items(loopbackQueue) : NotAfter(TRUE, e, f)
        /\ QueueOf(TRUE, loopbackQueue', loopbackStamp, Event)
        /\ Items(loopbackQueue') = Items(loopbackQueue) \ {e}
    BY <1>1, <2>1, QueueRemove
  <2> HIDE DEF e
  <2>3. Items(loopbackQueue) \subseteq Event
    BY <1>1 DEF QueueOf
  <2>4. ASSUME NEW f \in Items(loopbackQueue) PROVE e.stamp <= f.stamp
    <3>1. Timed(e) /\ Timed(f) /\ e.time = f.time /\ NotAfter(TRUE, e, f)
      BY <2>2, <2>3, <1>2
    <3> QED BY <3>1 DEF NotAfter, Precedes, Less, Timed
  <2>5. DES!Dispatch(e)
    BY <2>1, <1>5
  <2>6. DES!DispatchLoopback
    BY <2>1, <2>2, <2>4, <2>5, <1>4 DEF DES!DispatchLoopback
  <2>7. NextEvent.time \in Nat
    BY <2>2, <2>3, <1>2, <1>6 DEF NextEvent, Timed, e
  <2>8. SequentialState'
    BY <1>1, <1>3, <2>7 DEF SequentialState
  <2> QED BY <2>1, <2>2, <2>6, <2>8, <1>1, <1>3
<1>7. CASE ~ LoopbackFirst
  <2> DEFINE e == First(queue)
  <2>1. /\ loopbackQueue = EmptyHeap /\ queue # EmptyHeap
        /\ clock' = e.time
        /\ queue' = RemoveFirstBy(TRUE, queue)
        /\ loopbackQueue' = loopbackQueue
    BY <1>3, <1>7 DEF LoopbackFirst, NextEvent, Dispatch, RemoveFirst, Waiting
  <2>2. /\ e \in Items(queue)
        /\ \A f \in Items(queue) : NotAfter(TRUE, e, f)
        /\ QueueOf(TRUE, queue', queueStamp, Event)
        /\ Items(queue') = Items(queue) \ {e}
    BY <1>1, <2>1, QueueRemove
  <2> HIDE DEF e
  <2>3. /\ Items(queue) \subseteq Event
        /\ \A f, g \in Items(queue) : f.stamp = g.stamp => f = g
        /\ Items(loopbackQueue) = {}
    BY <1>1, <2>1, EmptyQueue DEF QueueOf
  <2>4. ASSUME NEW f \in Items(queue), f # e PROVE DES!Before(e, f)
    <3>1. Timed(e) /\ Timed(f) /\ e.stamp # f.stamp /\ NotAfter(TRUE, e, f)
      BY <2>2, <2>3, <2>4, <1>2
    <3> QED BY <3>1 DEF NotAfter, Precedes, Less, Timed, DES!Before
  <2>5. DES!Dispatch(e)
    BY <2>1, <1>5
  <2>6. DES!DispatchTimed
    BY <2>1, <2>2, <2>3, <2>4, <2>5, <1>4 DEF DES!DispatchTimed
  <2>7. NextEvent.time \in Nat
    BY <2>2, <2>3, <1>2, <1>7 DEF NextEvent, Timed, e
  <2>8. SequentialState'
    BY <1>1, <1>3, <2>7 DEF SequentialState
  <2> QED BY <2>1, <2>2, <2>6, <2>8, <1>1, <1>3
<1> QED
  BY <1>6, <1>7

\* The steps that leave the heaps alone.
LEMMA SequentialControl ==
  ASSUME SequentialInv, Halt \/ Run \/ HandlerReturns \/ Stop, kind = "sequential", kind' = kind
  PROVE  /\ DES!Halt \/ DES!Run \/ DES!HandlerReturns \/ DES!Stop
         /\ SequentialState'
         /\ QueueOf(TRUE, queue, queueStamp, Event)'
         /\ QueueOf(TRUE, loopbackQueue, loopbackStamp, Event)'
<1>1. UNCHANGED <<maxClock, queue, loopbackQueue, queueStamp, loopbackStamp>>
  BY DEF Halt, Run, HandlerReturns, Stop
<1>2. UNCHANGED <<Sequential(Items(queue), {}), Sequential(Items(loopbackQueue), {}),
                  Sequential(queueStamp, 0), Sequential(loopbackStamp, 0)>>
  BY <1>1 DEF Sequential
<1>3. /\ Sequential(clock, 0) = clock /\ Sequential(clock, 0)' = clock'
      /\ Sequential(pc, "idle") = pc /\ Sequential(pc, "idle")' = pc'
      /\ Sequential(Items(queue), {}) = Items(queue)
      /\ Sequential(Items(loopbackQueue), {}) = Items(loopbackQueue)
  BY DEF Sequential
<1>4. Sequential(halted, FALSE) = halted /\ Sequential(halted, FALSE)' = halted'
  BY Zenon DEF Sequential
<1>5. SequentialState' /\ QueueOf(TRUE, queue, queueStamp, Event)'
        /\ QueueOf(TRUE, loopbackQueue, loopbackStamp, Event)'
  BY <1>1 DEF SequentialInv, SequentialState
<1>6. CASE Halt
  <2>1. DES!Halt
    BY <1>2, <1>3, <1>4, <1>6 DEF Halt, DES!Halt, Scheduling, DES!Scheduling
  <2> QED BY <2>1, <1>5
<1>7. CASE Run
  <2>1. DES!Run
    BY <1>2, <1>3, <1>4, <1>7 DEF Run, DES!Run
  <2> QED BY <2>1, <1>5
<1>8. CASE HandlerReturns
  <2>1. DES!HandlerReturns
    BY <1>2, <1>3, <1>4, <1>8 DEF HandlerReturns, DES!HandlerReturns
  <2> QED BY <2>1, <1>5
<1>9. CASE Stop
  <2>1. halted \/ (Items(queue) = {} /\ Items(loopbackQueue) = {})
    BY <1>9, EmptyQueue DEF Stop, Waiting, SequentialInv
  <2>2. DES!Stop
    BY <2>1, <1>2, <1>3, <1>4, <1>9 DEF Stop, DES!Stop
  <2> QED BY <2>2, <1>5
<1> QED
  BY <1>6, <1>7, <1>8, <1>9

\* Every step of the sequential simulator keeps the invariant and is a step of the
\* abstract one.
LEMMA SequentialStep ==
  ASSUME SequentialInv, Next, kind = "sequential", kind' = kind
  PROVE  SequentialInv' /\ DES!Next
<1>1. /\ DES!Next
      /\ SequentialState'
      /\ QueueOf(TRUE, queue, queueStamp, Event)'
      /\ QueueOf(TRUE, loopbackQueue, loopbackStamp, Event)'
  <2>1. CASE \E delay \in 0..MaxDelay : Schedule(delay)
    BY <2>1, SequentialSchedule DEF DES!Next
  <2>2. CASE Loopback
    BY <2>2, SequentialLoopback DEF DES!Next
  <2>3. CASE Dispatch
    BY <2>3, SequentialDispatch DEF DES!Next
  <2>4. CASE Halt \/ Run \/ HandlerReturns \/ Stop
    BY <2>4, SequentialControl DEF DES!Next
  <2> QED BY <2>1, <2>2, <2>3, <2>4 DEF Next
<1>2. OrderInv'
  BY <1>1, OrderIsKept DEF SequentialInv
<1> QED
  BY <1>1, <1>2 DEF SequentialInv

\* A heap has as many items as places, as none is there twice.
LEMMA ItemsAreCounted ==
  ASSUME NEW stamped, NEW h, NEW n \in Nat, HeapOf(stamped, h, n)
  PROVE  Cardinality(Items(h)) = n
<1> DEFINE f == [i \in 0..(n - 1) |-> h[i]]
<1>1. DOMAIN h = 0..(n - 1) /\ \A i, j \in 0..(n - 1) : h[i] = h[j] => i = j
  BY DEF HeapOf
<1>2. f \in Bijection(0..(n - 1), Items(h))
  <2>1. f \in [0..(n - 1) -> Items(h)]
    BY <1>1 DEF Items
  <2>2. \A x \in Items(h) : \E i \in 0..(n - 1) : f[i] = x
    BY <1>1 DEF Items
  <2>3. \A i, j \in 0..(n - 1) : f[i] = f[j] => i = j
    BY <1>1
  <2> HIDE DEF f
  <2> QED BY <2>1, <2>2, <2>3 DEF Bijection, Injection, Surjection, IsInjective
<1>3. IsFiniteSet(0..(n - 1)) /\ Cardinality(0..(n - 1)) = n
  <2>1. /\ IsFiniteSet(0..(n - 1))
        /\ Cardinality(0..(n - 1)) = IF 0 <= n - 1 THEN (n - 1) - 0 + 1 ELSE 0
    BY FS_Interval
  <2> QED BY <2>1
<1>4. ExistsBijection(0..(n - 1), Items(h))
  BY <1>2 DEF ExistsBijection
<1> QED
  BY <1>3, <1>4, FS_Bijection

\* The invariant of the sequential simulator contains the properties of its heaps.
LEMMA SequentialHeapsOrdered ==
  ASSUME SequentialInv, kind = "sequential"
  PROVE  TypeOK /\ HeapOrdered
<1>1. /\ QueueOf(TRUE, queue, queueStamp, Event)
      /\ QueueOf(TRUE, loopbackQueue, loopbackStamp, Event)
  BY DEF SequentialInv
<1>2. ASSUME NEW h, NEW count, QueueOf(TRUE, h, count, Event)
      PROVE  IsHeap(h) /\ \A i \in DOMAIN h \ {0} : Less(h[Parent(i)], h[i])
  <2>1. /\ Count(h) \in Nat /\ HeapOf(TRUE, h, Count(h)) /\ Items(h) \subseteq Event
        /\ \A e, f \in Items(h) : e.stamp = f.stamp => e = f
    BY <1>2 DEF QueueOf
  <2>2. IsHeap(h)
    BY <2>1, ItemsAreCounted DEF IsHeap, HeapOf
  <2>3. ASSUME NEW i \in DOMAIN h \ {0} PROVE Less(h[Parent(i)], h[i])
    <3>1. DOMAIN h = 0..(Count(h) - 1) /\ i \in 1..(Count(h) - 1) /\ i \in DOMAIN h
      BY <2>1 DEF HeapOf
    <3>2. Parent(i) \in DOMAIN h /\ Parent(i) # i
      BY <3>1, <2>1, ParentProperties
    <3>3. Timed(h[i]) /\ Timed(h[Parent(i)]) /\ NotAfter(TRUE, h[Parent(i)], h[i]) /\ h[i] # h[Parent(i)]
      BY <2>1, <3>1, <3>2 DEF HeapOf
    <3>4. h[i].stamp # h[Parent(i)].stamp
      BY <2>1, <3>1, <3>2, <3>3 DEF Items
    <3> QED BY <3>3, <3>4 DEF NotAfter, Precedes, Less, Timed
  <2> QED BY <2>2, <2>3
<1>3. IsHeap(queue) /\ IsHeap(loopbackQueue) /\ HeapOrdered
  BY <1>1, <1>2 DEF HeapOrdered
<1>4. /\ clock \in Nat /\ pc \in {"idle", "loop", "handling"} /\ halted \in BOOLEAN
  BY SequentialTypes
<1>5. TypeOK
  BY <1>3, <1>4 DEF TypeOK, SequentialInv, SequentialState
<1> QED
  BY <1>3, <1>5
-----------------------------------------------------------------------------
(***************************************************************************)
(* The concurrent simulator.                                               *)
(***************************************************************************)

TargetedEvent == [time : Nat, stamp : Nat, target : Target]

Sorted(s) == \A i, j \in 1..Len(s) : i <= j => s[i].time <= s[j].time
WithoutRepetition(s) == \A i, j \in 1..Len(s) : s[i] = s[j] => i = j

Active == {g \in Target : worker[g] # "none"}

Taking == pc \in {"peek", "take", "launch"}

ConcurrentState ==
  /\ clock \in Nat /\ t \in Nat /\ halted \in BOOLEAN
  /\ queueStamp \in Nat /\ loopbackStamp \in Nat
  /\ pc \in {"idle", "test", "peek", "take", "launch", "wait"}
  /\ worker \in [Target -> {"none", "ready", "handling"}]
  /\ activeCount = Cardinality(Active)

ConcurrentQueues ==
  /\ QueueOf(FALSE, queue, queueStamp, TargetedEvent)
  /\ QueueOf(FALSE, loopbackQueue, loopbackStamp, TargetedEvent)

\* The clock is behind while the events of a tick are taken, and nobody can halt then.
TickInv ==
  /\ Taking => ~ halted
  /\ pc # "idle" => t >= 1
  /\ (Taking \/ pc = "test") /\ t > 1 => clock = t - 1
  /\ pc = "wait" => clock = t

\* What has been taken is due and was ahead of what is left; in the end nothing that is
\* left is due.
TakenInv ==
  /\ taken \in Seq(TargetedEvent)
  /\ Sorted(taken) /\ WithoutRepetition(taken)
  /\ ~ Taking => taken = <<>>
  /\ \A i \in 1..Len(taken) :
       /\ taken[i].time <= t
       /\ \A e \in Items(queue) : taken[i].time <= e.time /\ taken[i] # e
  /\ pc = "take" => queue # EmptyHeap /\ IsDue(First(queue))
  /\ pc = "launch" => \A e \in Items(queue) : e.time > t

\* A worker handles the events of its own target, and there are workers only while
\* the main thread waits for them.
WorkInv ==
  /\ work \in [Target -> Seq(TargetedEvent)]
  /\ \A g \in Target :
       /\ Sorted(work[g]) /\ WithoutRepetition(work[g])
       /\ \A i \in 1..Len(work[g]) : work[g][i].target = g
       /\ worker[g] = "none" => work[g] = <<>>
       /\ worker[g] = "handling" => work[g] # <<>>
       /\ pc # "wait" => worker[g] = "none"

ConcurrentInv == ConcurrentState /\ ConcurrentQueues /\ TickInv /\ TakenInv /\ WorkInv

-----------------------------------------------------------------------------
(***************************************************************************)
(* The groups of the events of a tick.                                     *)
(***************************************************************************)

IsUpto(f, s, g) ==
  \A n \in 0..Len(s) :
    f[n] = IF n = 0 THEN <<>>
           ELSE IF s[n].target = g THEN Append(f[n - 1], s[n]) ELSE f[n - 1]

\* The events of the group g among the first n of s.
GroupUpto(r, s, n, g) ==
  /\ r \in Seq(TargetedEvent) /\ Sorted(r) /\ WithoutRepetition(r)
  /\ \A i \in 1..Len(r) : \E k \in 1..n : r[i] = s[k] /\ s[k].target = g
  /\ \A k \in 1..n : s[k].target = g => \E i \in 1..Len(r) : r[i] = s[k]

\* The recursion of Group has a solution.
LEMMA GroupExists ==
  ASSUME NEW s \in Seq(TargetedEvent), NEW g
  PROVE  \E f \in [0..Len(s) -> Seq(TargetedEvent)] : IsUpto(f, s, g)
<1> DEFINE D == 0..Len(s)
           X == Seq(TargetedEvent)
           C == 1..Len(s)
           rank == [n \in D |-> n]
           next == [n \in C |-> n - 1]
           base == [n \in D |-> <<>>]
           step == [n \in D |-> [x \in X |-> IF n \in C /\ s[n].target = g THEN Append(x, s[n]) ELSE x]]
<1>1. C \in SUBSET D /\ rank \in [D -> 0..Len(s)] /\ Len(s) \in Nat /\ next \in [C -> D]
  OBVIOUS
<1>2. base \in [D -> X]
  OBVIOUS
<1>3. step \in [D -> [X -> X]]
  <2>1. ASSUME NEW n \in C, NEW x \in X PROVE Append(x, s[n]) \in X
    <3>1. s[n] \in TargetedEvent
      OBVIOUS
    <3> QED BY <3>1
  <2> HIDE DEF X, C
  <2> QED BY <2>1
<1>4. \A n \in C : rank[next[n]] < rank[n]
  OBVIOUS
<1>5. PICK f \in [D -> X] : SL!IsDescent(f, D, C, base, step, next)
  <2> HIDE DEF D, C, rank, next, base, step, X
  <2> QED BY <1>1, <1>2, <1>3, <1>4, SL!DescentExists
<1>6. ASSUME NEW n \in D
      PROVE  f[n] = IF n = 0 THEN <<>>
                    ELSE IF s[n].target = g THEN Append(f[n - 1], s[n]) ELSE f[n - 1]
  <2>1. f[n] = IF n \in C THEN step[n][f[next[n]]] ELSE base[n]
    BY <1>5 DEF SL!IsDescent
  <2>2. CASE n \in C
    <3>1. next[n] = n - 1 /\ n - 1 \in D /\ n # 0
      BY <2>2
    <3>2. f[n - 1] \in X
      BY <3>1, <1>5
    <3>3. step[n][f[n - 1]] = IF s[n].target = g THEN Append(f[n - 1], s[n]) ELSE f[n - 1]
      BY <2>2, <3>2
    <3> HIDE DEF step, next
    <3> QED BY <2>1, <2>2, <3>1, <3>3
  <2>3. CASE n \notin C
    <3>1. n = 0
      BY <2>3
    <3> QED BY <2>1, <2>3, <3>1
  <2> QED BY <2>2, <2>3
<1> QED
  BY <1>5, <1>6 DEF IsUpto

\* One event more.
LEMMA GroupStep ==
  ASSUME NEW s \in Seq(TargetedEvent), Sorted(s), WithoutRepetition(s), NEW g,
         NEW n \in 1..Len(s), NEW r, GroupUpto(r, s, n - 1, g)
  PROVE  GroupUpto(IF s[n].target = g THEN Append(r, s[n]) ELSE r, s, n, g)
<1>1. /\ r \in Seq(TargetedEvent)
      /\ \A i, j \in 1..Len(r) : i <= j => r[i].time <= r[j].time
      /\ \A i, j \in 1..Len(r) : r[i] = r[j] => i = j
      /\ \A i \in 1..Len(r) : \E k \in 1..(n - 1) : r[i] = s[k] /\ s[k].target = g
      /\ \A k \in 1..(n - 1) : s[k].target = g => \E i \in 1..Len(r) : r[i] = s[k]
  BY DEF GroupUpto, Sorted, WithoutRepetition
<1>2. \A k \in 1..n : k \in 1..(n - 1) \/ k = n
  OBVIOUS
<1>3. CASE s[n].target # g
  <2>1. \A k \in 1..n : s[k].target = g => k \in 1..(n - 1)
    BY <1>2, <1>3
  <2>2. \A k \in 1..(n - 1) : k \in 1..n
    OBVIOUS
  <2>3. GroupUpto(r, s, n, g)
    BY <1>1, <2>1, <2>2 DEF GroupUpto, Sorted, WithoutRepetition
  <2> QED BY <2>3, <1>3
<1>4. CASE s[n].target = g
  <2> DEFINE q == Append(r, s[n])
  <2>1. /\ q \in Seq(TargetedEvent) /\ Len(q) = Len(r) + 1 /\ Len(r) \in Nat
        /\ \A i \in 1..Len(r) : q[i] = r[i]
        /\ q[Len(r) + 1] = s[n]
    BY <1>1
  <2>2. \A i \in 1..Len(q) : i \in 1..Len(r) \/ i = Len(r) + 1
    BY <2>1
  <2>3. \A i \in 1..Len(r) : r[i].time <= s[n].time /\ r[i] # s[n]
    <3>1. ASSUME NEW i \in 1..Len(r) PROVE r[i].time <= s[n].time /\ r[i] # s[n]
      <4>1. PICK k \in 1..(n - 1) : r[i] = s[k]
        BY <1>1
      <4>2. k \in 1..Len(s) /\ k <= n /\ k # n
        OBVIOUS
      <4> QED BY <4>1, <4>2 DEF Sorted, WithoutRepetition
    <3> QED BY <3>1
  <2>4. s[n].time <= s[n].time
    BY DEF Sorted
  <2> HIDE DEF q
  <2>5. Sorted(q)
    <3>1. ASSUME NEW i \in 1..Len(q), NEW j \in 1..Len(q), i <= j PROVE q[i].time <= q[j].time
      <4>1. CASE j \in 1..Len(r)
        <5>1. i \in 1..Len(r)
          BY <3>1, <4>1, <2>1
        <5> QED BY <5>1, <4>1, <3>1, <1>1, <2>1
      <4>2. CASE j = Len(r) + 1
        BY <4>2, <2>1, <2>2, <2>3, <2>4
      <4> QED BY <4>1, <4>2, <2>2
    <3> QED BY <3>1 DEF Sorted
  <2>6. WithoutRepetition(q)
    <3>1. ASSUME NEW i \in 1..Len(q), NEW j \in 1..Len(q), q[i] = q[j] PROVE i = j
      BY <3>1, <1>1, <2>1, <2>2, <2>3
    <3> QED BY <3>1 DEF WithoutRepetition
  <2>7. ASSUME NEW i \in 1..Len(q) PROVE \E k \in 1..n : q[i] = s[k] /\ s[k].target = g
    <3>1. CASE i = Len(r) + 1
      <4>1. n \in 1..n
        OBVIOUS
      <4> QED BY <4>1, <3>1, <1>4, <2>1
    <3>2. CASE i \in 1..Len(r)
      <4>1. PICK k \in 1..(n - 1) : r[i] = s[k] /\ s[k].target = g
        BY <3>2, <1>1
      <4>2. k \in 1..n
        OBVIOUS
      <4> QED BY <4>1, <4>2, <3>2, <2>1
    <3> QED BY <3>1, <3>2, <2>2
  <2>8. ASSUME NEW k \in 1..n, s[k].target = g PROVE \E i \in 1..Len(q) : q[i] = s[k]
    <3>1. CASE k = n
      <4>1. Len(r) + 1 \in 1..Len(q)
        BY <2>1
      <4> QED BY <4>1, <3>1, <2>1
    <3>2. CASE k \in 1..(n - 1)
      <4>1. PICK i \in 1..Len(r) : r[i] = s[k]
        BY <3>2, <2>8, <1>1
      <4>2. i \in 1..Len(q)
        BY <2>1
      <4> QED BY <4>1, <4>2, <2>1
    <3> QED BY <3>1, <3>2, <1>2
  <2>9. GroupUpto(q, s, n, g)
    BY <2>1, <2>5, <2>6, <2>7, <2>8 DEF GroupUpto
  <2> QED BY <2>9, <1>4 DEF q
<1> QED
  BY <1>3, <1>4

\* A group has the events of its target, in the order in which they were taken.
LEMMA GroupProperties ==
  ASSUME taken \in Seq(TargetedEvent), Sorted(taken), WithoutRepetition(taken), NEW g
  PROVE  /\ Group(g) \in Seq(TargetedEvent) /\ Sorted(Group(g)) /\ WithoutRepetition(Group(g))
         /\ \A i \in 1..Len(Group(g)) : Group(g)[i] \in Range(taken) /\ Group(g)[i].target = g
         /\ \A e \in Range(taken) : e.target = g => e \in Range(Group(g))
<1> DEFINE Def(f) == f = [n \in 0..Len(taken) |->
                           IF n = 0 THEN <<>>
                           ELSE IF taken[n].target = g THEN Append(f[n - 1], taken[n]) ELSE f[n - 1]]
           upto == CHOOSE f : Def(f)
<1>1. Group(g) = upto[Len(taken)]
  BY DEF Group
<1>2. Def(upto)
  <2>1. PICK f \in [0..Len(taken) -> Seq(TargetedEvent)] : IsUpto(f, taken, g)
    BY GroupExists
  <2>2. Def(f)
    BY <2>1 DEF IsUpto
  <2> HIDE DEF Def
  <2> QED BY <2>2
<1>3. IsUpto(upto, taken, g)
  <2> HIDE DEF upto
  <2> QED BY <1>2 DEF IsUpto
<1> HIDE DEF Def, upto
<1> DEFINE T == {n \in Nat : n \in 0..Len(taken) => GroupUpto(upto[n], taken, n, g)}
<1>4. 0 \in T
  <2>1. upto[0] = <<>>
    BY <1>3 DEF IsUpto
  <2>2. GroupUpto(<<>>, taken, 0, g)
    BY DEF GroupUpto, Sorted, WithoutRepetition
  <2> QED BY <2>1, <2>2
<1>5. ASSUME NEW n \in Nat, n \in T PROVE n + 1 \in T
  <2> SUFFICES ASSUME n + 1 \in 0..Len(taken) PROVE GroupUpto(upto[n + 1], taken, n + 1, g)
    OBVIOUS
  <2>1. n + 1 \in 1..Len(taken) /\ (n + 1) - 1 = n /\ n \in 0..Len(taken) /\ n + 1 # 0
    OBVIOUS
  <2>2. upto[n + 1] = IF taken[n + 1].target = g THEN Append(upto[n], taken[n + 1]) ELSE upto[n]
    BY <1>3, <2>1 DEF IsUpto
  <2>3. GroupUpto(upto[n], taken, n, g)
    BY <1>5, <2>1
  <2>4. GroupUpto(IF taken[n + 1].target = g THEN Append(upto[n], taken[n + 1]) ELSE upto[n], taken, n + 1, g)
    <3> DEFINE m == n + 1
    <3>1. m \in 1..Len(taken) /\ GroupUpto(upto[n], taken, m - 1, g)
      BY <2>1, <2>3
    <3> HIDE DEF m
    <3>2. GroupUpto(IF taken[m].target = g THEN Append(upto[n], taken[m]) ELSE upto[n], taken, m, g)
      BY <3>1, GroupStep
    <3> QED BY <3>2 DEF m
  <2> QED BY <2>2, <2>4
<1>6. Nat \subseteq T
  <2> HIDE DEF T
  <2> QED BY <1>4, <1>5, SL!SetInduction
<1>7. GroupUpto(Group(g), taken, Len(taken), g)
  <2>1. Len(taken) \in Nat /\ Len(taken) \in 0..Len(taken)
    OBVIOUS
  <2> QED BY <1>1, <1>6, <2>1
<1> HIDE DEF T
<1>8. DOMAIN taken = 1..Len(taken)
  OBVIOUS
<1>9. Group(g) \in Seq(TargetedEvent)
  BY <1>7 DEF GroupUpto
<1>10. DOMAIN Group(g) = 1..Len(Group(g))
  BY <1>9
<1>11. \A i \in 1..Len(Group(g)) : Group(g)[i] \in Range(taken) /\ Group(g)[i].target = g
  BY <1>7, <1>8 DEF GroupUpto, Range
<1>12. \A e \in Range(taken) : e.target = g => e \in Range(Group(g))
  <2>1. ASSUME NEW e \in Range(taken), e.target = g PROVE e \in Range(Group(g))
    <3>1. PICK k \in 1..Len(taken) : e = taken[k]
      BY <1>8 DEF Range
    <3>2. PICK i \in 1..Len(Group(g)) : Group(g)[i] = taken[k]
      BY <3>1, <2>1, <1>7 DEF GroupUpto
    <3> QED BY <3>1, <3>2, <1>10 DEF Range
  <2> QED BY <2>1
<1> QED
  BY <1>7, <1>11, <1>12 DEF GroupUpto


-----------------------------------------------------------------------------
(***************************************************************************)
(* The steps of the concurrent simulator.                                  *)
(***************************************************************************)

Phase(p, tick) == IF p = "idle" THEN "off" ELSE IF tick = 1 /\ p # "wait" THEN "starting" ELSE "on"

Busy == {Head(work[g]) : g \in {h \in Target : worker[h] = "handling"}}

\* What ParallelTicks sees of a step.
LEMMA ConcurrentView ==
  ASSUME kind = "concurrent", kind' = kind
  PROVE  /\ Concurrent(clock, 0) = clock /\ Concurrent(clock, 0)' = clock'
         /\ Concurrent(PhaseOfRun, "off") = Phase(pc, t) /\ Concurrent(PhaseOfRun, "off")' = Phase(pc', t')
         /\ Concurrent(halted, FALSE) = halted /\ Concurrent(halted, FALSE)' = halted'
         /\ Concurrent(Items(queue) \union Range(taken), {}) = Items(queue) \union Range(taken)
         /\ Concurrent(Items(queue) \union Range(taken), {})' = Items(queue') \union Range(taken')
<1>1. Concurrent(clock, 0) = clock /\ Concurrent(clock, 0)' = clock'
  BY DEF Concurrent
<1>2. Concurrent(PhaseOfRun, "off") = Phase(pc, t) /\ Concurrent(PhaseOfRun, "off")' = Phase(pc', t')
  BY DEF Concurrent, PhaseOfRun, Phase
<1>3. Concurrent(halted, FALSE) = halted /\ Concurrent(halted, FALSE)' = halted'
  BY Zenon DEF Concurrent
<1>4. /\ Concurrent(Items(queue) \union Range(taken), {}) = Items(queue) \union Range(taken)
      /\ Concurrent(Items(queue) \union Range(taken), {})' = Items(queue') \union Range(taken')
  BY DEF Concurrent
<1> QED
  BY <1>1, <1>2, <1>3, <1>4

\* Nothing is in the empty list.
LEMMA RangeOfNothing == Range(<<>>) = {}
BY DEF Range

\* Events with a target have a time and a stamp.
LEMMA TimedEvents == \A e \in TargetedEvent : Timed(e)
BY DEF TargetedEvent, Timed

\* Who calls the simulator does so while nothing is being taken.
LEMMA CallingInPhase ==
  ASSUME ConcurrentInv, Calling
  PROVE  /\ pc \in {"idle", "wait"} /\ ~ Taking /\ pc # "test" /\ taken = <<>>
         /\ Phase(pc, t) = "off" \/ Busy # {}
<1>1. pc \in {"idle", "wait"}
  BY DEF ConcurrentInv, WorkInv, Calling
<1>2. Phase(pc, t) = "off" \/ Busy # {}
  <2>1. CASE pc = "idle"
    BY <2>1 DEF Phase
  <2>2. CASE \E g \in Target : worker[g] = "handling"
    BY <2>2 DEF Busy
  <2> QED BY <2>1, <2>2 DEF Calling
<1>3. ~ Taking /\ pc # "test" /\ taken = <<>>
  BY <1>1 DEF Taking, ConcurrentInv, TakenInv
<1> QED
  BY <1>1, <1>2, <1>3

\* An empty list of taken events is in order.
LEMMA NothingTaken ==
  ASSUME taken' = <<>>, ~ Taking'
  PROVE  TakenInv'
<1>1. <<>> \in Seq(TargetedEvent) /\ Len(<<>>) = 0
  OBVIOUS
<1>2. Sorted(<<>>) /\ WithoutRepetition(<<>>)
  BY <1>1 DEF Sorted, WithoutRepetition
<1>3. pc' # "take" /\ pc' # "launch"
  BY DEF Taking
<1> QED
  BY <1>1, <1>2, <1>3 DEF TakenInv

\* An event is scheduled for a time that is not past.
LEMMA ConcurrentScheduleStep ==
  ASSUME ConcurrentInv, NEW delay \in 0..MaxDelay, NEW target \in Target,
         ConcurrentSchedule(delay, target), kind = "concurrent", kind' = kind
  PROVE  ConcurrentInv' /\ PT!Schedule
<1> DEFINE item == [time |-> clock + delay, stamp |-> queueStamp, target |-> target]
<1>1. clock \in Nat /\ queueStamp \in Nat /\ delay \in Nat
  BY BoundsAssumption DEF ConcurrentInv, ConcurrentState
<1>2. item \in TargetedEvent /\ Timed(item) /\ item.stamp = queueStamp /\ item.time >= clock
  BY <1>1 DEF TargetedEvent, Timed
<1>3. /\ Calling
      /\ queue' = UpHeap(FALSE, queue, Count(queue), item)
      /\ queueStamp' = queueStamp + 1
      /\ UNCHANGED <<clock, pc, halted, maxClock, loopbackQueue, loopbackStamp, t, taken, work, worker, activeCount>>
  BY DEF ConcurrentSchedule, Insert
<1>4. QueueOf(FALSE, queue, queueStamp, TargetedEvent)
  BY DEF ConcurrentInv, ConcurrentQueues
<1> HIDE DEF item
<1>5. QueueOf(FALSE, queue', queueStamp + 1, TargetedEvent) /\ HasAlso(queue', item, queue)
  <2>1. item \in TargetedEvent /\ Timed(item) /\ item.stamp = queueStamp /\ queueStamp \in Nat
    BY <1>1, <1>2
  <2>2. queue' = UpHeap(FALSE, queue, Count(queue), item)
    BY <1>3
  <2> QED BY <2>1, <2>2, <1>4, QueueAdd
<1>6. /\ pc \in {"idle", "wait"} /\ ~ Taking /\ pc # "test" /\ taken = <<>>
      /\ Phase(pc, t) = "off" \/ Busy # {}
  BY <1>3, CallingInPhase
<1>7. ConcurrentState' /\ TickInv' /\ WorkInv'
  BY <1>1, <1>3 DEF ConcurrentInv, ConcurrentState, TickInv, WorkInv, Taking, Active
<1>8. ConcurrentQueues'
  BY <1>3, <1>5 DEF ConcurrentInv, ConcurrentQueues
<1>9. TakenInv'
  <2>1. taken' = <<>> /\ ~ Taking'
    BY <1>3, <1>6 DEF Taking
  <2> QED BY <2>1, NothingTaken
<1>10. PT!Schedule
  <2>1. PT!Calling
    BY <1>6, ConcurrentView DEF PT!Calling, Busy
  <2>2. UNCHANGED <<Concurrent(clock, 0), Concurrent(PhaseOfRun, "off"), Concurrent(halted, FALSE), Launched, Busy>>
    BY <1>3, ConcurrentView DEF Launched, Busy
  <2>3. Items(queue') = Items(queue) \union {item} /\ item \notin Items(queue)
    BY <1>5 DEF HasAlso
  <2>4. Range(taken) = {} /\ Range(taken') = {}
    BY <1>3, <1>6, RangeOfNothing
  <2>5. Concurrent(Items(queue) \union Range(taken), {})' \ Concurrent(Items(queue) \union Range(taken), {}) = {item}
    BY <2>3, <2>4, ConcurrentView
  <2>6. Concurrent(Items(queue) \union Range(taken), {})' = Concurrent(Items(queue) \union Range(taken), {}) \union {item}
    BY <2>3, <2>4, ConcurrentView
  <2> QED BY <2>1, <2>2, <2>5, <2>6, <1>2, ConcurrentView DEF PT!Schedule, Busy
<1> QED
  BY <1>7, <1>8, <1>9, <1>10 DEF ConcurrentInv

\* The ticks do not see the loopbacks, which nothing takes.
LEMMA ConcurrentLoopbackStep ==
  ASSUME ConcurrentInv, NEW target \in Target,
         ConcurrentLoopback(target), kind = "concurrent", kind' = kind
  PROVE  ConcurrentInv' /\ UNCHANGED PT!vars
<1> DEFINE item == [time |-> clock, stamp |-> loopbackStamp, target |-> target]
<1>1. clock \in Nat /\ loopbackStamp \in Nat
  BY DEF ConcurrentInv, ConcurrentState
<1>2. item \in TargetedEvent /\ Timed(item) /\ item.stamp = loopbackStamp
  BY <1>1 DEF TargetedEvent, Timed
<1>3. /\ loopbackQueue' = UpHeap(FALSE, loopbackQueue, Count(loopbackQueue), item)
      /\ loopbackStamp' = loopbackStamp + 1
      /\ UNCHANGED <<clock, pc, halted, maxClock, queue, queueStamp, t, taken, work, worker, activeCount>>
  BY DEF ConcurrentLoopback, Insert
<1>4. QueueOf(FALSE, loopbackQueue, loopbackStamp, TargetedEvent)
  BY DEF ConcurrentInv, ConcurrentQueues
<1> HIDE DEF item
<1>5. QueueOf(FALSE, loopbackQueue', loopbackStamp + 1, TargetedEvent) /\ HasAlso(loopbackQueue', item, loopbackQueue)
  <2>1. item \in TargetedEvent /\ Timed(item) /\ item.stamp = loopbackStamp /\ loopbackStamp \in Nat
    BY <1>1, <1>2
  <2>2. loopbackQueue' = UpHeap(FALSE, loopbackQueue, Count(loopbackQueue), item)
    BY <1>3
  <2> QED BY <2>1, <2>2, <1>4, QueueAdd
<1>6. ConcurrentState' /\ TickInv' /\ WorkInv' /\ TakenInv'
  <2>1. ConcurrentState'
    BY <1>1, <1>3 DEF ConcurrentInv, ConcurrentState, Active
  <2>2. TickInv' /\ WorkInv'
    BY <1>3 DEF ConcurrentInv, TickInv, WorkInv, Taking
  <2>3. TakenInv'
    BY <1>3 DEF ConcurrentInv, TakenInv, Taking, IsDue
  <2> QED BY <2>1, <2>2, <2>3
<1>7. ConcurrentQueues'
  BY <1>3, <1>5 DEF ConcurrentInv, ConcurrentQueues
<1>8. UNCHANGED PT!vars
  BY <1>3, ConcurrentView DEF PT!vars, Launched
<1> QED
  BY <1>6, <1>7, <1>8 DEF ConcurrentInv

\* Halt, the program's Reset and the start of a run.
LEMMA ConcurrentCallStep ==
  ASSUME ConcurrentInv, ConcurrentHalt \/ Reset \/ StartRun, kind = "concurrent", kind' = kind
  PROVE  ConcurrentInv' /\ (PT!Halt \/ PT!Reset \/ PT!Start)
<1>1. UNCHANGED <<queue, loopbackQueue, queueStamp, loopbackStamp, taken, work, worker, activeCount>>
  BY DEF ConcurrentHalt, Reset, StartRun
<1>2. ConcurrentQueues'
  BY <1>1 DEF ConcurrentInv, ConcurrentQueues
<1>3. UNCHANGED <<Launched, Busy, Items(queue) \union Range(taken)>>
  BY <1>1 DEF Launched, Busy
<1>4. UNCHANGED Concurrent(Items(queue) \union Range(taken), {})
  BY <1>3, ConcurrentView
<1>5. CASE ConcurrentHalt
  <2>1. Calling /\ halted' = TRUE /\ UNCHANGED <<clock, pc, t>>
    BY <1>5 DEF ConcurrentHalt
  <2>2. /\ pc \in {"idle", "wait"} /\ ~ Taking /\ pc # "test" /\ taken = <<>>
        /\ Phase(pc, t) = "off" \/ Busy # {}
    BY <2>1, CallingInPhase
  <2>3. ConcurrentState' /\ TickInv' /\ WorkInv' /\ TakenInv'
    BY <1>1, <2>1, <2>2 DEF ConcurrentInv, ConcurrentState, TickInv, TakenInv, WorkInv, Taking, Active
  <2>4. PT!Halt
    BY <1>3, <1>4, <2>1, <2>2, ConcurrentView DEF PT!Halt, PT!Calling, Busy
  <2> QED BY <1>2, <2>3, <2>4 DEF ConcurrentInv
<1>6. CASE Reset
  <2>1. pc = "idle" /\ halted' = FALSE /\ clock' = 0 /\ UNCHANGED <<pc, t>>
    BY <1>6 DEF Reset
  <2>2. ConcurrentState' /\ TickInv' /\ WorkInv' /\ TakenInv'
    BY <1>1, <2>1 DEF ConcurrentInv, ConcurrentState, TickInv, TakenInv, WorkInv, Taking, Active
  <2>3. PT!Reset
    BY <1>3, <1>4, <2>1, ConcurrentView DEF PT!Reset, Busy, Phase
  <2> QED BY <1>2, <2>2, <2>3 DEF ConcurrentInv
<1>7. CASE StartRun
  <2>1. pc = "idle" /\ pc' = "test" /\ t' = 1 /\ UNCHANGED <<clock, halted>>
    BY <1>7 DEF StartRun
  <2>2. taken = <<>> /\ \A g \in Target : worker[g] = "none"
    BY <2>1 DEF ConcurrentInv, TakenInv, WorkInv, Taking
  <2>3. ConcurrentState' /\ TickInv' /\ WorkInv' /\ TakenInv'
    BY <1>1, <2>1, <2>2 DEF ConcurrentInv, ConcurrentState, TickInv, TakenInv, WorkInv, Taking, Active
  <2>4. PT!Start
    BY <1>3, <1>4, <2>1, ConcurrentView DEF PT!Start, Busy, Phase
  <2> QED BY <1>2, <2>3, <2>4 DEF ConcurrentInv
<1> QED
  BY <1>5, <1>6, <1>7

\* While nobody works nothing that was launched is left.
LEMMA NothingLaunched ==
  ASSUME ConcurrentInv, pc # "wait"
  PROVE  Launched = {} /\ Busy = {}
<1>1. \A g \in Target : worker[g] = "none" /\ work[g] = <<>>
  BY DEF ConcurrentInv, WorkInv
<1>2. Launched = {}
  BY <1>1, RangeOfNothing DEF Launched
<1>3. Busy = {}
  BY <1>1 DEF Busy
<1> QED
  BY <1>2, <1>3

\* A run that ends has nothing left, or was halted.
LEMMA ConcurrentTestStep ==
  ASSUME ConcurrentInv, Test, kind = "concurrent", kind' = kind
  PROVE  ConcurrentInv' /\ (PT!Stop \/ UNCHANGED PT!vars)
<1>1. /\ pc = "test"
      /\ pc' = IF ~ halted /\ queue # EmptyHeap THEN "peek" ELSE "idle"
      /\ UNCHANGED <<clock, halted, queue, loopbackQueue, queueStamp, loopbackStamp, t, taken, work, worker, activeCount>>
  BY DEF Test
<1>2. /\ taken = <<>> /\ (\A g \in Target : worker[g] = "none")
      /\ t \in Nat /\ t >= 1 /\ (t > 1 => clock = t - 1)
      /\ Launched = {} /\ Busy = {}
  BY <1>1, NothingLaunched DEF ConcurrentInv, ConcurrentState, TakenInv, TickInv, WorkInv, Taking
<1>3. ConcurrentQueues' /\ ConcurrentState'
  BY <1>1 DEF ConcurrentInv, ConcurrentQueues, ConcurrentState, Active
<1>4. TakenInv' /\ WorkInv' /\ TickInv'
  <2>1. TakenInv'
    BY <1>1, <1>2 DEF ConcurrentInv, TakenInv, Taking
  <2>2. WorkInv'
    BY <1>1, <1>2 DEF ConcurrentInv, WorkInv
  <2>3. TickInv'
    BY <1>1, <1>2 DEF TickInv, Taking
  <2> QED BY <2>1, <2>2, <2>3
<1>5. UNCHANGED <<Launched, Busy, Concurrent(Items(queue) \union Range(taken), {}), Concurrent(clock, 0), Concurrent(halted, FALSE)>>
  BY <1>1, ConcurrentView DEF Launched, Busy
<1>6. CASE ~ halted /\ queue # EmptyHeap
  <2>1. UNCHANGED Concurrent(PhaseOfRun, "off")
    BY <1>1, <1>6, ConcurrentView DEF Phase
  <2> QED BY <2>1, <1>3, <1>4, <1>5 DEF PT!vars, ConcurrentInv, Busy
<1>7. CASE ~ (~ halted /\ queue # EmptyHeap)
  <2>1. halted \/ Items(queue) \union Range(taken) = {}
    BY <1>2, <1>7, EmptyQueue, RangeOfNothing DEF ConcurrentInv, ConcurrentQueues
  <2>2. Phase(pc, t) # "off" /\ Phase(pc', t') = "off"
    BY <1>1, <1>7 DEF Phase
  <2>3. PT!Stop
    BY <2>1, <2>2, <1>2, <1>5, ConcurrentView DEF PT!Stop, Busy
  <2> QED BY <2>3, <1>3, <1>4 DEF ConcurrentInv
<1> QED
  BY <1>6, <1>7

\* When the earliest event is not due, none is.
LEMMA ConcurrentPeekStep ==
  ASSUME ConcurrentInv, Peek, kind = "concurrent", kind' = kind
  PROVE  ConcurrentInv' /\ UNCHANGED PT!vars
<1>1. /\ pc = "peek"
      /\ pc' = IF queue # EmptyHeap /\ IsDue(First(queue)) THEN "take" ELSE "launch"
      /\ UNCHANGED <<clock, halted, queue, loopbackQueue, queueStamp, loopbackStamp, t, taken, work, worker, activeCount>>
  BY DEF Peek
<1>2. Taking /\ Taking'
  BY <1>1 DEF Taking
<1>3. ConcurrentQueues' /\ ConcurrentState' /\ TickInv' /\ WorkInv'
  BY <1>1, <1>2 DEF ConcurrentInv, ConcurrentQueues, ConcurrentState, TickInv, WorkInv, Active
<1>4. ASSUME pc' = "launch", NEW e \in Items(queue) PROVE e.time > t
  <2>1. QueueOf(FALSE, queue, queueStamp, TargetedEvent)
    BY DEF ConcurrentInv, ConcurrentQueues
  <2>2. queue # EmptyHeap /\ ~ IsDue(First(queue))
    BY <2>1, <1>1, <1>4, EmptyQueue
  <2>3. First(queue) \in Items(queue) /\ NotAfter(FALSE, First(queue), e)
    BY <2>1, <2>2, QueueRemove
  <2>4. Timed(First(queue)) /\ Timed(e)
    BY <2>1, <2>3, TimedEvents DEF QueueOf
  <2>5. t \in Nat
    BY DEF ConcurrentInv, ConcurrentState
  <2> QED BY <2>2, <2>3, <2>4, <2>5 DEF IsDue, NotAfter, Precedes, LessByTime, Timed
<1>5. TakenInv'
  <2>1. /\ taken' \in Seq(TargetedEvent) /\ Sorted(taken') /\ WithoutRepetition(taken')
        /\ \A i \in 1..Len(taken') :
             taken'[i].time <= t' /\ \A e \in Items(queue') : taken'[i].time <= e.time /\ taken'[i] # e
    BY <1>1 DEF ConcurrentInv, TakenInv
  <2>2. pc' = "take" => queue' # EmptyHeap /\ IsDue(First(queue))'
    BY <1>1 DEF IsDue
  <2>3. pc' = "launch" => \A e \in Items(queue') : e.time > t'
    BY <1>1, <1>4
  <2> QED BY <2>1, <2>2, <2>3, <1>2 DEF TakenInv
<1>6. UNCHANGED PT!vars
  BY <1>1, ConcurrentView DEF PT!vars, Phase, Launched
<1> QED
  BY <1>3, <1>5, <1>6 DEF ConcurrentInv

\* What is in a list with one more element.
LEMMA RangeOfAppend ==
  ASSUME NEW T, NEW s \in Seq(T), NEW e \in T
  PROVE  Range(Append(s, e)) = Range(s) \union {e}
<1>1. /\ DOMAIN s = 1..Len(s) /\ Len(s) \in Nat
      /\ DOMAIN Append(s, e) = 1..(Len(s) + 1)
      /\ \A i \in 1..Len(s) : Append(s, e)[i] = s[i]
      /\ Append(s, e)[Len(s) + 1] = e
  OBVIOUS
<1>2. \A i \in 1..(Len(s) + 1) : i \in 1..Len(s) \/ i = Len(s) + 1
  BY <1>1
<1>3. \A i \in 1..Len(s) : i \in 1..(Len(s) + 1)
  BY <1>1
<1>4. Len(s) + 1 \in 1..(Len(s) + 1)
  BY <1>1
<1>5. ASSUME NEW x \in Range(Append(s, e)) PROVE x \in Range(s) \union {e}
  BY <1>1, <1>2 DEF Range
<1>6. ASSUME NEW x \in Range(s) \union {e} PROVE x \in Range(Append(s, e))
  BY <1>1, <1>3, <1>4 DEF Range
<1> QED
  BY <1>5, <1>6

\* An event moves from the queue to the list, behind those that are not later.
LEMMA ConcurrentTakeStep ==
  ASSUME ConcurrentInv, Take, kind = "concurrent", kind' = kind
  PROVE  ConcurrentInv' /\ UNCHANGED PT!vars
<1> DEFINE e == First(queue)
<1>1. /\ pc = "take" /\ pc' = "peek"
      /\ queue # EmptyHeap
      /\ taken' = Append(taken, e)
      /\ queue' = RemoveFirstBy(FALSE, queue)
      /\ UNCHANGED <<clock, halted, loopbackQueue, queueStamp, loopbackStamp, t, work, worker, activeCount>>
  BY DEF Take, Remove
<1>2. Taking /\ Taking'
  BY <1>1 DEF Taking
<1>3. QueueOf(FALSE, queue, queueStamp, TargetedEvent)
  BY DEF ConcurrentInv, ConcurrentQueues
<1>4. /\ e \in Items(queue)
      /\ \A f \in Items(queue) : NotAfter(FALSE, e, f)
      /\ QueueOf(FALSE, queue', queueStamp, TargetedEvent)
      /\ Items(queue') = Items(queue) \ {e}
  BY <1>1, <1>3, QueueRemove
<1>5. /\ taken \in Seq(TargetedEvent) /\ Sorted(taken) /\ WithoutRepetition(taken)
      /\ \A i \in 1..Len(taken) :
           taken[i].time <= t /\ \A f \in Items(queue) : taken[i].time <= f.time /\ taken[i] # f
      /\ e.time <= t
  BY <1>1 DEF ConcurrentInv, TakenInv, IsDue
<1> HIDE DEF e
<1>6. Items(queue) \subseteq TargetedEvent /\ e \in TargetedEvent
  BY <1>3, <1>4 DEF QueueOf
<1>7. \A f \in Items(queue) : e.time <= f.time
  <2>1. ASSUME NEW f \in Items(queue) PROVE e.time <= f.time
    <3>1. Timed(e) /\ Timed(f) /\ NotAfter(FALSE, e, f)
      BY <1>4, <1>6, TimedEvents
    <3> QED BY <3>1 DEF NotAfter, Precedes, LessByTime, Timed
  <2> QED BY <2>1
<1> DEFINE s == Append(taken, e)
<1>8. /\ s \in Seq(TargetedEvent) /\ Len(s) = Len(taken) + 1 /\ Len(taken) \in Nat
      /\ \A i \in 1..Len(taken) : s[i] = taken[i]
      /\ s[Len(taken) + 1] = e
  BY <1>5, <1>6
<1>9. Range(s) = Range(taken) \union {e}
  BY <1>5, <1>6, RangeOfAppend
<1> HIDE DEF s
<1>10. \A i \in 1..Len(s) : i \in 1..Len(taken) \/ i = Len(taken) + 1
  BY <1>8
<1>11. Sorted(s)
  <2>1. ASSUME NEW i \in 1..Len(s), NEW j \in 1..Len(s), i <= j PROVE s[i].time <= s[j].time
    <3>1. CASE j \in 1..Len(taken)
      <4>1. i \in 1..Len(taken)
        BY <2>1, <3>1, <1>8
      <4> QED BY <4>1, <3>1, <2>1, <1>5, <1>8 DEF Sorted
    <3>2. CASE j = Len(taken) + 1
      BY <3>2, <1>4, <1>5, <1>7, <1>8, <1>10
    <3> QED BY <3>1, <3>2, <1>10
  <2> QED BY <2>1 DEF Sorted
<1>12. WithoutRepetition(s)
  <2>1. ASSUME NEW i \in 1..Len(s), NEW j \in 1..Len(s), s[i] = s[j] PROVE i = j
    <3>1. \A k, l \in 1..Len(taken) : taken[k] = taken[l] => k = l
      BY <1>5 DEF WithoutRepetition
    <3>2. \A k \in 1..Len(taken) : taken[k] # e
      BY <1>4, <1>5
    <3> QED BY <2>1, <3>1, <3>2, <1>8, <1>10
  <2> QED BY <2>1 DEF WithoutRepetition
<1>13. ASSUME NEW i \in 1..Len(s)
       PROVE  s[i].time <= t /\ \A f \in Items(queue') : s[i].time <= f.time /\ s[i] # f
  <2>1. CASE i \in 1..Len(taken)
    BY <2>1, <1>4, <1>5, <1>8
  <2>2. CASE i = Len(taken) + 1
    BY <2>2, <1>4, <1>5, <1>7, <1>8
  <2> QED BY <2>1, <2>2, <1>10
<1>14. TakenInv'
  <2>1. taken' = s /\ t' = t /\ pc' # "take" /\ pc' # "launch"
    BY <1>1 DEF s
  <2> QED BY <2>1, <1>2, <1>8, <1>11, <1>12, <1>13 DEF TakenInv
<1>15. ConcurrentQueues'
  BY <1>1, <1>4 DEF ConcurrentInv, ConcurrentQueues
<1>16. ConcurrentState' /\ TickInv' /\ WorkInv'
  BY <1>1, <1>2 DEF ConcurrentInv, ConcurrentState, TickInv, WorkInv, Active
<1>17. UNCHANGED PT!vars
  <2>1. taken' = s
    BY <1>1 DEF s
  <2>2. Items(queue') \union Range(taken') = Items(queue) \union Range(taken)
    BY <2>1, <1>4, <1>9
  <2>3. Phase(pc', t') = Phase(pc, t)
    BY <1>1 DEF Phase
  <2>4. UNCHANGED <<clock, halted, work, worker, Launched>>
    BY <1>1 DEF Launched
  <2> QED BY <2>2, <2>3, <2>4, ConcurrentView DEF PT!vars
<1> QED
  BY <1>14, <1>15, <1>16, <1>17 DEF ConcurrentInv

\* The events of a tick are those that are due; they are given to the workers of their targets.
LEMMA ConcurrentLaunchStep ==
  ASSUME ConcurrentInv, Launch, kind = "concurrent", kind' = kind
  PROVE  ConcurrentInv' /\ PT!Tick
<1>1. /\ pc = "launch" /\ pc' = "wait"
      /\ clock' = t
      /\ work' = [g \in Target |-> Group(g)]
      /\ worker' = [g \in Target |-> IF Group(g) # <<>> THEN "ready" ELSE "none"]
      /\ activeCount' = Cardinality({e.target : e \in Range(taken)})
      /\ taken' = <<>>
      /\ UNCHANGED <<halted, queue, loopbackQueue, queueStamp, loopbackStamp, t>>
  BY DEF Launch
<1>2. Taking /\ ~ Taking'
  BY <1>1 DEF Taking
<1>3. /\ taken \in Seq(TargetedEvent) /\ Sorted(taken) /\ WithoutRepetition(taken)
      /\ \A i \in 1..Len(taken) : taken[i].time <= t
      /\ \A e \in Items(queue) : e.time > t
  BY <1>1 DEF ConcurrentInv, TakenInv
<1>4. /\ ~ halted /\ t \in Nat /\ t >= 1 /\ (t > 1 => clock = t - 1)
      /\ Launched = {} /\ Busy = {}
  BY <1>1, <1>2, NothingLaunched DEF ConcurrentInv, ConcurrentState, TickInv
<1>5. ASSUME NEW g
      PROVE  /\ Group(g) \in Seq(TargetedEvent) /\ Sorted(Group(g)) /\ WithoutRepetition(Group(g))
             /\ \A i \in 1..Len(Group(g)) : Group(g)[i] \in Range(taken) /\ Group(g)[i].target = g
             /\ \A e \in Range(taken) : e.target = g => e \in Range(Group(g))
  BY <1>3, GroupProperties
<1>6. \A e \in Range(taken) : e \in TargetedEvent /\ e.target \in Target /\ e.time <= t
  <2>1. ASSUME NEW e \in Range(taken) PROVE e \in TargetedEvent /\ e.target \in Target /\ e.time <= t
    <3>1. PICK i \in 1..Len(taken) : e = taken[i]
      BY <1>3 DEF Range
    <3>2. e \in TargetedEvent
      BY <3>1, <1>3
    <3> QED BY <3>1, <3>2, <1>3 DEF TargetedEvent
  <2> QED BY <2>1
<1>7. ASSUME NEW g, NEW e \in Range(Group(g)) PROVE e \in Range(taken) /\ e.target = g
  <2>1. DOMAIN Group(g) = 1..Len(Group(g))
    BY <1>5
  <2> QED BY <2>1, <1>5, <1>7 DEF Range
<1>8. Launched' = Range(taken)
  <2>1. ASSUME NEW e \in Launched' PROVE e \in Range(taken)
    <3>1. PICK g \in Target : e \in Range(Group(g))
      BY <1>1 DEF Launched
    <3> QED BY <3>1, <1>7
  <2>2. ASSUME NEW e \in Range(taken) PROVE e \in Launched'
    <3>1. e.target \in Target /\ e \in Range(Group(e.target))
      BY <1>5, <1>6
    <3> QED BY <3>1, <1>1 DEF Launched
  <2> QED BY <2>1, <2>2
<1>9. Busy' = {}
  BY <1>1 DEF Busy
<1>10. Active' = {e.target : e \in Range(taken)}
  <2>1. ASSUME NEW g \in Active' PROVE g \in {e.target : e \in Range(taken)}
    <3>1. g \in Target /\ Group(g) # <<>>
      BY <1>1 DEF Active
    <3>2. 1 \in 1..Len(Group(g))
      BY <3>1, <1>5
    <3> QED BY <3>2, <1>5
  <2>2. ASSUME NEW e \in Range(taken) PROVE e.target \in Active'
    <3>1. e.target \in Target /\ e \in Range(Group(e.target))
      BY <1>5, <1>6
    <3>2. Group(e.target) # <<>>
      BY <3>1, RangeOfNothing
    <3> QED BY <3>1, <3>2, <1>1 DEF Active
  <2> QED BY <2>1, <2>2
<1>11. ConcurrentState'
  <2>1. worker' \in [Target -> {"none", "ready", "handling"}]
    BY <1>1
  <2>2. activeCount' = Cardinality(Active')
    BY <1>1, <1>10
  <2> QED BY <2>1, <2>2, <1>1, <1>4 DEF ConcurrentInv, ConcurrentState
<1>12. ConcurrentQueues'
  BY <1>1 DEF ConcurrentInv, ConcurrentQueues
<1>13. TickInv'
  BY <1>1, <1>2, <1>4 DEF TickInv
<1>14. TakenInv'
  BY <1>1, <1>2, NothingTaken
<1>15. WorkInv'
  <2>1. work' \in [Target -> Seq(TargetedEvent)]
    BY <1>1, <1>5
  <2>2. ASSUME NEW g \in Target
        PROVE  /\ Sorted(work'[g]) /\ WithoutRepetition(work'[g])
               /\ \A i \in 1..Len(work'[g]) : work'[g][i].target = g
               /\ worker'[g] = "none" => work'[g] = <<>>
               /\ worker'[g] # "handling"
    BY <1>1, <1>5
  <2> QED BY <2>1, <2>2, <1>1 DEF WorkInv
<1>16. PT!Tick
  <2> DEFINE waiting == Items(queue) \union Range(taken)
  <2>1. Phase(pc, t) # "off" /\ Phase(pc', t') = "on" /\ (Phase(pc, t) = "starting" <=> t = 1)
    BY <1>1 DEF Phase
  <2>2. clock' = IF Phase(pc, t) = "starting" THEN 1 ELSE clock + 1
    BY <2>1, <1>1, <1>4
  <2>3. Launched' = {e \in waiting : e.time <= clock'}
    <3>1. \A e \in Items(queue) : ~ (e.time <= t)
      <4>1. ASSUME NEW e \in Items(queue) PROVE ~ (e.time <= t)
        <5>1. e \in TargetedEvent /\ e.time > t
          BY <1>3 DEF ConcurrentInv, ConcurrentQueues, QueueOf
        <5>2. e.time \in Nat
          BY <5>1 DEF TargetedEvent
        <5> QED BY <5>1, <5>2, <1>4
      <4> QED BY <4>1
    <3> QED BY <3>1, <1>1, <1>6, <1>8
  <2>4. Items(queue') \union Range(taken') = waiting \ Launched'
    <3>1. Range(taken') = {}
      BY <1>1, RangeOfNothing
    <3>2. \A e \in Items(queue) : e \notin Range(taken)
      <4>1. ASSUME NEW e \in Items(queue), e \in Range(taken) PROVE FALSE
        <5>1. e \in TargetedEvent /\ e.time > t /\ e.time <= t
          BY <4>1, <1>3, <1>6
        <5>2. e.time \in Nat
          BY <5>1 DEF TargetedEvent
        <5> QED BY <5>1, <5>2, <1>4
      <4> QED BY <4>1
    <3> QED BY <3>1, <3>2, <1>1, <1>8
  <2> HIDE DEF waiting
  <2>5. /\ Concurrent(Items(queue) \union Range(taken), {}) = waiting
        /\ Concurrent(Items(queue) \union Range(taken), {})' = waiting \ Launched'
    BY <2>4, ConcurrentView DEF waiting
  <2>6. /\ Concurrent(clock, 0) = clock /\ Concurrent(clock, 0)' = clock'
        /\ Concurrent(PhaseOfRun, "off") = Phase(pc, t) /\ Concurrent(PhaseOfRun, "off")' = Phase(pc', t')
    BY ConcurrentView
  <2>7. ~ Concurrent(halted, FALSE) /\ UNCHANGED Concurrent(halted, FALSE)
    BY <1>1, <1>4, ConcurrentView
  <2>8. Launched = {} /\ UNCHANGED Busy
    BY <1>4, <1>9
  <2> QED BY <2>1, <2>2, <2>3, <2>5, <2>6, <2>7, <2>8 DEF PT!Tick, Busy
<1> QED
  BY <1>11, <1>12, <1>13, <1>14, <1>15, <1>16 DEF ConcurrentInv

\* There are finitely many workers.
LEMMA TargetsAreFinite == IsFiniteSet(Active) /\ IsFiniteSet(Active')
<1>1. Active \subseteq Target /\ Active' \subseteq Target
  BY DEF Active
<1> QED
  BY <1>1, TargetAssumption, FS_Subset

\* When the count is zero all workers are done.
LEMMA ConcurrentNextTickStep ==
  ASSUME ConcurrentInv, NextTick, kind = "concurrent", kind' = kind
  PROVE  ConcurrentInv' /\ UNCHANGED PT!vars
<1>1. /\ pc = "wait" /\ pc' = "test"
      /\ activeCount = 0
      /\ t' = t + 1
      /\ UNCHANGED <<clock, halted, queue, loopbackQueue, queueStamp, loopbackStamp, taken, work, worker, activeCount>>
  BY DEF NextTick
<1>2. /\ ~ Taking /\ ~ Taking' /\ taken = <<>>
      /\ t \in Nat /\ t >= 1 /\ clock = t
      /\ activeCount = Cardinality(Active)
  BY <1>1 DEF Taking, ConcurrentInv, TakenInv, ConcurrentState, TickInv
<1>3. \A g \in Target : worker[g] = "none"
  <2>1. Active = {}
    BY <1>1, <1>2, TargetsAreFinite, FS_EmptySet
  <2> QED BY <2>1 DEF Active
<1>4. ConcurrentState' /\ ConcurrentQueues'
  <2>1. Active' = Active
    BY <1>1 DEF Active
  <2>2. t' \in Nat
    BY <1>1, <1>2
  <2>3. ConcurrentState'
    BY <1>1, <2>1, <2>2 DEF ConcurrentInv, ConcurrentState
  <2>4. ConcurrentQueues'
    BY <1>1 DEF ConcurrentInv, ConcurrentQueues
  <2> QED BY <2>3, <2>4
<1>5. TickInv'
  BY <1>1, <1>2 DEF TickInv
<1>6. TakenInv'
  BY <1>1, <1>2, NothingTaken
<1>7. WorkInv'
  BY <1>1, <1>3 DEF ConcurrentInv, WorkInv
<1>8. UNCHANGED PT!vars
  <2>1. Phase(pc', t') = Phase(pc, t)
    BY <1>1, <1>2 DEF Phase
  <2> QED BY <2>1, <1>1, ConcurrentView DEF PT!vars, Launched
<1> QED
  BY <1>4, <1>5, <1>6, <1>7, <1>8 DEF ConcurrentInv

\* What is in a list without its first element.
LEMMA TailOf ==
  ASSUME NEW T, NEW s \in Seq(T), s # <<>>
  PROVE  /\ Tail(s) \in Seq(T) /\ Len(Tail(s)) = Len(s) - 1 /\ Len(s) \in Nat /\ Len(s) >= 1
         /\ \A i \in 1..Len(Tail(s)) : Tail(s)[i] = s[i + 1]
         /\ Head(s) = s[1]
         /\ Range(s) = Range(Tail(s)) \union {Head(s)}
<1>1. /\ Tail(s) \in Seq(T) /\ Len(Tail(s)) = Len(s) - 1 /\ Len(s) \in Nat /\ Len(s) >= 1
      /\ \A i \in 1..Len(Tail(s)) : Tail(s)[i] = s[i + 1]
      /\ Head(s) = s[1]
      /\ DOMAIN s = 1..Len(s) /\ DOMAIN Tail(s) = 1..Len(Tail(s))
  OBVIOUS
<1>2. \A i \in 1..Len(Tail(s)) : i + 1 \in 1..Len(s)
  BY <1>1
<1>3. \A i \in 1..Len(s) : i = 1 \/ (i - 1 \in 1..Len(Tail(s)) /\ (i - 1) + 1 = i)
  BY <1>1
<1>4. 1 \in 1..Len(s)
  BY <1>1
<1>5. ASSUME NEW x \in Range(s) PROVE x \in Range(Tail(s)) \union {Head(s)}
  <2>1. PICK i \in 1..Len(s) : x = s[i]
    BY <1>1 DEF Range
  <2>2. CASE i - 1 \in 1..Len(Tail(s)) /\ (i - 1) + 1 = i
    <3>1. Tail(s)[i - 1] = s[i]
      BY <2>2, <1>1
    <3> QED BY <3>1, <2>1, <2>2, <1>1 DEF Range
  <2> QED BY <2>1, <2>2, <1>1, <1>3
<1>6. ASSUME NEW x \in Range(Tail(s)) \union {Head(s)} PROVE x \in Range(s)
  BY <1>1, <1>2, <1>4 DEF Range
<1> QED
  BY <1>1, <1>5, <1>6

\* The events that are left to a worker, the first of which is not later than the others.
LEMMA WorkOfTarget ==
  ASSUME ConcurrentInv, NEW g \in Target
  PROVE  /\ work[g] \in Seq(TargetedEvent)
         /\ \A f \in Range(work[g]) : f \in TargetedEvent /\ f.target = g /\ f \in Launched
         /\ work[g] # <<>> =>
              /\ Head(work[g]) \in Range(work[g])
              /\ \A f \in Range(work[g]) : Head(work[g]).time <= f.time
              /\ Head(work[g]) \notin Range(Tail(work[g]))
<1>1. /\ work[g] \in Seq(TargetedEvent)
      /\ \A i, j \in 1..Len(work[g]) : i <= j => work[g][i].time <= work[g][j].time
      /\ \A i, j \in 1..Len(work[g]) : work[g][i] = work[g][j] => i = j
      /\ \A i \in 1..Len(work[g]) : work[g][i].target = g
  BY DEF ConcurrentInv, WorkInv, Sorted, WithoutRepetition
<1>2. DOMAIN work[g] = 1..Len(work[g]) /\ \A i \in 1..Len(work[g]) : work[g][i] \in TargetedEvent
  BY <1>1
<1>3. \A f \in Range(work[g]) : f \in TargetedEvent /\ f.target = g /\ f \in Launched
  BY <1>1, <1>2 DEF Range, Launched
<1>4. ASSUME work[g] # <<>>
      PROVE  /\ Head(work[g]) \in Range(work[g])
             /\ \A f \in Range(work[g]) : Head(work[g]).time <= f.time
             /\ Head(work[g]) \notin Range(Tail(work[g]))
  <2>1. /\ Tail(work[g]) \in Seq(TargetedEvent) /\ Len(Tail(work[g])) = Len(work[g]) - 1
        /\ Len(work[g]) \in Nat /\ Len(work[g]) >= 1
        /\ \A i \in 1..Len(Tail(work[g])) : Tail(work[g])[i] = work[g][i + 1]
        /\ Head(work[g]) = work[g][1]
    BY <1>1, <1>4, TailOf
  <2>2. 1 \in 1..Len(work[g]) /\ \A i \in 1..Len(work[g]) : 1 <= i
    BY <2>1
  <2>3. Head(work[g]) \in Range(work[g]) /\ \A f \in Range(work[g]) : Head(work[g]).time <= f.time
    BY <1>1, <1>2, <2>1, <2>2 DEF Range
  <2>4. \A i \in 1..Len(Tail(work[g])) : Tail(work[g])[i] # Head(work[g])
    <3>1. ASSUME NEW i \in 1..Len(Tail(work[g])) PROVE Tail(work[g])[i] # Head(work[g])
      <4>1. i + 1 \in 1..Len(work[g]) /\ i + 1 # 1
        BY <2>1
      <4> QED BY <4>1, <1>1, <2>1, <2>2
    <3> QED BY <3>1
  <2>5. DOMAIN Tail(work[g]) = 1..Len(Tail(work[g]))
    BY <2>1
  <2> QED BY <2>3, <2>4, <2>5 DEF Range
<1> QED
  BY <1>1, <1>3, <1>4

\* An event that is being handled is the first of its target's worker.
LEMMA BusyEvents ==
  ASSUME ConcurrentInv
  PROVE  \A f \in Busy :
           f.target \in Target /\ worker[f.target] = "handling" /\ f = Head(work[f.target]) /\ f \in Launched
<1>1. ASSUME NEW f \in Busy
      PROVE  f.target \in Target /\ worker[f.target] = "handling" /\ f = Head(work[f.target]) /\ f \in Launched
  <2>1. PICK h \in Target : worker[h] = "handling" /\ f = Head(work[h])
    BY <1>1 DEF Busy
  <2>2. work[h] # <<>>
    BY <2>1 DEF ConcurrentInv, WorkInv
  <2>3. f.target = h /\ f \in Launched
    BY <2>1, <2>2, WorkOfTarget
  <2> QED BY <2>1, <2>3
<1> QED
  BY <1>1

\* A worker begins with the earliest event of its target while no other event of it is handled.
LEMMA ConcurrentBeginStep ==
  ASSUME ConcurrentInv, NEW g \in Target, BeginHandle(g), kind = "concurrent", kind' = kind
  PROVE  ConcurrentInv' /\ \E e \in Launched \ Busy : PT!Begin(e)
<1>0. PICK e : e = Head(work[g])
  OBVIOUS
<1>1. /\ worker[g] = "ready" /\ work[g] # <<>>
      /\ worker' = [worker EXCEPT ![g] = "handling"]
      /\ UNCHANGED <<clock, pc, halted, queue, loopbackQueue, queueStamp, loopbackStamp, t, taken, work, activeCount>>
  BY DEF BeginHandle, vars
<1>2. worker \in [Target -> {"none", "ready", "handling"}]
  BY DEF ConcurrentInv, ConcurrentState
<1>3. /\ worker' \in [Target -> {"none", "ready", "handling"}]
      /\ worker'[g] = "handling"
      /\ \A h \in Target : h # g => worker'[h] = worker[h]
  BY <1>1, <1>2
<1>4. e \in Range(work[g]) /\ e.target = g /\ e \in Launched /\ \A f \in Range(work[g]) : e.time <= f.time
  BY <1>0, <1>1, WorkOfTarget
<1>5. e \notin Busy
  BY <1>1, <1>4, BusyEvents
<1>6. pc = "wait"
  BY <1>1 DEF ConcurrentInv, WorkInv
<1>7. ConcurrentState' /\ ConcurrentQueues' /\ TickInv' /\ TakenInv'
  <2>1. Active' = Active
    BY <1>1, <1>3 DEF Active
  <2>2. ConcurrentState'
    BY <1>1, <1>3, <2>1 DEF ConcurrentInv, ConcurrentState
  <2>3. ConcurrentQueues' /\ TickInv' /\ TakenInv'
    BY <1>1 DEF ConcurrentInv, ConcurrentQueues, TickInv, TakenInv, Taking, IsDue
  <2> QED BY <2>2, <2>3
<1>8. WorkInv'
  <2>1. ASSUME NEW h \in Target
        PROVE  /\ Sorted(work'[h]) /\ WithoutRepetition(work'[h])
               /\ \A i \in 1..Len(work'[h]) : work'[h][i].target = h
               /\ worker'[h] = "none" => work'[h] = <<>>
               /\ worker'[h] = "handling" => work'[h] # <<>>
    BY <1>1, <1>3 DEF ConcurrentInv, WorkInv
  <2>2. work' \in [Target -> Seq(TargetedEvent)]
    BY <1>1 DEF ConcurrentInv, WorkInv
  <2> QED BY <2>1, <2>2, <1>1, <1>6 DEF WorkInv
<1>9. Busy' = Busy \union {e}
  <2>1. ASSUME NEW f \in Busy' PROVE f \in Busy \union {e}
    BY <1>0, <1>1, <1>3 DEF Busy
  <2>2. ASSUME NEW f \in Busy \union {e} PROVE f \in Busy'
    BY <1>0, <1>1, <1>3 DEF Busy
  <2> QED BY <2>1, <2>2
<1>10. ASSUME NEW f \in Launched, f.target = e.target PROVE f \notin Busy /\ e.time <= f.time
  <2>1. PICK h \in Target : f \in Range(work[h])
    BY DEF Launched
  <2>2. h = g
    BY <2>1, <1>4, <1>10, WorkOfTarget
  <2>3. f \notin Busy
    BY <1>1, <1>4, <1>10, BusyEvents
  <2> QED BY <2>1, <2>2, <2>3, <1>4
<1>11. PT!Begin(e)
  <2>1. UNCHANGED <<Concurrent(clock, 0), Concurrent(PhaseOfRun, "off"), Concurrent(halted, FALSE),
                    Concurrent(Items(queue) \union Range(taken), {}), Launched>>
    BY <1>1, ConcurrentView DEF Launched
  <2> QED BY <2>1, <1>9, <1>10 DEF PT!Begin, Busy
<1> QED
  BY <1>4, <1>5, <1>7, <1>8, <1>11 DEF ConcurrentInv

\* A worker that ends an event drops it and no other.
LEMMA ConcurrentEndStep ==
  ASSUME ConcurrentInv, NEW g \in Target, EndHandle(g), kind = "concurrent", kind' = kind
  PROVE  ConcurrentInv' /\ \E e \in Busy : PT!End(e)
<1>0. PICK e : e = Head(work[g])
  OBVIOUS
<1> DEFINE s == Tail(work[g])
<1>1. /\ worker[g] = "handling"
      /\ worker' = [worker EXCEPT ![g] = "ready"]
      /\ work' = [work EXCEPT ![g] = s]
      /\ UNCHANGED <<clock, pc, halted, queue, loopbackQueue, queueStamp, loopbackStamp, t, taken, activeCount>>
  BY DEF EndHandle, vars
<1>2. /\ worker \in [Target -> {"none", "ready", "handling"}]
      /\ work \in [Target -> Seq(TargetedEvent)] /\ work[g] # <<>>
  BY <1>1 DEF ConcurrentInv, ConcurrentState, WorkInv
<1>3. /\ worker' \in [Target -> {"none", "ready", "handling"}]
      /\ worker'[g] = "ready"
      /\ \A h \in Target : h # g => worker'[h] = worker[h]
  BY <1>1, <1>2
<1>4. /\ s \in Seq(TargetedEvent) /\ Len(s) = Len(work[g]) - 1 /\ Len(work[g]) \in Nat /\ Len(work[g]) >= 1
      /\ \A i \in 1..Len(s) : s[i] = work[g][i + 1]
      /\ Range(work[g]) = Range(s) \union {e}
  BY <1>0, <1>2, TailOf
<1>5. /\ work' \in [Target -> Seq(TargetedEvent)]
      /\ work'[g] = s
      /\ \A h \in Target : h # g => work'[h] = work[h]
  BY <1>1, <1>2, <1>4
<1>6. e \in Range(work[g]) /\ e.target = g /\ e \in Launched /\ e \notin Range(s)
  BY <1>0, <1>2, WorkOfTarget
<1> HIDE DEF s
<1>7. pc = "wait"
  BY <1>1 DEF ConcurrentInv, WorkInv
<1>8. ConcurrentState' /\ ConcurrentQueues' /\ TickInv' /\ TakenInv'
  <2>1. Active' = Active
    BY <1>1, <1>3 DEF Active
  <2>2. ConcurrentState'
    BY <1>1, <1>3, <2>1 DEF ConcurrentInv, ConcurrentState
  <2>3. ConcurrentQueues' /\ TickInv' /\ TakenInv'
    BY <1>1 DEF ConcurrentInv, ConcurrentQueues, TickInv, TakenInv, Taking, IsDue
  <2> QED BY <2>2, <2>3
<1>9. Sorted(s) /\ WithoutRepetition(s) /\ \A i \in 1..Len(s) : s[i].target = g
  <2>1. /\ \A i, j \in 1..Len(work[g]) : i <= j => work[g][i].time <= work[g][j].time
        /\ \A i, j \in 1..Len(work[g]) : work[g][i] = work[g][j] => i = j
        /\ \A i \in 1..Len(work[g]) : work[g][i].target = g
    BY DEF ConcurrentInv, WorkInv, Sorted, WithoutRepetition
  <2>2. \A i \in 1..Len(s) : i + 1 \in 1..Len(work[g]) /\ i \in Int
    BY <1>4
  <2>3. \A i, j \in 1..Len(s) : (i <= j => i + 1 <= j + 1) /\ (i + 1 = j + 1 => i = j)
    BY <2>2
  <2>4. Sorted(s)
    <3>1. ASSUME NEW i \in 1..Len(s), NEW j \in 1..Len(s), i <= j
          PROVE  s[i].time <= s[j].time
      <4>1. work[g][i + 1].time <= work[g][j + 1].time
        BY <2>1, <2>2, <2>3, <3>1
      <4> QED BY <4>1, <1>4
    <3> QED BY <3>1 DEF Sorted
  <2>5. WithoutRepetition(s)
    <3>1. ASSUME NEW i \in 1..Len(s), NEW j \in 1..Len(s), s[i] = s[j]
          PROVE  i = j
      <4>1. work[g][i + 1] = work[g][j + 1]
        BY <3>1, <1>4
      <4> QED BY <4>1, <2>1, <2>2, <2>3
    <3> QED BY <3>1 DEF WithoutRepetition
  <2>6. \A i \in 1..Len(s) : s[i].target = g
    BY <2>1, <2>2, <1>4
  <2> QED BY <2>4, <2>5, <2>6
<1>10. WorkInv'
  <2>1. ASSUME NEW h \in Target
        PROVE  /\ Sorted(work'[h]) /\ WithoutRepetition(work'[h])
               /\ \A i \in 1..Len(work'[h]) : work'[h][i].target = h
               /\ worker'[h] = "none" => work'[h] = <<>>
               /\ worker'[h] = "handling" => work'[h] # <<>>
    <3>1. CASE h = g
      BY <3>1, <1>3, <1>5, <1>9
    <3>2. CASE h # g
      BY <3>2, <1>3, <1>5 DEF ConcurrentInv, WorkInv
    <3> QED BY <3>1, <3>2
  <2> QED BY <2>1, <1>1, <1>5, <1>7 DEF WorkInv
<1>11. e \in Busy
  BY <1>0, <1>1 DEF Busy
<1>12. ASSUME NEW h \in Target, NEW f \in Range(work[h]), h # g PROVE f # e
  BY <1>6, <1>12, WorkOfTarget
<1>13. Launched' = Launched \ {e}
  <2>1. ASSUME NEW f \in Launched' PROVE f \in Launched /\ f # e
    <3>1. PICK h \in Target : f \in Range(work'[h])
      BY DEF Launched
    <3>2. CASE h = g
      <4>1. f \in Range(s) /\ f \in Range(work[g])
        BY <3>1, <3>2, <1>4, <1>5
      <4> QED BY <4>1, <1>6 DEF Launched
    <3>3. CASE h # g
      <4>1. f \in Range(work[h])
        BY <3>1, <3>3, <1>5
      <4> QED BY <4>1, <3>3, <1>12 DEF Launched
    <3> QED BY <3>2, <3>3
  <2>2. ASSUME NEW f \in Launched, f # e PROVE f \in Launched'
    <3>1. PICK h \in Target : f \in Range(work[h])
      BY DEF Launched
    <3>2. f \in Range(work'[h])
      BY <3>1, <2>2, <1>4, <1>5
    <3> QED BY <3>2 DEF Launched
  <2> QED BY <2>1, <2>2
<1>14. Busy' = Busy \ {e}
  <2>1. ASSUME NEW f \in Busy' PROVE f \in Busy /\ f # e
    <3>1. PICK h \in Target : worker'[h] = "handling" /\ f = Head(work'[h])
      BY DEF Busy
    <3>2. h # g
      BY <3>1, <1>3
    <3>3. worker[h] = "handling" /\ f = Head(work[h])
      BY <3>1, <3>2, <1>3, <1>5
    <3>4. f \in Range(work[h])
      BY <3>3, WorkOfTarget DEF ConcurrentInv, WorkInv
    <3> QED BY <3>2, <3>3, <3>4, <1>12 DEF Busy
  <2>2. ASSUME NEW f \in Busy, f # e PROVE f \in Busy'
    <3>1. PICK h \in Target : worker[h] = "handling" /\ f = Head(work[h])
      BY DEF Busy
    <3>2. h # g
      BY <1>0, <3>1, <2>2
    <3>3. worker'[h] = "handling" /\ f = Head(work'[h])
      BY <3>1, <3>2, <1>3, <1>5
    <3> QED BY <3>3 DEF Busy
  <2> QED BY <2>1, <2>2
<1>15. PT!End(e)
  <2>1. UNCHANGED <<Concurrent(clock, 0), Concurrent(PhaseOfRun, "off"), Concurrent(halted, FALSE),
                    Concurrent(Items(queue) \union Range(taken), {})>>
    BY <1>1, ConcurrentView
  <2> QED BY <2>1, <1>13, <1>14 DEF PT!End, Busy
<1> QED
  BY <1>8, <1>10, <1>11, <1>15 DEF ConcurrentInv

\* A worker with nothing left leaves, and the count is still exact.
LEMMA ConcurrentCountDownStep ==
  ASSUME ConcurrentInv, NEW g \in Target, CountDown(g), kind = "concurrent", kind' = kind
  PROVE  ConcurrentInv' /\ UNCHANGED PT!vars
<1>1. /\ worker[g] = "ready" /\ work[g] = <<>>
      /\ worker' = [worker EXCEPT ![g] = "none"]
      /\ activeCount' = activeCount - 1
      /\ UNCHANGED <<clock, pc, halted, queue, loopbackQueue, queueStamp, loopbackStamp, t, taken, work>>
  BY DEF CountDown, IsDone, vars
<1>2. worker \in [Target -> {"none", "ready", "handling"}] /\ activeCount = Cardinality(Active)
  BY DEF ConcurrentInv, ConcurrentState
<1>3. /\ worker' \in [Target -> {"none", "ready", "handling"}]
      /\ worker'[g] = "none"
      /\ \A h \in Target : h # g => worker'[h] = worker[h]
  BY <1>1, <1>2
<1>4. Active' = Active \ {g} /\ g \in Active
  <2>1. g \in Active
    BY <1>1 DEF Active
  <2>2. ASSUME NEW h \in Target PROVE h \in Active' <=> h \in Active /\ h # g
    BY <1>3 DEF Active
  <2>3. \A h \in Active \union Active' : h \in Target
    BY DEF Active
  <2> QED BY <2>1, <2>2, <2>3
<1>5. activeCount' = Cardinality(Active')
  <2>1. Cardinality(Active \ {g}) = Cardinality(Active) - 1
    BY <1>4, TargetsAreFinite, FS_RemoveElement
  <2> QED BY <2>1, <1>1, <1>2, <1>4
<1>6. pc = "wait"
  BY <1>1 DEF ConcurrentInv, WorkInv
<1>7. ConcurrentState' /\ ConcurrentQueues' /\ TickInv' /\ TakenInv'
  <2>1. ConcurrentState'
    BY <1>1, <1>3, <1>5 DEF ConcurrentInv, ConcurrentState
  <2>2. ConcurrentQueues' /\ TickInv' /\ TakenInv'
    BY <1>1 DEF ConcurrentInv, ConcurrentQueues, TickInv, TakenInv, Taking, IsDue
  <2> QED BY <2>1, <2>2
<1>8. WorkInv'
  <2>1. ASSUME NEW h \in Target
        PROVE  /\ Sorted(work'[h]) /\ WithoutRepetition(work'[h])
               /\ \A i \in 1..Len(work'[h]) : work'[h][i].target = h
               /\ worker'[h] = "none" => work'[h] = <<>>
               /\ worker'[h] = "handling" => work'[h] # <<>>
    BY <1>1, <1>3 DEF ConcurrentInv, WorkInv
  <2>2. work' \in [Target -> Seq(TargetedEvent)]
    BY <1>1 DEF ConcurrentInv, WorkInv
  <2> QED BY <2>1, <2>2, <1>1, <1>6 DEF WorkInv
<1>9. Busy' = Busy
  <2>1. \A h \in Target : worker'[h] = "handling" <=> worker[h] = "handling"
    BY <1>1, <1>3
  <2> QED BY <2>1, <1>1 DEF Busy
<1>10. UNCHANGED PT!vars
  <2>1. UNCHANGED <<Concurrent(clock, 0), Concurrent(PhaseOfRun, "off"), Concurrent(halted, FALSE),
                    Concurrent(Items(queue) \union Range(taken), {}), Launched>>
    BY <1>1, ConcurrentView DEF Launched
  <2> QED BY <2>1, <1>9 DEF PT!vars, Busy
<1> QED
  BY <1>7, <1>8, <1>10 DEF ConcurrentInv

\* Every step of the concurrent simulator keeps the invariant and is a step of the ticks
\* or invisible to them.
LEMMA ConcurrentStep ==
  ASSUME ConcurrentInv, ConcurrentNext, kind = "concurrent", kind' = kind
  PROVE  ConcurrentInv' /\ [PT!Next]_(PT!vars)
<1>1. CASE \E delay \in 0..MaxDelay, target \in Target : ConcurrentSchedule(delay, target)
  BY <1>1, ConcurrentScheduleStep DEF PT!Next
<1>2. CASE \E target \in Target : ConcurrentLoopback(target)
  BY <1>2, ConcurrentLoopbackStep
<1>3. CASE ConcurrentHalt \/ Reset \/ StartRun
  BY <1>3, ConcurrentCallStep DEF PT!Next
<1>4. CASE Test
  BY <1>4, ConcurrentTestStep DEF PT!Next
<1>5. CASE Peek
  BY <1>5, ConcurrentPeekStep
<1>6. CASE Take
  BY <1>6, ConcurrentTakeStep
<1>7. CASE Launch
  BY <1>7, ConcurrentLaunchStep DEF PT!Next
<1>8. CASE NextTick
  BY <1>8, ConcurrentNextTickStep
<1>9. ASSUME NEW g \in Target, WorkerStep(g) PROVE ConcurrentInv' /\ [PT!Next]_(PT!vars)
  <2>1. CASE BeginHandle(g)
    <3>1. PT!Next
      BY <2>1, ConcurrentBeginStep DEF PT!Next, Busy
    <3> QED BY <3>1, <2>1, ConcurrentBeginStep
  <2>2. CASE EndHandle(g)
    <3>1. PT!Next
      BY <2>2, ConcurrentEndStep DEF PT!Next, Busy
    <3> QED BY <3>1, <2>2, ConcurrentEndStep
  <2>3. CASE CountDown(g)
    BY <2>3, ConcurrentCountDownStep
  <2> QED BY <2>1, <2>2, <2>3, <1>9 DEF WorkerStep
<1> QED
  BY <1>1, <1>2, <1>3, <1>4, <1>5, <1>6, <1>7, <1>8, <1>9 DEF ConcurrentNext, MainStep

\* The concurrent simulator starts with the invariant.
LEMMA ConcurrentInitially ==
  ASSUME ConcurrentInit
  PROVE  ConcurrentInv
<1>1. /\ clock = 0 /\ pc = "idle" /\ halted = FALSE /\ queue = EmptyHeap /\ loopbackQueue = EmptyHeap
      /\ queueStamp = 0 /\ loopbackStamp = 0
      /\ t = 0 /\ taken = <<>> /\ work = [g \in Target |-> <<>>]
      /\ worker = [g \in Target |-> "none"] /\ activeCount = 0
  BY DEF ConcurrentInit, Init
<1>2. ConcurrentState
  <2>1. Active = {}
    BY <1>1 DEF Active
  <2>2. activeCount = Cardinality(Active)
    BY <1>1, <2>1, FS_EmptySet
  <2> QED BY <1>1, <2>2 DEF ConcurrentState
<1>3. ConcurrentQueues
  BY <1>1, QueueOfNothing DEF ConcurrentQueues
<1>4. TickInv
  BY <1>1 DEF TickInv, Taking
<1>5. <<>> \in Seq(TargetedEvent) /\ Sorted(<<>>) /\ WithoutRepetition(<<>>) /\ Len(<<>>) = 0
  BY DEF Sorted, WithoutRepetition
<1>6. TakenInv
  BY <1>1, <1>5 DEF TakenInv, Taking
<1>7. WorkInv
  BY <1>1, <1>5 DEF WorkInv
<1> QED
  BY <1>2, <1>3, <1>4, <1>6, <1>7 DEF ConcurrentInv

\* The invariant of the concurrent simulator contains the properties of its heaps.
LEMMA ConcurrentHeapsOrdered ==
  ASSUME ConcurrentInv
  PROVE  ConcurrentTypeOK /\ ConcurrentHeapOrdered
<1>1. QueueOf(FALSE, queue, queueStamp, TargetedEvent) /\ QueueOf(FALSE, loopbackQueue, loopbackStamp, TargetedEvent)
  BY DEF ConcurrentInv, ConcurrentQueues
<1>2. ASSUME NEW h, NEW count, QueueOf(FALSE, h, count, TargetedEvent)
      PROVE  DOMAIN h = 0..(Count(h) - 1) /\ \A i \in DOMAIN h \ {0} : h[Parent(i)].time <= h[i].time
  <2>1. /\ Count(h) \in Nat /\ HeapOf(FALSE, h, Count(h))
    BY <1>2 DEF QueueOf
  <2>2. DOMAIN h = 0..(Count(h) - 1)
    BY <2>1 DEF HeapOf
  <2>3. ASSUME NEW i \in DOMAIN h \ {0} PROVE h[Parent(i)].time <= h[i].time
    <3>1. i \in 1..(Count(h) - 1) /\ i \in DOMAIN h
      BY <2>1, <2>2
    <3>2. Parent(i) \in DOMAIN h
      BY <3>1, <2>1, <2>2, ParentProperties
    <3>3. Timed(h[i]) /\ Timed(h[Parent(i)]) /\ NotAfter(FALSE, h[Parent(i)], h[i])
      BY <2>1, <3>1, <3>2 DEF HeapOf
    <3> QED BY <3>3 DEF NotAfter, Precedes, LessByTime, Timed
  <2> QED BY <2>2, <2>3
<1>3. ConcurrentHeapOrdered /\ DOMAIN queue = 0..(Count(queue) - 1)
  BY <1>1, <1>2 DEF ConcurrentHeapOrdered
<1>4. ConcurrentTypeOK
  BY <1>3 DEF ConcurrentTypeOK, ConcurrentInv, ConcurrentState, Active
<1> QED
  BY <1>3, <1>4
-----------------------------------------------------------------------------
(***************************************************************************)
(* Whichever of them runs.                                                 *)
(***************************************************************************)

BothInv ==
  \/ kind = "sequential" /\ SequentialInv
  \/ kind = "concurrent" /\ ConcurrentInv

\* Both abstract specifications see their initial states.
LEMMA BothInitially == BothInit => BothInv /\ DES!Init /\ PT!Init
<1> SUFFICES ASSUME BothInit PROVE BothInv /\ DES!Init /\ PT!Init
  OBVIOUS
<1>1. ConcurrentInit /\ Init /\ kind \in {"sequential", "concurrent"}
  BY DEF BothInit, ConcurrentInit
<1>2. BothInv
  BY <1>1, SequentialInit, ConcurrentInitially DEF BothInv
<1>3. /\ clock = 0 /\ pc = "idle" /\ halted = FALSE /\ queueStamp = 0 /\ loopbackStamp = 0
      /\ Items(queue) = {} /\ Items(loopbackQueue) = {}
      /\ taken = <<>> /\ worker = [g \in Target |-> "none"] /\ work = [g \in Target |-> <<>>]
  BY <1>1, QueueOfNothing DEF ConcurrentInit, Init
<1>4. DES!Init
  BY <1>3 DEF DES!Init, Sequential
<1>5. PT!Init
  <2>1. Launched = {}
    BY <1>3, RangeOfNothing DEF Launched
  <2>2. Items(queue) \union Range(taken) = {}
    BY <1>3, RangeOfNothing
  <2>3. {Head(work[g]) : g \in {h \in Target : worker[h] = "handling"}} = {}
    BY <1>3
  <2>4. PhaseOfRun = "off"
    BY <1>3 DEF PhaseOfRun
  <2> QED BY <1>3, <2>1, <2>2, <2>3, <2>4 DEF PT!Init, Concurrent
<1> QED
  BY <1>2, <1>4, <1>5

\* Every step keeps the invariant and is one of both abstract specifications, or invisible to them.
LEMMA BothStep == BothInv /\ [BothNext]_bothVars => BothInv' /\ [DES!Next]_(DES!vars) /\ [PT!Next]_(PT!vars)
<1> SUFFICES ASSUME BothInv, [BothNext]_bothVars
             PROVE  BothInv' /\ [DES!Next]_(DES!vars) /\ [PT!Next]_(PT!vars)
  OBVIOUS
<1>1. CASE kind = "sequential" /\ Next /\ UNCHANGED <<t, taken, work, worker, activeCount>> /\ UNCHANGED kind
  <2>1. SequentialInv' /\ DES!Next
    BY <1>1, SequentialStep DEF BothInv
  <2>2. UNCHANGED <<Concurrent(clock, 0), Concurrent(PhaseOfRun, "off"), Concurrent(halted, FALSE),
                    Concurrent(Items(queue) \union Range(taken), {}), Launched, Busy>>
    BY <1>1 DEF Concurrent, Launched, Busy
  <2>3. UNCHANGED PT!vars
    BY <2>2 DEF PT!vars, Busy
  <2> QED BY <1>1, <2>1, <2>3 DEF BothInv
<1>2. CASE kind = "concurrent" /\ ConcurrentNext /\ UNCHANGED kind
  <2>1. ConcurrentInv' /\ [PT!Next]_(PT!vars)
    BY <1>2, ConcurrentStep DEF BothInv
  <2>2. UNCHANGED <<Sequential(clock, 0), Sequential(pc, "idle"), Sequential(halted, FALSE),
                    Sequential(Items(queue), {}), Sequential(Items(loopbackQueue), {}),
                    Sequential(queueStamp, 0), Sequential(loopbackStamp, 0)>>
    BY <1>2 DEF Sequential
  <2>3. UNCHANGED DES!vars
    BY <2>2 DEF DES!vars
  <2> QED BY <1>2, <2>1, <2>3 DEF BothInv
<1>3. CASE UNCHANGED bothVars
  <2>1. UNCHANGED <<clock, pc, halted, maxClock, queue, loopbackQueue, queueStamp, loopbackStamp,
                    t, taken, work, worker, activeCount, kind>>
    BY <1>3 DEF bothVars, concurrentVars, vars
  <2>2. UNCHANGED DES!vars
    BY <2>1 DEF DES!vars, Sequential
  <2>3. UNCHANGED PT!vars
    BY <2>1 DEF PT!vars, Concurrent, PhaseOfRun, Launched
  <2>4. BothInv'
    <3>1. CASE kind = "sequential" /\ SequentialInv
      <4>1. SequentialState' /\ QueueOf(TRUE, queue, queueStamp, Event)'
            /\ QueueOf(TRUE, loopbackQueue, loopbackStamp, Event)'
        BY <3>1, <2>1 DEF SequentialInv, SequentialState
      <4>2. OrderInv'
        BY <3>1, <2>1 DEF SequentialInv, OrderInv, NothingIsLate, LoopbacksComeFirst, LoopbacksAreNow
      <4> QED BY <4>1, <4>2, <3>1, <2>1 DEF BothInv, SequentialInv
    <3>2. CASE kind = "concurrent" /\ ConcurrentInv
      <4>1. ConcurrentState' /\ ConcurrentQueues' /\ TickInv' /\ TakenInv' /\ WorkInv'
        BY <3>2, <2>1 DEF ConcurrentInv, ConcurrentState, ConcurrentQueues, TickInv, TakenInv, WorkInv,
           Active, Taking, IsDue
      <4> QED BY <4>1, <3>2, <2>1 DEF BothInv, ConcurrentInv
    <3> QED BY <3>1, <3>2 DEF BothInv
  <2> QED BY <2>2, <2>3, <2>4
<1> QED
  BY <1>1, <1>2, <1>3 DEF BothNext

\* The invariant holds in all behaviours.
LEMMA BothSafe == BothSpec => []BothInv
  BY BothInitially, BothStep, PTL DEF BothSpec

\* Whatever adds and removes came before, no item of either array is less than its
\* parent, for any number of events, delay and target.
THEOREM HeapsAlwaysOrdered == BothSpec => []HeapsAreOrdered
<1>1. BothInv => HeapsAreOrdered
  BY SequentialHeapsOrdered, ConcurrentHeapsOrdered DEF BothInv, HeapsAreOrdered
<1> QED
  BY <1>1, BothSafe, PTL

\* EventSimulator.Run over its array heaps dispatches what the abstract simulator does:
\* loopbacks first, then the earliest event, equal times in scheduling order.
THEOREM HeapsImplementDiscreteEvents == BothSpec => ImplementsDiscreteEvents
<1>1. BothSpec => DES!Init /\ [][DES!Next]_(DES!vars)
  BY BothInitially, BothStep, BothSafe, PTL DEF BothSpec
<1> QED
  BY <1>1 DEF ImplementsDiscreteEvents, DES!Spec

\* ConcurrentEventSimulator.Run with its workers keeps the promise of the ticks: each
\* takes exactly the events that are due, and ends when they are all handled, one at
\* a time and in order for each target.
THEOREM ThreadsImplementParallelTicks == BothSpec => ImplementsParallelTicks
<1>1. BothSpec => PT!Init /\ [][PT!Next]_(PT!vars)
  BY BothInitially, BothStep, BothSafe, PTL DEF BothSpec
<1> QED
  BY <1>1 DEF ImplementsParallelTicks, PT!Spec

\* While EventSimulator.Run goes on, its clock never goes back.
THEOREM ClockNeverGoesBack == BothSpec => DES!ClockMonotone
<1>1. BothInv /\ [BothNext]_bothVars =>
        [Sequential(pc, "idle") = "loop" => Sequential(clock, 0)' >= Sequential(clock, 0)]_(DES!vars)
  <2> SUFFICES ASSUME BothInv, [DES!Next]_(DES!vars), ~ UNCHANGED DES!vars,
                      [BothNext]_bothVars, Sequential(pc, "idle") = "loop"
               PROVE  Sequential(clock, 0)' >= Sequential(clock, 0)
    BY BothStep
  <2>1. DES!Next /\ kind = "sequential" /\ pc = "loop"
    BY DEF Sequential
  <2>2. kind' = kind
    <3>1. CASE BothNext
      BY <3>1 DEF BothNext
    <3>2. CASE UNCHANGED bothVars
      BY <3>2 DEF bothVars
    <3> QED BY <3>1, <3>2
  <2>3. OrderInv
    BY <2>1 DEF BothInv, SequentialInv
  <2>4. PICK c, q, l : c = clock /\ q = Items(queue) /\ l = Items(loopbackQueue)
    OBVIOUS
  <2>5. /\ Sequential(clock, 0) = c /\ Sequential(Items(queue), {}) = q
        /\ Sequential(Items(loopbackQueue), {}) = l
    BY <2>1, <2>4, SequentialView
  <2>6. c \in Nat /\ \A e \in q \union l : e.time \in Nat /\ e.time >= c
    BY <2>3, <2>4 DEF OrderInv, NothingIsLate
  <2>7. CASE DES!DispatchLoopback \/ DES!DispatchTimed
    <3>1. PICK e \in q \union l : Sequential(clock, 0)' = e.time
      BY <2>5, <2>7 DEF DES!DispatchLoopback, DES!DispatchTimed, DES!Dispatch
    <3> QED BY <3>1, <2>5, <2>6
  <2>8. CASE DES!Stop
    BY <2>5, <2>6, <2>8 DEF DES!Stop
  <2> QED BY <2>1, <2>7, <2>8
          DEF DES!Next, DES!Schedule, DES!Loopback, DES!Halt, DES!Run, DES!HandlerReturns, DES!Scheduling
<1> QED
  BY <1>1, BothSafe, PTL DEF BothSpec, DES!ClockMonotone

\* The loopbacks that wait when a handler runs belong to the current tick.
THEOREM LoopbacksStayInTheirTick == BothSpec => []DES!LoopbacksAreOfThisTick
<1>1. BothInv => DES!LoopbacksAreOfThisTick
  <2> SUFFICES ASSUME BothInv, Sequential(pc, "idle") = "handling", NEW e \in Sequential(Items(loopbackQueue), {})
               PROVE  e.time = Sequential(clock, 0)
    BY DEF DES!LoopbacksAreOfThisTick
  <2>1. kind = "sequential" /\ pc = "handling" /\ e \in Items(loopbackQueue)
    BY DEF Sequential
  <2>2. e.time = clock
    BY <2>1 DEF BothInv, SequentialInv, OrderInv, LoopbacksAreNow
  <2> QED BY <2>1, <2>2, SequentialView
<1> QED
  BY <1>1, BothSafe, PTL
=============================================================================
