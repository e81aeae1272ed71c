------------------------- MODULE ShareRenewalProofs -------------------------
(***************************************************************************)
(* Theorems about the renewal of shares between quorums of any size, one   *)
(* of which has at most three times as many members as the other: there    *)
(* are no intermediate rounds then.                                        *)
(***************************************************************************)
EXTENDS ShareRenewal, SequenceLemmas, TLAPS

\* No quorum gets its shares from one so small that it needs intermediate rounds.  (The
\* quorums that QuorumGenerator makes are all of one size.)
NoIntermediateRounds == \A r \in Renewals : Size(r[2]) <= 3 * Size(r[1])

\* Who sends a message, to whom, and about which secret.  A party sends one commitment and
\* one share to each member of the other quorum, for each secret.
Key(m) == <<m.from, m.to, m.body.item>>

Keys == from \X to \X Item

\* The share that p makes for q.
Evaluated(p, q) == <<Position(p, from) + 1, Position(q, to) + 1>>

Body == [item : Item, type : {"commit", "share", "nextRound"}, share : {<<>>} \union (Nat \X Nat)]

Message ==
  {m \in [at : Nat, from : Party, to : to, body : Body] :
     /\ m.body.type # "nextRound" => m.from \in from
     /\ m.body.type = "share" => m.body.share = Evaluated(m.from, m.to)}

\* The commitments of a queue and its shares, where those in `announced` have been received
\* of the former and those in `filed` of the latter: none comes twice, and each share comes
\* after its commitment.
InOrderOfRound(q, announced, filed) ==
  /\ \A i, j \in DOMAIN q :
       /\ q[i].body.type # "nextRound" /\ q[i].body.type = q[j].body.type
       /\ Key(q[i]) = Key(q[j])
       => i = j
  /\ \A j \in DOMAIN q :
       q[j].body.type = "share" /\ Key(q[j]) \notin announced =>
         \E i \in DOMAIN q : i < j /\ q[i].body.type = "commit" /\ Key(q[i]) = Key(q[j])
  /\ \A j \in DOMAIN q : q[j].body.type = "commit" => Key(q[j]) \notin announced
  /\ \A j \in DOMAIN q : q[j].body.type = "share" => Key(q[j]) \notin filed

-----------------------------------------------------------------------------
(***************************************************************************)
(* The queue.                                                              *)
(***************************************************************************)

\* Handling the first message.
LEMMA HandledInOrder ==
  ASSUME NEW M, NEW q \in Seq(M), q # <<>>,
         NEW announced, NEW filed, InOrderOfRound(q, announced, filed),
         NEW m, m = Head(q)
  PROVE  /\ m.body.type = "commit" =>
              Key(m) \notin announced /\ InOrderOfRound(Tail(q), announced \union {Key(m)}, filed)
         /\ m.body.type = "share" =>
              /\ Key(m) \in announced /\ Key(m) \notin filed
              /\ InOrderOfRound(Tail(q), announced, filed \union {Key(m)})
         /\ m.body.type = "nextRound" => InOrderOfRound(Tail(q), announced, filed)
<1>1. /\ m = q[1] /\ 1 \in DOMAIN q
      /\ Len(q) \in Nat /\ DOMAIN q = 1..Len(q)
      /\ DOMAIN Tail(q) = 1..(Len(q) - 1)
      /\ \A i \in 1..(Len(q) - 1) : Tail(q)[i] = q[i + 1]
  BY HeadTailProperties, LenProperties
<1>2. /\ \A i \in DOMAIN Tail(q) : i + 1 \in DOMAIN q /\ Tail(q)[i] = q[i + 1] /\ i \in Nat /\ i + 1 # 1
      /\ \A i \in DOMAIN q : i # 1 => i - 1 \in DOMAIN Tail(q) /\ Tail(q)[i - 1] = q[i] /\ i \in Nat
  BY <1>1
<1>3. /\ m.body.type = "commit" => Key(m) \notin announced
      /\ m.body.type = "share" => Key(m) \notin filed
  BY <1>1 DEF InOrderOfRound
<1>4. ASSUME m.body.type = "share"
      PROVE  Key(m) \in announced
  <2>1. \A i \in DOMAIN q : ~(i < 1)
    BY <1>1
  <2> QED BY <1>1, <1>4, <2>1 DEF InOrderOfRound
<1>5. \A i, j \in DOMAIN Tail(q) :
        /\ Tail(q)[i].body.type # "nextRound" /\ Tail(q)[i].body.type = Tail(q)[j].body.type
        /\ Key(Tail(q)[i]) = Key(Tail(q)[j])
        => i = j
  <2>1. ASSUME NEW i \in DOMAIN Tail(q), NEW j \in DOMAIN Tail(q),
               Tail(q)[i].body.type # "nextRound", Tail(q)[i].body.type = Tail(q)[j].body.type,
               Key(Tail(q)[i]) = Key(Tail(q)[j])
        PROVE  i = j
    <3>1. i + 1 \in DOMAIN q /\ j + 1 \in DOMAIN q /\ Tail(q)[i] = q[i + 1] /\ Tail(q)[j] = q[j + 1]
      BY <1>2
    <3>2. i + 1 = j + 1
      BY <2>1, <3>1 DEF InOrderOfRound
    <3> QED BY <1>2, <3>2
  <2> QED BY <2>1
<1>6. ASSUME NEW j \in DOMAIN Tail(q), Tail(q)[j].body.type = "share", Key(Tail(q)[j]) \notin announced
      PROVE  \/ m.body.type = "commit" /\ Key(m) = Key(Tail(q)[j])
             \/ \E i \in DOMAIN Tail(q) :
                  i < j /\ Tail(q)[i].body.type = "commit" /\ Key(Tail(q)[i]) = Key(Tail(q)[j])
  <2>1. j + 1 \in DOMAIN q /\ Tail(q)[j] = q[j + 1] /\ j \in Nat
    BY <1>2
  <2>2. PICK i \in DOMAIN q : i < j + 1 /\ q[i].body.type = "commit" /\ Key(q[i]) = Key(q[j + 1])
    BY <1>6, <2>1 DEF InOrderOfRound
  <2>3. CASE i = 1
    BY <1>1, <2>1, <2>2, <2>3
  <2>4. CASE i # 1
    <3>1. i - 1 \in DOMAIN Tail(q) /\ Tail(q)[i - 1] = q[i] /\ i - 1 < j
      BY <1>2, <2>1, <2>2, <2>4
    <3> QED BY <2>1, <2>2, <3>1
  <2> QED BY <2>3, <2>4
<1>7. ASSUME NEW j \in DOMAIN Tail(q), m.body.type # "nextRound", Tail(q)[j].body.type = m.body.type
      PROVE  Key(Tail(q)[j]) # Key(m)
  <2>1. j + 1 \in DOMAIN q /\ Tail(q)[j] = q[j + 1] /\ j + 1 # 1
    BY <1>2
  <2> QED BY <1>1, <1>7, <2>1 DEF InOrderOfRound
<1>8. /\ \A j \in DOMAIN Tail(q) : Tail(q)[j].body.type = "commit" => Key(Tail(q)[j]) \notin announced
      /\ \A j \in DOMAIN Tail(q) : Tail(q)[j].body.type = "share" => Key(Tail(q)[j]) \notin filed
  BY <1>2 DEF InOrderOfRound
<1>9. m.body.type = "commit" => InOrderOfRound(Tail(q), announced \union {Key(m)}, filed)
  BY <1>5, <1>6, <1>7, <1>8 DEF InOrderOfRound
<1>10. m.body.type = "share" => InOrderOfRound(Tail(q), announced, filed \union {Key(m)})
  BY <1>5, <1>6, <1>7, <1>8 DEF InOrderOfRound
<1>11. m.body.type = "nextRound" => InOrderOfRound(Tail(q), announced, filed)
  BY <1>5, <1>6, <1>8 DEF InOrderOfRound
<1> QED BY <1>3, <1>4, <1>9, <1>10, <1>11

\* Sending commitments and shares that are not yet in the queue.
LEMMA SentInOrder ==
  ASSUME NEW M, NEW q \in Seq(M), NEW t \in Seq(M), NEW announced, NEW filed,
         InOrderOfRound(q, announced, filed), InOrderOfRound(t, announced, filed),
         \A m \in Range(q), k \in Range(t) : k.body.type # "nextRound" => Key(m) # Key(k)
  PROVE  InOrderOfRound(q \o t, announced, filed)
<1> DEFINE s == q \o t
<1>1. /\ Len(q) \in Nat /\ Len(t) \in Nat /\ DOMAIN q = 1..Len(q) /\ DOMAIN t = 1..Len(t)
      /\ DOMAIN s = 1..(Len(q) + Len(t))
      /\ \A i \in 1..(Len(q) + Len(t)) : s[i] = IF i <= Len(q) THEN q[i] ELSE t[i - Len(q)]
  BY ConcatProperties, LenProperties
<1> HIDE DEF s
<1>2. /\ \A i \in DOMAIN s : i <= Len(q) => i \in DOMAIN q /\ s[i] = q[i]
      /\ \A i \in DOMAIN s : i > Len(q) => i - Len(q) \in DOMAIN t /\ s[i] = t[i - Len(q)]
      /\ \A i \in DOMAIN q : i \in DOMAIN s /\ s[i] = q[i] /\ i <= Len(q)
      /\ \A i \in DOMAIN t : i + Len(q) \in DOMAIN s /\ s[i + Len(q)] = t[i] /\ i + Len(q) > Len(q)
      /\ \A i \in DOMAIN s : i \in Nat
  BY <1>1
<1>3. ASSUME NEW i \in DOMAIN s, NEW j \in DOMAIN s,
             s[i].body.type # "nextRound", s[i].body.type = s[j].body.type, Key(s[i]) = Key(s[j])
      PROVE  i = j
  <2>1. CASE i <= Len(q) /\ j <= Len(q)
    BY <1>2, <1>3, <2>1 DEF InOrderOfRound
  <2>2. CASE i > Len(q) /\ j > Len(q)
    <3>1. i - Len(q) = j - Len(q)
      BY <1>2, <1>3, <2>2 DEF InOrderOfRound
    <3> QED BY <1>1, <1>2, <3>1
  <2>3. CASE i <= Len(q) /\ j > Len(q)
    <3>1. s[i] \in Range(q) /\ s[j] \in Range(t)
      BY <1>2, <2>3 DEF Range
    <3> QED BY <1>3, <3>1
  <2>4. CASE i > Len(q) /\ j <= Len(q)
    <3>1. s[j] \in Range(q) /\ s[i] \in Range(t)
      BY <1>2, <2>4 DEF Range
    <3> QED BY <1>3, <3>1
  <2>5. (i <= Len(q) \/ i > Len(q)) /\ (j <= Len(q) \/ j > Len(q))
    BY <1>1, <1>2
  <2> QED BY <2>1, <2>2, <2>3, <2>4, <2>5
<1>4. ASSUME NEW j \in DOMAIN s, s[j].body.type = "share", Key(s[j]) \notin announced
      PROVE  \E i \in DOMAIN s : i < j /\ s[i].body.type = "commit" /\ Key(s[i]) = Key(s[j])
  <2>1. CASE j <= Len(q)
    <3>1. PICK i \in DOMAIN q : i < j /\ q[i].body.type = "commit" /\ Key(q[i]) = Key(q[j])
      BY <1>2, <1>4, <2>1 DEF InOrderOfRound
    <3> QED BY <1>2, <2>1, <3>1
  <2>2. CASE j > Len(q)
    <3>1. j - Len(q) \in DOMAIN t /\ s[j] = t[j - Len(q)]
      BY <1>2, <2>2
    <3>2. PICK i \in DOMAIN t : /\ i < j - Len(q) /\ t[i].body.type = "commit"
                                /\ Key(t[i]) = Key(t[j - Len(q)])
      BY <1>4, <3>1 DEF InOrderOfRound
    <3>3. i + Len(q) \in DOMAIN s /\ s[i + Len(q)] = t[i] /\ i + Len(q) < j
      <4>1. i \in Nat /\ j \in Nat
        BY <1>1, <1>2
      <4> QED BY <1>1, <1>2, <3>2, <4>1
    <3> QED BY <3>1, <3>2, <3>3
  <2>3. j <= Len(q) \/ j > Len(q)
    BY <1>1, <1>2
  <2> QED BY <2>1, <2>2, <2>3
<1>5. ASSUME NEW j \in DOMAIN s
      PROVE  /\ s[j].body.type = "commit" => Key(s[j]) \notin announced
             /\ s[j].body.type = "share" => Key(s[j]) \notin filed
  <2>1. CASE j <= Len(q)
    BY <1>2, <2>1 DEF InOrderOfRound
  <2>2. CASE j > Len(q)
    BY <1>2, <2>2 DEF InOrderOfRound
  <2>3. j <= Len(q) \/ j > Len(q)
    BY <1>1, <1>2
  <2> QED BY <2>1, <2>2, <2>3
<1>6. InOrderOfRound(s, announced, filed)
  BY <1>3, <1>4, <1>5 DEF InOrderOfRound
<1> QED BY <1>6 DEF s

-----------------------------------------------------------------------------
(***************************************************************************)
(* Quorums, and what is sent to them.                                      *)
(***************************************************************************)

\* The members of a quorum are listed in the order of their positions.
LEMMA MembersInOrder ==
  ASSUME NEW q, q # {}, IsFiniteSet(q), q \subseteq Nat
  PROVE  /\ Size(q) \in Nat \ {0} /\ Members(q) \in Seq(q) /\ Len(Members(q)) = Size(q)
         /\ DOMAIN Members(q) = 1..Size(q)
         /\ Range(Members(q)) = q /\ IsInjective(Members(q))
         /\ \A i \in 1..Size(q) : Members(q)[i] \in q /\ Position(Members(q)[i], q) = i - 1
         /\ \A p \in q : Position(p, q) \in Nat
<1>1. Members(q) = Listing(q, Size(q))
  BY DEF Members, Listing, Position, Less
<1>2. /\ Size(q) \in Nat /\ Members(q) \in Seq(q) /\ Len(Members(q)) = Size(q)
      /\ DOMAIN Members(q) = 1..Size(q) /\ Range(Members(q)) = q /\ IsInjective(Members(q))
      /\ \A i \in 1..Size(q) : Members(q)[i] \in q /\ Cardinality(Less(q, Members(q)[i])) = i - 1
  <2>1. Size(q) = Cardinality(q)
    BY DEF Size
  <2> QED BY <1>1, <2>1, ListedInOrder
<1>3. Size(q) # 0
  BY FS_EmptySet DEF Size
<1>4. \A p : Position(p, q) = Cardinality(Less(q, p))
  BY DEF Position, Less
<1>5. \A p \in q : Position(p, q) \in Nat
  <2>1. Ranked(q, Size(q))
    BY RankedByNumber DEF Size
  <2> QED BY <1>2, <1>4, <2>1 DEF Ranked
<1> QED BY <1>2, <1>3, <1>4, <1>5

\* A quorum shares with at most three times as many without intermediate rounds.
LEMMA NoRoundsBefore ==
  ASSUME NEW f, NEW t, IsFiniteSet(f), IsFiniteSet(t), Size(t) <= 3 * Size(f)
  PROVE  IntermediateRounds(f, t) = 0
<1>1. Size(f) \in Nat /\ Size(t) \in Nat
  BY FS_CardinalityType DEF Size
<1>2. 3^0 = 1
  OBVIOUS
<1>3. ShareCount(f, 0) = Size(f)
  BY <1>1, <1>2 DEF ShareCount
<1> DEFINE Enough(n) == /\ 3 * ShareCount(f, n) >= Size(t)
                        /\ \A k \in 0..(n - 1) : 3 * ShareCount(f, k) < Size(t)
<1>4. 0 \in 0..Size(t) /\ Enough(0)
  BY <1>1, <1>3
<1>5. ASSUME NEW n \in 0..Size(t), Enough(n)
      PROVE  n = 0
  <2>1. CASE n # 0
    <3>1. 0 \in 0..(n - 1)
      BY <1>1, <2>1
    <3>2. 3 * ShareCount(f, 0) < Size(t)
      BY <1>5, <3>1
    <3> QED BY <1>1, <1>3, <3>2
  <2> QED BY <2>1
<1>6. IntermediateRounds(f, t) = CHOOSE n \in 0..Size(t) : Enough(n)
  BY DEF IntermediateRounds
<1> HIDE DEF Enough
<1> QED BY <1>4, <1>5, <1>6

\* The quorums of a renewal.
Quorums ==
  /\ from # {} /\ IsFiniteSet(from) /\ from \subseteq Nat
  /\ to # {} /\ IsFiniteSet(to) /\ to \subseteq Nat
  /\ IntermediateRounds(from, to) = 0

LEMMA QuorumsOfRenewal ==
  ASSUME NoIntermediateRounds, <<from, to>> \in Renewals
  PROVE  Quorums
<1>1. PICK r \in Renewals : r = <<from, to>>
  OBVIOUS
<1>2. r[1] = from /\ r[2] = to
  BY <1>1
<1>3. /\ from # {} /\ IsFiniteSet(from) /\ from \subseteq Nat
      /\ to # {} /\ IsFiniteSet(to) /\ to \subseteq Nat
  BY <1>2, ShareRenewalAssumption
<1>4. Size(to) <= 3 * Size(from)
  BY <1>2 DEF NoIntermediateRounds
<1> QED BY <1>3, <1>4, NoRoundsBefore DEF Quorums

\* What p sends about the secret i: the commitment to every member, then the shares.
Sent(p, i) ==
  LET commit(q) == Letter(0, p, q, [item |-> i, type |-> "commit", share |-> <<>>])
      share(q) == Letter(0, p, q, [item |-> i, type |-> "share", share |-> Evaluated(p, q)])
  IN  [n \in 1..Size(to) |-> commit(Members(to)[n])] \o
        [n \in 1..Size(to) |-> share(Members(to)[n])]

\* It is what Reshare sends in the only round.
LEMMA ReshareSends ==
  ASSUME Quorums, NEW p \in from, NEW i \in Item, NEW c, c = NewRound(from, to, 1, 1, TRUE)
  PROVE  Reshare(<<p, i>>, c, Position(p, from) + 1, 0) = Sent(p, i)
<1> DEFINE r == <<p, i>>
           s == Position(p, from) + 1
           share(q) == Letter(0, p, q, [item |-> i, type |-> "share", share |-> Evaluated(p, q)])
           shares0 == [n \in 1..Size(to) |-> share(Members(to)[n])]
<1>1. c.target = to /\ c.finalShares = 1
  BY DEF NewRound
<1>2. /\ Size(to) \in Nat \ {0} /\ DOMAIN Members(to) = 1..Size(to)
      /\ \A n \in 1..Size(to) : Members(to)[n] \in to /\ Position(Members(to)[n], to) = n - 1
  BY MembersInOrder DEF Quorums
<1>3. r[1] = p /\ r[2] = i
  OBVIOUS
<1>4. Commitments(r, c, 0) =
        [n \in 1..Size(to) |-> Letter(0, p, Members(to)[n], [item |-> i, type |-> "commit", share |-> <<>>])]
  BY <1>1, <1>2, <1>3 DEF Commitments, Letters
<1>5. ASSUME NEW n \in 1..Size(to)
      PROVE  Letter(0, r[1], Members(c.target)[n],
               [item |-> r[2], type |-> "share", share |-> <<s, Point(n, 1, c.finalShares)>>])
             = share(Members(to)[n])
  <2>1. Point(n, 1, 1) = n
    BY <1>2 DEF Point
  <2>2. Position(Members(to)[n], to) + 1 = n
    BY <1>2
  <2>3. Evaluated(p, Members(to)[n]) = <<s, n>>
    BY <2>2 DEF Evaluated
  <2> QED BY <1>1, <1>3, <2>1, <2>3
<1>6. Dealings(r, c, s, 0) = FlattenSeq([n \in 1..Size(to) |-> <<share(Members(to)[n])>>])
  <2> DEFINE deal(n, j) == Letter(0, r[1], Members(c.target)[n],
               [item |-> r[2], type |-> "share", share |-> <<s, Point(n, j, c.finalShares)>>])
  <2>1. Dealings(r, c, s, 0) =
          FlattenSeq([n \in 1..Size(c.target) |-> [j \in 1..c.finalShares |-> deal(n, j)]])
    BY DEF Dealings
  <2>2. ASSUME NEW n \in 1..Size(to)
        PROVE  [j \in 1..c.finalShares |-> deal(n, j)] = <<share(Members(to)[n])>>
    <3>1. deal(n, 1) = share(Members(to)[n])
      BY <1>5
    <3> HIDE DEF deal, share
    <3>2. [j \in 1..1 |-> deal(n, j)] = <<deal(n, 1)>>
      OBVIOUS
    <3> QED BY <1>1, <3>1, <3>2
  <2>3. [n \in 1..Size(c.target) |-> [j \in 1..c.finalShares |-> deal(n, j)]] =
          [n \in 1..Size(to) |-> <<share(Members(to)[n])>>]
    <3> HIDE DEF deal, share
    <3> QED BY <1>1, <2>2
  <2> QED BY <2>1, <2>3
<1>7. FlattenSeq([n \in DOMAIN shares0 |-> <<shares0[n]>>]) = shares0
  <2> DEFINE T == {share(Members(to)[n]) : n \in 1..Size(to)}
  <2>1. shares0 \in [1..Size(to) -> T]
    OBVIOUS
  <2> HIDE DEF shares0, T
  <2>2. shares0 \in Seq(T)
    BY <1>2, <2>1, IsASeq
  <2> QED BY <2>2, FlattenSeqOfSingletons
<1>8. [n \in DOMAIN shares0 |-> <<shares0[n]>>] = [n \in 1..Size(to) |-> <<share(Members(to)[n])>>]
  <2> HIDE DEF share
  <2> QED OBVIOUS
<1> QED BY <1>4, <1>6, <1>7, <1>8 DEF Reshare, Sent

\* p sends to each member of the other quorum one commitment and then one share.
LEMMA SentOfOneSecret ==
  ASSUME Quorums, NEW p \in from, NEW i \in Item
  PROVE  /\ Sent(p, i) \in Seq(Message)
         /\ \A m \in Range(Sent(p, i)) :
              m.from = p /\ m.body.item = i /\ m.body.type # "nextRound"
         /\ InOrderOfRound(Sent(p, i), {}, {})
<1> DEFINE commit(q) == Letter(0, p, q, [item |-> i, type |-> "commit", share |-> <<>>])
           share(q) == Letter(0, p, q, [item |-> i, type |-> "share", share |-> Evaluated(p, q)])
           c == [n \in 1..Size(to) |-> commit(Members(to)[n])]
           s == [n \in 1..Size(to) |-> share(Members(to)[n])]
<1>1. /\ Size(to) \in Nat \ {0}
      /\ \A n \in 1..Size(to) : Members(to)[n] \in to
      /\ \A n, k \in 1..Size(to) : Members(to)[n] = Members(to)[k] => n = k
      /\ \A q \in to : Position(q, to) \in Nat
      /\ Position(p, from) \in Nat
  <2>1. /\ Size(to) \in Nat \ {0} /\ DOMAIN Members(to) = 1..Size(to)
        /\ IsInjective(Members(to))
        /\ \A n \in 1..Size(to) : Members(to)[n] \in to
        /\ \A q \in to : Position(q, to) \in Nat
    BY MembersInOrder DEF Quorums
  <2>2. Position(p, from) \in Nat
    BY MembersInOrder DEF Quorums
  <2> QED BY <2>1, <2>2 DEF IsInjective
<1>2. ASSUME NEW q \in to
      PROVE  /\ commit(q) \in Message /\ share(q) \in Message
             /\ Key(commit(q)) = <<p, q, i>> /\ Key(share(q)) = <<p, q, i>>
             /\ commit(q).from = p /\ commit(q).body.item = i /\ commit(q).body.type = "commit"
             /\ share(q).from = p /\ share(q).body.item = i /\ share(q).body.type = "share"
  <2>1. Evaluated(p, q) \in Nat \X Nat
    BY <1>1 DEF Evaluated
  <2>2. 0 + 1 \in Nat /\ p \in Party /\ p \in from
    BY DEF Party
  <2>3. commit(q) \in Message
    BY <2>2 DEF Message, Body, Letter
  <2>4. share(q) \in Message
    BY <2>1, <2>2 DEF Message, Body, Letter
  <2> QED BY <2>3, <2>4 DEF Key, Letter
<1>3. /\ c \in Seq(Message) /\ s \in Seq(Message)
      /\ Len(c) = Size(to) /\ Len(s) = Size(to)
      /\ DOMAIN c = 1..Size(to) /\ DOMAIN s = 1..Size(to)
  <2>1. c \in [1..Size(to) -> Message] /\ s \in [1..Size(to) -> Message]
    <3> HIDE DEF commit, share
    <3> QED BY <1>1, <1>2
  <2>2. DOMAIN c = 1..Size(to) /\ DOMAIN s = 1..Size(to)
    OBVIOUS
  <2> HIDE DEF c, s
  <2>3. c \in Seq(Message) /\ s \in Seq(Message)
    BY <1>1, <2>1, IsASeq
  <2> QED BY <1>1, <2>2, <2>3, LenProperties
<1>4. \A n \in 1..Size(to) :
        /\ Key(c[n]) = <<p, Members(to)[n], i>> /\ c[n].from = p /\ c[n].body.item = i
        /\ c[n].body.type = "commit"
        /\ Key(s[n]) = <<p, Members(to)[n], i>> /\ s[n].from = p /\ s[n].body.item = i
        /\ s[n].body.type = "share"
  <2> HIDE DEF commit, share
  <2> QED BY <1>1, <1>2
<1>5. Sent(p, i) = c \o s
  BY DEF Sent
<1> HIDE DEF c, s
<1> DEFINE t == c \o s
<1>6. /\ t \in Seq(Message) /\ DOMAIN t = 1..(Size(to) + Size(to))
      /\ \A n \in 1..(Size(to) + Size(to)) : t[n] = IF n <= Size(to) THEN c[n] ELSE s[n - Size(to)]
  <2>1. /\ t \in Seq(Message) /\ Len(t) = Len(c) + Len(s)
        /\ \A n \in 1..(Len(c) + Len(s)) : t[n] = IF n <= Len(c) THEN c[n] ELSE s[n - Len(c)]
    BY <1>3, ConcatProperties
  <2> HIDE DEF t
  <2>2. DOMAIN t = 1..Len(t)
    BY <2>1, LenProperties
  <2> QED BY <1>3, <2>1, <2>2
<1> HIDE DEF t
<1>7. ASSUME NEW n \in DOMAIN t
      PROVE  \/ n \in 1..Size(to) /\ t[n] = c[n]
             \/ n - Size(to) \in 1..Size(to) /\ t[n] = s[n - Size(to)]
  BY <1>1, <1>6
<1>8. ASSUME NEW m \in Range(t)
      PROVE  m.from = p /\ m.body.item = i /\ m.body.type # "nextRound"
  <2>1. PICK n \in DOMAIN t : m = t[n]
    BY DEF Range
  <2> QED BY <1>4, <1>7, <2>1
<1>9. ASSUME NEW n \in DOMAIN t, NEW k \in DOMAIN t,
             t[n].body.type = t[k].body.type, Key(t[n]) = Key(t[k])
      PROVE  n = k
  <2>1. CASE n \in 1..Size(to) /\ t[n] = c[n]
    <3>1. k \in 1..Size(to) /\ t[k] = c[k]
      BY <1>4, <1>7, <1>9, <2>1
    <3>2. Members(to)[n] = Members(to)[k]
      BY <1>4, <1>9, <2>1, <3>1
    <3> QED BY <1>1, <2>1, <3>1, <3>2
  <2>2. CASE n - Size(to) \in 1..Size(to) /\ t[n] = s[n - Size(to)]
    <3>1. k - Size(to) \in 1..Size(to) /\ t[k] = s[k - Size(to)]
      BY <1>4, <1>7, <1>9, <2>2
    <3>2. Members(to)[n - Size(to)] = Members(to)[k - Size(to)]
      BY <1>4, <1>9, <2>2, <3>1
    <3>3. n - Size(to) = k - Size(to)
      BY <1>1, <2>2, <3>1, <3>2
    <3>4. n \in Nat /\ k \in Nat
      BY <1>6
    <3> QED BY <1>1, <3>3, <3>4
  <2> QED BY <1>7, <2>1, <2>2
<1>10. ASSUME NEW k \in DOMAIN t, t[k].body.type = "share"
       PROVE  \E n \in DOMAIN t : n < k /\ t[n].body.type = "commit" /\ Key(t[n]) = Key(t[k])
  <2>1. k - Size(to) \in 1..Size(to) /\ t[k] = s[k - Size(to)]
    BY <1>4, <1>7, <1>10
  <2>2. PICK n \in 1..Size(to) : n = k - Size(to)
    BY <2>1
  <2>3. n \in DOMAIN t /\ n < k /\ t[n] = c[n]
    BY <1>1, <1>6, <2>2
  <2> QED BY <1>4, <2>1, <2>2, <2>3
<1>11. InOrderOfRound(t, {}, {})
  BY <1>9, <1>10 DEF InOrderOfRound
<1> QED BY <1>5, <1>6, <1>8, <1>11 DEF t

\* What p sends about all secrets, when it starts.
LEMMA SentOfAllSecrets ==
  ASSUME Quorums, NEW p \in from,
         NEW t, t = FlattenSeq([n \in 1..Cardinality(Item) |-> Sent(p, Members(Item)[n])])
  PROVE  /\ t \in Seq(Message)
         /\ \A m \in Range(t) : m.from = p /\ m.body.type # "nextRound"
         /\ InOrderOfRound(t, {}, {})
<1>1. PICK N \in Nat : N = Cardinality(Item)
  BY ShareRenewalAssumption, FS_CardinalityType
<1>2. /\ \A n \in 1..N : Members(Item)[n] \in Item
      /\ \A n, k \in 1..N : Members(Item)[n] = Members(Item)[k] => n = k
  <2>1. /\ DOMAIN Members(Item) = 1..N /\ IsInjective(Members(Item))
        /\ \A n \in 1..N : Members(Item)[n] \in Item
    BY <1>1, ShareRenewalAssumption, MembersInOrder DEF Size
  <2> QED BY <2>1 DEF IsInjective
<1> DEFINE seqs == [n \in 1..N |-> Sent(p, Members(Item)[n])]
           Good(k, s) == /\ \A m \in Range(s) :
                              /\ m.from = p /\ m.body.type # "nextRound"
                              /\ \E n \in 1..k : m.body.item = Members(Item)[n]
                         /\ InOrderOfRound(s, {}, {})
           good == [k \in 0..N |-> {s \in Seq(Message) : Good(k, s)}]
<1>3. ASSUME NEW n \in 1..N
      PROVE  /\ seqs[n] \in Seq(Message)
             /\ \A m \in Range(seqs[n]) :
                  m.from = p /\ m.body.item = Members(Item)[n] /\ m.body.type # "nextRound"
             /\ InOrderOfRound(seqs[n], {}, {})
  <2>1. seqs[n] = Sent(p, Members(Item)[n]) /\ Members(Item)[n] \in Item
    BY <1>2
  <2> HIDE DEF seqs
  <2> QED BY <2>1, SentOfOneSecret
<1>4. seqs \in Seq(Seq(Message)) /\ Len(seqs) = N
  <2>1. seqs \in [1..N -> Seq(Message)] /\ DOMAIN seqs = 1..N
    BY <1>3
  <2> HIDE DEF seqs
  <2>2. seqs \in Seq(Seq(Message))
    BY <2>1, IsASeq
  <2> QED BY <2>1, <2>2, LenProperties
<1> HIDE DEF seqs
<1>5. <<>> \in good[0]
  <2>1. <<>> \in Seq(Message) /\ Range(<<>>) = {} /\ DOMAIN <<>> = {}
    BY DEF Range
  <2>2. InOrderOfRound(<<>>, {}, {})
    BY <2>1 DEF InOrderOfRound
  <2>3. Good(0, <<>>)
    BY <2>1, <2>2
  <2> HIDE DEF Good
  <2> QED BY <1>1, <2>1, <2>3
<1>6. ASSUME NEW k \in 1..N, NEW s \in good[k - 1]
      PROVE  s \o seqs[k] \in good[k]
  <2>1. k - 1 \in 0..N /\ k \in 0..N
    BY <1>1
  <2>2. s \in Seq(Message) /\ Good(k - 1, s)
    <3> HIDE DEF Good
    <3> QED BY <2>1
  <2>3. s \o seqs[k] \in Seq(Message) /\ Range(s \o seqs[k]) = Range(s) \union Range(seqs[k])
    BY <1>3, <2>2, RangeOfConcatenation
  <2>4. ASSUME NEW m \in Range(s), NEW l \in Range(seqs[k])
        PROVE  Key(m) # Key(l)
    <3>1. PICK n \in 1..(k - 1) : m.body.item = Members(Item)[n]
      BY <2>2
    <3>2. n \in 1..N /\ n # k
      BY <1>1, <3>1
    <3>3. Members(Item)[n] # Members(Item)[k]
      BY <1>2, <3>2
    <3>4. l.body.item = Members(Item)[k]
      BY <1>3
    <3> QED BY <3>1, <3>3, <3>4 DEF Key
  <2>5. InOrderOfRound(s \o seqs[k], {}, {})
    BY <1>3, <2>2, <2>4, SentInOrder
  <2>6. ASSUME NEW m \in Range(s \o seqs[k])
        PROVE  /\ m.from = p /\ m.body.type # "nextRound"
               /\ \E n \in 1..k : m.body.item = Members(Item)[n]
    <3>1. CASE m \in Range(s)
      <4>1. PICK n \in 1..(k - 1) : m.body.item = Members(Item)[n]
        BY <2>2, <3>1
      <4>2. n \in 1..k
        BY <1>1, <4>1
      <4> QED BY <2>2, <3>1, <4>1, <4>2
    <3>2. CASE m \in Range(seqs[k])
      <4>1. k \in 1..k
        BY <1>1
      <4> QED BY <1>3, <3>2, <4>1
    <3> QED BY <2>3, <3>1, <3>2
  <2>7. Good(k, s \o seqs[k])
    BY <2>5, <2>6
  <2> HIDE DEF Good
  <2> QED BY <2>1, <2>3, <2>7
<1>7. FlattenSeq(seqs) \in good[Len(seqs)]
  <2> HIDE DEF good
  <2>1. \A k \in 1..Len(seqs) : \A s \in good[k - 1] : s \o seqs[k] \in good[k]
    BY <1>4, <1>6
  <2> QED BY <1>4, <1>5, <2>1, FlattenSeqInduction
<1>8. FlattenSeq(seqs) = t
  BY <1>1 DEF seqs
<1>9. t \in Seq(Message) /\ Good(N, t)
  <2>1. N \in 0..N /\ t \in good[N]
    BY <1>1, <1>4, <1>7, <1>8
  <2> HIDE DEF Good
  <2> QED BY <2>1
<1> QED BY <1>9

-----------------------------------------------------------------------------
(***************************************************************************)
(* The round.                                                              *)
(***************************************************************************)

\* What the round of r holds when the commitments of `announced` and the shares of `filed`
\* have been received.
Commits(r, announced) == [p \in from |-> IF <<p, r[1], r[2]>> \in announced THEN 1 ELSE 0]

ReshareFrom(p, r, filed) ==
  [i \in 1..1 |-> IF <<p, r[1], r[2]>> \in filed THEN <<Evaluated(p, r[1])>> ELSE <<>>]

Reshares(r, filed) == [p \in from |-> ReshareFrom(p, r, filed)]

Heard(r, filed) == {p \in from : <<p, r[1], r[2]>> \in filed}

RoundTo(commits, reshares, received, isFinal) ==
  [target |-> to, startShares |-> 1, finalShares |-> 1,
   commits |-> commits, reshares |-> reshares, received |-> received, isFinal |-> isFinal]

RoundOf(r, announced, filed) ==
  RoundTo(Commits(r, announced), Reshares(r, filed), Cardinality(Heard(r, filed)), TRUE)

\* Its fields, ...
LEMMA FieldsOfRound ==
  ASSUME NEW r, NEW announced, NEW filed, NEW c, c = RoundOf(r, announced, filed)
  PROVE  /\ c.target = to /\ c.startShares = 1 /\ c.finalShares = 1 /\ c.isFinal
         /\ c.commits = Commits(r, announced) /\ c.reshares = Reshares(r, filed)
         /\ c.received = Cardinality(Heard(r, filed))
  BY DEF RoundOf, RoundTo

\* ... and how filing a share changes them.
LEMMA FiledInRound ==
  ASSUME NEW f, NEW g, NEW n, NEW t, NEW p, NEW s, f[p] = 1, NEW c, c = RoundTo(f, g, n, t)
  PROVE  File(c, p, s) = RoundTo(f, [g EXCEPT ![p][1] = Append(@, s)], n + 1, t)
<1> DEFINE h == [g EXCEPT ![p][1] = Append(@, s)]
           k == n + 1
<1>1. c.reshares = g /\ c.commits = f /\ c.received = n
  BY DEF RoundTo
<1>2. File(c, p, s) = [c EXCEPT !.reshares[p][1] = Append(@, s), !.received = @ + 1]
  BY <1>1 DEF File
<1>3. [c EXCEPT !.reshares[p][1] = Append(@, s), !.received = @ + 1] =
        [c EXCEPT !.reshares = h, !.received = k]
  BY <1>1
<1> HIDE DEF h, k
<1>4. [c EXCEPT !.reshares = h, !.received = k] = [[c EXCEPT !.reshares = h] EXCEPT !.received = k]
  OBVIOUS
<1>5. [c EXCEPT !.reshares = h] = RoundTo(f, h, n, t)
  BY DEF RoundTo
<1>6. [RoundTo(f, h, n, t) EXCEPT !.received = k] = RoundTo(f, h, k, t)
  BY DEF RoundTo
<1>7. [c EXCEPT !.reshares = h, !.received = k] = RoundTo(f, h, k, t)
  BY <1>4, <1>5, <1>6
<1> QED BY <1>2, <1>3, <1>7 DEF h, k

\* What it tells of a sender.
LEMMA CommitOf ==
  ASSUME NEW r, NEW announced, NEW filed, NEW p \in from, NEW k, k = <<p, r[1], r[2]>>
  PROVE  RoundOf(r, announced, filed).commits[p] = IF k \in announced THEN 1 ELSE 0
<1>1. RoundOf(r, announced, filed).commits = Commits(r, announced)
  BY FieldsOfRound
<1> QED BY <1>1 DEF Commits

LEMMA ReshareOf ==
  ASSUME NEW r, NEW announced, NEW filed, NEW p \in from, NEW k, k = <<p, r[1], r[2]>>
  PROVE  Len(RoundOf(r, announced, filed).reshares[p][1]) = IF k \in filed THEN 1 ELSE 0
<1>1. RoundOf(r, announced, filed).reshares = Reshares(r, filed)
  BY FieldsOfRound
<1>2. Reshares(r, filed)[p] = ReshareFrom(p, r, filed)
  BY DEF Reshares
<1>3. ReshareFrom(p, r, filed)[1] = IF k \in filed THEN <<Evaluated(p, r[1])>> ELSE <<>>
  BY DEF ReshareFrom
<1>4. Len(<<Evaluated(p, r[1])>>) = 1 /\ Len(<<>>) = 0
  OBVIOUS
<1> QED BY <1>1, <1>2, <1>3, <1>4

\* Nothing has been received in a new one.
LEMMA NewRoundOf ==
  ASSUME NEW r, NEW announced, NEW filed, announced = {}, filed = {}
  PROVE  NewRound(from, to, 1, 1, TRUE) = RoundOf(r, announced, filed)
<1>1. Heard(r, filed) = {}
  BY DEF Heard
<1>2. Cardinality(Heard(r, filed)) = 0
  BY <1>1, FS_EmptySet
<1>3. Commits(r, announced) = [p \in from |-> 0]
  BY DEF Commits
<1>4. Reshares(r, filed) = [p \in from |-> [i \in 1..1 |-> <<>>]]
  BY DEF Reshares, ReshareFrom
<1> QED BY <1>2, <1>3, <1>4 DEF NewRound, RoundOf, RoundTo

\* A commitment is counted.
Counted(c, p) == [c EXCEPT !.commits[p] = @ + 1]

LEMMA CommitCounted ==
  ASSUME NEW r, NEW announced, NEW filed, NEW p \in from, NEW k, k = <<p, r[1], r[2]>>,
         k \notin announced, NEW later, later = announced \union {k},
         NEW c, c = RoundOf(r, announced, filed)
  PROVE  Counted(c, p) = RoundOf(r, later, filed)
<1>1. Commits(r, announced)[p] = 0 /\ Commits(r, later)[p] = 1
  BY DEF Commits
<1>2. \A q \in from : q # p => Commits(r, later)[q] = Commits(r, announced)[q]
  BY DEF Commits
<1>3. /\ Commits(r, announced) = [q \in from |-> Commits(r, announced)[q]]
      /\ Commits(r, later) = [q \in from |-> Commits(r, later)[q]]
  BY DEF Commits
<1>4. Commits(r, later) = [Commits(r, announced) EXCEPT ![p] = @ + 1]
  <2>1. \A f, g : /\ f = [q \in from |-> f[q]] /\ g = [q \in from |-> g[q]]
                  /\ \A q \in from : q # p => g[q] = f[q]
                  /\ g[p] = f[p] + 1
                  => g = [f EXCEPT ![p] = @ + 1]
    OBVIOUS
  <2> QED BY <1>1, <1>2, <1>3, <2>1
<1>5. c.commits = Commits(r, announced)
  BY FieldsOfRound
<1>6. [c EXCEPT !.commits[p] = @ + 1] = RoundOf(r, later, filed)
  <2> DEFINE f == Commits(r, announced)
             g == Reshares(r, filed)
             n == Cardinality(Heard(r, filed))
             t == TRUE
             h == Commits(r, later)
  <2>1. c = RoundTo(f, g, n, t)
    BY DEF RoundOf
  <2>2. h = [f EXCEPT ![p] = @ + 1]
    BY <1>4
  <2>3. RoundOf(r, later, filed) = RoundTo(h, g, n, t)
    BY DEF RoundOf
  <2> HIDE DEF f, g, n, t, h
  <2>4. [c EXCEPT !.commits[p] = @ + 1] = RoundTo(h, g, n, t)
    BY <2>1, <2>2 DEF RoundTo
  <2> QED BY <2>3, <2>4
<1> QED BY <1>6 DEF Counted

\* A share that has been announced is filed.
LEMMA ShareFiled ==
  ASSUME Quorums, NEW r, NEW announced, NEW filed, NEW p \in from, NEW k, k = <<p, r[1], r[2]>>,
         k \in announced, k \notin filed, NEW later, later = filed \union {k},
         NEW e, e = Evaluated(p, r[1]), NEW c, c = RoundOf(r, announced, filed)
  PROVE  File(c, p, e) = RoundOf(r, announced, later)
<1>1. c.commits[p] = 1 /\ c.commits = Commits(r, announced)
  BY FieldsOfRound DEF Commits
<1>2. c.reshares = Reshares(r, filed) /\ c.received = Cardinality(Heard(r, filed))
  BY FieldsOfRound
<1>3. /\ ReshareFrom(p, r, filed) = [i \in 1..1 |-> <<>>]
      /\ ReshareFrom(p, r, later) = [i \in 1..1 |-> <<e>>]
      /\ \A q \in from : q # p => ReshareFrom(q, r, later) = ReshareFrom(q, r, filed)
  BY DEF ReshareFrom
<1>4. Reshares(r, filed)[p] = [i \in 1..1 |-> <<>>] /\ Reshares(r, filed)[p][1] = <<>>
  BY <1>3 DEF Reshares
<1>5. Reshares(r, later) = [Reshares(r, filed) EXCEPT ![p][1] = Append(@, e)]
  <2>1. Append(<<>>, e) = <<e>>
    OBVIOUS
  <2>2. [i \in 1..1 |-> <<e>>] = [[i \in 1..1 |-> <<>>] EXCEPT ![1] = <<e>>]
    OBVIOUS
  <2>3. Reshares(r, later) = [Reshares(r, filed) EXCEPT ![p] = ReshareFrom(p, r, later)]
    BY <1>3 DEF Reshares
  <2>4. Reshares(r, later) = [Reshares(r, filed) EXCEPT ![p] = [@ EXCEPT ![1] = <<e>>]]
    BY <1>3, <1>4, <2>2, <2>3
  <2> QED BY <1>4, <2>1, <2>4
<1>6. Cardinality(Heard(r, later)) = Cardinality(Heard(r, filed)) + 1
  <2>1. Heard(r, later) = Heard(r, filed) \union {p} /\ p \notin Heard(r, filed)
    BY DEF Heard
  <2>2. IsFiniteSet(Heard(r, filed))
    <3>1. Heard(r, filed) \subseteq from
      BY DEF Heard
    <3> QED BY <3>1, FS_Subset DEF Quorums
  <2> QED BY <2>1, <2>2, FS_AddElement
<1>9. File(c, p, e) = RoundOf(r, announced, later)
  <2> DEFINE f == Commits(r, announced)
             g == Reshares(r, filed)
             n == Cardinality(Heard(r, filed))
             t == TRUE
  <2>1. f[p] = 1 /\ c = RoundTo(f, g, n, t)
    BY <1>1 DEF RoundOf
  <2>2. RoundOf(r, announced, later) = RoundTo(f, [g EXCEPT ![p][1] = Append(@, e)], n + 1, t)
    BY <1>5, <1>6 DEF RoundOf
  <2> HIDE DEF f, g, n, t
  <2> QED BY <2>1, <2>2, FiledInRound
<1> QED BY <1>9

\* When as many shares have been filed as there are senders, each has sent one.
LEMMA AllFiled ==
  ASSUME Quorums, NEW r, NEW announced, NEW filed, AllReceived(RoundOf(r, announced, filed))
  PROVE  \A p \in from : <<p, r[1], r[2]>> \in filed
<1> DEFINE heard == Heard(r, filed)
<1>1. Cardinality(heard) = Size(from) * 1 * 1
  BY FieldsOfRound DEF AllReceived
<1>2. Size(from) \in Nat
  BY FS_CardinalityType DEF Size, Quorums
<1>3. Cardinality(heard) = Cardinality(from)
  BY <1>1, <1>2 DEF Size
<1>4. heard \subseteq from
  BY DEF Heard
<1>5. heard = from
  <2> HIDE DEF heard
  <2> QED BY <1>3, <1>4, FS_Subset DEF Quorums
<1> QED BY <1>5 DEF Heard

\* All shares of a round that are combined give the share at the party's own position.
LEMMA Recombined ==
  ASSUME Quorums, NEW r, r[1] \in to, NEW announced, NEW filed,
         \A p \in from : <<p, r[1], r[2]>> \in filed,
         NEW c, c = RoundOf(r, announced, filed)
  PROVE  Filled(c) /\ Recombine(c) = <<Position(r[1], to) + 1>>
<1> DEFINE P == Position(r[1], to) + 1
<1>1. /\ c.startShares = 1 /\ c.finalShares = 1
      /\ \A p \in from : c.reshares[p][1] = <<Evaluated(p, r[1])>>
  <2>1. /\ c.startShares = 1 /\ c.finalShares = 1 /\ c.reshares = Reshares(r, filed)
    BY FieldsOfRound
  <2>2. ASSUME NEW p \in from
        PROVE  Reshares(r, filed)[p][1] = <<Evaluated(p, r[1])>>
    <3>1. Reshares(r, filed)[p] = ReshareFrom(p, r, filed)
      BY DEF Reshares
    <3>2. ReshareFrom(p, r, filed)[1] = <<Evaluated(p, r[1])>>
      BY DEF ReshareFrom
    <3> QED BY <3>1, <3>2
  <2> QED BY <2>1, <2>2
<1>2. Filled(c)
  <2>1. ASSUME NEW p \in from, NEW i \in 1..1 PROVE Len(c.reshares[p][i]) = 1
    <3>1. i = 1
      OBVIOUS
    <3>2. c.reshares[p][i] = <<Evaluated(p, r[1])>>
      BY <1>1, <3>1
    <3>3. Len(<<Evaluated(p, r[1])>>) = 1
      OBVIOUS
    <3> QED BY <3>2, <3>3
  <2> QED BY <1>1, <2>1 DEF Filled
<1>3. /\ Size(from) \in Nat \ {0}
      /\ \A k \in 1..Size(from) : Members(from)[k] \in from /\ Position(Members(from)[k], from) = k - 1
  BY MembersInOrder DEF Quorums
<1>4. OrderedShares(c, 1) = [k \in 1..Size(from) |-> <<k, P>>]
  <2>1. ASSUME NEW k \in 1..Size(from)
        PROVE  c.reshares[Members(from)[((k - 1) \div 1) + 1]][((k - 1) % 1) + 1][1] = <<k, P>>
    <3>1. ((k - 1) \div 1) + 1 = k /\ ((k - 1) % 1) + 1 = 1
      BY <1>3
    <3>2. Members(from)[k] \in from /\ Position(Members(from)[k], from) = k - 1
      BY <1>3
    <3>3. c.reshares[Members(from)[k]][1] = <<Evaluated(Members(from)[k], r[1])>>
      BY <1>1, <3>2
    <3>4. (k - 1) + 1 = k
      BY <1>3
    <3>5. Evaluated(Members(from)[k], r[1]) = <<k, P>>
      BY <3>2, <3>4 DEF Evaluated
    <3> QED BY <3>1, <3>3, <3>5
  <2>2. Size(from) * 1 = Size(from)
    BY <1>3
  <2>3. OrderedShares(c, 1) =
          [k \in 1..Size(from) |->
             c.reshares[Members(from)[((k - 1) \div 1) + 1]][((k - 1) % 1) + 1][1]]
    BY <1>1, <2>2 DEF OrderedShares
  <2> HIDE DEF P
  <2> QED BY <2>1, <2>3
<1>5. Combined(OrderedShares(c, 1)) = P
  <2> DEFINE row == OrderedShares(c, 1)
  <2>1. row[1][2] = P /\ \A k \in DOMAIN row : row[k] = <<k, P>>
    <3>1. 1 \in 1..Size(from)
      BY <1>3
    <3>2. /\ DOMAIN [k \in 1..Size(from) |-> <<k, P>>] = 1..Size(from)
          /\ \A k \in 1..Size(from) : [j \in 1..Size(from) |-> <<j, P>>][k] = <<k, P>>
      OBVIOUS
    <3>3. DOMAIN row = 1..Size(from) /\ \A k \in 1..Size(from) : row[k] = <<k, P>>
      BY <1>4, <3>2
    <3>4. row[1] = <<1, P>>
      BY <3>1, <3>3
    <3> HIDE DEF P, row
    <3> QED BY <3>3, <3>4
  <2> HIDE DEF row, P
  <2>2. Combined(row) = P
    BY <2>1 DEF Combined
  <2> QED BY <2>2 DEF row
<1>6. Recombine(c) = [j \in 1..1 |-> P]
  <2>1. Recombine(c) = [j \in 1..1 |-> IF Filled(c) THEN Combined(OrderedShares(c, j)) ELSE Broken]
    BY <1>1 DEF Recombine
  <2>2. \A j \in 1..1 : j = 1
    OBVIOUS
  <2> HIDE DEF P
  <2> QED BY <1>2, <1>5, <2>1, <2>2
<1>7. [j \in 1..1 |-> P] = <<P>>
  <2> HIDE DEF P
  <2> QED OBVIOUS
<1> QED BY <1>2, <1>6, <1>7

-----------------------------------------------------------------------------
(***************************************************************************)
(* The invariant.                                                          *)
(***************************************************************************)

\* The quorums are those of a renewal, and whoever only receives has started.
QuorumsOK ==
  /\ <<from, to>> \in Renewals
  /\ started \subseteq Party /\ to \ from \subseteq started
  /\ remaining = [r \in Renewal |-> 0]
  /\ loopbacks \in Seq(started) /\ joined \subseteq started
  /\ completed \subseteq started \X Item

\* The messages are in order, and come from parties that have started; one that is told that
\* its round is over has everybody's share.
QueueOK(announced, filed) ==
  /\ network \in Seq(Message)
  /\ InOrderOfRound(network, announced, filed)
  /\ \A m \in Range(network) : m.body.type # "nextRound" => m.from \in started
  /\ \A m \in Range(network) :
       m.body.type = "nextRound" => \A p \in from : <<p, m.to, m.body.item>> \in filed

\* The rounds are given by what has been received; nobody receives before all have started.
RoundsOK(announced, filed) ==
  /\ announced \subseteq Keys /\ filed \subseteq Keys
  /\ ~(Party \subseteq started) => announced = {} /\ filed = {}
  /\ round = [r \in Renewal |-> IF r[1] \in started THEN {RoundOf(r, announced, filed)} ELSE {}]

\* A party has the share at its position in one quorum, and then at that in the other.
ShareOf(r, done) ==
  IF done /\ r[1] \in to THEN <<Position(r[1], to) + 1>>
  ELSE IF r[1] \in from THEN <<Position(r[1], from) + 1>> ELSE <<>>

SharesOK == shares = [r \in Renewal |-> ShareOf(r, r \in completed)]

IInv ==
  /\ QuorumsOK /\ SharesOK
  /\ \E announced, filed : QueueOK(announced, filed) /\ RoundsOK(announced, filed)

\* The quorums of a state are those of one renewal.
LEMMA QuorumsOfState ==
  ASSUME NoIntermediateRounds, QuorumsOK
  PROVE  Quorums /\ to \subseteq Party /\ from \subseteq Party
BY QuorumsOfRenewal DEF QuorumsOK, Party

\* No step changes the quorums, nor what is expressed in terms of them.
LEMMA SameQuorums ==
  ASSUME from' = from, to' = to
  PROVE  /\ Party' = Party /\ Renewal' = Renewal /\ Keys' = Keys /\ Message' = Message
         /\ \A r, announced, filed : RoundOf(r, announced, filed)' = RoundOf(r, announced, filed)
         /\ \A r, done : ShareOf(r, done)' = ShareOf(r, done)
<1>1. Party' = Party /\ Renewal' = Renewal /\ Keys' = Keys
  BY DEF Party, Renewal, Keys
<1>2. \A p, q : Evaluated(p, q)' = Evaluated(p, q)
  BY DEF Evaluated
<1>3. Message' = Message
  BY <1>1, <1>2 DEF Message
<1>4. ASSUME NEW r, NEW announced, NEW filed
      PROVE  RoundOf(r, announced, filed)' = RoundOf(r, announced, filed)
  <2>1. Commits(r, announced)' = Commits(r, announced)
    BY DEF Commits
  <2>2. \A p : ReshareFrom(p, r, filed)' = ReshareFrom(p, r, filed)
    BY <1>2 DEF ReshareFrom
  <2>3. Reshares(r, filed)' = Reshares(r, filed)
    BY <2>2 DEF Reshares
  <2>4. Heard(r, filed)' = Heard(r, filed)
    BY DEF Heard
  <2> QED BY <2>1, <2>3, <2>4 DEF RoundOf, RoundTo
<1>5. \A r, done : ShareOf(r, done)' = ShareOf(r, done)
  BY DEF ShareOf
<1> QED BY <1>1, <1>3, <1>4, <1>5

\* What is received in one round changes no other.
LEMMA OtherCommits ==
  ASSUME NEW r \in Renewal, NEW s \in Renewal, r # s, NEW announced, NEW filed,
         NEW p, NEW k, k = <<p, r[1], r[2]>>
  PROVE  RoundOf(s, announced \union {k}, filed) = RoundOf(s, announced, filed)
<1>1. r[1] # s[1] \/ r[2] # s[2]
  BY DEF Renewal
<1>2. \A q : <<q, s[1], s[2]>> # k
  BY <1>1
<1>3. Commits(s, announced \union {k}) = Commits(s, announced)
  BY <1>2 DEF Commits
<1> QED BY <1>3 DEF RoundOf

LEMMA OtherShares ==
  ASSUME NEW r \in Renewal, NEW s \in Renewal, r # s, NEW announced, NEW filed,
         NEW p, NEW k, k = <<p, r[1], r[2]>>
  PROVE  RoundOf(s, announced, filed \union {k}) = RoundOf(s, announced, filed)
<1>1. r[1] # s[1] \/ r[2] # s[2]
  BY DEF Renewal
<1>2. \A q : <<q, s[1], s[2]>> # k
  BY <1>1
<1>3. \A q : ReshareFrom(q, s, filed \union {k}) = ReshareFrom(q, s, filed)
  BY <1>2 DEF ReshareFrom
<1>4. Reshares(s, filed \union {k}) = Reshares(s, filed)
  BY <1>3 DEF Reshares
<1>5. Heard(s, filed \union {k}) = Heard(s, filed)
  BY <1>2 DEF Heard
<1> QED BY <1>4, <1>5 DEF RoundOf

LEMMA InitEstablishes ==
  ASSUME NoIntermediateRounds, Init
  PROVE  IInv
<1>1. <<from, to>> \in Renewals
  <2>1. PICK r \in Renewals : from = r[1] /\ to = r[2]
    BY DEF Init
  <2> QED BY <2>1, ShareRenewalAssumption
<1>2. Quorums
  BY <1>1, QuorumsOfRenewal
<1>3. IntermediateRounds(from, to) = 0 /\ 3^0 = 1
  BY <1>2 DEF Quorums
<1>4. QuorumsOK
  <2>1. started \subseteq Party /\ to \ from \subseteq started
    BY DEF Init, Party
  <2>2. remaining = [r \in Renewal |-> 0]
    BY <1>3 DEF Init
  <2>3. loopbacks \in Seq(started) /\ joined \subseteq started /\ completed \subseteq started \X Item
    BY DEF Init, NetworkInit
  <2> QED BY <1>1, <2>1, <2>2, <2>3 DEF QuorumsOK
<1>5. SharesOK
  <2>1. \A r \in Renewal : r[1] \in from \/ r[1] \notin from
    OBVIOUS
  <2>2. completed = {}
    BY DEF Init
  <2>3. \A r \in Renewal : ShareOf(r, r \in completed) =
          IF r[1] \in from THEN <<Position(r[1], from) + 1>> ELSE <<>>
    BY <2>2 DEF ShareOf
  <2> QED BY <2>3 DEF SharesOK, Init
<1>6. QueueOK({}, {})
  <2>1. network = <<>> /\ Range(network) = {} /\ DOMAIN network = {}
    BY DEF Init, NetworkInit, Range
  <2>2. network \in Seq(Message)
    BY <2>1
  <2> QED BY <2>1, <2>2 DEF QueueOK, InOrderOfRound
<1>7. RoundsOK({}, {})
  <2>1. \A r : NewRound(from, to, 1, 1, TRUE) = RoundOf(r, {}, {})
    BY NewRoundOf
  <2>2. ASSUME NEW r \in Renewal
        PROVE  r[1] \in started <=> r[1] \notin from
    <3>1. r[1] \in from \union to
      BY DEF Renewal, Party
    <3> QED BY <3>1 DEF Init
  <2>3. round = [r \in Renewal |-> IF r[1] \in from THEN {} ELSE {NewRound(from, to, 1, 1, TRUE)}]
    BY <1>3 DEF Init
  <2>4. round = [r \in Renewal |-> IF r[1] \in started THEN {RoundOf(r, {}, {})} ELSE {}]
    BY <2>1, <2>2, <2>3
  <2> QED BY <2>4 DEF RoundsOK
<1> QED BY <1>4, <1>5, <1>6, <1>7 DEF IInv

-----------------------------------------------------------------------------
(***************************************************************************)
(* Start.                                                                  *)
(***************************************************************************)

\* What a party sends when it starts.
StartLetters(p) == FlattenSeq([n \in 1..Cardinality(Item) |-> Sent(p, Members(Item)[n])])

\* The start of a party, in the only round.
LEMMA StartDoes ==
  ASSUME NoIntermediateRounds, QuorumsOK, SharesOK, NEW p \in from, Start(p)
  PROVE  /\ p \in from \ started /\ started' = started \union {p}
         /\ round' = [r \in Renewal |->
                        IF r[1] = p THEN {NewRound(from, to, 1, 1, TRUE)} ELSE round[r]]
         /\ network' = network \o StartLetters(p)
         /\ Complete(p, IF p \notin to THEN Item ELSE {}, loopbacks)
         /\ UNCHANGED <<from, to, remaining, shares, joined>>
<1> DEFINE c == FirstRound(p)
           letters(item) ==
             FlattenSeq([i \in DOMAIN shares[<<p, item>>] |->
               Reshare(<<p, item>>, c, shares[<<p, item>>][i], 0)])
<1>1. Quorums
  BY QuorumsOfState
<1>2. c = NewRound(from, to, 1, 1, TRUE)
  BY <1>1 DEF FirstRound, Quorums
<1>3. c.isFinal
  BY <1>2 DEF NewRound
<1>4. /\ p \in from \ started /\ started' = started \union {p}
      /\ round' = [r \in Renewal |-> IF r[1] = p THEN {c} ELSE round[r]]
      /\ network' = network \o FlattenSeq([n \in 1..Cardinality(Item) |-> letters(Members(Item)[n])])
      /\ Complete(p, IF c.isFinal /\ p \notin to THEN Item ELSE {}, loopbacks)
      /\ UNCHANGED <<from, to, remaining, shares, joined>>
  BY DEF Start
<1> HIDE DEF c
<1>5. ASSUME NEW i \in Item
      PROVE  letters(i) = Sent(p, i)
  <2>1. <<p, i>> \in Renewal /\ <<p, i>> \notin completed
    BY <1>4 DEF QuorumsOK, Renewal, Party
  <2> DEFINE P == Position(p, from) + 1
  <2>2. shares[<<p, i>>] = <<P>>
    BY <2>1 DEF SharesOK, ShareOf
  <2>3. Reshare(<<p, i>>, c, P, 0) = Sent(p, i)
    BY <1>1, <1>2, ReshareSends
  <2> HIDE DEF P
  <2>4. [j \in DOMAIN <<P>> |-> Reshare(<<p, i>>, c, <<P>>[j], 0)] = <<Reshare(<<p, i>>, c, P, 0)>>
    <3> DEFINE R(x) == Reshare(<<p, i>>, c, x, 0)
    <3> HIDE DEF R
    <3>1. [j \in DOMAIN <<P>> |-> R(<<P>>[j])] = <<R(P)>>
      OBVIOUS
    <3> QED BY <3>1 DEF R
  <2>5. FlattenSeq(<<Sent(p, i)>>) = Sent(p, i)
    BY <1>1, SentOfOneSecret, FlattenSeqOfOne
  <2> QED BY <2>2, <2>3, <2>4, <2>5
<1>6. FlattenSeq([n \in 1..Cardinality(Item) |-> letters(Members(Item)[n])]) = StartLetters(p)
  <2>1. \A n \in 1..Cardinality(Item) : Members(Item)[n] \in Item
    BY ShareRenewalAssumption, MembersInOrder DEF Size
  <2> HIDE DEF letters
  <2>2. [n \in 1..Cardinality(Item) |-> letters(Members(Item)[n])] =
          [n \in 1..Cardinality(Item) |-> Sent(p, Members(Item)[n])]
    BY <1>5, <2>1
  <2> QED BY <2>2 DEF StartLetters
<1>7. (IF c.isFinal /\ p \notin to THEN Item ELSE {}) = (IF p \notin to THEN Item ELSE {})
  BY <1>3
<1> QED BY <1>2, <1>4, <1>6, <1>7

\* Completing renewals of a party that has started.
LEMMA CompletePosts ==
  ASSUME NEW p, NEW items, items \subseteq Item, loopbacks \in Seq(started),
         Complete(p, items, loopbacks), p \in started', started \subseteq started',
         completed \subseteq started \X Item
  PROVE  loopbacks' \in Seq(started') /\ completed' \subseteq started' \X Item
<1>1. completed' = completed \union ({p} \X items)
  BY DEF Complete
<1>2. completed' \subseteq started' \X Item
  BY <1>1
<1>3. loopbacks \in Seq(started')
  <2>1. Len(loopbacks) \in Nat /\ loopbacks \in [1..Len(loopbacks) -> started]
    OBVIOUS
  <2>2. loopbacks \in [1..Len(loopbacks) -> started']
    BY <2>1
  <2> QED BY <2>1, <2>2, IsASeq
<1>4. PICK s : loopbacks' = loopbacks \o s /\ s \in {<<p>>, <<>>}
  BY DEF Complete
<1>5. <<p>> \in Seq(started') /\ <<>> \in Seq(started')
  OBVIOUS
<1>6. s \in Seq(started')
  BY <1>4, <1>5
<1> QED BY <1>2, <1>3, <1>4, <1>6, ConcatProperties

LEMMA StartPreserves ==
  ASSUME NoIntermediateRounds, IInv, NEW p \in from, Start(p)
  PROVE  IInv'
<1>1. QuorumsOK /\ SharesOK
  BY DEF IInv
<1>2. PICK announced, filed : QueueOK(announced, filed) /\ RoundsOK(announced, filed)
  BY DEF IInv
<1>3. Quorums /\ to \subseteq Party /\ from \subseteq Party
  BY <1>1, QuorumsOfState
<1>4. /\ p \in from \ started /\ started' = started \union {p}
      /\ round' = [r \in Renewal |->
                     IF r[1] = p THEN {NewRound(from, to, 1, 1, TRUE)} ELSE round[r]]
      /\ network' = network \o StartLetters(p)
      /\ Complete(p, IF p \notin to THEN Item ELSE {}, loopbacks)
      /\ UNCHANGED <<from, to, remaining, shares, joined>>
  BY <1>1, StartDoes
<1>5. /\ Party' = Party /\ Renewal' = Renewal /\ Keys' = Keys /\ Message' = Message
      /\ \A r, a, f : RoundOf(r, a, f)' = RoundOf(r, a, f)
      /\ \A r, done : ShareOf(r, done)' = ShareOf(r, done)
  BY <1>4, SameQuorums
<1>6. announced = {} /\ filed = {}
  BY <1>2, <1>3, <1>4 DEF RoundsOK
<1>7. QuorumsOK'
  <2>1. loopbacks' \in Seq(started') /\ completed' \subseteq started' \X Item
    <3>1. (IF p \notin to THEN Item ELSE {}) \subseteq Item
      OBVIOUS
    <3>2. p \in started' /\ started \subseteq started'
      BY <1>4
    <3>3. loopbacks \in Seq(started) /\ completed \subseteq started \X Item
      BY <1>1 DEF QuorumsOK
    <3> QED BY <1>4, <3>1, <3>2, <3>3, CompletePosts
  <2>2. started' \subseteq Party /\ to \ from \subseteq started' /\ joined \subseteq started'
    BY <1>1, <1>3, <1>4 DEF QuorumsOK
  <2>3. remaining = [r \in Renewal |-> 0] /\ <<from, to>> \in Renewals
    BY <1>1 DEF QuorumsOK
  <2> QED BY <1>4, <1>5, <2>1, <2>2, <2>3 DEF QuorumsOK
<1>8. SharesOK'
  <2>1. ASSUME NEW r \in Renewal
        PROVE  ShareOf(r, r \in completed') = ShareOf(r, r \in completed)
    <3>1. completed' = completed \union ({p} \X (IF p \notin to THEN Item ELSE {}))
      BY <1>4 DEF Complete
    <3>2. CASE r \in completed <=> r \in completed'
      BY <3>2 DEF ShareOf
    <3>3. CASE r \notin completed /\ r \in completed'
      <4>1. r[1] \notin to
        BY <3>1, <3>3
      <4> QED BY <4>1 DEF ShareOf
    <3> QED BY <3>1, <3>2, <3>3
  <2>2. shares' = [r \in Renewal |-> ShareOf(r, r \in completed)]
    BY <1>1, <1>4 DEF SharesOK
  <2>3. shares' = [r \in Renewal |-> ShareOf(r, r \in completed')]
    BY <2>1, <2>2
  <2>4. [r \in Renewal |-> ShareOf(r, r \in completed)]' = [r \in Renewal |-> ShareOf(r, r \in completed')]
    BY <1>5
  <2> QED BY <2>3, <2>4 DEF SharesOK
<1>9. QueueOK({}, {})'
  <2> DEFINE t == StartLetters(p)
  <2>1. /\ t \in Seq(Message) /\ InOrderOfRound(t, {}, {})
        /\ \A m \in Range(t) : m.from = p /\ m.body.type # "nextRound"
    BY <1>3, SentOfAllSecrets DEF StartLetters
  <2> HIDE DEF t
  <2>2. /\ network \in Seq(Message) /\ InOrderOfRound(network, {}, {})
        /\ \A m \in Range(network) : m.body.type # "nextRound" => m.from \in started
        /\ \A m \in Range(network) :
             m.body.type = "nextRound" => \A q \in from : <<q, m.to, m.body.item>> \in {}
    BY <1>2, <1>6 DEF QueueOK
  <2>3. \A m \in Range(network) : m.body.type # "nextRound"
    BY <1>4, <2>2
  <2>4. \A m \in Range(network), k \in Range(t) : Key(m) # Key(k)
    BY <1>4, <2>1, <2>2, <2>3 DEF Key
  <2>5. InOrderOfRound(network \o t, {}, {})
    BY <2>1, <2>2, <2>4, SentInOrder
  <2>6. network \o t \in Seq(Message) /\ Range(network \o t) = Range(network) \union Range(t)
    BY <2>1, <2>2, RangeOfConcatenation
  <2>7. network' = network \o t
    BY <1>4 DEF t
  <2>8. \A m \in Range(network') : m.body.type # "nextRound" /\ m.from \in started'
    BY <1>4, <2>1, <2>2, <2>3, <2>6, <2>7
  <2> QED BY <1>5, <2>5, <2>6, <2>7, <2>8 DEF QueueOK
<1>10. RoundsOK({}, {})'
  <2>1. \A r : NewRound(from, to, 1, 1, TRUE) = RoundOf(r, {}, {})
    BY NewRoundOf
  <2>2. round = [r \in Renewal |-> IF r[1] \in started THEN {RoundOf(r, {}, {})} ELSE {}]
    BY <1>2, <1>6 DEF RoundsOK
  <2>3. round' = [r \in Renewal |-> IF r[1] \in started' THEN {RoundOf(r, {}, {})} ELSE {}]
    BY <1>4, <2>1, <2>2
  <2>4. [r \in Renewal |-> IF r[1] \in started THEN {RoundOf(r, {}, {})} ELSE {}]' =
          [r \in Renewal |-> IF r[1] \in started' THEN {RoundOf(r, {}, {})} ELSE {}]
    BY <1>5
  <2> QED BY <2>3, <2>4 DEF RoundsOK
<1>11. \E a, f : QueueOK(a, f)' /\ RoundsOK(a, f)'
  BY <1>9, <1>10
<1> QED BY <1>7, <1>8, <1>11 DEF IInv

-----------------------------------------------------------------------------
(***************************************************************************)
(* Handling a message.                                                     *)
(***************************************************************************)

\* The message that is handled, and the round that it finds.
LEMMA HandledMessage ==
  ASSUME NoIntermediateRounds, QuorumsOK, NEW announced, NEW filed,
         QueueOK(announced, filed), RoundsOK(announced, filed),
         NEW type, NEW m \in Delivered(type), NEW r, r = Addressee(m)
  PROVE  /\ Quorums /\ from # {}
         /\ network # <<>> /\ network \in Seq(Message) /\ m = Head(network) /\ m \in Range(network)
         /\ m.body.type = type /\ m \in Message /\ Party \subseteq started /\ loopbacks = <<>>
         /\ r \in Renewal /\ r[1] = m.to /\ r[2] = m.body.item /\ m.to \in to /\ m.to \in started
         /\ m.body.item \in Item /\ m.at \in Nat
         /\ round[r] = {RoundOf(r, announced, filed)}
<1>1. Quorums /\ to \subseteq Party
  BY QuorumsOfState
<1>2. /\ network # <<>> /\ m = Head(network) /\ m.body.type = type
      /\ Party \subseteq started /\ loopbacks = <<>>
  BY DEF Delivered, Due
<1>3. network \in Seq(Message)
  BY DEF QueueOK
<1>4. m \in Message /\ m \in Range(network)
  BY <1>2, <1>3, HeadAndTail
<1>5. m.to \in to /\ m.body.item \in Item /\ m.at \in Nat
  BY <1>4 DEF Message, Body
<1>6. r = <<m.to, m.body.item>> /\ r[1] = m.to /\ r[2] = m.body.item
  BY DEF Addressee
<1>7. r \in Renewal
  BY <1>1, <1>5, <1>6 DEF Renewal
<1>8. m.to \in started
  BY <1>1, <1>2, <1>5
<1>9. round[r] = {RoundOf(r, announced, filed)}
  BY <1>6, <1>7, <1>8 DEF RoundsOK
<1> QED BY <1>1, <1>2, <1>3, <1>4, <1>5, <1>6, <1>7, <1>8, <1>9 DEF Quorums

\* A step that leaves shares and what is completed keeps that part of the invariant.
LEMMA OthersUnchanged ==
  ASSUME QuorumsOK, SharesOK, UNCHANGED <<from, to, started, joined, loopbacks, remaining, shares, completed>>
  PROVE  QuorumsOK' /\ SharesOK'
<1>1. /\ Party' = Party /\ Renewal' = Renewal
      /\ \A r, done : ShareOf(r, done)' = ShareOf(r, done)
  BY SameQuorums
<1>2. QuorumsOK'
  BY <1>1 DEF QuorumsOK
<1>3. [r \in Renewal |-> ShareOf(r, r \in completed)]' = [r \in Renewal |-> ShareOf(r, r \in completed)]
  BY <1>1
<1>4. SharesOK'
  BY <1>3 DEF SharesOK
<1> QED BY <1>2, <1>4

LEMMA HandleCommitPreserves ==
  ASSUME NoIntermediateRounds, IInv, HandleCommit
  PROVE  IInv'
<1>1. QuorumsOK /\ SharesOK
  BY DEF IInv
<1>2. PICK announced, filed : QueueOK(announced, filed) /\ RoundsOK(announced, filed)
  BY DEF IInv
<1>3. PICK m \in Delivered("commit") : \E c \in round[Addressee(m)] :
        /\ Took(m)
        /\ round' = [round EXCEPT ![Addressee(m)] = {[c EXCEPT !.commits[m.from] = @ + 1]}]
        /\ network' = Tail(network)
        /\ UNCHANGED <<loopbacks, remaining, shares, completed>>
  BY DEF HandleCommit
<1> DEFINE r == Addressee(m)
           c == RoundOf(r, announced, filed)
           later == announced \union {Key(m)}
<1>4. /\ network # <<>> /\ network \in Seq(Message) /\ m = Head(network) /\ m \in Range(network)
      /\ m.body.type = "commit" /\ m \in Message /\ Party \subseteq started
      /\ r \in Renewal /\ r[1] = m.to /\ r[2] = m.body.item /\ m.to \in to /\ m.body.item \in Item
      /\ round[r] = {c}
  BY <1>1, <1>2, HandledMessage
<1>5. /\ Took(m)
      /\ round' = [round EXCEPT ![r] = {[c EXCEPT !.commits[m.from] = @ + 1]}]
      /\ network' = Tail(network)
      /\ UNCHANGED <<loopbacks, remaining, shares, completed>>
  BY <1>3, <1>4
<1>6. m.from \in from /\ Key(m) = <<m.from, r[1], r[2]>> /\ Key(m) \in Keys
  BY <1>4 DEF Message, Key, Keys
<1>7. /\ Party' = Party /\ Renewal' = Renewal /\ Keys' = Keys /\ Message' = Message
      /\ \A s, a, f : RoundOf(s, a, f)' = RoundOf(s, a, f)
      /\ UNCHANGED <<from, to, started, joined>>
  BY <1>5, SameQuorums DEF Took
<1> HIDE DEF r, c, later
<1>8. Key(m) \notin announced /\ InOrderOfRound(Tail(network), later, filed)
  BY <1>2, <1>4, HandledInOrder DEF QueueOK, later
<1>9. QueueOK(later, filed)'
  <2>1. Tail(network) \in Seq(Message) /\ Range(Tail(network)) \subseteq Range(network)
    BY <1>4, HeadAndTail
  <2>2. /\ \A k \in Range(network) : k.body.type # "nextRound" => k.from \in started
        /\ \A k \in Range(network) :
             k.body.type = "nextRound" => \A p \in from : <<p, k.to, k.body.item>> \in filed
    BY <1>2 DEF QueueOK
  <2> QED BY <1>5, <1>7, <1>8, <2>1, <2>2 DEF QueueOK
<1>10. RoundsOK(later, filed)'
  <2>1. [c EXCEPT !.commits[m.from] = @ + 1] = RoundOf(r, later, filed)
    <3>1. later = announced \union {Key(m)} /\ c = RoundOf(r, announced, filed)
      BY DEF later, c
    <3>2. Counted(c, m.from) = RoundOf(r, later, filed)
      BY <1>6, <1>8, <3>1, CommitCounted
    <3> QED BY <3>2 DEF Counted
  <2>2. ASSUME NEW s \in Renewal, s # r
        PROVE  RoundOf(s, later, filed) = RoundOf(s, announced, filed)
    BY <1>4, <1>6, <2>2, OtherCommits DEF later
  <2>3. round = [s \in Renewal |-> IF s[1] \in started THEN {RoundOf(s, announced, filed)} ELSE {}]
    BY <1>2 DEF RoundsOK
  <2>4. r \in Renewal /\ r[1] \in started
    BY <1>1, <1>4 DEF Party
  <2>5. round' = [s \in Renewal |-> IF s[1] \in started THEN {RoundOf(s, later, filed)} ELSE {}]
    BY <1>5, <2>1, <2>2, <2>3, <2>4
  <2>6. [s \in Renewal |-> IF s[1] \in started THEN {RoundOf(s, later, filed)} ELSE {}]' =
          [s \in Renewal |-> IF s[1] \in started THEN {RoundOf(s, later, filed)} ELSE {}]
    BY <1>7
  <2>7. later \subseteq Keys /\ filed \subseteq Keys
    BY <1>2, <1>6 DEF RoundsOK, later
  <2> QED BY <1>4, <1>7, <2>5, <2>6, <2>7 DEF RoundsOK
<1>11. QuorumsOK' /\ SharesOK'
  BY <1>1, <1>5, <1>7, OthersUnchanged
<1>12. \E a, f : QueueOK(a, f)' /\ RoundsOK(a, f)'
  BY <1>9, <1>10
<1> QED BY <1>11, <1>12 DEF IInv

LEMMA HandleSharePreserves ==
  ASSUME NoIntermediateRounds, IInv, HandleShare
  PROVE  IInv'
<1>1. QuorumsOK /\ SharesOK
  BY DEF IInv
<1>2. PICK announced, filed : QueueOK(announced, filed) /\ RoundsOK(announced, filed)
  BY DEF IInv
<1> DEFINE Filing(m, c) == IF c.commits[m.from] > 0 THEN File(c, m.from, m.body.share) ELSE c
<1>3. PICK m \in Delivered("share") : \E c \in round[Addressee(m)] :
        /\ Took(m)
        /\ round' = [round EXCEPT ![Addressee(m)] = {Filing(m, c)}]
        /\ network' = Tail(network) \o
             IF AllReceived(Filing(m, c)) THEN <<NextRound(Addressee(m), m.at)>> ELSE <<>>
        /\ UNCHANGED <<loopbacks, remaining, shares, completed>>
  BY DEF HandleShare
<1> DEFINE r == Addressee(m)
           c == RoundOf(r, announced, filed)
           later == filed \union {Key(m)}
           next == NextRound(r, m.at)
           sent == IF AllReceived(Filing(m, c)) THEN <<next>> ELSE <<>>
<1>4. /\ network # <<>> /\ network \in Seq(Message) /\ m = Head(network) /\ m \in Range(network)
      /\ m.body.type = "share" /\ m \in Message /\ Party \subseteq started
      /\ r \in Renewal /\ r[1] = m.to /\ r[2] = m.body.item /\ m.to \in to /\ m.body.item \in Item
      /\ m.at \in Nat /\ round[r] = {c} /\ Quorums
  BY <1>1, <1>2, HandledMessage
<1>5. /\ Took(m)
      /\ round' = [round EXCEPT ![r] = {Filing(m, c)}]
      /\ network' = Tail(network) \o sent
      /\ UNCHANGED <<loopbacks, remaining, shares, completed>>
  BY <1>3, <1>4
<1>6. /\ m.from \in from /\ Key(m) = <<m.from, r[1], r[2]>> /\ Key(m) \in Keys
      /\ m.body.share = Evaluated(m.from, r[1])
  BY <1>4 DEF Message, Key, Keys
<1>7. /\ Party' = Party /\ Renewal' = Renewal /\ Keys' = Keys /\ Message' = Message
      /\ \A s, a, f : RoundOf(s, a, f)' = RoundOf(s, a, f)
      /\ UNCHANGED <<from, to, started, joined>>
  BY <1>5, SameQuorums DEF Took
<1>8. /\ Key(m) \in announced /\ Key(m) \notin filed
      /\ InOrderOfRound(Tail(network), announced, later)
  <2>1. InOrderOfRound(network, announced, filed)
    BY <1>2 DEF QueueOK
  <2> HIDE DEF r, c
  <2> QED BY <1>4, <2>1, HandledInOrder
<1>9. Filing(m, c) = RoundOf(r, announced, later)
  <2>1. c = RoundOf(r, announced, filed) /\ later = filed \union {Key(m)}
    OBVIOUS
  <2> HIDE DEF r, c, later
  <2>2. c.commits[m.from] = 1
    BY <1>6, <1>8, <2>1, CommitOf
  <2>3. File(c, m.from, m.body.share) = RoundOf(r, announced, later)
    BY <1>4, <1>6, <1>8, <2>1, ShareFiled
  <2> QED BY <2>2, <2>3
<1> HIDE DEF Filing, r, c, later
<1>10. next \in Message /\ next.body.type = "nextRound" /\ next.to = r[1] /\ next.body.item = r[2]
  <2>1. r[1] \in to /\ r[1] \in Party /\ r[2] \in Item /\ m.at + 1 \in Nat
    BY <1>4 DEF Renewal
  <2> QED BY <2>1 DEF NextRound, Letter, Message, Body
<1>11. /\ sent \in Seq(Message) /\ InOrderOfRound(sent, announced, later)
       /\ \A k \in Range(sent) : k = next /\ AllReceived(RoundOf(r, announced, later))
  <2> HIDE DEF next
  <2>1. /\ <<next>> \in Seq(Message) /\ Range(<<next>>) = {next}
        /\ InOrderOfRound(<<next>>, announced, later)
    <3>1. <<next>> \in Seq(Message) /\ DOMAIN <<next>> = {1} /\ <<next>>[1] = next
      BY <1>10
    <3>2. \A i \in DOMAIN <<next>> : <<next>>[i] = next
      BY <3>1
    <3>3. InOrderOfRound(<<next>>, announced, later)
      BY <1>10, <3>1, <3>2 DEF InOrderOfRound
    <3> QED BY <3>1, <3>3 DEF Range
  <2>2. <<>> \in Seq(Message) /\ Range(<<>>) = {} /\ InOrderOfRound(<<>>, announced, later)
    <3>1. DOMAIN <<>> = {} /\ <<>> \in Seq(Message)
      OBVIOUS
    <3> QED BY <3>1 DEF InOrderOfRound, Range
  <2>3. CASE AllReceived(Filing(m, c))
    BY <1>9, <2>1, <2>3
  <2>4. CASE ~AllReceived(Filing(m, c))
    BY <2>2, <2>4
  <2> QED BY <2>3, <2>4
<1> HIDE DEF sent, next
<1>12. QueueOK(announced, later)'
  <2>1. Tail(network) \in Seq(Message) /\ Range(Tail(network)) \subseteq Range(network)
    BY <1>4, HeadAndTail
  <2>2. /\ \A k \in Range(network) : k.body.type # "nextRound" => k.from \in started
        /\ \A k \in Range(network) :
             k.body.type = "nextRound" => \A p \in from : <<p, k.to, k.body.item>> \in filed
    BY <1>2 DEF QueueOK
  <2>3. network' \in Seq(Message) /\ Range(network') = Range(Tail(network)) \union Range(sent)
    <3>1. Tail(network) \o sent \in Seq(Message)
      BY <1>11, <2>1, ConcatProperties
    <3>2. Range(Tail(network) \o sent) = Range(Tail(network)) \union Range(sent)
      <4>1. Tail(network) \in Seq(Message) /\ sent \in Seq(Message)
        BY <1>11, <2>1
      <4> QED BY <4>1, RangeOfConcatenation
    <3> QED BY <1>5, <3>1, <3>2
  <2>4. \A k \in Range(sent) : k.body.type = "nextRound"
    BY <1>10, <1>11
  <2>5. InOrderOfRound(network', announced, later)
    <3>1. \A i \in Range(Tail(network)), k \in Range(sent) : k.body.type # "nextRound" => Key(i) # Key(k)
      BY <2>4
    <3>2. InOrderOfRound(Tail(network) \o sent, announced, later)
      BY <1>8, <1>11, <2>1, <3>1, SentInOrder
    <3> QED BY <1>5, <3>2
  <2>6. ASSUME NEW k \in Range(network'), k.body.type = "nextRound", NEW p \in from
        PROVE  <<p, k.to, k.body.item>> \in later
    <3>1. CASE k \in Range(Tail(network))
      BY <2>1, <2>2, <2>6, <3>1 DEF later
    <3>2. CASE k \in Range(sent)
      <4>1. k = next /\ AllReceived(RoundOf(r, announced, later))
        BY <1>11, <3>2
      <4>2. <<p, r[1], r[2]>> \in later
        BY <1>4, <4>1, AllFiled
      <4> QED BY <1>10, <4>1, <4>2
    <3> QED BY <2>3, <2>6, <3>1, <3>2
  <2>7. \A k \in Range(network') : k.body.type # "nextRound" => k.from \in started
    BY <2>1, <2>2, <2>3, <2>4
  <2> QED BY <1>7, <2>3, <2>5, <2>6, <2>7 DEF QueueOK
<1>13. RoundsOK(announced, later)'
  <2>2. ASSUME NEW s \in Renewal, s # r
        PROVE  RoundOf(s, announced, later) = RoundOf(s, announced, filed)
    BY <1>4, <1>6, <2>2, OtherShares DEF later
  <2>3. round = [s \in Renewal |-> IF s[1] \in started THEN {RoundOf(s, announced, filed)} ELSE {}]
    BY <1>2 DEF RoundsOK
  <2>4. r \in Renewal /\ r[1] \in started
    BY <1>1, <1>4 DEF Party
  <2>5. round' = [s \in Renewal |-> IF s[1] \in started THEN {RoundOf(s, announced, later)} ELSE {}]
    BY <1>5, <1>9, <2>2, <2>3, <2>4
  <2>6. [s \in Renewal |-> IF s[1] \in started THEN {RoundOf(s, announced, later)} ELSE {}]' =
          [s \in Renewal |-> IF s[1] \in started THEN {RoundOf(s, announced, later)} ELSE {}]
    BY <1>7
  <2>7. announced \subseteq Keys /\ later \subseteq Keys
    BY <1>2, <1>6 DEF RoundsOK, later
  <2> QED BY <1>4, <1>7, <2>5, <2>6, <2>7 DEF RoundsOK
<1>14. QuorumsOK' /\ SharesOK'
  BY <1>1, <1>5, <1>7, OthersUnchanged
<1>15. \E a, f : QueueOK(a, f)' /\ RoundsOK(a, f)'
  BY <1>12, <1>13
<1> QED BY <1>14, <1>15 DEF IInv

\* Combining the shares of the only round completes the renewal.
LEMMA FinishRoundPreserves ==
  ASSUME NoIntermediateRounds, IInv, FinishRound
  PROVE  IInv'
<1>1. QuorumsOK /\ SharesOK
  BY DEF IInv
<1>2. PICK announced, filed : QueueOK(announced, filed) /\ RoundsOK(announced, filed)
  BY DEF IInv
<1>3. PICK m \in Delivered("nextRound") : \E c \in round[Addressee(m)] :
        /\ Took(m)
        /\ shares' = [shares EXCEPT ![Addressee(m)] = Recombine(c)]
        /\ IF c.isFinal
             THEN /\ Complete(m.to, {m.body.item}, loopbacks)
                  /\ network' = Tail(network)
                  /\ UNCHANGED <<round, remaining>>
             ELSE /\ round' = [round EXCEPT ![Addressee(m)] = {}]
                  /\ remaining' = [remaining EXCEPT ![Addressee(m)] = @ - 1]
                  /\ network' = Append(Tail(network), NextRound(Addressee(m), m.at))
                  /\ UNCHANGED <<loopbacks, completed>>
  BY DEF FinishRound
<1> DEFINE r == Addressee(m)
           c == RoundOf(r, announced, filed)
<1>4. /\ network # <<>> /\ network \in Seq(Message) /\ m = Head(network) /\ m \in Range(network)
      /\ m.body.type = "nextRound" /\ m \in Message /\ Party \subseteq started
      /\ r \in Renewal /\ r[1] = m.to /\ r[2] = m.body.item /\ m.to \in to /\ m.body.item \in Item
      /\ m.to \in started /\ round[r] = {c} /\ Quorums
  BY <1>1, <1>2, HandledMessage
<1>5. c.isFinal
  BY FieldsOfRound
<1>6. /\ Took(m)
      /\ shares' = [shares EXCEPT ![r] = Recombine(c)]
      /\ Complete(m.to, {m.body.item}, loopbacks)
      /\ network' = Tail(network)
      /\ UNCHANGED <<round, remaining>>
  BY <1>3, <1>4, <1>5
<1>7. /\ Party' = Party /\ Renewal' = Renewal /\ Keys' = Keys /\ Message' = Message
      /\ \A s, a, f : RoundOf(s, a, f)' = RoundOf(s, a, f)
      /\ \A s, done : ShareOf(s, done)' = ShareOf(s, done)
      /\ UNCHANGED <<from, to, started, joined>>
  BY <1>6, SameQuorums DEF Took
<1>8. \A p \in from : <<p, r[1], r[2]>> \in filed
  BY <1>2, <1>4 DEF QueueOK
<1>9. Recombine(c) = ShareOf(r, TRUE)
  <2>1. Recombine(c) = <<Position(r[1], to) + 1>>
    BY <1>4, <1>8, Recombined
  <2> QED BY <1>4, <2>1 DEF ShareOf
<1>10. completed' = completed \union {r}
  <2>1. completed' = completed \union ({m.to} \X {m.body.item})
    BY <1>6 DEF Complete
  <2>2. r = <<m.to, m.body.item>>
    BY DEF Addressee
  <2> QED BY <2>1, <2>2
<1> HIDE DEF r, c
<1>11. SharesOK'
  <2>1. shares = [s \in Renewal |-> ShareOf(s, s \in completed)]
    BY <1>1 DEF SharesOK
  <2>2. \A s \in Renewal : s # r => ShareOf(s, s \in completed') = ShareOf(s, s \in completed)
    <3>1. \A s \in Renewal : s # r => (s \in completed' <=> s \in completed)
      BY <1>10
    <3> QED BY <3>1 DEF ShareOf
  <2>3. ShareOf(r, r \in completed') = ShareOf(r, TRUE)
    BY <1>10 DEF ShareOf
  <2>4. shares' = [s \in Renewal |-> ShareOf(s, s \in completed')]
    <3> DEFINE g == [s \in Renewal |-> ShareOf(s, s \in completed')]
    <3>1. g[r] = Recombine(c) /\ \A s \in Renewal : s # r => g[s] = shares[s]
      BY <1>4, <1>9, <2>1, <2>2, <2>3
    <3>2. g = [s \in Renewal |-> g[s]] /\ shares = [s \in Renewal |-> shares[s]]
      BY <2>1
    <3> HIDE DEF g
    <3>3. shares' = g
      BY <1>4, <1>6, <3>1, <3>2
    <3> QED BY <3>3 DEF g
  <2>5. [s \in Renewal |-> ShareOf(s, s \in completed)]' = [s \in Renewal |-> ShareOf(s, s \in completed')]
    BY <1>7
  <2> QED BY <2>4, <2>5 DEF SharesOK
<1>12. QuorumsOK'
  <2>1. loopbacks' \in Seq(started') /\ completed' \subseteq started' \X Item
    <3>1. {m.body.item} \subseteq Item /\ m.to \in started' /\ started \subseteq started'
      BY <1>4, <1>7
    <3>2. loopbacks \in Seq(started) /\ completed \subseteq started \X Item
      BY <1>1 DEF QuorumsOK
    <3> QED BY <1>6, <3>1, <3>2, CompletePosts
  <2> QED BY <1>1, <1>6, <1>7, <2>1 DEF QuorumsOK
<1>13. QueueOK(announced, filed)'
  <2>1. Tail(network) \in Seq(Message) /\ Range(Tail(network)) \subseteq Range(network)
    BY <1>4, HeadAndTail
  <2>2. InOrderOfRound(Tail(network), announced, filed)
    BY <1>2, <1>4, HandledInOrder DEF QueueOK
  <2>3. /\ \A k \in Range(network) : k.body.type # "nextRound" => k.from \in started
        /\ \A k \in Range(network) :
             k.body.type = "nextRound" => \A p \in from : <<p, k.to, k.body.item>> \in filed
    BY <1>2 DEF QueueOK
  <2> QED BY <1>6, <1>7, <2>1, <2>2, <2>3 DEF QueueOK
<1>14. RoundsOK(announced, filed)'
  BY <1>2, <1>6, <1>7 DEF RoundsOK
<1>15. \E a, f : QueueOK(a, f)' /\ RoundsOK(a, f)'
  BY <1>13, <1>14
<1> QED BY <1>11, <1>12, <1>15 DEF IInv

\* There is no next round.
LEMMA NoNextRound ==
  ASSUME NoIntermediateRounds, IInv, StartNextRound
  PROVE  FALSE
<1>1. QuorumsOK
  BY DEF IInv
<1>2. PICK announced, filed : QueueOK(announced, filed) /\ RoundsOK(announced, filed)
  BY DEF IInv
<1>3. PICK m \in Delivered("nextRound") : round[Addressee(m)] = {}
  BY DEF StartNextRound
<1>4. round[Addressee(m)] = {RoundOf(Addressee(m), announced, filed)}
  BY <1>1, <1>2, HandledMessage
<1> QED BY <1>3, <1>4

LEMMA JoinPreserves ==
  ASSUME IInv, JoinSubProtocols
  PROVE  IInv'
<1>1. QuorumsOK /\ SharesOK
  BY DEF IInv
<1>2. PICK announced, filed : QueueOK(announced, filed) /\ RoundsOK(announced, filed)
  BY DEF IInv
<1>3. /\ loopbacks # <<>> /\ loopbacks' = Tail(loopbacks)
      /\ joined' = joined \union {Head(loopbacks)}
      /\ UNCHANGED <<network, from, to, started, remaining, shares, round, completed>>
  BY DEF JoinSubProtocols
<1>4. /\ Party' = Party /\ Renewal' = Renewal /\ Keys' = Keys /\ Message' = Message
      /\ \A s, a, f : RoundOf(s, a, f)' = RoundOf(s, a, f)
      /\ \A s, done : ShareOf(s, done)' = ShareOf(s, done)
  BY <1>3, SameQuorums
<1>5. QuorumsOK'
  <2>1. loopbacks \in Seq(started)
    BY <1>1 DEF QuorumsOK
  <2>2. Head(loopbacks) \in started /\ Tail(loopbacks) \in Seq(started)
    BY <1>3, <2>1, HeadAndTail
  <2> QED BY <1>1, <1>3, <1>4, <2>2 DEF QuorumsOK
<1>6. SharesOK'
  BY <1>1, <1>3, <1>4 DEF SharesOK
<1>7. QueueOK(announced, filed)' /\ RoundsOK(announced, filed)'
  BY <1>2, <1>3, <1>4 DEF QueueOK, RoundsOK
<1>8. \E a, f : QueueOK(a, f)' /\ RoundsOK(a, f)'
  BY <1>7
<1> QED BY <1>5, <1>6, <1>8 DEF IInv

LEMMA StutteringPreserves ==
  ASSUME IInv, UNCHANGED vars
  PROVE  IInv'
<1>1. QuorumsOK /\ SharesOK
  BY DEF IInv
<1>2. PICK announced, filed : QueueOK(announced, filed) /\ RoundsOK(announced, filed)
  BY DEF IInv
<1>3. /\ Party' = Party /\ Renewal' = Renewal /\ Keys' = Keys /\ Message' = Message
      /\ \A s, a, f : RoundOf(s, a, f)' = RoundOf(s, a, f)
      /\ \A s, done : ShareOf(s, done)' = ShareOf(s, done)
      /\ UNCHANGED <<network, loopbacks, from, to, started, remaining, shares, round, completed, joined>>
  BY SameQuorums DEF vars
<1>4. QuorumsOK' /\ SharesOK'
  BY <1>1, <1>3, OthersUnchanged
<1>5. QueueOK(announced, filed)' /\ RoundsOK(announced, filed)'
  BY <1>2, <1>3 DEF QueueOK, RoundsOK
<1>6. \E a, f : QueueOK(a, f)' /\ RoundsOK(a, f)'
  BY <1>5
<1> QED BY <1>4, <1>6 DEF IInv

\* The invariant holds in every reachable state.
LEMMA Invariance ==
  ASSUME NoIntermediateRounds
  PROVE  Spec => []IInv
<1>1. Init => IInv
  BY InitEstablishes
<1>2. IInv /\ [Next]_vars => IInv'
  <2> SUFFICES ASSUME IInv, [Next]_vars PROVE IInv'
    OBVIOUS
  <2>1. ASSUME NEW p \in from, Start(p) PROVE IInv'
    BY <2>1, StartPreserves
  <2>2. CASE HandleCommit
    BY <2>2, HandleCommitPreserves
  <2>3. CASE HandleShare
    BY <2>3, HandleSharePreserves
  <2>4. CASE FinishRound
    BY <2>4, FinishRoundPreserves
  <2>5. CASE StartNextRound
    BY <2>5, NoNextRound
  <2>6. CASE JoinSubProtocols
    BY <2>6, JoinPreserves
  <2>7. CASE UNCHANGED vars
    BY <2>7, StutteringPreserves
  <2> QED BY <2>1, <2>2, <2>3, <2>4, <2>5, <2>6, <2>7 DEF Next
<1> QED BY <1>1, <1>2, PTL DEF Spec

-----------------------------------------------------------------------------
(***************************************************************************)
(* What the invariant shows.                                               *)
(***************************************************************************)

LEMMA FitRound ==
  ASSUME NoIntermediateRounds, IInv
  PROVE  MessagesFitRound
<1>1. QuorumsOK
  BY DEF IInv
<1>2. PICK announced, filed : QueueOK(announced, filed) /\ RoundsOK(announced, filed)
  BY DEF IInv
<1>3. ASSUME Party \subseteq started, NEW m \in Due, m.body.type # "nextRound"
      PROVE  \E c \in round[Addressee(m)] :
               LET n == c.commits[m.from]
               IN  IF m.body.type = "commit"
                     THEN n < c.startShares
                     ELSE n > 0 /\ Len(c.reshares[m.from][n]) < c.finalShares
  <2> DEFINE type == m.body.type
             r == Addressee(m)
             c == RoundOf(r, announced, filed)
  <2>1. m \in Delivered(type)
    BY <1>3 DEF Delivered
  <2>2. /\ network # <<>> /\ network \in Seq(Message) /\ m = Head(network) /\ m \in Message
        /\ r[1] = m.to /\ r[2] = m.body.item /\ round[r] = {c}
    BY <1>1, <1>2, <2>1, HandledMessage
  <2>3. /\ type = "commit" \/ type = "share"
        /\ m.from \in from /\ Key(m) = <<m.from, r[1], r[2]>>
    BY <1>3, <2>2 DEF Message, Body, Key
  <2>4. /\ type = "commit" => Key(m) \notin announced
        /\ type = "share" => Key(m) \in announced /\ Key(m) \notin filed
    BY <1>2, <2>2, HandledInOrder DEF QueueOK
  <2>5. c.startShares = 1 /\ c.finalShares = 1
    BY FieldsOfRound
  <2>6. c.commits[m.from] = IF Key(m) \in announced THEN 1 ELSE 0
    BY <2>3, CommitOf
  <2>7. Len(c.reshares[m.from][1]) = IF Key(m) \in filed THEN 1 ELSE 0
    BY <2>3, ReshareOf
  <2> HIDE DEF r, c
  <2>8. CASE type = "commit"
    BY <2>2, <2>4, <2>5, <2>6, <2>8 DEF r
  <2>9. CASE type = "share"
    <3>1. c.commits[m.from] = 1 /\ Len(c.reshares[m.from][1]) = 0
      BY <2>4, <2>6, <2>7, <2>9
    <3>2. 1 > 0 /\ 0 < 1
      OBVIOUS
    <3> QED BY <2>2, <2>5, <2>9, <3>1, <3>2 DEF r
  <2> QED BY <2>3, <2>8, <2>9
<1> QED BY <1>3 DEF MessagesFitRound

LEMMA FilledAtTheEnd ==
  ASSUME NoIntermediateRounds, IInv
  PROVE  AllSharesAtTheEnd
<1>1. QuorumsOK
  BY DEF IInv
<1>2. PICK announced, filed : QueueOK(announced, filed) /\ RoundsOK(announced, filed)
  BY DEF IInv
<1>3. ASSUME Party \subseteq started, NEW m \in Due, m.body.type = "nextRound",
             NEW c \in round[Addressee(m)]
      PROVE  Filled(c)
  <2> DEFINE r == Addressee(m)
  <2>1. m \in Delivered("nextRound")
    BY <1>3 DEF Delivered
  <2>2. /\ Quorums /\ m \in Range(network) /\ m.to \in to
        /\ r[1] = m.to /\ r[2] = m.body.item /\ round[r] = {RoundOf(r, announced, filed)}
    BY <1>1, <1>2, <2>1, HandledMessage
  <2>3. c = RoundOf(r, announced, filed)
    BY <2>2
  <2>4. \A p \in from : <<p, r[1], r[2]>> \in filed
    BY <1>2, <1>3, <2>2 DEF QueueOK
  <2> HIDE DEF r
  <2> QED BY <2>2, <2>3, <2>4, Recombined
<1> QED BY <1>3 DEF AllSharesAtTheEnd

LEMMA StillShares ==
  ASSUME NoIntermediateRounds, IInv
  PROVE  SharesOfTheSecret
<1>1. QuorumsOK /\ SharesOK
  BY DEF IInv
<1>2. Quorums
  BY <1>1, QuorumsOfState
<1>3. ASSUME NEW r \in Renewal, NEW quorum, quorum = IF r \in completed THEN to ELSE from,
             r[1] \in quorum
      PROVE  \A j \in 1..Len(shares[r]) :
               shares[r][j] = Point(Position(r[1], quorum) + 1, j, Len(shares[r]))
  <2> DEFINE P == Position(r[1], quorum) + 1
  <2>1. shares[r] = <<P>>
    BY <1>1, <1>3 DEF SharesOK, ShareOf
  <2>2. P \in Nat
    <3>1. quorum # {} /\ IsFiniteSet(quorum) /\ quorum \subseteq Nat
      BY <1>2, <1>3 DEF Quorums
    <3>2. Position(r[1], quorum) \in Nat
      BY <1>3, <3>1, MembersInOrder
    <3> QED BY <3>2
  <2> HIDE DEF P
  <2>3. Len(<<P>>) = 1 /\ <<P>>[1] = P
    OBVIOUS
  <2>4. Point(P, 1, 1) = P
    BY <2>2 DEF Point
  <2>5. \A j \in 1..1 : j = 1
    OBVIOUS
  <2> QED BY <2>1, <2>3, <2>4, <2>5 DEF P
<1> QED BY <1>3 DEF SharesOfTheSecret

-----------------------------------------------------------------------------

\* A message finds a round, and room in it: a party has not received a commitment of the
\* sender before one, and has received it before the share (ShareRenewalRound.HandleMessage,
\* whose assertion on the number of commitments holds and which drops no share), for quorums
\* of every size.
THEOREM RenewalFitsRound ==
  ASSUME NoIntermediateRounds
  PROVE  Spec => []MessagesFitRound
<1>1. IInv => MessagesFitRound
  BY FitRound
<1> QED BY <1>1, Invariance, PTL

\* Whoever is told that its round is over has a share of every sender, so that the sum that
\* ShareRenewalRound computes lacks none.  (It is not so with two intermediate rounds.)
THEOREM RenewalHasAllShares ==
  ASSUME NoIntermediateRounds
  PROVE  Spec => []AllSharesAtTheEnd
<1>1. IInv => AllSharesAtTheEnd
  BY FilledAtTheEnd
<1> QED BY <1>1, Invariance, PTL

\* A party's share stays the one of the secret at the party's position: in the old quorum
\* until its renewal is completed, and in the new one from then on.
THEOREM RenewalKeepsSecret ==
  ASSUME NoIntermediateRounds
  PROVE  Spec => []SharesOfTheSecret
<1>1. IInv => SharesOfTheSecret
  BY StillShares
<1> QED BY <1>1, Invariance, PTL

=============================================================================
