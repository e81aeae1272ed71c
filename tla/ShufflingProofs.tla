-------------------------- MODULE ShufflingProofs ---------------------------
(***************************************************************************)
(* Theorems about the parties that shuffle or sort: nobody opens the       *)
(* outputs before all evaluations have ended, and whoever completes the    *)
(* protocol knows them, for any number of parties, network and lists of    *)
(* quorums, whenever the evaluations end.                                  *)
(***************************************************************************)
EXTENDS Shuffling, SequenceLemmas

-----------------------------------------------------------------------------
(***************************************************************************)
(* The types of what is sent, posted and registered.                       *)
(***************************************************************************)

Kind == {"random", "reconstruct", "majority", "nop", "sortValue", "secret", "barrier",
         "evaluation", "root"}
Id == Kind \X Nat
Protocol == [heard : SUBSET Party, left : Int, scheduled : BOOLEAN]
Body == [id : Id, type : {"value", "nextRound"}]
Message == [at : Nat, from : Party, to : Party, body : Body]
Completion == [to : Party, id : Id]

\* A loopback is handled before anything else happens, so there is one at most.
Queues ==
  /\ clock \in Nat
  /\ network \in Seq(Message)
  /\ InLockStep(network, clock)
  /\ loopbacks = <<>> \/ \E b \in Completion : loopbacks = <<b>>

State ==
  /\ quorums \in QuorumLists
  /\ end \in [DOMAIN quorums -> Ends]
  /\ started \in 0..Cardinality(Party)
  /\ stage \in [Party -> 0..7]
  /\ live = [p \in Party |-> live[p]]
  /\ \A p \in Party : \A id \in DOMAIN live[p] : id \in Id /\ live[p][id] \in Protocol
  /\ known \in [Party -> SUBSET Item]

\* The parties are numbers, and so are the items.
LEMMA PartiesAreNumbers ==
  /\ IsFiniteSet(Party)
  /\ Cardinality(Party) \in Nat /\ Cardinality(Party) > 1
  /\ Party = 0..(Cardinality(Party) - 1)
  /\ Party \subseteq Nat /\ Party # {}
  /\ Wire = Party /\ RandomNumber \in Nat /\ RandomNumber \notin Wire
  /\ Item \subseteq Nat
  /\ RandGenQuorum \subseteq Party /\ RandGenQuorum # {}
<1>1. IsFiniteSet(Party) /\ Party = 0..(Cardinality(Party) - 1)
  BY ShufflingAssumption
<1>2. Cardinality(Party) \in Nat
  BY <1>1, FS_CardinalityType
<1>3. TRUSTED_PARTY_COUNT \in 1..(Cardinality(Party) - 1)
  BY ShufflingAssumption
<1>4. Cardinality(Party) > 1
  BY <1>2, <1>3
<1>5. Party \subseteq Nat /\ 0 \in Party /\ Cardinality(Party) \notin Party
  BY <1>1, <1>2, <1>4
<1>6. RandGenQuorum \subseteq Party /\ 0 \in RandGenQuorum
  BY <1>1, <1>2, <1>3 DEF RandGenQuorum
<1>7. Party # {} /\ RandGenQuorum # {}
  BY <1>5, <1>6
<1>8. Wire = Party /\ RandomNumber = Cardinality(Party) /\ Item = Party \union {Cardinality(Party)}
  BY DEF Wire, RandomNumber, Item
<1>9. Item \subseteq Nat
  BY <1>2, <1>5, <1>8
<1> QED
  BY <1>1, <1>2, <1>4, <1>5, <1>6, <1>7, <1>8, <1>9

\* Some of the parties have a finite number.
LEMMA SomeParties ==
  ASSUME NEW S, S \subseteq Party
  PROVE  IsFiniteSet(S) /\ Cardinality(S) \in Nat
BY PartiesAreNumbers, FS_Subset, FS_CardinalityType

\* Fewer parties have a smaller number.
LEMMA FewerParties ==
  ASSUME NEW S, NEW T, S \subseteq T, T \subseteq Party, Cardinality(S) = Cardinality(T)
  PROVE  S = T
BY SomeParties, FS_Subset

\* InOrder lists the members of a set of parties: as many are less than one of them as it
\* has predecessors in the list.
LEMMA InOrderListsAll ==
  ASSUME NEW S, S \subseteq Party
  PROVE  InOrder(S) \in Seq(Party) /\ Range(InOrder(S)) = S
<1> DEFINE n == Cardinality(S)
           below(p) == {r \in S : r < p}
           rank == [p \in S |-> Cardinality(below(p))]
<1>1. IsFiniteSet(S) /\ n \in Nat /\ S \subseteq Nat
  BY SomeParties, PartiesAreNumbers
<1>2. ASSUME NEW p \in S
      PROVE  IsFiniteSet(below(p)) /\ Cardinality(below(p)) \in 0..(n - 1)
  <2>1. below(p) \subseteq S /\ below(p) # S
    BY <1>1
  <2>2. IsFiniteSet(below(p)) /\ Cardinality(below(p)) \in Nat
    BY <1>1, FS_Subset, FS_CardinalityType
  <2>3. Cardinality(below(p)) <= n /\ (Cardinality(below(p)) = n => below(p) = S)
    BY <1>1, <2>1, FS_Subset
  <2> QED BY <1>1, <2>1, <2>2, <2>3
<1>3. ASSUME NEW p \in S, NEW q \in S, p < q
      PROVE  Cardinality(below(p)) < Cardinality(below(q))
  <2>1. below(p) \subseteq below(q) /\ p \in below(q) /\ p \notin below(p)
    <3>1. \A r \in S : r < p => r < q
      BY <1>1, <1>3
    <3>2. ~(p < p)
      BY <1>1
    <3> QED BY <1>3, <3>1, <3>2
  <2>2. /\ Cardinality(below(p)) <= Cardinality(below(q))
        /\ (Cardinality(below(p)) = Cardinality(below(q)) => below(p) = below(q))
    BY <1>2, <2>1, FS_Subset
  <2> QED BY <1>2, <2>1, <2>2
<1>4. rank \in [S -> 0..(n - 1)]
  BY <1>2
<1>5. rank \in Injection(S, 0..(n - 1))
  <2>1. ASSUME NEW p \in S, NEW q \in S, p # q
        PROVE  rank[p] # rank[q]
    <3>1. rank[p] = Cardinality(below(p)) /\ rank[q] = Cardinality(below(q))
      OBVIOUS
    <3>2. p < q \/ q < p
      BY <1>1, <2>1
    <3>3. Cardinality(below(p)) \in Nat /\ Cardinality(below(q)) \in Nat
      BY <1>2
    <3>4. Cardinality(below(p)) < Cardinality(below(q)) \/ Cardinality(below(q)) < Cardinality(below(p))
      BY <1>3, <3>2
    <3> HIDE DEF rank, below
    <3> QED BY <3>1, <3>3, <3>4
  <2>2. IsInjective(rank)
    BY <1>4, <2>1 DEF IsInjective
  <2> QED BY <1>4, <2>2 DEF Injection
<1>6. IsFiniteSet(0..(n - 1)) /\ Cardinality(0..(n - 1)) = n
  <2>1. CASE n = 0
    <3>1. 0..(n - 1) = {}
      BY <2>1
    <3> QED BY <2>1, <3>1, FS_EmptySet
  <2>2. CASE n # 0
    <3>1. 0 \in Int /\ n - 1 \in Int /\ ~(0 > n - 1) /\ (n - 1) - 0 + 1 = n
      BY <1>1, <2>2
    <3> QED BY <3>1, FS_Interval
  <2> QED BY <2>1, <2>2
<1>7. rank \in Surjection(S, 0..(n - 1))
  <2>1. Cardinality(S) = Cardinality(0..(n - 1))
    BY <1>6
  <2> HIDE DEF rank, n
  <2> QED BY <1>5, <1>6, <2>1, FS_Injection
<1>8. ASSUME NEW i \in 1..n
      PROVE  \E p \in S : Cardinality(below(p)) = i - 1
  <2>1. i - 1 \in 0..(n - 1)
    BY <1>1
  <2>2. PICK p \in S : rank[p] = i - 1
    BY <1>7, <2>1 DEF Surjection
  <2> QED BY <2>2
<1>9. \A p \in S : \E i \in 1..n : Cardinality(below(p)) = i - 1
  <2>1. \A k \in 0..(n - 1) : k + 1 \in 1..n /\ (k + 1) - 1 = k
    BY <1>1
  <2> QED BY <1>2, <2>1
<1>10. ASSUME NEW i \in 1..n
       PROVE  InOrder(S)[i] \in S /\ Cardinality(below(InOrder(S)[i])) = i - 1
  BY <1>8 DEF InOrder
<1>11. InOrder(S) \in Seq(Party) /\ DOMAIN InOrder(S) = 1..n
  <2>1. InOrder(S) = [i \in 1..n |-> InOrder(S)[i]]
    BY DEF InOrder
  <2>2. \A i \in 1..n : InOrder(S)[i] \in Party
    BY <1>10
  <2> QED BY <1>1, <2>1, <2>2
<1>12. ASSUME NEW p \in S PROVE p \in Range(InOrder(S))
  <2>1. PICK i \in 1..n : Cardinality(below(p)) = i - 1
    BY <1>9
  <2>2. InOrder(S)[i] \in S /\ Cardinality(below(InOrder(S)[i])) = i - 1
    BY <1>10
  <2>3. InOrder(S)[i] = p
    <3> DEFINE q == InOrder(S)[i]
    <3>1. q \in S /\ Cardinality(below(q)) = Cardinality(below(p))
      BY <2>1, <2>2
    <3>2. Cardinality(below(q)) \in Nat
      BY <1>2, <3>1
    <3>3. ~(p < q)
      BY <1>3, <3>1, <3>2
    <3>4. ~(q < p)
      BY <1>3, <3>1, <3>2
    <3>5. p \in Nat /\ q \in Nat
      BY <1>1, <3>1
    <3> HIDE DEF q
    <3>6. q = p
      BY <3>3, <3>4, <3>5
    <3> QED BY <3>6 DEF q
  <2> QED BY <2>3, <1>11 DEF Range
<1> QED
  BY <1>10, <1>11, <1>12 DEF Range

\* A protocol that is sent to goes by the name of its kind and its number.
LEMMA NamesOfProtocols ==
  ASSUME NEW id \in Id
  PROVE  /\ id = <<id[1], id[2]>> /\ id[1] \in Kind /\ id[2] \in Nat
         /\ id[1] = "reconstruct" => id = Reconstruction(id[2])
         /\ id[1] = "majority" => id = Majority(id[2])
         /\ id[1] = "nop" => id = Nop(id[2])
         /\ id[1] = "evaluation" => id = Evaluation(id[2])
BY DEF Id, Reconstruction, Majority, Nop, Evaluation

\* The names of the protocols of a party are of the type.
LEMMA ProtocolNames ==
  ASSUME NEW n \in Nat
  PROVE  /\ RandGen \in Id /\ Barrier \in Id /\ Root \in Id
         /\ RandGen[1] = "random" /\ Barrier[1] = "barrier" /\ Root[1] = "root"
         /\ Reconstruction(n) \in Id /\ Reconstruction(n)[1] = "reconstruct" /\ Reconstruction(n)[2] = n
         /\ Majority(n) \in Id /\ Majority(n)[1] = "majority" /\ Majority(n)[2] = n
         /\ Nop(n) \in Id /\ Nop(n)[1] = "nop" /\ Nop(n)[2] = n
         /\ Evaluation(n) \in Id /\ Evaluation(n)[1] = "evaluation" /\ Evaluation(n)[2] = n
         /\ SortValueSharing(n) \in Id /\ SortValueSharing(n)[1] = "sortValue" /\ SortValueSharing(n)[2] = n
         /\ SecretSharing(n) \in Id /\ SecretSharing(n)[1] = "secret" /\ SecretSharing(n)[2] = n
BY DEF Id, Kind, RandGen, Barrier, Root, Reconstruction, Majority, Nop, Evaluation,
       SortValueSharing, SecretSharing

\* The parent of a protocol.
LEMMA ParentOf ==
  ASSUME NEW id \in Id
  PROVE  /\ Parent(id) \in Id
         /\ id[1] = "nop" => Parent(id) = Majority(id[2])
         /\ id[1] = "evaluation" => Parent(id) = Barrier
         /\ id[1] \notin {"nop", "evaluation"} => Parent(id) = Root
<1>1. id[2] \in Nat
  BY NamesOfProtocols
<1>2. Majority(id[2]) \in Id /\ Barrier \in Id /\ Root \in Id
  BY <1>1, ProtocolNames
<1> HIDE DEF Id
<1> QED BY <1>2 DEF Parent

-----------------------------------------------------------------------------
(***************************************************************************)
(* What is sent when protocols are launched.                               *)
(***************************************************************************)

\* What the parties launch, other than the children of what they launch.
Launchable ==
  {RandGen, Barrier} \union {Reconstruction(x) : x \in Item} \union {Majority(x) : x \in Item}
    \union {SortValueSharing(w) : w \in Wire} \union {SecretSharing(w) : w \in Wire}

Value(id) == [id |-> id, type |-> "value"]

\* Everybody is in a quorum, so there are quorums, and the gates have theirs.
LEMMA QuorumsOfTheGates ==
  ASSUME State
  PROVE  /\ Len(quorums) \in Nat \ {0} /\ DOMAIN quorums = 1..Len(quorums)
         /\ \A w \in Wire : InputQuorum(w) \subseteq Party
         /\ \A x \in Item : Holders(x) \subseteq Party
         /\ Holders(RandomNumber) = RandGenQuorum
<1>1. quorums \in Seq(SUBSET Party) /\ UNION Range(quorums) = Party
  BY ShufflingAssumption DEF State
<1>2. Len(quorums) \in Nat /\ DOMAIN quorums = 1..Len(quorums)
  BY <1>1, LenProperties
<1>3. Len(quorums) # 0
  <2>1. ASSUME Len(quorums) = 0 PROVE FALSE
    <3>1. DOMAIN quorums = {}
      BY <1>2, <2>1
    <3>2. Range(quorums) = {}
      BY <3>1 DEF Range
    <3> QED BY <1>1, <3>2, PartiesAreNumbers
  <2> QED BY <2>1
<1>4. \A i \in 1..Len(quorums) : quorums[i] \in SUBSET Party
  BY <1>1
<1>5. \A k \in 0..(GateCount - 1) : QuorumOfGate(k) \in 1..Len(quorums)
  <2>1. ASSUME NEW k \in Nat, NEW n \in Nat \ {0}
        PROVE  (k % n) + 1 \in 1..n
    BY <2>1
  <2>2. \A k \in 0..(GateCount - 1) : k \in Nat
    OBVIOUS
  <2> QED BY <1>2, <1>3, <2>1, <2>2 DEF QuorumOfGate
<1>6. /\ FirstGateForWire \in [Party -> 0..(GateCount - 1)]
      /\ LastGateForWire \in [Party -> 0..(GateCount - 1)]
  BY ShufflingAssumption
<1>7. ASSUME NEW w \in Wire
      PROVE  InputQuorum(w) \subseteq Party /\ Holders(w) \subseteq Party
  <2>1. w \in Party /\ w # RandomNumber
    BY PartiesAreNumbers
  <2> QED BY <1>4, <1>5, <1>6, <2>1 DEF InputQuorum, Holders
<1>8. Holders(RandomNumber) = RandGenQuorum
  BY DEF Holders
<1> QED
  BY <1>2, <1>3, <1>7, <1>8, PartiesAreNumbers DEF Item

\* A letter to each of some parties.
LEMMA LettersProperties ==
  ASSUME NEW now \in Nat, NEW p \in Party, NEW S, S \subseteq Party, NEW body \in Body
  PROVE  /\ Letters(now, p, InOrder(S), body) \in Seq(Message)
         /\ Range(Letters(now, p, InOrder(S), body)) =
              {[at |-> now + 1, from |-> p, to |-> r, body |-> body] : r \in S}
<1> DEFINE tos == InOrder(S)
<1>1. tos \in Seq(Party) /\ Range(tos) = S
  BY InOrderListsAll
<1>2. PICK n \in Nat : DOMAIN tos = 1..n /\ \A i \in 1..n : tos[i] \in Party
  BY <1>1, LenProperties
<1> HIDE DEF tos
<1>3. Letters(now, p, tos, body) =
        [i \in 1..n |-> [at |-> now + 1, from |-> p, to |-> tos[i], body |-> body]]
  BY <1>2 DEF Letters, Letter
<1>4. \A i \in 1..n : [at |-> now + 1, from |-> p, to |-> tos[i], body |-> body] \in Message
  BY <1>2 DEF Message
<1>5. Letters(now, p, tos, body) \in Seq(Message)
  BY <1>3, <1>4
<1>6. Range(Letters(now, p, tos, body)) =
        {[at |-> now + 1, from |-> p, to |-> r, body |-> body] : r \in S}
  BY <1>1, <1>2, <1>3 DEF Range
<1> QED BY <1>5, <1>6 DEF tos

\* A letter of a party to itself.
LEMMA NextRoundProperties ==
  ASSUME NEW now \in Nat, NEW p \in Party, NEW id \in Id
  PROVE  /\ NextRound(now, p, id) \in Message
         /\ NextRound(now, p, id) =
              [at |-> now + 1, from |-> p, to |-> p, body |-> [id |-> id, type |-> "nextRound"]]
         /\ <<NextRound(now, p, id)>> \in Seq(Message)
         /\ Range(<<NextRound(now, p, id)>>) = {NextRound(now, p, id)}
<1>1. NextRound(now, p, id) =
        [at |-> now + 1, from |-> p, to |-> p, body |-> [id |-> id, type |-> "nextRound"]]
  BY DEF NextRound, Letter
<1>2. NextRound(now, p, id) \in Message
  BY <1>1 DEF Message, Body
<1> HIDE DEF Message
<1> QED BY <1>1, <1>2 DEF Range

\* The evaluations of a party.
LEMMA EvaluationsProperties ==
  ASSUME State, NEW p \in Party, NEW c \in EvaluationsOf(p)
  PROVE  c \in Id /\ c[1] = "evaluation" /\ c[2] \in DOMAIN quorums
<1>1. PICK q \in DOMAIN quorums : c = Evaluation(q)
  BY DEF EvaluationsOf, MyQuorums
<1>2. q \in Nat
  BY <1>1, QuorumsOfTheGates
<1> QED BY <1>1, <1>2, ProtocolNames

\* What a protocol is, by its name.
IsNamed(id) ==
  /\ id \in Id /\ id[1] \notin {"nop", "evaluation", "root"} /\ Parent(id) = Root
  /\ id[1] = "random" <=> id = RandGen
  /\ id[1] = "barrier" <=> id = Barrier
  /\ id[1] = "reconstruct" => id = Reconstruction(id[2]) /\ id[2] \in Item
  /\ id[1] = "majority" => id = Majority(id[2]) /\ id[2] \in Item
  /\ IsSharing(id) => id[2] \in Wire

\* What is launched is known by its name.
LEMMA LaunchableNames ==
  ASSUME NEW id \in Launchable
  PROVE  IsNamed(id)
<1>0. Item \subseteq Nat /\ Wire \subseteq Nat
  BY PartiesAreNumbers
<1>1. CASE id = RandGen \/ id = Barrier
  <2>1. id \in Id /\ id[1] \in {"random", "barrier"} /\ RandGen[1] = "random" /\ Barrier[1] = "barrier"
    BY <1>1, ProtocolNames
  <2>2. Parent(id) = Root
    BY <2>1, ParentOf
  <2> QED BY <1>1, <2>1, <2>2 DEF IsSharing, IsNamed
<1>2. ASSUME NEW x \in Item, id = Reconstruction(x) \/ id = Majority(x)
      PROVE  IsNamed(id)
  <2>0. x \in Nat
    BY <1>0
  <2>1. id \in Id /\ id[1] \in {"reconstruct", "majority"} /\ id[2] = x
        /\ RandGen[1] = "random" /\ Barrier[1] = "barrier"
        /\ (id[1] = "reconstruct" => id = Reconstruction(x))
        /\ (id[1] = "majority" => id = Majority(x))
    BY <1>2, <2>0, ProtocolNames
  <2>2. Parent(id) = Root
    BY <2>1, ParentOf
  <2> QED BY <2>1, <2>2 DEF IsSharing, IsNamed
<1>3. ASSUME NEW w \in Wire, id = SortValueSharing(w) \/ id = SecretSharing(w)
      PROVE  IsNamed(id)
  <2>0. w \in Nat
    BY <1>0
  <2>1. id \in Id /\ id[1] \in {"sortValue", "secret"} /\ id[2] = w
        /\ RandGen[1] = "random" /\ Barrier[1] = "barrier"
    BY <1>3, <2>0, ProtocolNames
  <2>2. Parent(id) = Root
    BY <2>1, ParentOf
  <2> QED BY <2>1, <2>2 DEF IsNamed
<1> QED BY <1>1, <1>2, <1>3 DEF Launchable

\* The letter by which a party tells another of a value.
Tells(now, from, to, id) == [at |-> now + 1, from |-> from, to |-> to, body |-> Value(id)]

\* What a protocol sends when it is launched: values under its own name, and the first
\* round of its children.
IsSentBy(p, id, now, k) ==
  /\ k.at = now + 1 /\ k.from = p
  /\ \/ /\ k.body = Value(id) /\ id # Barrier
        /\ id[1] = "majority" => id[2] \in known[p] /\ k.to \notin Holders(id[2])
     \/ k.body.type = "nextRound" /\ k.body.id \in Children(p, id)

\* The same, for a list of messages.
IsSending(p, id, now, sent) ==
  /\ sent \in Seq(Message)
  /\ \A k \in Range(sent) : IsSentBy(p, id, now, k)
  /\ id[1] = "reconstruct" => \A r \in Holders(id[2]) : Tells(now, p, r, id) \in Range(sent)
  /\ id[1] = "majority" /\ id[2] \in known[p] =>
       \A r \in Party \ Holders(id[2]) : Tells(now, p, r, id) \in Range(sent)

\* The Start of a protocol sends these messages.
LEMMA SentProperties ==
  ASSUME State, NEW now \in Nat, NEW p \in Party, NEW id \in Launchable
  PROVE  IsSending(p, id, now, Sent(p, id, now))
<1>0. IsNamed(id)
  BY LaunchableNames
<1>1. ASSUME NEW S, S \subseteq Party, id # Barrier, id[1] = "majority" => id[2] \in known[p]
      PROVE  LET sent == Letters(now, p, InOrder(S), [id |-> id, type |-> "value"])
             IN  /\ sent \in Seq(Message)
                 /\ \A r \in S : Tells(now, p, r, id) \in Range(sent)
                 /\ (id[1] = "majority" => S \intersect Holders(id[2]) = {}) =>
                       \A k \in Range(sent) : IsSentBy(p, id, now, k)
  <2>1. [id |-> id, type |-> "value"] \in Body
    BY <1>0 DEF Body, IsNamed
  <2> DEFINE sent == Letters(now, p, InOrder(S), [id |-> id, type |-> "value"])
  <2>2. /\ sent \in Seq(Message)
        /\ Range(sent) = {[at |-> now + 1, from |-> p, to |-> r, body |-> [id |-> id, type |-> "value"]] : r \in S}
    BY <1>1, <2>1, LettersProperties
  <2> HIDE DEF sent
  <2>3. \A r \in S : Tells(now, p, r, id) \in Range(sent)
    BY <2>2 DEF Tells, Value
  <2>4. ASSUME id[1] = "majority" => S \intersect Holders(id[2]) = {}, NEW k \in Range(sent)
        PROVE  IsSentBy(p, id, now, k)
    BY <1>1, <2>2, <2>4 DEF IsSentBy, Value
  <2> QED BY <2>2, <2>3, <2>4 DEF sent
<1>2. CASE id = RandGen
  <2>2. id # Barrier /\ id[1] = "random" /\ RandGenQuorum \subseteq Party
    BY <1>2, ProtocolNames, PartiesAreNumbers
  <2>1. Sent(p, id, now) = Letters(now, p, InOrder(RandGenQuorum), [id |-> id, type |-> "value"])
    BY <1>2, <2>2 DEF Sent, IsSharing
  <2> QED BY <1>1, <1>2, <2>1, <2>2 DEF IsSending
<1>3. CASE id[1] = "reconstruct"
  <2>1. id # RandGen /\ id # Barrier /\ Holders(id[2]) \subseteq Party
    BY <1>0, <1>3, ProtocolNames, QuorumsOfTheGates DEF IsNamed
  <2>2. Sent(p, id, now) = Letters(now, p, InOrder(Holders(id[2])), [id |-> id, type |-> "value"])
    BY <1>3, <2>1 DEF Sent, IsSharing
  <2> QED BY <1>1, <1>3, <2>1, <2>2 DEF IsSending
<1>4. CASE id[1] = "majority" /\ id[2] \in known[p]
  <2>1. id # RandGen /\ id # Barrier /\ Holders(id[2]) \subseteq Party /\ id[2] \in Nat
    BY <1>0, <1>4, ProtocolNames, QuorumsOfTheGates, PartiesAreNumbers DEF IsNamed
  <2> DEFINE others == Letters(now, p, InOrder(Party \ Holders(id[2])), [id |-> id, type |-> "value"])
             round == <<NextRound(now, p, Nop(id[2]))>>
  <2>2. Sent(p, id, now) = others \o round
    BY <1>4, <2>1 DEF Sent, IsSharing
  <2>3. /\ others \in Seq(Message)
        /\ \A r \in Party \ Holders(id[2]) : Tells(now, p, r, id) \in Range(others)
        /\ \A k \in Range(others) : IsSentBy(p, id, now, k)
    BY <1>1, <1>4, <2>1
  <2>4. Nop(id[2]) \in Id
    BY <2>1, ProtocolNames
  <2>5. round \in Seq(Message) /\ Range(round) = {NextRound(now, p, Nop(id[2]))}
        /\ NextRound(now, p, Nop(id[2])) =
             [at |-> now + 1, from |-> p, to |-> p, body |-> [id |-> Nop(id[2]), type |-> "nextRound"]]
    BY <2>4, NextRoundProperties
  <2> HIDE DEF others, round
  <2>6. \A k \in Range(round) : IsSentBy(p, id, now, k)
    BY <1>4, <2>1, <2>5 DEF IsSentBy, Children
  <2>7. others \o round \in Seq(Message) /\ Range(others \o round) = Range(others) \union Range(round)
    BY <2>3, <2>5, RangeOfConcatenation
  <2> QED BY <1>4, <2>2, <2>3, <2>6, <2>7 DEF IsSending
<1>5. CASE IsSharing(id) /\ p = id[2]
  <2>1. id # RandGen /\ id # Barrier /\ id[1] \notin {"reconstruct", "majority"} /\ p \in Wire
    BY <1>0, <1>5, ProtocolNames DEF IsSharing, IsNamed
  <2>2. InputQuorum(p) \subseteq Party
    BY <2>1, QuorumsOfTheGates
  <2>3. Sent(p, id, now) = Letters(now, p, InOrder(InputQuorum(p)), [id |-> id, type |-> "value"])
    BY <1>5, <2>1 DEF Sent
  <2> QED BY <1>1, <2>1, <2>2, <2>3 DEF IsSending
<1>6. CASE id = Barrier
  <2>1. id # RandGen /\ id[1] = "barrier"
    BY <1>6, ProtocolNames
  <2> DEFINE seqs == [q \in DOMAIN quorums |->
                        IF Evaluation(q) \in EvaluationsOf(p) THEN <<NextRound(now, p, Evaluation(q))>> ELSE <<>>]
  <2>2. Sent(p, id, now) = FlattenSeq(seqs)
    BY <1>6, <2>1 DEF Sent, IsSharing
  <2>3. DOMAIN quorums = 1..Len(quorums) /\ Len(quorums) \in Nat
    BY QuorumsOfTheGates
  <2>4. ASSUME NEW q \in DOMAIN quorums
        PROVE  /\ seqs[q] \in Seq(Message)
               /\ \A k \in Range(seqs[q]) : IsSentBy(p, id, now, k)
    <3>1. CASE Evaluation(q) \in EvaluationsOf(p)
      <4> DEFINE k == NextRound(now, p, Evaluation(q))
      <4>1. seqs[q] = <<k>>
        BY <3>1
      <4>2. Evaluation(q) \in Id
        BY <3>1, EvaluationsProperties
      <4>3. <<k>> \in Seq(Message) /\ Range(<<k>>) = {k}
            /\ k = [at |-> now + 1, from |-> p, to |-> p,
                    body |-> [id |-> Evaluation(q), type |-> "nextRound"]]
        BY <4>2, NextRoundProperties
      <4>4. Evaluation(q) \in Children(p, id)
        BY <1>6, <2>1, <3>1 DEF Children
      <4> HIDE DEF k
      <4>5. IsSentBy(p, id, now, k)
        BY <4>3, <4>4 DEF IsSentBy
      <4> HIDE DEF seqs
      <4> QED BY <4>1, <4>3, <4>5
    <3>2. CASE Evaluation(q) \notin EvaluationsOf(p)
      <4>1. seqs[q] = <<>>
        BY <3>2
      <4>2. Range(<<>>) = {}
        BY DEF Range
      <4> HIDE DEF seqs
      <4> QED BY <4>1, <4>2
    <3> QED BY <3>1, <3>2
  <2>5. seqs \in Seq(Seq(Message)) /\ DOMAIN seqs = DOMAIN quorums
    <3>1. DOMAIN seqs = 1..Len(quorums) /\ seqs = [q \in 1..Len(quorums) |-> seqs[q]]
      BY <2>3
    <3>2. \A q \in 1..Len(quorums) : seqs[q] \in Seq(Message)
      BY <2>3, <2>4
    <3> HIDE DEF seqs
    <3> QED BY <2>3, <3>1, <3>2
  <2> HIDE DEF seqs
  <2>6. FlattenSeq(seqs) \in Seq(Message)
        /\ Range(FlattenSeq(seqs)) = UNION {Range(seqs[i]) : i \in DOMAIN seqs}
    BY <2>5, FlattenSeqProperties
  <2>7. \A k \in Range(FlattenSeq(seqs)) : IsSentBy(p, id, now, k)
    BY <2>4, <2>5, <2>6
  <2> QED BY <2>1, <2>2, <2>6, <2>7 DEF IsSending
<1>7. ASSUME id # RandGen, id[1] # "reconstruct", ~(id[1] = "majority" /\ id[2] \in known[p]),
             ~(IsSharing(id) /\ p = id[2]), id # Barrier
      PROVE  IsSending(p, id, now, Sent(p, id, now))
  <2>1. Sent(p, id, now) = <<>>
    BY <1>7 DEF Sent
  <2>2. Range(Sent(p, id, now)) = {} /\ Sent(p, id, now) \in Seq(Message)
    BY <2>1 DEF Range
  <2> QED BY <1>7, <2>2 DEF IsSending
<1> QED BY <1>2, <1>3, <1>4, <1>5, <1>6, <1>7

-----------------------------------------------------------------------------
(***************************************************************************)
(* The effects of the steps.                                               *)
(***************************************************************************)

\* The children of a protocol.
LEMMA ChildrenProperties ==
  ASSUME State, NEW p \in Party, NEW id \in Launchable, NEW c \in Children(p, id)
  PROVE  /\ c \in Id
         /\ \/ id[1] = "majority" /\ id[2] \in known[p] /\ c = Nop(id[2]) /\ c[1] = "nop" /\ c[2] = id[2]
            \/ id = Barrier /\ EvaluationsOf(p) # {} /\ c[1] = "evaluation" /\ c[2] \in DOMAIN quorums
<1>0. IsNamed(id) /\ Barrier[1] = "barrier"
  BY LaunchableNames, ProtocolNames
<1>1. CASE id[1] = "majority" /\ id[2] \in known[p]
  <2>1. id # Barrier /\ id[2] \in Nat
    BY <1>0, <1>1, PartiesAreNumbers DEF IsNamed
  <2>2. c = Nop(id[2])
    BY <1>1, <2>1 DEF Children
  <2> QED BY <1>1, <2>1, <2>2, ProtocolNames
<1>2. CASE id = Barrier
  <2>1. c \in EvaluationsOf(p)
    BY <1>0, <1>2 DEF Children
  <2> QED BY <1>2, <2>1, EvaluationsProperties
<1>3. CASE ~(id[1] = "majority" /\ id[2] \in known[p]) /\ id # Barrier
  BY <1>3 DEF Children
<1> QED BY <1>1, <1>2, <1>3

\* The effect of Launch on a party that has nothing else to be told.
Launched(p, ids) ==
  /\ network' \in Seq(Message) /\ InLockStep(network', clock)
  /\ Range(network) \subseteq Range(network')
  /\ \A k \in Range(network') \ Range(network) : \E id \in ids : IsSentBy(p, id, clock, k)
  /\ \A id \in ids :
       /\ id[1] = "reconstruct" =>
            \A r \in Holders(id[2]) : Tells(clock, p, r, id) \in Range(network')
       /\ id[1] = "majority" /\ id[2] \in known[p] =>
            \A r \in Party \ Holders(id[2]) : Tells(clock, p, r, id) \in Range(network')
  /\ live' = [q \in Party |-> live'[q]]
  /\ \A q \in Party \ {p} : live'[q] = live[q]
  /\ \A id \in DOMAIN live'[p] :
       /\ id \in Id /\ live'[p][id] \in Protocol /\ live'[p][id].heard = {}
       /\ id \in ids \/ \E parent \in ids : id \in Children(p, parent)
  /\ \A id \in ids : ~AtOnce(p, id) => id \in DOMAIN live'[p]
  /\ \/ loopbacks' = <<>>
     \/ /\ loopbacks' = <<[to |-> p, id |-> Root]>> /\ DOMAIN live'[p] = {}
        /\ ids # {} /\ \A id \in ids : AtOnce(p, id)
     \/ loopbacks' = <<[to |-> p, id |-> Barrier]>> /\ Barrier \in ids /\ EvaluationsOf(p) = {}

\* Launch has that effect.
LEMMA Launching ==
  ASSUME Queues, State, NEW p \in Party, NEW batch \in Seq(Launchable),
         Launch(p, batch, clock, <<>>)
  PROVE  Launched(p, Range(batch))
<1> DEFINE ids == Range(batch)
           waiting == {id \in ToSet(batch) : ~AtOnce(p, id)}
           new == waiting \union UNION {Children(p, id) : id \in waiting}
           seqs == [i \in DOMAIN batch |-> Sent(p, batch[i], clock)]
<1>0. /\ clock \in Nat /\ network \in Seq(Message) /\ InLockStep(network, clock)
      /\ ids \subseteq Launchable /\ ToSet(batch) = ids
      /\ DOMAIN batch = 1..Len(batch) /\ Len(batch) \in Nat
  BY LenProperties DEF Queues, Range, ToSet
<1>1. ASSUME NEW i \in DOMAIN batch
      PROVE  IsSending(p, batch[i], clock, seqs[i])
  <2>1. batch[i] \in Launchable /\ seqs[i] = Sent(p, batch[i], clock)
    BY <1>0
  <2> HIDE DEF seqs
  <2> QED BY <1>0, <2>1, SentProperties
<1>2. seqs \in Seq(Seq(Message)) /\ DOMAIN seqs = DOMAIN batch
  <2>1. seqs = [i \in 1..Len(batch) |-> seqs[i]]
    BY <1>0
  <2>2. \A i \in 1..Len(batch) : seqs[i] \in Seq(Message)
    BY <1>0, <1>1 DEF IsSending
  <2> HIDE DEF seqs
  <2> QED BY <1>0, <2>1, <2>2
<1>3. /\ FlattenSeq(seqs) \in Seq(Message)
      /\ Range(FlattenSeq(seqs)) = UNION {Range(seqs[i]) : i \in DOMAIN seqs}
  <2> HIDE DEF seqs
  <2> QED BY <1>2, FlattenSeqProperties
<1>4. network' = network \o FlattenSeq(seqs)
  BY DEF Launch
<1>5. /\ network' \in Seq(Message)
      /\ Range(network') = Range(network) \union Range(FlattenSeq(seqs))
  <2> HIDE DEF seqs
  <2> QED BY <1>0, <1>3, <1>4, RangeOfConcatenation
<1>6. \A k \in Range(FlattenSeq(seqs)) : \E id \in ids : IsSentBy(p, id, clock, k)
  <2> HIDE DEF seqs
  <2>1. \A i \in DOMAIN batch : batch[i] \in ids
    BY DEF Range
  <2> QED BY <1>1, <1>2, <1>3, <2>1 DEF IsSending
<1>7. \A id \in ids :
        /\ id[1] = "reconstruct" =>
             \A r \in Holders(id[2]) : Tells(clock, p, r, id) \in Range(network')
        /\ id[1] = "majority" /\ id[2] \in known[p] =>
             \A r \in Party \ Holders(id[2]) : Tells(clock, p, r, id) \in Range(network')
  <2> HIDE DEF seqs
  <2>1. ASSUME NEW id \in ids PROVE \E i \in DOMAIN seqs : id = batch[i]
    BY <1>2 DEF Range
  <2> QED BY <1>1, <1>2, <1>3, <1>5, <2>1 DEF IsSending
<1>8. InLockStep(network', clock)
  <2> HIDE DEF seqs
  <2>1. \A i \in DOMAIN FlattenSeq(seqs) : FlattenSeq(seqs)[i].at = clock + 1
    BY <1>6 DEF IsSentBy, Range
  <2>2. \A i \in DOMAIN network : network[i].at >= clock
    BY <1>0 DEF InLockStep
  <2>3. \A m \in Message : m.at \in Nat
    BY DEF Message
  <2>4. clock <= clock
    BY <1>0
  <2> QED BY <1>0, <1>3, <1>4, <2>1, <2>2, <2>3, <2>4, SentInLockStep
<1>9. live' = [live EXCEPT ![p] =
           [id \in new |-> [heard |-> {}, left |-> Rounds(id, clock), scheduled |-> FALSE]]]
  BY DEF Launch
<1>10. ASSUME NEW id \in new
       PROVE  /\ id \in Id /\ Rounds(id, clock) \in Int
              /\ id \in ids \/ \E parent \in ids : id \in Children(p, parent)
  <2>1. CASE id \in waiting
    <3>1. IsNamed(id)
      BY <1>0, <2>1, LaunchableNames
    <3> QED BY <1>0, <2>1, <3>1 DEF Rounds, IsNamed
  <2>2. ASSUME NEW parent \in waiting, id \in Children(p, parent)
        PROVE  id \in Id /\ Rounds(id, clock) \in Int
    <3>1. id \in Id /\ (id[1] = "nop" \/ (id[1] = "evaluation" /\ id[2] \in DOMAIN quorums))
      <4>1. parent \in Launchable
        BY <1>0
      <4>2. id \in Children(p, parent)
        BY <2>2
      <4> HIDE DEF new, waiting, ids
      <4> QED BY <4>1, <4>2, ChildrenProperties
    <3>2. \A q \in DOMAIN quorums : end[q] \in Nat
      BY ShufflingAssumption DEF State
    <3> QED BY <1>0, <3>1, <3>2 DEF Rounds
  <2> QED BY <1>0, <2>1, <2>2
<1>11. /\ live' = [q \in Party |-> live'[q]]
       /\ \A q \in Party \ {p} : live'[q] = live[q]
       /\ live'[p] = [id \in new |-> [heard |-> {}, left |-> Rounds(id, clock), scheduled |-> FALSE]]
  <2> HIDE DEF new
  <2> QED BY <1>9 DEF State
<1>12. /\ DOMAIN live'[p] = new
       /\ \A id \in DOMAIN live'[p] :
            /\ id \in Id /\ live'[p][id] \in Protocol /\ live'[p][id].heard = {}
            /\ id \in ids \/ \E parent \in ids : id \in Children(p, parent)
  <2> HIDE DEF new, ids
  <2> QED BY <1>10, <1>11 DEF Protocol
<1>13. \A id \in ids : ~AtOnce(p, id) => id \in DOMAIN live'[p]
  BY <1>0, <1>12
<1>14. \/ loopbacks' = <<>>
       \/ loopbacks' = <<[to |-> p, id |-> Root]>> /\ waiting = {} /\ batch # <<>>
       \/ loopbacks' = <<[to |-> p, id |-> Barrier]>> /\ Barrier \in waiting /\ EvaluationsOf(p) = {}
  <2>1. loopbacks' = <<>> \o
           (IF waiting = {} /\ batch # <<>> THEN <<[to |-> p, id |-> Root]>> ELSE <<>>) \o
           (IF Barrier \in waiting /\ EvaluationsOf(p) = {}
              THEN <<[to |-> p, id |-> Barrier]>> ELSE <<>>)
    BY DEF Launch
  <2> DEFINE b == [to |-> p, id |-> Root]
             c == [to |-> p, id |-> Barrier]
  <2>2. /\ <<>> \o <<b>> = <<b>> /\ <<>> \o <<c>> = <<c>> /\ <<>> \o <<>> = <<>>
        /\ <<b>> \o <<>> = <<b>>
    OBVIOUS
  <2> HIDE DEF waiting, b, c
  <2>3. CASE waiting = {}
    BY <2>1, <2>2, <2>3 DEF b, c
  <2>4. CASE waiting # {}
    BY <2>1, <2>2, <2>4 DEF b, c
  <2> QED BY <2>3, <2>4
<1>15. waiting = {} => DOMAIN live'[p] = {} /\ \A id \in ids : AtOnce(p, id)
  BY <1>0, <1>12
<1>16. Barrier \in waiting => Barrier \in ids
  BY <1>0
<1>17. batch # <<>> => ids # {}
  <2>1. batch # <<>> => batch[1] \in ids
    BY <1>0, HeadAndTail DEF Range
  <2> QED BY <2>1
<1> HIDE DEF ids, waiting, new, seqs
<1> QED
  BY <1>5, <1>6, <1>7, <1>8, <1>11, <1>12, <1>13, <1>14, <1>15, <1>16, <1>17 DEF Launched, ids

\* The effect of Complete on a party that has nothing else to be told.
Completed(p, id) ==
  /\ live' = [q \in Party |-> live'[q]]
  /\ \A q \in Party \ {p} : live'[q] = live[q]
  /\ DOMAIN live'[p] = DOMAIN live[p] \ {id}
  /\ \A c \in DOMAIN live'[p] : live'[p][c] = live[p][c]
  /\ \/ loopbacks' = <<>> /\ \E c \in DOMAIN live'[p] : Parent(c) = Parent(id)
     \/ /\ loopbacks' = <<[to |-> p, id |-> Parent(id)]>>
        /\ \A c \in DOMAIN live'[p] : Parent(c) # Parent(id)

\* Complete has that effect.
LEMMA Completing ==
  ASSUME State, NEW p \in Party, NEW id, Complete(p, id, <<>>)
  PROVE  Completed(p, id)
<1> DEFINE left == [c \in DOMAIN live[p] \ {id} |-> live[p][c]]
           siblings == {c \in DOMAIN left : Parent(c) = Parent(id)}
           b == [to |-> p, id |-> Parent(id)]
<1>1. live' = [live EXCEPT ![p] = left]
  BY DEF Complete
<1>2. loopbacks' = <<>> \o IF siblings = {} THEN <<b>> ELSE <<>>
  BY DEF Complete
<1>3. <<>> \o <<b>> = <<b>> /\ <<>> \o <<>> = <<>>
  OBVIOUS
<1>4. live' = [q \in Party |-> live'[q]] /\ live'[p] = left /\ \A q \in Party \ {p} : live'[q] = live[q]
  <2> HIDE DEF left
  <2> QED BY <1>1 DEF State
<1>5. DOMAIN live'[p] = DOMAIN live[p] \ {id} /\ \A c \in DOMAIN live'[p] : live'[p][c] = live[p][c]
  BY <1>4
<1>6. siblings = {} <=> \A c \in DOMAIN live'[p] : Parent(c) # Parent(id)
  BY <1>4
<1>7. loopbacks' = IF siblings = {} THEN <<b>> ELSE <<>>
  BY <1>2, <1>3
<1> HIDE DEF left, siblings
<1> QED BY <1>4, <1>5, <1>6, <1>7 DEF Completed

\* The effect of the delivery of a message m on the queues: handlers send their party to
\* its next round at most.
Handled(m) ==
  /\ m \in Message /\ m \in Range(network) /\ loopbacks = <<>>
  /\ clock' = m.at /\ m.at \in {clock, clock + 1}
  /\ \A k \in Range(network) : k.at >= m.at
  /\ network' \in Seq(Message) /\ InLockStep(network', clock')
  /\ \A k \in Range(network) : k = m \/ k \in Range(network')
  /\ \A k \in Range(network') \ Range(network) : k = NextRound(m.at, m.to, m.body.id)
  /\ started = Cardinality(Party) /\ m.body.id \in DOMAIN live[m.to]
  /\ UNCHANGED <<program, quorums, end, started, stage>>

\* Every delivery has that effect.
LEMMA Handling ==
  ASSUME Queues, State, NEW type, NEW kinds, NEW m \in Delivered(type, kinds), Took(m),
         \/ network' = Tail(network)
         \/ network' = Tail(network) \o <<NextRound(m.at, m.to, m.body.id)>>
  PROVE  Handled(m) /\ m.body.type = type /\ m.body.id[1] \in kinds
<1>0. /\ clock \in Nat /\ network \in Seq(Message) /\ InLockStep(network, clock)
      /\ \A k \in Message : k.at \in Nat /\ k.to \in Party /\ k.body.id \in Id
  BY DEF Queues, Message, Body
<1>1. /\ m = Head(network) /\ network # <<>> /\ loopbacks = <<>>
      /\ started = Cardinality(Party) /\ m.body.id \in DOMAIN live[m.to]
      /\ m.body.type = type /\ m.body.id[1] \in kinds
  BY DEF Delivered, Due
<1>2. /\ m \in Message /\ m \in Range(network) /\ Tail(network) \in Seq(Message)
      /\ Range(Tail(network)) \subseteq Range(network)
      /\ Range(network) = {m} \union Range(Tail(network))
  BY <1>0, <1>1, HeadAndTail
<1>3. m.at \in {clock, clock + 1} /\ InLockStep(Tail(network), m.at)
  BY <1>0, <1>1, HandledInLockStep
<1>4. m.at \in Nat /\ m.to \in Party /\ m.body.id \in Id
  BY <1>0, <1>2
<1>5. \A k \in Range(Tail(network)) : k.at >= m.at
  BY <1>3, <1>4 DEF InLockStep, Range
<1>6. \A k \in Range(network) : k.at >= m.at
  BY <1>2, <1>4, <1>5
<1>7. clock' = m.at /\ UNCHANGED <<program, quorums, end, started, stage>>
  BY DEF Took
<1>8. CASE network' = Tail(network)
  BY <1>1, <1>2, <1>3, <1>6, <1>7, <1>8 DEF Handled
<1>9. CASE network' = Tail(network) \o <<NextRound(m.at, m.to, m.body.id)>>
  <2> DEFINE k == NextRound(m.at, m.to, m.body.id)
  <2>1. <<k>> \in Seq(Message) /\ Range(<<k>>) = {k} /\ k.at = m.at + 1
    BY <1>4, NextRoundProperties
  <2>0. network' = Tail(network) \o <<k>> /\ k = NextRound(m.at, m.to, m.body.id)
    BY <1>9
  <2>4. k \in Message
    BY <1>4, NextRoundProperties
  <2> HIDE DEF k
  <2>2. network' \in Seq(Message) /\ Range(network') = Range(Tail(network)) \union {k}
    <3> DEFINE t == <<k>>
               q == Tail(network)
    <3>1. /\ t \in Seq(Message) /\ Range(t) = {k} /\ network' = q \o t
          /\ q \in Seq(Message) /\ Range(q) = Range(Tail(network))
      BY <1>2, <2>0, <2>1
    <3> HIDE DEF t, q
    <3>2. q \o t \in Seq(Message) /\ Range(q \o t) = Range(q) \union Range(t)
      BY <3>1, RangeOfConcatenation
    <3> QED BY <3>1, <3>2
  <2>3. InLockStep(network', m.at)
    <3>1. \A i \in DOMAIN <<k>> : <<k>>[i].at = m.at + 1
      BY <2>1
    <3>2. \A i \in DOMAIN Tail(network) : Tail(network)[i].at >= m.at
      BY <1>5 DEF Range
    <3>3. m.at <= m.at
      BY <1>4
    <3> QED BY <1>0, <1>2, <1>3, <1>4, <2>0, <2>1, <3>1, <3>2, <3>3, SentInLockStep
  <2> QED BY <1>1, <1>2, <1>3, <1>6, <1>7, <2>0, <2>2, <2>3 DEF Handled
<1> QED BY <1>1, <1>8, <1>9

\* A loopback that is handled is the only one.
LEMMA Joining ==
  ASSUME Queues, NEW id, Joined(id)
  PROVE  /\ loopbacks = <<Head(loopbacks)>> /\ Head(loopbacks).id = id
         /\ Head(loopbacks) \in Completion /\ Tail(loopbacks) = <<>>
         /\ Range(loopbacks) = {Head(loopbacks)}
         /\ started = Cardinality(Party) /\ UNCHANGED <<clock, program, quorums, end, started>>
<1>1. /\ loopbacks # <<>> /\ Head(loopbacks).id = id /\ started = Cardinality(Party)
      /\ UNCHANGED <<clock, program, quorums, end, started>>
  BY DEF Joined
<1>2. PICK b \in Completion : loopbacks = <<b>>
  BY <1>1 DEF Queues
<1>3. Head(loopbacks) = b /\ Tail(loopbacks) = <<>>
  BY <1>2
<1>4. loopbacks = <<Head(loopbacks)>> /\ Tail(loopbacks) = <<>> /\ Head(loopbacks) \in Completion
  BY <1>2, <1>3
<1>5. Range(loopbacks) = {Head(loopbacks)}
  BY <1>4 DEF Range
<1> QED BY <1>1, <1>4, <1>5

-----------------------------------------------------------------------------
(***************************************************************************)
(* The invariant.                                                          *)
(***************************************************************************)

\* Nothing else happens before all parties have started.
Starting ==
  /\ started < Cardinality(Party) => clock = 0 /\ loopbacks = <<>>
  /\ \A p \in Party : p >= started => stage[p] = 0 /\ DOMAIN live[p] = {}

\* What a party runs in a stage; whoever sends an output may still wait for the others
\* when the protocol is completed.
Fits(s, p, id) ==
  \/ s = 0 /\ id = RandGen
  \/ s = 1 /\ id = Reconstruction(RandomNumber)
  \/ s = 2 /\ id \in {Majority(RandomNumber), Nop(RandomNumber)}
  \/ s = 3 /\ IsSharing(id)
  \/ s = 4 /\ (id = Barrier \/ id[1] = "evaluation")
  \/ s = 5 /\ \E x \in Wire : p \in Holders(x) /\ id = Reconstruction(x)
  \/ s = 6 /\ \E x \in Wire : id = Majority(x)
  \/ s \in {6, 7} /\ \E x \in Wire : id = Nop(x)

\* A party runs the protocols of its stage, of which those that have heard everybody are
\* completed; whoever waits while others receive a value knows it.
Running ==
  \A p \in Party : \A id \in DOMAIN live[p] :
    /\ Fits(stage[p], p, id)
    /\ id[1] = "nop" => id[2] \in known[p]
    /\ id = Barrier \/ id[1] = "reconstruct" => live[p][id].heard # Awaited(p, id)

\* Who has left the first stages knows the random number, and before values are sent
\* only the holders of an output know it.
Knowing ==
  \A p \in Party :
    /\ stage[p] \in 3..7 => RandomNumber \in known[p]
    /\ stage[p] \in 0..5 => \A x \in Wire : x \in known[p] => p \in Holders(x)

\* The evaluations of a party are completed.
Done(p) == stage[p] >= 4 /\ \A id \in DOMAIN live[p] : id[1] # "evaluation"

\* The barrier of a party is completed.
Left(p) == stage[p] > 4 \/ (stage[p] = 4 /\ Barrier \notin DOMAIN live[p])

\* Those whom a protocol of a party has heard of, if it runs.
HeardBy(p, id) == IF id \in DOMAIN live[p] THEN live[p][id].heard ELSE {}

\* A value is on its way, and due in a tick.
Told(from, to, id, now) ==
  \E m \in Range(network) :
    m.at = now /\ m.from = from /\ m.to = to /\ m.body = Value(id)

\* What is reported to a parent.
Reported ==
  \A b \in Range(loopbacks) :
    /\ b.id = Root => \A id \in DOMAIN live[b.to] : Parent(id) # Root
    /\ b.id = Barrier => Done(b.to) /\ ~Left(b.to)
    /\ b.id \notin {Root, Barrier} =>
         \E x \in known[b.to] :
           /\ b.id = Majority(x)
           /\ stage[b.to] \in IF x = RandomNumber THEN {2} ELSE {6, 7}

\* Who is heard of, and who has gone on, knows of evaluations that are completed.
Announced ==
  /\ \A m \in Range(network) : m.body = Value(Barrier) => Done(m.from)
  /\ \A p \in Party : \A r \in HeardBy(p, Barrier) : Done(r)
  /\ \A p \in Party : Left(p) => \A r \in Party : Done(r)

\* Whoever waits at the barrier hears of the same parties in the same tick.
Together ==
  /\ \A m \in Range(network) : m.body = Value(Barrier) =>
       \A p \in Party : ~Left(p) =>
         m.from \in HeardBy(p, Barrier) \/ Told(m.from, p, Barrier, m.at)
  /\ \A p, q \in Party : ~Left(p) => \A r \in HeardBy(q, Barrier) :
         r \in HeardBy(p, Barrier) \/ Told(r, p, Barrier, clock)

\* A message about an output.
IsWire(m, kind) == m.body.id[1] = kind /\ m.body.id[2] \in Wire

\* Before the first party leaves the barrier.
Closed ==
  /\ \A p \in Party : ~Left(p)
  /\ \A m \in Range(network) : ~IsWire(m, "reconstruct") /\ ~IsWire(m, "majority")

\* The barrier is left in the tick t, by everybody.
Leaving(t) ==
  \A p \in Party :
    /\ stage[p] = 4 => clock = t
    /\ ~Left(p) => \A r \in Party : r \in HeardBy(p, Barrier) \/ Told(r, p, Barrier, t)
    /\ stage[p] = 4 /\ Left(p) => loopbacks = <<[to |-> p, id |-> Root]>>

\* Outputs are reconstructed in the next tick, and whoever holds one hears of all holders.
Opening(t) ==
  /\ \A m \in Range(network) : IsWire(m, "reconstruct") =>
       /\ m.at = t + 1
       /\ m.from \in Holders(m.body.id[2])
  /\ \A p \in Party :
       /\ stage[p] = 5 /\ [to |-> p, id |-> Root] \in Range(loopbacks) => clock = t + 1
       /\ \A x \in Wire : p \in Holders(x) =>
            /\ stage[p] = 5 =>
                 /\ clock <= t + 1
                 /\ Reconstruction(x) \in DOMAIN live[p] \/ x \in known[p]
                 /\ DOMAIN live[p] = {} => loopbacks = <<[to |-> p, id |-> Root]>>
            /\ HeardBy(p, Reconstruction(x)) \subseteq Holders(x)
            /\ stage[p] = 4 \/ Reconstruction(x) \in DOMAIN live[p] =>
                 \A h \in Holders(x) :
                   \/ h \in HeardBy(p, Reconstruction(x))
                   \/ stage[h] = 4
                   \/ Told(h, p, Reconstruction(x), t + 1)

\* Outputs are sent to the others in the tick after, who decide yet a tick later.
Telling(t) ==
  /\ \A m \in Range(network) : IsWire(m, "majority") =>
       /\ m.to \notin Holders(m.body.id[2])
       /\ IF m.body.type = "value" THEN m.at = t + 2 /\ m.from \in Holders(m.body.id[2])
          ELSE m.at = t + 3 /\ Holders(m.body.id[2]) # {}
  /\ \A p \in Party, x \in Wire :
       /\ stage[p] = 6 => Majority(x) \in DOMAIN live[p] \/ x \in known[p]
       /\ stage[p] = 7 => x \in known[p]
       /\ stage[p] = 6 /\ p \in Holders(x) => x \in known[p]
       /\ HeardBy(p, Majority(x)) \subseteq Holders(x)
       /\ p \notin Holders(x) /\ (stage[p] <= 5 \/ Majority(x) \in DOMAIN live[p]) =>
            \A h \in Holders(x) :
              \/ h \in HeardBy(p, Majority(x))
              \/ stage[h] <= 5
              \/ Told(h, p, Majority(x), t + 2)

\* All that follows the barrier.
Opened(t) ==
  /\ \A p \in Party : Done(p)
  /\ Leaving(t) /\ Opening(t) /\ Telling(t)
  /\ \A b \in Range(loopbacks) : b.id # Barrier

Inv ==
  /\ Queues /\ State /\ Starting /\ Running /\ Knowing /\ Reported /\ Announced /\ Together
  /\ Closed \/ \E t \in 0..clock : Opened(t)

\* The names of what a party runs in a stage.
LEMMA FittingNames ==
  ASSUME NEW p \in Party, NEW s \in 0..7, NEW id \in Id, Fits(s, p, id)
  PROVE  /\ s = 7 => id[1] = "nop"
         /\ id[1] = "random" => s = 0
         /\ id[1] = "reconstruct" => \/ s = 1 /\ id[2] = RandomNumber
                                     \/ s = 5 /\ id[2] \in Wire /\ p \in Holders(id[2])
         /\ id[1] = "majority" => \/ s = 2 /\ id[2] = RandomNumber
                                  \/ s = 6 /\ id[2] \in Wire
         /\ id[1] = "nop" => \/ s = 2 /\ id[2] = RandomNumber
                             \/ s \in {6, 7} /\ id[2] \in Wire
         /\ IsSharing(id) => s = 3
         /\ id[1] = "evaluation" => s = 4
         /\ id[1] = "barrier" => s = 4
         /\ s = 4 => id = Barrier \/ id[1] = "evaluation"
         /\ s = 5 => id[1] = "reconstruct"
         /\ s = 6 => id[1] \in {"majority", "nop"}
         /\ id = Barrier => s = 4
<1>0. RandomNumber \in Nat /\ Wire \subseteq Nat
  BY PartiesAreNumbers
<1>1. CASE s = 0 /\ id = RandGen
  BY <1>1, ProtocolNames DEF IsSharing
<1>2. CASE s = 1 /\ id = Reconstruction(RandomNumber)
  BY <1>0, <1>2, ProtocolNames DEF IsSharing
<1>3. CASE s = 2 /\ id \in {Majority(RandomNumber), Nop(RandomNumber)}
  BY <1>0, <1>3, ProtocolNames DEF IsSharing
<1>4. CASE s = 3 /\ IsSharing(id)
  BY <1>4, ProtocolNames DEF IsSharing
<1>5. CASE s = 4 /\ (id = Barrier \/ id[1] = "evaluation")
  BY <1>5, ProtocolNames DEF IsSharing
<1>6. ASSUME s = 5, NEW x \in Wire, p \in Holders(x), id = Reconstruction(x)
      PROVE  s = 5 /\ id[1] = "reconstruct" /\ id[2] \in Wire /\ p \in Holders(id[2]) /\ id # Barrier
  BY <1>0, <1>6, ProtocolNames
<1>7. ASSUME s = 6, NEW x \in Wire, id = Majority(x)
      PROVE  s = 6 /\ id[1] = "majority" /\ id[2] \in Wire /\ id # Barrier
  BY <1>0, <1>7, ProtocolNames
<1>8. ASSUME s \in {6, 7}, NEW x \in Wire, id = Nop(x)
      PROVE  s \in {6, 7} /\ id[1] = "nop" /\ id[2] \in Wire /\ id # Barrier
  BY <1>0, <1>8, ProtocolNames
<1> QED BY <1>1, <1>2, <1>3, <1>4, <1>5, <1>6, <1>7, <1>8 DEF Fits, IsSharing

\* The messages on the way.
LEMMA OnTheWay ==
  ASSUME Queues, NEW m \in Range(network)
  PROVE  /\ m \in Message /\ m.at \in Nat /\ m.from \in Party /\ m.to \in Party
         /\ m.body.id \in Id
         /\ m.body.type \in {"value", "nextRound"}
         /\ m.body.type = "value" => m.body = Value(m.body.id)
         /\ \A id : m.body = Value(id) => m.body.id = id /\ m.body.type = "value"
<1>1. m \in Message
  <2>1. network \in Seq(Message)
    BY DEF Queues
  <2> QED BY <2>1, LenProperties DEF Range
<1> QED BY <1>1 DEF Message, Body, Value

\* Parties hear of parties.
LEMMA Hearing ==
  ASSUME State, NEW p \in Party, NEW id
  PROVE  /\ HeardBy(p, id) \subseteq Party
         /\ id \in DOMAIN live[p] => HeardBy(p, id) = live[p][id].heard
         /\ id \notin DOMAIN live[p] => HeardBy(p, id) = {}
BY DEF State, HeardBy, Protocol

\* What fits depends on what does not change.
LEMMA FitsUnchanged ==
  ASSUME quorums' = quorums
  PROVE  /\ \A x : Holders(x)' = Holders(x)
         /\ \A s, p, id : Fits(s, p, id)' = Fits(s, p, id)
         /\ \A p, id : Awaited(p, id)' = Awaited(p, id)
BY DEF Holders, QuorumOfGate, Fits, Awaited

\* The barrier and what is sent about it.
BarrierValues == {m \in Range(network) : m.body = Value(Barrier)}

\* Steps of a party that keep what others have heard at the barrier.
ApartFromBarrier ==
  /\ clock' \in {clock, clock + 1} /\ \A m \in Range(network) : m.at >= clock'
  /\ BarrierValues' = BarrierValues
  /\ \A q \in Party :
       /\ Left(q)' <=> Left(q)
       /\ Done(q) => Done(q)'
       /\ HeardBy(q, Barrier)' = HeardBy(q, Barrier)

\* They keep the invariants of the barrier.
LEMMA BarrierApart ==
  ASSUME Queues, State, Announced, Together, ApartFromBarrier
  PROVE  Announced' /\ Together'
<1>0. /\ clock \in Nat /\ clock' \in {clock, clock + 1}
      /\ \A m \in Range(network) : m.at >= clock' /\ m.from \in Party
  BY OnTheWay DEF Queues, ApartFromBarrier
<1>1. \A q \in Party :
        /\ Left(q)' <=> Left(q)
        /\ Done(q) => Done(q)'
        /\ HeardBy(q, Barrier)' = HeardBy(q, Barrier)
  BY DEF ApartFromBarrier
<1>2. \A m : m \in Range(network') /\ m.body = Value(Barrier) <=>
               m \in Range(network) /\ m.body = Value(Barrier)
  BY DEF ApartFromBarrier, BarrierValues, Value, Barrier
<1>3. \A r, p, t : Told(r, p, Barrier, t)' <=> Told(r, p, Barrier, t)
  BY <1>2 DEF Told, Value, Barrier
<1>4. \A p \in Party : \A r \in HeardBy(p, Barrier) : r \in HeardBy(p, Barrier)'
  BY <1>1
<1>5. ASSUME NEW r, NEW p, Told(r, p, Barrier, clock)
      PROVE  Told(r, p, Barrier, clock')
  BY <1>0, <1>5 DEF Told
<1>6. Announced'
  <2>1. ASSUME NEW m \in Range(network'), m.body = Value(Barrier)
        PROVE  Done(m.from)'
    BY <1>0, <1>1, <1>2, <2>1 DEF Announced
  <2>2. ASSUME NEW p \in Party, NEW r \in HeardBy(p, Barrier)'
        PROVE  Done(r)'
    <3>1. r \in HeardBy(p, Barrier)
      BY <1>1, <2>2
    <3>2. Done(r)
      BY <3>1 DEF Announced
    <3>3. r \in Party
      BY <3>1, Hearing
    <3> QED BY <1>1, <3>2, <3>3
  <2>3. ASSUME NEW p \in Party, Left(p)', NEW r \in Party
        PROVE  Done(r)'
    BY <1>1, <2>3 DEF Announced
  <2> QED BY <2>1, <2>2, <2>3 DEF Announced, Value, Barrier
<1>7. Together'
  <2>1. ASSUME NEW m \in Range(network'), m.body = Value(Barrier), NEW p \in Party, ~Left(p)'
        PROVE  m.from \in HeardBy(p, Barrier)' \/ Told(m.from, p, Barrier, m.at)'
    BY <1>1, <1>2, <1>3, <2>1 DEF Together
  <2>2. ASSUME NEW p \in Party, NEW q \in Party, ~Left(p)', NEW r \in HeardBy(q, Barrier)'
        PROVE  r \in HeardBy(p, Barrier)' \/ Told(r, p, Barrier, clock)'
    BY <1>1, <1>3, <1>5, <2>2 DEF Together
  <2> QED BY <2>1, <2>2 DEF Together, Value, Barrier
<1> QED BY <1>6, <1>7

-----------------------------------------------------------------------------
(***************************************************************************)
(* What the kinds of steps keep.                                           *)
(***************************************************************************)

\* A party may go on to stage s with these protocols.
Ready(p, s, ids) ==
  /\ s \in 0..6 /\ ids \subseteq Launchable
  /\ \A id \in ids : Fits(s, p, id)
  /\ stage[p] <= s
  /\ s \in 3..6 => RandomNumber \in known[p]
  /\ s < 4 => stage[p] < 4
  /\ s = 4 => stage[p] = 3 /\ Barrier \in ids
  /\ s > 4 => Left(p)

\* It does so.
GoesOn(p, s, ids) ==
  /\ Launched(p, ids)
  /\ stage' = [stage EXCEPT ![p] = s]
  /\ started' \in 0..Cardinality(Party)
  /\ UNCHANGED <<clock, program, quorums, end, known>>

\* What is launched fits.
LEMMA LaunchedFits ==
  ASSUME State, NEW p \in Party, NEW s, NEW ids, Ready(p, s, ids), Launched(p, ids),
         NEW id \in DOMAIN live'[p]
  PROVE  /\ id \in Id /\ Fits(s, p, id) /\ live'[p][id].heard = {}
         /\ id[1] = "nop" => id[2] \in known[p]
         /\ id = Barrier \/ id[1] = "reconstruct" => Awaited(p, id) # {}
<1>0. s \in 0..7 /\ ids \subseteq Launchable /\ \A i \in ids : Fits(s, p, i)
  BY DEF Ready
<1>1. id \in Id /\ live'[p][id].heard = {} /\ (id \in ids \/ \E parent \in ids : id \in Children(p, parent))
  BY DEF Launched
<1>2. Fits(s, p, id) /\ (id[1] = "nop" => id[2] \in known[p])
  <2>1. CASE id \in ids
    <3>1. id[1] # "nop"
      BY <1>0, <2>1, LaunchableNames DEF IsNamed
    <3> QED BY <1>0, <2>1, <3>1
  <2>2. ASSUME NEW parent \in ids, id \in Children(p, parent)
        PROVE  Fits(s, p, id) /\ (id[1] = "nop" => id[2] \in known[p])
    <3>0. parent \in Launchable /\ parent \in Id /\ Fits(s, p, parent)
      BY <1>0, LaunchableNames DEF IsNamed
    <3>1. CASE /\ parent[1] = "majority" /\ parent[2] \in known[p]
               /\ id = Nop(parent[2]) /\ id[1] = "nop" /\ id[2] = parent[2]
      <4>1. (s = 2 /\ parent[2] = RandomNumber) \/ (s = 6 /\ parent[2] \in Wire)
        BY <1>0, <3>0, <3>1, FittingNames
      <4> QED BY <3>1, <4>1 DEF Fits
    <3>2. CASE parent = Barrier /\ id[1] = "evaluation"
      <4>1. s = 4
        BY <1>0, <3>0, <3>2, FittingNames
      <4> QED BY <3>2, <4>1 DEF Fits
    <3> QED BY <2>2, <3>0, <3>1, <3>2, ChildrenProperties
  <2> QED BY <1>1, <2>1, <2>2
<1>3. id = Barrier \/ id[1] = "reconstruct" => Awaited(p, id) # {}
  <2>1. CASE id = Barrier
    BY <2>1, PartiesAreNumbers DEF Awaited
  <2>2. CASE id # Barrier /\ id[1] = "reconstruct"
    <3>1. (s = 1 /\ id[2] = RandomNumber) \/ p \in Holders(id[2])
      BY <1>0, <1>1, <1>2, <2>2, FittingNames
    <3> QED BY <2>2, <3>1, PartiesAreNumbers, QuorumsOfTheGates DEF Awaited
  <2> QED BY <2>1, <2>2
<1> QED BY <1>1, <1>2, <1>3

\* Who goes on keeps the types, and what the stages know.
LEMMA GoingOn ==
  ASSUME Queues, State, Running, Knowing, Announced, Together,
         NEW p \in Party, NEW s, NEW ids, Ready(p, s, ids), GoesOn(p, s, ids)
  PROVE  Queues' /\ State' /\ Running' /\ Knowing' /\ Reported' /\ ApartFromBarrier
<1>0. /\ s \in 0..7 /\ s # 7 /\ ids \subseteq Launchable /\ Launched(p, ids)
      /\ stage' = [stage EXCEPT ![p] = s] /\ stage \in [Party -> 0..7]
      /\ clock' = clock /\ quorums' = quorums /\ end' = end /\ known' = known
      /\ started' \in 0..Cardinality(Party)
  BY DEF Ready, GoesOn, State
<1>1. stage'[p] = s /\ stage' \in [Party -> 0..7] /\ \A q \in Party \ {p} : stage'[q] = stage[q]
  BY <1>0
<1>2. /\ live' = [q \in Party |-> live'[q]]
      /\ \A q \in Party \ {p} : live'[q] = live[q]
      /\ \A id \in DOMAIN live'[p] : id \in Id /\ live'[p][id] \in Protocol
  BY <1>0 DEF Launched
<1>3. Queues'
  <2>1. network' \in Seq(Message) /\ InLockStep(network', clock) /\ clock \in Nat
    BY <1>0 DEF Launched, Queues
  <2>2. Root \in Id /\ Barrier \in Id
    BY ProtocolNames
  <2>3. loopbacks' = <<>> \/ \E b \in Completion : loopbacks' = <<b>>
    BY <1>0, <2>2 DEF Launched, Completion
  <2> QED BY <1>0, <2>1, <2>3 DEF Queues, InLockStep
<1>4. State'
  BY <1>0, <1>1, <1>2 DEF State
<1>5. Running'
  <2>1. ASSUME NEW q \in Party \ {p}, NEW id \in DOMAIN live'[q]
        PROVE  /\ Fits(stage'[q], q, id)
               /\ id[1] = "nop" => id[2] \in known[q]
               /\ id = Barrier \/ id[1] = "reconstruct" => live'[q][id].heard # Awaited(q, id)
    BY <1>1, <1>2, <2>1 DEF Running
  <2>2. ASSUME NEW id \in DOMAIN live'[p]
        PROVE  /\ Fits(stage'[p], p, id)
               /\ id[1] = "nop" => id[2] \in known[p]
               /\ id = Barrier \/ id[1] = "reconstruct" => live'[p][id].heard # Awaited(p, id)
    BY <1>0, <1>1, LaunchedFits
  <2> QED BY <1>0, <2>1, <2>2, FitsUnchanged DEF Running, Barrier
<1>6. Knowing'
  <2>1. ASSUME NEW q \in Party \ {p}
        PROVE  /\ stage'[q] \in 3..7 => RandomNumber \in known[q]
               /\ stage'[q] \in 0..5 => \A x \in Wire : x \in known[q] => q \in Holders(x)
    BY <1>1 DEF Knowing
  <2>2. stage'[p] \in 3..7 => RandomNumber \in known[p]
    BY <1>0, <1>1 DEF Ready
  <2>3. stage'[p] \in 0..5 => \A x \in Wire : x \in known[p] => p \in Holders(x)
    <3>1. stage[p] <= s /\ stage[p] \in 0..7
      BY <1>0 DEF Ready
    <3> QED BY <1>0, <1>1, <3>1 DEF Knowing
  <2> QED BY <1>0, <2>1, <2>2, <2>3, FitsUnchanged DEF Knowing, RandomNumber, Wire
<1>7. \A id \in DOMAIN live'[p] : id \in Id /\ Fits(s, p, id) /\ live'[p][id].heard = {}
  BY <1>0, LaunchedFits
<1>8. s > 4 => \A id \in DOMAIN live'[p] : id[1] # "evaluation"
  BY <1>0, <1>7, FittingNames
<1>9. s = 4 => Barrier \in DOMAIN live'[p]
  <2>1. Barrier \in ids => ~AtOnce(p, Barrier)
    BY ProtocolNames DEF AtOnce, IsSharing
  <2> QED BY <1>0, <2>1 DEF Launched, Ready
<1>10. s > 4 => Left(p)
  BY DEF Ready
<1>11. s <= 4 => stage[p] < 4
  BY <1>0 DEF Ready
<1>12. ApartFromBarrier
  <2>1. clock' \in {clock, clock + 1} /\ \A m \in Range(network) : m.at >= clock'
    BY <1>0, LenProperties DEF Queues, InLockStep, Range
  <2>2. BarrierValues' = BarrierValues
    <3>1. Range(network) \subseteq Range(network')
      BY <1>0 DEF Launched
    <3>2. ASSUME NEW k \in Range(network') \ Range(network)
          PROVE  k.body # Value(Barrier)
      <4>1. PICK id \in ids : IsSentBy(p, id, clock, k)
        BY <1>0 DEF Launched
      <4> QED BY <4>1 DEF IsSentBy, Value
    <3> QED BY <3>1, <3>2 DEF BarrierValues, Value, Barrier
  <2>3. ASSUME NEW q \in Party \ {p}
        PROVE  (Left(q)' <=> Left(q)) /\ (Done(q)' <=> Done(q))
               /\ HeardBy(q, Barrier)' = HeardBy(q, Barrier)
    BY <1>1, <1>2, <2>3 DEF Left, Done, HeardBy, Barrier
  <2>4. Left(p)' <=> Left(p)
    <3>1. CASE s > 4
      BY <1>1, <1>10, <3>1 DEF Left
    <3>2. CASE s <= 4
      BY <1>0, <1>1, <1>9, <1>11, <3>2 DEF Left, Barrier
    <3> QED BY <1>0, <3>1, <3>2
  <2>5. Done(p) => Done(p)'
    <3>1. CASE s > 4
      BY <1>1, <1>8, <3>1 DEF Done
    <3>2. CASE s <= 4
      BY <1>0, <1>11, <3>2 DEF Done
    <3> QED BY <1>0, <3>1, <3>2
  <2>6. HeardBy(p, Barrier)' = HeardBy(p, Barrier)
    <3>1. Barrier \notin DOMAIN live[p]
      <4>1. ASSUME Barrier \in DOMAIN live[p] PROVE FALSE
        <5>1. Fits(stage[p], p, Barrier) /\ Barrier \in Id /\ stage[p] \in 0..7
          BY <1>0, <4>1 DEF Running, State
        <5>2. stage[p] = 4
          BY <5>1, FittingNames
        <5> QED BY <1>0, <1>10, <1>11, <4>1, <5>2 DEF Left
      <4> QED BY <4>1
    <3>2. Barrier \in DOMAIN live'[p] => live'[p][Barrier].heard = {}
      BY <1>7
    <3> QED BY <3>1, <3>2 DEF HeardBy, Barrier
  <2> QED BY <2>1, <2>2, <2>3, <2>4, <2>5, <2>6 DEF ApartFromBarrier
<1>13. Reported'
  <2>1. CASE loopbacks' = <<>>
    <3>1. Range(loopbacks') = {}
      BY <2>1 DEF Range
    <3> QED BY <3>1 DEF Reported
  <2>2. CASE loopbacks' = <<[to |-> p, id |-> Root]>> /\ DOMAIN live'[p] = {}
    <3>1. Range(loopbacks') = {[to |-> p, id |-> Root]}
      BY <2>2 DEF Range
    <3> QED BY <2>2, <3>1, ProtocolNames DEF Reported, Root
  <2>3. CASE loopbacks' = <<[to |-> p, id |-> Barrier]>> /\ Barrier \in ids /\ EvaluationsOf(p) = {}
    <3>1. Range(loopbacks') = {[to |-> p, id |-> Barrier]}
      BY <2>3 DEF Range
    <3>2. s = 4
      <4>1. Barrier \in Id /\ Fits(s, p, Barrier)
        BY <2>3, ProtocolNames DEF Ready
      <4> QED BY <1>0, <4>1, FittingNames
    <3>3. ASSUME NEW id \in DOMAIN live'[p] PROVE id[1] # "evaluation"
      <4>1. CASE id \in ids
        BY <1>0, <4>1, LaunchableNames DEF IsNamed
      <4>2. ASSUME NEW parent \in ids, id \in Children(p, parent) PROVE id[1] # "evaluation"
        BY <1>0, <2>3, <4>2, ChildrenProperties
      <4> QED BY <1>0, <4>1, <4>2 DEF Launched
    <3>4. Done(p)' /\ ~Left(p)'
      BY <1>1, <1>9, <3>2, <3>3 DEF Done, Left, Barrier
    <3>5. Barrier # Root
      BY ProtocolNames
    <3>6. ASSUME NEW b \in Range(loopbacks')
          PROVE  b.id = Barrier /\ b.to = p
      BY <3>1
    <3> QED BY <3>4, <3>5, <3>6 DEF Reported, Barrier, Root
  <2> QED BY <1>0, <2>1, <2>2, <2>3 DEF Launched
<1> QED BY <1>3, <1>4, <1>5, <1>6, <1>12, <1>13

\* A party may have learnt of an item.
Learns(p) ==
  \/ known' = known
  \/ \E x \in Item :
       /\ known' = [known EXCEPT ![p] = @ \union {x}]
       /\ x \in Wire /\ stage[p] <= 5 => p \in Holders(x)

\* What is learnt stays known.
LEMMA Learning ==
  ASSUME State, Knowing, NEW p \in Party, Learns(p), stage' = stage, quorums' = quorums
  PROVE  /\ known' \in [Party -> SUBSET Item] /\ Knowing'
         /\ \A q \in Party : known[q] \subseteq known'[q]
<1>0. known \in [Party -> SUBSET Item] /\ stage \in [Party -> 0..7]
  BY DEF State
<1>1. CASE known' = known
  BY <1>0, <1>1, FitsUnchanged DEF Knowing, RandomNumber, Wire
<1>2. ASSUME NEW x \in Item, known' = [known EXCEPT ![p] = @ \union {x}],
             x \in Wire /\ stage[p] <= 5 => p \in Holders(x)
      PROVE  /\ known' \in [Party -> SUBSET Item] /\ Knowing'
             /\ \A q \in Party : known[q] \subseteq known'[q]
  <2>1. /\ known' \in [Party -> SUBSET Item] /\ known'[p] = known[p] \union {x}
        /\ \A q \in Party \ {p} : known'[q] = known[q]
    BY <1>0, <1>2
  <2>2. ASSUME NEW q \in Party
        PROVE  /\ stage[q] \in 3..7 => RandomNumber \in known'[q]
               /\ stage[q] \in 0..5 => \A y \in Wire : y \in known'[q] => q \in Holders(y)
    <3>1. CASE q = p
      <4>1. stage[p] \in 0..5 => stage[p] <= 5
        OBVIOUS
      <4> QED BY <1>2, <2>1, <3>1, <4>1 DEF Knowing
    <3>2. CASE q # p
      BY <2>1, <3>2 DEF Knowing
    <3> QED BY <3>1, <3>2
  <2> QED BY <2>1, <2>2, FitsUnchanged DEF Knowing, RandomNumber, Wire
<1> QED BY <1>1, <1>2 DEF Learns

\* Only one protocol of one party is touched.
Touched(p, id) ==
  \A q \in Party, c \in Id : q # p \/ c # id =>
    /\ c \in DOMAIN live'[q] <=> c \in DOMAIN live[q]
    /\ HeardBy(q, c)' = HeardBy(q, c)

\* A protocol that is completed.
LEMMA CompletedKeeps ==
  ASSUME State, Running, Knowing, Announced, NEW p \in Party, NEW id \in Id,
         id \in DOMAIN live[p] \/ id[1] = "majority",
         Completed(p, id), Learns(p), UNCHANGED <<program, quorums, end, started, stage>>
  PROVE  /\ State' /\ Running' /\ Knowing' /\ Reported' /\ Touched(p, id)
         /\ loopbacks' = <<>> \/ \E b \in Completion : loopbacks' = <<b>>
         /\ Range(loopbacks') \subseteq {[to |-> p, id |-> Parent(id)]}
         /\ \A q \in Party : DOMAIN live'[q] \subseteq DOMAIN live[q]
         /\ id \notin DOMAIN live'[p]
<1>0. /\ stage' = stage /\ quorums' = quorums /\ end' = end /\ started' = started
      /\ live' = [q \in Party |-> live'[q]]
      /\ \A q \in Party \ {p} : live'[q] = live[q]
      /\ DOMAIN live'[p] = DOMAIN live[p] \ {id}
      /\ \A c \in DOMAIN live'[p] : live'[p][c] = live[p][c]
      /\ stage[p] \in 0..7
  BY DEF Completed, State
<1>1. /\ known' \in [Party -> SUBSET Item] /\ Knowing'
      /\ \A q \in Party : known[q] \subseteq known'[q]
  BY <1>0, Learning
<1>2. ASSUME NEW q \in Party
      PROVE  /\ DOMAIN live'[q] \subseteq DOMAIN live[q]
             /\ \A c \in DOMAIN live'[q] : live'[q][c] = live[q][c]
             /\ \A c : q # p \/ c # id => (c \in DOMAIN live'[q] <=> c \in DOMAIN live[q])
  BY <1>0
<1>3. State'
  <2>1. \A q \in Party : \A c \in DOMAIN live'[q] : c \in Id /\ live'[q][c] \in Protocol
    BY <1>2 DEF State
  <2> QED BY <1>0, <1>1, <2>1 DEF State
<1>4. Running'
  <2>1. ASSUME NEW q \in Party, NEW c \in DOMAIN live'[q]
        PROVE  /\ Fits(stage[q], q, c)
               /\ c[1] = "nop" => c[2] \in known'[q]
               /\ c = Barrier \/ c[1] = "reconstruct" => live'[q][c].heard # Awaited(q, c)
    BY <1>1, <1>2 DEF Running
  <2> QED BY <1>0, <2>1, FitsUnchanged DEF Running, Barrier
<1>5. Touched(p, id)
  <2>1. ASSUME NEW q \in Party, NEW c \in Id, q # p \/ c # id
        PROVE  (c \in DOMAIN live'[q] <=> c \in DOMAIN live[q]) /\ HeardBy(q, c)' = HeardBy(q, c)
    BY <1>2, <2>1 DEF HeardBy
  <2> QED BY <2>1 DEF Touched
<1>6. /\ Parent(id) \in Id
      /\ id[1] = "nop" => Parent(id) = Majority(id[2])
      /\ id[1] = "evaluation" => Parent(id) = Barrier
      /\ id[1] \notin {"nop", "evaluation"} => Parent(id) = Root
      /\ id[2] \in Nat
  BY ParentOf, NamesOfProtocols
<1>7. loopbacks' = <<>> \/ \E b \in Completion : loopbacks' = <<b>>
  BY <1>6 DEF Completed, Completion
<1>8. CASE loopbacks' = <<>>
  <2>1. Range(loopbacks') = {}
    BY <1>8 DEF Range
  <2> QED BY <1>0, <1>1, <1>2, <1>3, <1>4, <1>5, <1>7, <2>1 DEF Reported
<1>9. CASE /\ loopbacks' = <<[to |-> p, id |-> Parent(id)]>>
           /\ \A c \in DOMAIN live'[p] : Parent(c) # Parent(id)
  <2>1. Range(loopbacks') = {[to |-> p, id |-> Parent(id)]}
    BY <1>9 DEF Range
  <2>2. Barrier # Root /\ \A n \in Nat : Majority(n) # Root /\ Majority(n) # Barrier
    BY ProtocolNames DEF Majority, Barrier, Root
  <2>3. CASE id[1] = "nop"
    <3>1. id \in DOMAIN live[p] /\ Fits(stage[p], p, id) /\ id[2] \in known[p]
      BY <2>3 DEF Running
    <3>2. (stage[p] = 2 /\ id[2] = RandomNumber) \/ (stage[p] \in {6, 7} /\ id[2] \in Wire)
      BY <1>0, <2>3, <3>1, FittingNames
    <3>3. stage'[p] \in IF id[2] = RandomNumber THEN {2} ELSE {6, 7}
      BY <1>0, <3>2, PartiesAreNumbers
    <3>4. id[2] \in known'[p]
      BY <1>1, <3>1
    <3>5. ASSUME NEW b \in Range(loopbacks')
          PROVE  b.to = p /\ b.id = Majority(id[2]) /\ b.id # Root /\ b.id # Barrier
      BY <1>6, <2>1, <2>2, <2>3
    <3>6. Reported'
      BY <3>3, <3>4, <3>5 DEF Reported, Root, Barrier, Majority, RandomNumber
    <3> QED BY <1>0, <1>1, <1>2, <1>3, <1>4, <1>5, <1>7, <2>1, <3>6
  <2>4. CASE id[1] = "evaluation"
    <3>1. id \in DOMAIN live[p] /\ Fits(stage[p], p, id)
      BY <2>4 DEF Running
    <3>2. stage[p] = 4
      BY <1>0, <2>4, <3>1, FittingNames
    <3>3. ~Done(p) /\ ~Left(p)
      BY <2>4, <3>1 DEF Done, Announced
    <3>4. Barrier \in DOMAIN live'[p]
      BY <1>0, <2>4, <3>2, <3>3, ProtocolNames DEF Left
    <3>5. ASSUME NEW c \in DOMAIN live'[p] PROVE c[1] # "evaluation"
      <4>1. c \in Id
        BY <1>2 DEF State
      <4> QED BY <1>6, <1>9, <2>4, <4>1, ParentOf
    <3>6. Done(p)' /\ ~Left(p)'
      BY <1>0, <3>2, <3>4, <3>5 DEF Done, Left, Barrier
    <3>7. ASSUME NEW b \in Range(loopbacks')
          PROVE  b.to = p /\ b.id = Barrier /\ b.id # Root
      BY <1>6, <2>1, <2>2, <2>4
    <3>8. Reported'
      BY <3>6, <3>7 DEF Reported, Root, Barrier
    <3> QED BY <1>0, <1>1, <1>2, <1>3, <1>4, <1>5, <1>7, <2>1, <3>8
  <2>5. CASE id[1] \notin {"nop", "evaluation"}
    <3>1. ASSUME NEW b \in Range(loopbacks')
          PROVE  b.to = p /\ b.id = Root /\ b.id # Barrier
      BY <1>6, <2>1, <2>2, <2>5
    <3>2. \A c \in DOMAIN live'[p] : Parent(c) # Root
      BY <1>6, <1>9, <2>5
    <3>3. Reported'
      BY <3>1, <3>2 DEF Reported, Root, Barrier, Parent, Majority
    <3> QED BY <1>0, <1>1, <1>2, <1>3, <1>4, <1>5, <1>7, <2>1, <3>3
  <2> QED BY <2>3, <2>4, <2>5
<1> QED BY <1>8, <1>9 DEF Completed

\* A protocol has heard of somebody, or has a round less to go.
Adjusted(p, id) ==
  /\ id \in DOMAIN live[p]
  /\ live' = [q \in Party |-> live'[q]]
  /\ \A q \in Party \ {p} : live'[q] = live[q]
  /\ DOMAIN live'[p] = DOMAIN live[p]
  /\ \A c \in DOMAIN live[p] \ {id} : live'[p][c] = live[p][c]
  /\ live'[p][id] \in Protocol
  /\ loopbacks' = <<>> /\ known' = known

\* Such a change keeps the types and what the stages know.
LEMMA AdjustedKeeps ==
  ASSUME State, Running, Knowing, NEW p \in Party, NEW id \in Id, Adjusted(p, id),
         UNCHANGED <<program, quorums, end, started, stage>>,
         id = Barrier \/ id[1] = "reconstruct" => live'[p][id].heard # Awaited(p, id)
  PROVE  /\ State' /\ Running' /\ Knowing' /\ Reported' /\ Touched(p, id)
         /\ Range(loopbacks') = {}
         /\ \A q \in Party : DOMAIN live'[q] = DOMAIN live[q]
         /\ HeardBy(p, id)' = live'[p][id].heard
<1>0. /\ stage' = stage /\ quorums' = quorums /\ end' = end /\ started' = started
      /\ known' = known
  BY DEF Adjusted
<1>1. Range(loopbacks') = {}
  BY DEF Adjusted, Range
<1>2. ASSUME NEW q \in Party
      PROVE  /\ DOMAIN live'[q] = DOMAIN live[q]
             /\ \A c \in DOMAIN live[q] : q # p \/ c # id => live'[q][c] = live[q][c]
  BY DEF Adjusted
<1>3. State'
  <2>1. \A q \in Party : \A c \in DOMAIN live'[q] : c \in Id /\ live'[q][c] \in Protocol
    BY <1>2 DEF State, Adjusted
  <2> QED BY <1>0, <2>1 DEF State, Adjusted
<1>4. Running'
  <2>1. ASSUME NEW q \in Party, NEW c \in DOMAIN live'[q]
        PROVE  /\ Fits(stage[q], q, c)
               /\ c[1] = "nop" => c[2] \in known[q]
               /\ c = Barrier \/ c[1] = "reconstruct" => live'[q][c].heard # Awaited(q, c)
    <3>1. CASE q = p /\ c = id
      BY <1>2, <3>1 DEF Running
    <3>2. CASE ~(q = p /\ c = id)
      BY <1>2, <3>2 DEF Running
    <3> QED BY <3>1, <3>2
  <2> QED BY <1>0, <2>1, FitsUnchanged DEF Running, Barrier
<1>5. Knowing'
  BY <1>0, FitsUnchanged DEF Knowing, RandomNumber, Wire
<1>6. Reported'
  BY <1>1 DEF Reported
<1>7. Touched(p, id)
  <2>1. ASSUME NEW q \in Party, NEW c \in Id, q # p \/ c # id
        PROVE  (c \in DOMAIN live'[q] <=> c \in DOMAIN live[q]) /\ HeardBy(q, c)' = HeardBy(q, c)
    BY <1>2, <2>1 DEF HeardBy
  <2> QED BY <2>1 DEF Touched
<1>8. HeardBy(p, id)' = live'[p][id].heard
  BY <1>2 DEF HeardBy, Adjusted
<1> QED BY <1>1, <1>2, <1>3, <1>4, <1>5, <1>6, <1>7, <1>8

-----------------------------------------------------------------------------
(***************************************************************************)
(* The handlers of messages.                                               *)
(***************************************************************************)

\* A protocol hears of the sender.
Hears(m) ==
  /\ Adjusted(m.to, m.body.id)
  /\ live'[m.to][m.body.id].heard = HeardBy(m.to, m.body.id) \union {m.from}

\* What is known when a protocol is completed.
Learnt(m) ==
  LET id == m.body.id
      learns == [known EXCEPT ![m.to] = @ \union {id[2]}]
  IN  \/ id[1] \in {"random", "sortValue", "secret", "nop", "evaluation"} /\ known' = known
      \/ /\ id[1] = "majority" /\ m.body.type = "nextRound"
         /\ known' = IF Decides(Cardinality(HeardBy(m.to, id)), id[2]) THEN learns ELSE known
      \/ id[1] = "reconstruct" /\ m.body.type = "value" /\ known' = learns
      \/ /\ id = Barrier /\ m.body.type = "value" /\ known' = known
         /\ HeardBy(m.to, id) \union {m.from} = Party

\* What the handler of a message does.
Handles(m) ==
  LET id == m.body.id
  IN  /\ Handled(m)
      /\ \/ Hears(m) /\ m.body.type = "value" /\ id[1] \in {"random", "majority"}
         \/ /\ Hears(m) /\ m.body.type = "value" /\ id[1] \in {"reconstruct", "barrier"}
            /\ live'[m.to][id].heard # Awaited(m.to, id)
            /\ Range(network') \subseteq Range(network)
         \/ /\ Adjusted(m.to, id) /\ m.body.type = "nextRound" /\ id[1] \in {"nop", "evaluation"}
            /\ live'[m.to][id].heard = HeardBy(m.to, id)
         \/ /\ Completed(m.to, id) /\ Learnt(m)
            /\ Range(network') \subseteq Range(network)

\* What is known of a protocol that is written to.
LEMMA Addressed ==
  ASSUME Queues, State, NEW m \in Range(network), m.body.id \in DOMAIN live[m.to]
  PROVE  /\ m.to \in Party /\ m.from \in Party /\ m.body.id \in Id
         /\ live[m.to][m.body.id] \in Protocol
         /\ HeardBy(m.to, m.body.id) = live[m.to][m.body.id].heard
         /\ HeardBy(m.to, m.body.id) \subseteq Party
         /\ Heard(m) = HeardBy(m.to, m.body.id) \union {m.from}
         /\ Heard(m) \subseteq Party
<1>1. m.to \in Party /\ m.from \in Party /\ m.body.id \in Id
  BY OnTheWay
<1>2. live[m.to][m.body.id] \in Protocol
  BY <1>1 DEF State
<1>3. /\ HeardBy(m.to, m.body.id) = live[m.to][m.body.id].heard
      /\ HeardBy(m.to, m.body.id) \subseteq Party
  BY <1>1, Hearing
<1> QED BY <1>1, <1>2, <1>3 DEF Heard

\* A change of the state of a protocol.
LEMMA Adjusting ==
  ASSUME State, NEW p \in Party, NEW id \in DOMAIN live[p], NEW v \in Protocol,
         live' = [live EXCEPT ![p] = [live[p] EXCEPT ![id] = v]],
         loopbacks' = <<>>, known' = known
  PROVE  Adjusted(p, id) /\ live'[p][id] = v
<1>1. live = [q \in Party |-> live[q]]
  BY DEF State
<1>2. /\ live' = [q \in Party |-> live'[q]]
      /\ \A q \in Party \ {p} : live'[q] = live[q]
      /\ live'[p] = [live[p] EXCEPT ![id] = v]
  BY <1>1
<1>3. /\ DOMAIN live'[p] = DOMAIN live[p] /\ live'[p][id] = v
      /\ \A c \in DOMAIN live[p] \ {id} : live'[p][c] = live[p][c]
  BY <1>2
<1> QED BY <1>2, <1>3 DEF Adjusted

\* Collect has a protocol hear of the sender.
LEMMA CollectHandles ==
  ASSUME Queues, State, Collect
  PROVE  \E m \in Range(network) : Handles(m)
<1>1. PICK m \in Delivered("value", {"random", "majority"}) :
        LET id == m.body.id
            schedule == Enough(m) /\ ~live[m.to][id].scheduled
        IN  /\ Took(m)
            /\ live' = [live EXCEPT ![m.to][id].heard = Heard(m),
                                    ![m.to][id].scheduled = @ \/ schedule]
            /\ network' = Tail(network) \o
                 IF schedule THEN <<NextRound(m.at, m.to, id)>> ELSE <<>>
            /\ UNCHANGED <<loopbacks, known>>
  BY DEF Collect
<1> DEFINE p == m.to
           id == m.body.id
           schedule == Enough(m) /\ ~live[m.to][id].scheduled
<1>2. network \in Seq(Message) /\ network # <<>>
  BY DEF Queues, Delivered, Due
<1>3. Tail(network) \o <<>> = Tail(network)
  <2>1. Tail(network) \in Seq(Message)
    BY <1>2, HeadAndTail
  <2> QED BY <2>1, ConcatEmptySeq
<1>4. network' = Tail(network) \/ network' = Tail(network) \o <<NextRound(m.at, m.to, m.body.id)>>
  BY <1>1, <1>3
<1>5. Handled(m) /\ m.body.type = "value" /\ m.body.id[1] \in {"random", "majority"}
  BY <1>1, <1>4, Handling
<1>6. /\ m \in Range(network) /\ loopbacks = <<>> /\ id \in DOMAIN live[p]
  BY <1>5 DEF Handled
<1>7. /\ p \in Party /\ live[p][id] \in Protocol
      /\ Heard(m) = HeardBy(p, id) \union {m.from} /\ Heard(m) \subseteq Party
  BY <1>6, Addressed
<1> DEFINE v == [heard |-> Heard(m), left |-> live[p][id].left,
                 scheduled |-> live[p][id].scheduled \/ schedule]
<1>8. v \in Protocol
  BY <1>7 DEF Protocol
<1>9. live' = [live EXCEPT ![p] = [live[p] EXCEPT ![id] = v]]
  <2>1. live[p][id] = [heard |-> live[p][id].heard, left |-> live[p][id].left,
                       scheduled |-> live[p][id].scheduled]
    BY <1>7 DEF Protocol
  <2>2. live' = [live EXCEPT ![p][id].heard = Heard(m), ![p][id].scheduled = @ \/ schedule]
    BY <1>1
  <2>3. DOMAIN live = Party /\ live = [q \in Party |-> live[q]] /\ p \in Party /\ id \in DOMAIN live[p]
    BY <1>6, <1>7 DEF State
  <2> DEFINE r == [live[p][id] EXCEPT !.heard = Heard(m)]
             f == [live[p] EXCEPT ![id] = r]
             g == [live EXCEPT ![p] = f]
  <2>4. r = [heard |-> Heard(m), left |-> live[p][id].left, scheduled |-> live[p][id].scheduled]
    BY <2>1
  <2>5. live' = [g EXCEPT ![p] = [g[p] EXCEPT ![id] = [g[p][id] EXCEPT !.scheduled = @ \/ schedule]]]
    <3> HIDE DEF schedule, p, id
    <3> QED BY <2>2
  <2>6. [r EXCEPT !.scheduled = @ \/ schedule] = v
    <3> HIDE DEF schedule, r
    <3> QED BY <2>4
  <2> HIDE DEF schedule, p, id, r, v
  <2>7. g[p] = f /\ f[id] = r
    BY <2>3
  <2>8. live' = [g EXCEPT ![p] = [f EXCEPT ![id] = v]]
    <3> HIDE DEF f, g
    <3>1. [g[p][id] EXCEPT !.scheduled = @ \/ schedule] = v
      BY <2>6, <2>7
    <3> QED BY <2>5, <2>7, <3>1
  <2>9. [f EXCEPT ![id] = v] = [live[p] EXCEPT ![id] = v]
    OBVIOUS
  <2> QED BY <2>3, <2>8, <2>9
<1>10. loopbacks' = <<>> /\ known' = known
  BY <1>1, <1>6
<1> HIDE DEF v
<1>11. Adjusted(p, id) /\ live'[p][id] = v
  BY <1>6, <1>7, <1>8, <1>9, <1>10, Adjusting
<1>12. Hears(m)
  BY <1>7, <1>11 DEF Hears, v
<1> QED BY <1>5, <1>6, <1>12 DEF Handles

\* Tally completes a protocol, with what is decided.
LEMMA TallyHandles ==
  ASSUME Queues, State, Running, Tally
  PROVE  \E m \in Range(network) : Handles(m)
<1>1. PICK m \in Delivered("nextRound", {"random", "majority"}) :
        LET x == m.body.id[2]
            votes == Cardinality(live[m.to][m.body.id].heard)
        IN  /\ Took(m)
            /\ Complete(m.to, m.body.id, <<>>)
            /\ known' = IF m.body.id # RandGen /\ Decides(votes, x)
                          THEN [known EXCEPT ![m.to] = @ \union {x}]
                          ELSE known
            /\ network' = Tail(network)
  BY DEF Tally
<1>2. Handled(m) /\ m.body.type = "nextRound" /\ m.body.id[1] \in {"random", "majority"}
  BY <1>1, Handling
<1>3. m \in Range(network) /\ m.body.id \in DOMAIN live[m.to]
  BY <1>2 DEF Handled
<1>4. m.to \in Party /\ m.body.id \in Id /\ HeardBy(m.to, m.body.id) = live[m.to][m.body.id].heard
  BY <1>3, Addressed
<1>5. Completed(m.to, m.body.id)
  BY <1>1, <1>4, Completing
<1>6. Learnt(m)
  <2>1. m.body.id[1] = "random" => m.body.id = RandGen
    <3>1. Fits(stage[m.to], m.to, m.body.id) /\ stage[m.to] \in 0..7
      BY <1>3, <1>4 DEF Running, State
    <3>2. m.body.id[1] = "random" => stage[m.to] = 0
      BY <1>4, <3>1, FittingNames
    <3> QED BY <3>1, <3>2 DEF Fits
  <2>2. m.body.id[1] = "majority" => m.body.id # RandGen
    BY ProtocolNames
  <2> QED BY <1>1, <1>2, <1>4, <2>1, <2>2 DEF Learnt
<1>7. Range(network') \subseteq Range(network)
  <2>1. network \in Seq(Message) /\ network # <<>>
    BY DEF Queues, Delivered, Due
  <2> QED BY <1>1, <2>1, HeadAndTail
<1> QED BY <1>2, <1>3, <1>5, <1>6, <1>7 DEF Handles

\* Gather has a protocol hear of the sender, or completes it when everybody has been heard.
LEMMA GatherHandles ==
  ASSUME Queues, State, Running, Gather
  PROVE  \E m \in Range(network) : Handles(m)
<1>1. PICK m \in Delivered("value", {"reconstruct", "barrier"}) :
        LET id == m.body.id
        IN  /\ Took(m)
            /\ network' = Tail(network)
            /\ IF Cardinality(Heard(m)) = Cardinality(Awaited(m.to, id))
                 THEN /\ Complete(m.to, id, <<>>)
                      /\ known' = IF id = Barrier THEN known
                                  ELSE [known EXCEPT ![m.to] = @ \union {id[2]}]
                 ELSE /\ live' = [live EXCEPT ![m.to][id].heard = Heard(m)]
                      /\ UNCHANGED <<loopbacks, known>>
  BY DEF Gather
<1> DEFINE p == m.to
           id == m.body.id
<1>2. Handled(m) /\ m.body.type = "value" /\ m.body.id[1] \in {"reconstruct", "barrier"}
  BY <1>1, Handling
<1>3. m \in Range(network) /\ id \in DOMAIN live[p] /\ loopbacks = <<>>
  BY <1>2 DEF Handled
<1>4. /\ p \in Party /\ id \in Id /\ live[p][id] \in Protocol
      /\ Heard(m) = HeardBy(p, id) \union {m.from} /\ Heard(m) \subseteq Party
  BY <1>3, Addressed
<1>5. Range(network') \subseteq Range(network)
  <2>1. network \in Seq(Message) /\ network # <<>>
    BY DEF Queues, Delivered, Due
  <2> QED BY <1>1, <2>1, HeadAndTail
<1>6. CASE Cardinality(Heard(m)) = Cardinality(Awaited(p, id))
  <2>1. Completed(p, id)
    BY <1>1, <1>4, <1>6, Completing
  <2>2. id = Barrier \/ (id # Barrier /\ id[1] = "reconstruct")
    <3>1. Fits(stage[p], p, id) /\ stage[p] \in 0..7
      BY <1>3, <1>4 DEF Running, State
    <3>2. id[1] = "barrier" => stage[p] = 4
      BY <1>4, <3>1, FittingNames
    <3>3. id[1] = "barrier" => id = Barrier \/ id[1] = "evaluation"
      BY <1>4, <3>1, <3>2, FittingNames
    <3> QED BY <1>2, <3>3, ProtocolNames
  <2>3. id = Barrier => Heard(m) = Party
    <3>1. id = Barrier => Awaited(p, id) = Party
      BY DEF Awaited
    <3> QED BY <1>4, <1>6, <3>1, FewerParties
  <2>4. Learnt(m)
    BY <1>1, <1>2, <1>4, <1>6, <2>2, <2>3 DEF Learnt
  <2> QED BY <1>2, <1>3, <1>5, <2>1, <2>4 DEF Handles
<1>7. CASE Cardinality(Heard(m)) # Cardinality(Awaited(p, id))
  <2> DEFINE v == [live[p][id] EXCEPT !.heard = Heard(m)]
  <2>1. v \in Protocol /\ v.heard = Heard(m)
    BY <1>4 DEF Protocol
  <2>2. live' = [live EXCEPT ![p] = [live[p] EXCEPT ![id] = v]]
    BY <1>1, <1>7
  <2>3. loopbacks' = <<>> /\ known' = known
    BY <1>1, <1>3, <1>7
  <2>4. Adjusted(p, id) /\ live'[p][id] = v
    <3> HIDE DEF v, p, id
    <3> QED BY <1>3, <1>4, <2>1, <2>2, <2>3, Adjusting
  <2> HIDE DEF v
  <2>5. Hears(m) /\ live'[m.to][id].heard # Awaited(m.to, id)
    BY <1>4, <1>7, <2>1, <2>4 DEF Hears
  <2> QED BY <1>2, <1>3, <1>5, <2>5 DEF Handles
<1> QED BY <1>6, <1>7

\* ReceiveShare completes a protocol.
LEMMA ReceiveShareHandles ==
  ASSUME Queues, State, ReceiveShare
  PROVE  \E m \in Range(network) : Handles(m)
<1>1. PICK m \in Delivered("value", {"sortValue", "secret"}) :
        /\ Took(m)
        /\ Complete(m.to, m.body.id, <<>>)
        /\ network' = Tail(network)
        /\ UNCHANGED known
  BY DEF ReceiveShare
<1>2. Handled(m) /\ m.body.id[1] \in {"sortValue", "secret"}
  BY <1>1, Handling
<1>3. m \in Range(network) /\ m.body.id \in DOMAIN live[m.to]
  BY <1>2 DEF Handled
<1>4. m.to \in Party
  BY <1>3, Addressed
<1>5. Completed(m.to, m.body.id)
  BY <1>1, <1>4, Completing
<1>6. Range(network') \subseteq Range(network)
  <2>1. network \in Seq(Message) /\ network # <<>>
    BY DEF Queues, Delivered, Due
  <2> QED BY <1>1, <2>1, HeadAndTail
<1>7. Learnt(m)
  BY <1>1, <1>2 DEF Learnt
<1> QED BY <1>2, <1>3, <1>5, <1>6, <1>7 DEF Handles

\* PassRound takes a round off, or completes a protocol.
LEMMA PassRoundHandles ==
  ASSUME Queues, State, PassRound
  PROVE  \E m \in Range(network) : Handles(m)
<1>1. PICK m \in Delivered("nextRound", {"nop", "evaluation"}) :
        LET id == m.body.id
            left == live[m.to][id].left - 1
        IN  /\ Took(m)
            /\ IF left <= 0
                 THEN /\ Complete(m.to, id, <<>>)
                      /\ network' = Tail(network)
                 ELSE /\ live' = [live EXCEPT ![m.to][id].left = left]
                      /\ network' = Append(Tail(network), NextRound(m.at, m.to, id))
                      /\ UNCHANGED loopbacks
            /\ UNCHANGED known
  BY DEF PassRound
<1> DEFINE p == m.to
           id == m.body.id
           left == live[m.to][id].left - 1
<1>0. network \in Seq(Message) /\ network # <<>>
  BY DEF Queues, Delivered, Due
<1>2. network' = Tail(network) \/ network' = Tail(network) \o <<NextRound(m.at, m.to, m.body.id)>>
  <2>1. m = Head(network)
    BY DEF Delivered, Due
  <2>2. Tail(network) \in Seq(Message) /\ m \in Message
    BY <1>0, <2>1, HeadAndTail
  <2>3. NextRound(m.at, m.to, m.body.id) \in Message
    BY <2>2, NextRoundProperties DEF Message, Body
  <2>4. Append(Tail(network), NextRound(m.at, m.to, m.body.id)) =
          Tail(network) \o <<NextRound(m.at, m.to, m.body.id)>>
    BY <2>2, <2>3, AppendIsConcat
  <2> QED BY <1>1, <2>4
<1>3. Handled(m) /\ m.body.type = "nextRound" /\ id[1] \in {"nop", "evaluation"}
  BY <1>1, <1>2, Handling
<1>4. m \in Range(network) /\ id \in DOMAIN live[p] /\ loopbacks = <<>>
  BY <1>3 DEF Handled
<1>5. p \in Party /\ live[p][id] \in Protocol /\ HeardBy(p, id) = live[p][id].heard
  BY <1>4, Addressed
<1>6. CASE left <= 0
  <2>1. Complete(p, id, <<>>) /\ network' = Tail(network) /\ known' = known
    BY <1>1, <1>6
  <2>2. Completed(p, id) /\ Range(network') \subseteq Range(network)
    BY <1>0, <1>5, <2>1, Completing, HeadAndTail
  <2>3. Learnt(m)
    BY <1>3, <2>1 DEF Learnt
  <2> QED BY <1>3, <1>4, <2>2, <2>3 DEF Handles
<1>7. CASE ~(left <= 0)
  <2> DEFINE v == [live[p][id] EXCEPT !.left = left]
  <2>1. v \in Protocol /\ v.heard = live[p][id].heard
    BY <1>5 DEF Protocol
  <2>2. live' = [live EXCEPT ![p] = [live[p] EXCEPT ![id] = v]]
    BY <1>1, <1>7
  <2>3. loopbacks' = <<>> /\ known' = known
    BY <1>1, <1>4, <1>7
  <2>4. Adjusted(p, id) /\ live'[p][id] = v
    <3> HIDE DEF v, p, id, left
    <3> QED BY <1>4, <1>5, <2>1, <2>2, <2>3, Adjusting
  <2> HIDE DEF v
  <2> QED BY <1>3, <1>4, <1>5, <2>1, <2>4 DEF Handles
<1> QED BY <1>6, <1>7

\* What was on the way still is, but for the message that is handled.
LEMMA StillTold ==
  ASSUME NEW m, Handled(m), NEW r, NEW q, NEW id, NEW t, Told(r, q, id, t)
  PROVE  \/ Told(r, q, id, t)'
         \/ r = m.from /\ q = m.to /\ t = m.at /\ m.body = Value(id)
<1>1. PICK k \in Range(network) : k.at = t /\ k.from = r /\ k.to = q /\ k.body = Value(id)
  BY DEF Told
<1>2. k = m \/ k \in Range(network')
  BY DEF Handled
<1> QED BY <1>1, <1>2 DEF Told, Value

\* The values on the way were there before.
LEMMA NothingTold ==
  ASSUME Queues, NEW m, Handled(m)
  PROVE  /\ \A k \in Range(network') : k.body.type = "value" => k \in Range(network)
         /\ \A id : \A k \in Range(network') : k.body = Value(id) => k \in Range(network)
         /\ clock' = m.at /\ clock' \in {clock, clock + 1} /\ clock \in Nat /\ clock' \in Nat
         /\ \A k \in Range(network) : k.at >= clock'
<1>1. \A k \in Range(network') \ Range(network) : k.body.type = "nextRound"
  BY DEF Handled, NextRound, Letter
<1>2. \A k \in Range(network') : k.body.type = "value" => k \in Range(network)
  BY <1>1
<1>3. \A id : \A k \in Range(network') : k.body = Value(id) => k \in Range(network)
  BY <1>2 DEF Value
<1> QED BY <1>2, <1>3 DEF Handled, Queues

\* A step that touches another protocol than the barrier.
LEMMA TouchedApart ==
  ASSUME State, NEW p \in Party, NEW id \in Id, id # Barrier, Touched(p, id), State',
         \A q \in Party : DOMAIN live'[q] \subseteq DOMAIN live[q],
         stage' = stage,
         clock' \in {clock, clock + 1}, \A m \in Range(network) : m.at >= clock',
         BarrierValues' = BarrierValues
  PROVE  ApartFromBarrier
<1>1. \A q \in Party : /\ Barrier \in DOMAIN live'[q] <=> Barrier \in DOMAIN live[q]
                       /\ HeardBy(q, Barrier)' = HeardBy(q, Barrier)
  BY ProtocolNames DEF Touched
<1>2. ASSUME NEW q \in Party
      PROVE  (Left(q)' <=> Left(q)) /\ (Done(q) => Done(q)')
  BY <1>1 DEF Left, Done, Barrier
<1> QED BY <1>1, <1>2 DEF ApartFromBarrier

\* The types, and what the stages know, are kept when a message is handled.
LEMMA HandlesKeeps ==
  ASSUME Queues, State, Running, Knowing, Announced,
         NEW m \in Range(network), Handles(m)
  PROVE  /\ Queues' /\ State' /\ Running' /\ Knowing' /\ Reported' /\ Touched(m.to, m.body.id)
         /\ Range(loopbacks') \subseteq {[to |-> m.to, id |-> Parent(m.body.id)]}
         /\ \A q \in Party : DOMAIN live'[q] \subseteq DOMAIN live[q]
         /\ \A q \in Party : known[q] \subseteq known'[q]
         /\ m.body # Value(Barrier) => ApartFromBarrier
<1> DEFINE p == m.to
           id == m.body.id
<1>0. Handled(m) /\ id \in DOMAIN live[p] /\ UNCHANGED <<program, quorums, end, started, stage>>
  BY DEF Handles, Handled
<1>1. p \in Party /\ id \in Id /\ m.from \in Party /\ stage[p] \in 0..7 /\ Fits(stage[p], p, id)
  BY <1>0, Addressed DEF Running, State
<1>2. Learnt(m) => Learns(p)
  <2>1. id[1] \in {"majority", "reconstruct"} =>
          id[2] \in Item /\ (id[2] \in Wire /\ stage[p] <= 5 => p \in Holders(id[2]))
    <3>1. id[1] = "reconstruct" => \/ stage[p] = 1 /\ id[2] = RandomNumber
                                   \/ stage[p] = 5 /\ id[2] \in Wire /\ p \in Holders(id[2])
      BY <1>1, FittingNames
    <3>2. id[1] = "majority" => \/ stage[p] = 2 /\ id[2] = RandomNumber
                                \/ stage[p] = 6 /\ id[2] \in Wire
      BY <1>1, FittingNames
    <3> QED BY <3>1, <3>2, PartiesAreNumbers DEF Item
  <2> QED BY <2>1 DEF Learnt, Learns
<1>3. /\ State' /\ Running' /\ Knowing' /\ Reported' /\ Touched(p, id)
      /\ loopbacks' = <<>> \/ \E b \in Completion : loopbacks' = <<b>>
      /\ Range(loopbacks') \subseteq {[to |-> p, id |-> Parent(id)]}
      /\ \A q \in Party : DOMAIN live'[q] \subseteq DOMAIN live[q]
      /\ \A q \in Party : known[q] \subseteq known'[q]
  <2>1. CASE Completed(p, id) /\ Learnt(m)
    <3>1. \A q \in Party : known[q] \subseteq known'[q]
      BY <1>0, <1>1, <1>2, <2>1, Learning
    <3> QED BY <1>0, <1>1, <1>2, <2>1, <3>1, CompletedKeeps
  <2>2. CASE Adjusted(p, id) /\ (id = Barrier \/ id[1] = "reconstruct" => live'[p][id].heard # Awaited(p, id))
    <3>1. loopbacks' = <<>> /\ known' = known
      BY <2>2 DEF Adjusted
    <3> QED BY <1>0, <1>1, <2>2, <3>1, AdjustedKeeps
  <2>3. \/ Completed(p, id) /\ Learnt(m)
        \/ Adjusted(p, id) /\ (id = Barrier \/ id[1] = "reconstruct" => live'[p][id].heard # Awaited(p, id))
    BY ProtocolNames DEF Handles, Hears
  <2> QED BY <2>1, <2>2, <2>3
<1>4. Queues'
  <2>1. network' \in Seq(Message) /\ InLockStep(network', clock') /\ clock' \in Nat
    BY <1>0, NothingTold DEF Handled
  <2> QED BY <1>3, <2>1 DEF Queues, InLockStep
<1>5. ASSUME m.body # Value(Barrier)
      PROVE  ApartFromBarrier
  <2>1. BarrierValues' = BarrierValues
    <3>1. \A k \in Range(network) : k.body = Value(Barrier) => k \in Range(network')
      BY <1>0, <1>5 DEF Handled
    <3>2. \A k \in Range(network') : k.body = Value(Barrier) => k \in Range(network)
      BY <1>0, NothingTold
    <3> QED BY <3>1, <3>2 DEF BarrierValues, Value, Barrier
  <2>2. id # Barrier
    <3>1. ASSUME id = Barrier PROVE FALSE
      <4>1. id[1] = "barrier" /\ id[1] # "evaluation"
        BY <3>1, ProtocolNames
      <4>2. m.body.type = "value"
        BY <4>1 DEF Handles, Learnt
      <4> QED BY <1>5, <3>1, <4>2, OnTheWay
    <3> QED BY <3>1
  <2> QED BY <1>0, <1>1, <1>3, <2>1, <2>2, NothingTold, TouchedApart
<1> QED BY <1>3, <1>4, <1>5

\* The news that a party has completed its evaluations, when it is handled: whoever waits
\* has heard of the same parties, or will in this tick.
LEMMA BarrierHandles ==
  ASSUME Queues, State, Running, Announced, Together,
         NEW m \in Range(network), Handled(m), m.body = Value(Barrier),
         Touched(m.to, Barrier), State', stage' = stage,
         \A q \in Party : DOMAIN live'[q] \subseteq DOMAIN live[q],
         \/ HeardBy(m.to, Barrier)' = HeardBy(m.to, Barrier) \union {m.from} /\ Barrier \in DOMAIN live'[m.to]
         \/ HeardBy(m.to, Barrier) \union {m.from} = Party /\ Barrier \notin DOMAIN live'[m.to]
  PROVE  /\ Announced' /\ Together'
         /\ \A q \in Party : ~Left(q)' => ~Left(q) /\ HeardBy(q, Barrier) \subseteq HeardBy(q, Barrier)'
         /\ \A q \in Party : ~Left(q)' => \A r \in HeardBy(m.to, Barrier) \union {m.from} :
              r \in HeardBy(q, Barrier)' \/ Told(r, q, Barrier, m.at)'
         /\ \A q \in Party : Done(q) => Done(q)'
<1> DEFINE p == m.to
<1>0. /\ p \in Party /\ m.from \in Party /\ Barrier \in DOMAIN live[p] /\ Barrier \in Id
      /\ clock' = m.at /\ clock' \in {clock, clock + 1} /\ clock \in Nat
      /\ \A k \in Range(network) : k.at >= clock'
      /\ \A k \in Range(network') : k.body = Value(Barrier) => k \in Range(network)
  <2>1. p \in Party /\ m.from \in Party /\ Barrier \in Id
    BY OnTheWay, ProtocolNames
  <2>2. m.body.id = Barrier /\ Barrier \in DOMAIN live[p] /\ clock' = m.at
    <3>1. m.body.id = Barrier
      BY OnTheWay
    <3>2. m.body.id \in DOMAIN live[m.to] /\ clock' = m.at
      BY DEF Handled
    <3> QED BY <3>1, <3>2
  <2>3. clock' \in {clock, clock + 1} /\ clock \in Nat /\ \A k \in Range(network) : k.at >= clock'
    BY NothingTold
  <2>4. \A k \in Range(network') : k.body = Value(Barrier) => k \in Range(network)
    BY NothingTold
  <2> QED BY <2>1, <2>2, <2>3, <2>4
<1>1. stage[p] = 4
  <2>1. Fits(stage[p], p, Barrier) /\ stage[p] \in 0..7
    BY <1>0 DEF Running, State
  <2> QED BY <1>0, <2>1, FittingNames
<1>2. \A q \in Party : HeardBy(q, Barrier) \subseteq Party
  BY Hearing
<1>3. \A q \in Party \ {p} : /\ HeardBy(q, Barrier)' = HeardBy(q, Barrier)
                             /\ Barrier \in DOMAIN live'[q] <=> Barrier \in DOMAIN live[q]
  BY <1>0 DEF Touched
<1>4. \A q \in Party : Done(q) => Done(q)'
  <2>1. \A q \in Party : \A c \in DOMAIN live'[q] : c \in DOMAIN live[q]
    OBVIOUS
  <2> QED BY <2>1 DEF Done
<1>5. \A r \in HeardBy(p, Barrier)' : r \in HeardBy(p, Barrier) \union {m.from}
  BY DEF HeardBy, Barrier
<1>6. ASSUME NEW q \in Party, ~Left(q)'
      PROVE  ~Left(q) /\ HeardBy(q, Barrier) \subseteq HeardBy(q, Barrier)'
             /\ (q = p => m.from \in HeardBy(p, Barrier)')
  <2>1. CASE q = p
    <3>1. ~Left(p)
      BY <1>0, <1>1 DEF Left
    <3>2. Barrier \in DOMAIN live'[p]
      BY <1>1, <1>6, <2>1 DEF Left, Barrier
    <3> QED BY <2>1, <3>1, <3>2
  <2>2. CASE q # p
    BY <1>3, <1>6, <2>2 DEF Left, Barrier
  <2> QED BY <2>1, <2>2
<1>7. ASSUME NEW q \in Party, ~Left(q)', NEW r, NEW t, Told(r, q, Barrier, t)
      PROVE  r \in HeardBy(q, Barrier)' \/ Told(r, q, Barrier, t)'
  BY <1>6, <1>7, StillTold
<1>8. \A r, q : Told(r, q, Barrier, clock) => clock = m.at
  BY <1>0 DEF Told
<1>9. ASSUME NEW q \in Party, ~Left(q)', NEW s \in Party, NEW r \in HeardBy(s, Barrier)
      PROVE  r \in HeardBy(q, Barrier)' \/ Told(r, q, Barrier, m.at)'
  <2>1. r \in HeardBy(q, Barrier) \/ Told(r, q, Barrier, clock)
    BY <1>6, <1>9 DEF Together
  <2> QED BY <1>6, <1>7, <1>8, <1>9, <2>1
<1>10. ASSUME NEW q \in Party, ~Left(q)'
       PROVE  m.from \in HeardBy(q, Barrier)' \/ Told(m.from, q, Barrier, m.at)'
  <2>1. m.from \in HeardBy(q, Barrier) \/ Told(m.from, q, Barrier, m.at)
    BY <1>6, <1>10 DEF Together
  <2> QED BY <1>6, <1>7, <1>10, <2>1
<1>11. \A q \in Party : ~Left(q)' => \A r \in HeardBy(p, Barrier) \union {m.from} :
         r \in HeardBy(q, Barrier)' \/ Told(r, q, Barrier, m.at)'
  BY <1>0, <1>9, <1>10
<1>12. Together'
  <2>1. ASSUME NEW k \in Range(network'), k.body = Value(Barrier), NEW q \in Party, ~Left(q)'
        PROVE  k.from \in HeardBy(q, Barrier)' \/ Told(k.from, q, Barrier, k.at)'
    <3>1. k.from \in HeardBy(q, Barrier) \/ Told(k.from, q, Barrier, k.at)
      BY <1>0, <1>6, <2>1 DEF Together
    <3> QED BY <1>6, <1>7, <2>1, <3>1
  <2>2. ASSUME NEW q \in Party, NEW s \in Party, ~Left(q)', NEW r \in HeardBy(s, Barrier)'
        PROVE  r \in HeardBy(q, Barrier)' \/ Told(r, q, Barrier, clock)'
    <3>1. r \in HeardBy(q, Barrier)' \/ Told(r, q, Barrier, m.at)'
      <4>1. CASE s = p
        BY <1>5, <1>11, <2>2, <4>1
      <4>2. CASE s # p
        BY <1>3, <1>9, <2>2, <4>2
      <4> QED BY <4>1, <4>2
    <3>2. clock' = m.at
      BY <1>0
    <3> QED BY <3>1, <3>2 DEF Told, Value, Barrier
  <2> QED BY <2>1, <2>2 DEF Together, Value, Barrier
<1>13. Done(m.from) /\ \A q \in Party : \A r \in HeardBy(q, Barrier) : Done(r)
  BY DEF Announced
<1>14. Announced'
  <2>1. ASSUME NEW k \in Range(network'), k.body = Value(Barrier)
        PROVE  Done(k.from)'
    <3>1. k \in Range(network) /\ k.from \in Party /\ Done(k.from)
      BY <1>0, <2>1, OnTheWay DEF Announced
    <3> QED BY <1>4, <3>1
  <2>2. ASSUME NEW q \in Party, NEW r \in HeardBy(q, Barrier)'
        PROVE  Done(r)'
    <3>1. r \in Party /\ Done(r)
      <4>1. CASE q = p
        BY <1>0, <1>2, <1>5, <1>13, <2>2, <4>1
      <4>2. CASE q # p
        BY <1>2, <1>3, <1>13, <2>2, <4>2
      <4> QED BY <4>1, <4>2
    <3> QED BY <1>4, <3>1
  <2>3. ASSUME NEW q \in Party, Left(q)', NEW r \in Party
        PROVE  Done(r)'
    <3>1. CASE Left(q)
      BY <1>4, <3>1 DEF Announced
    <3>2. CASE ~Left(q)
      <4>1. q = p /\ Barrier \notin DOMAIN live'[p]
        BY <1>1, <1>3, <2>3, <3>2 DEF Left, Barrier
      <4>2. r \in HeardBy(p, Barrier) \union {m.from}
        BY <4>1
      <4> QED BY <1>0, <1>4, <1>13, <4>2
    <3> QED BY <3>1, <3>2
  <2> QED BY <2>1, <2>2, <2>3 DEF Announced, Value, Barrier
<1> QED BY <1>4, <1>6, <1>11, <1>12, <1>14

-----------------------------------------------------------------------------
(***************************************************************************)
(* The stages.                                                             *)
(***************************************************************************)

\* One protocol that is launched.
LEMMA OneOfThem ==
  ASSUME NEW id \in Launchable
  PROVE  <<id>> \in Seq(Launchable) /\ Range(<<id>>) = {id}
<1> HIDE DEF Launchable
<1> QED BY DEF Range

\* The protocols that share inputs.
LEMMA Inputs ==
  ASSUME State, NEW p \in Party
  PROVE  InputsOf(p) \in Seq(Launchable) /\ \A id \in Range(InputsOf(p)) : IsSharing(id)
<1> DEFINE Sharing == {id \in Launchable : IsSharing(id)}
           others == {w \in Wire \ {p} : p \in InputQuorum(w)}
           wires == <<p>> \o InOrder(others)
           seqs == [i \in DOMAIN wires |->
                     (IF program = "shuffling" THEN <<SortValueSharing(wires[i])>> ELSE <<>>)
                       \o <<SecretSharing(wires[i])>>]
<1>1. Wire = Party /\ Party \subseteq Nat
  BY PartiesAreNumbers
<1>2. wires \in Seq(Party)
  <2>1. InOrder(others) \in Seq(Party)
    BY <1>1, InOrderListsAll
  <2>2. <<p>> \in Seq(Party)
    OBVIOUS
  <2> HIDE DEF others
  <2> QED BY <2>1, <2>2, ConcatProperties
<1>3. PICK n \in Nat : DOMAIN wires = 1..n /\ \A i \in 1..n : wires[i] \in Party
  BY <1>2, LenProperties
<1>4. \A w \in Party : SortValueSharing(w) \in Sharing /\ SecretSharing(w) \in Sharing
  BY <1>1, ProtocolNames DEF Launchable, IsSharing
<1> HIDE DEF Sharing
<1>5. ASSUME NEW w \in Party
      PROVE  (IF program = "shuffling" THEN <<SortValueSharing(w)>> ELSE <<>>)
               \o <<SecretSharing(w)>> \in Seq(Sharing)
  <2>1. SortValueSharing(w) \in Sharing /\ SecretSharing(w) \in Sharing
    BY <1>4
  <2>2. <<SortValueSharing(w)>> \in Seq(Sharing) /\ <<SecretSharing(w)>> \in Seq(Sharing) /\ <<>> \in Seq(Sharing)
    BY <2>1
  <2> DEFINE s == IF program = "shuffling" THEN <<SortValueSharing(w)>> ELSE <<>>
             t == <<SecretSharing(w)>>
  <2>3. s \in Seq(Sharing) /\ t \in Seq(Sharing)
    BY <2>2
  <2> HIDE DEF s, t
  <2>4. s \o t \in Seq(Sharing)
    BY <2>3, ConcatProperties
  <2> QED BY <2>4 DEF s, t
<1>6. seqs \in Seq(Seq(Sharing))
  <2> HIDE DEF wires
  <2>1. seqs = [i \in 1..n |-> seqs[i]]
    BY <1>3
  <2>2. \A i \in 1..n : seqs[i] \in Seq(Sharing)
    BY <1>3, <1>5
  <2> HIDE DEF seqs
  <2> QED BY <2>1, <2>2
<1>7. InputsOf(p) = FlattenSeq(seqs)
  BY DEF InputsOf, SharingsOf
<1>8. InputsOf(p) \in Seq(Sharing)
  <2> HIDE DEF seqs, wires
  <2> QED BY <1>6, <1>7, FlattenSeqProperties
<1>9. PICK l \in Nat : InputsOf(p) \in [1..l -> Sharing]
  BY <1>8, LenProperties
<1>10. \A id \in Sharing : id \in Launchable /\ IsSharing(id)
  BY DEF Sharing
<1>11. InputsOf(p) \in [1..l -> Launchable] /\ \A id \in Range(InputsOf(p)) : IsSharing(id)
  BY <1>9, <1>10 DEF Range
<1> QED BY <1>11

\* The protocols that reconstruct outputs.
LEMMA Outputs ==
  ASSUME State, NEW p \in Party
  PROVE  /\ OutputsOf(p) \in Seq(Launchable)
         /\ Range(OutputsOf(p)) = {Reconstruction(x) : x \in {w \in Wire : p \in Holders(w)}}
<1> DEFINE held == {w \in Wire : p \in Holders(w)}
           wires == InOrder(held)
<1>1. wires \in Seq(Party) /\ Range(wires) = held
  <2>1. held \subseteq Party
    BY PartiesAreNumbers
  <2> QED BY <2>1, InOrderListsAll
<1>2. PICK n \in Nat : DOMAIN wires = 1..n /\ \A i \in 1..n : wires[i] \in Party
  BY <1>1, LenProperties
<1>3. OutputsOf(p) = [i \in DOMAIN wires |-> Reconstruction(wires[i])]
  BY DEF OutputsOf
<1> HIDE DEF wires
<1>4. \A x \in Party : Reconstruction(x) \in Launchable
  BY PartiesAreNumbers DEF Launchable, Item
<1> HIDE DEF Launchable
<1>5. OutputsOf(p) \in Seq(Launchable)
  BY <1>2, <1>3, <1>4
<1>6. Range(OutputsOf(p)) = {Reconstruction(x) : x \in held}
  <2>1. Range(OutputsOf(p)) = {Reconstruction(wires[i]) : i \in DOMAIN wires}
    BY <1>3 DEF Range
  <2>2. held = {wires[i] : i \in DOMAIN wires}
    BY <1>1 DEF Range
  <2> QED BY <2>1, <2>2
<1> QED BY <1>5, <1>6

\* The protocols that send and receive outputs.
LEMMA Results ==
  LET batch == [i \in 1..Cardinality(Wire) |-> Majority(i - 1)]
  IN  batch \in Seq(Launchable) /\ Range(batch) = {Majority(x) : x \in Wire}
<1> DEFINE n == Cardinality(Party)
           batch == [i \in 1..n |-> Majority(i - 1)]
<1>1. n \in Nat /\ Party = 0..(n - 1) /\ Wire = Party
  BY PartiesAreNumbers
<1> HIDE DEF n
<1>2. \A x \in Party : Majority(x) \in Launchable
  BY <1>1 DEF Launchable, Item
<1>3. \A i \in 1..n : i - 1 \in Party
  BY <1>1
<1>4. \A x \in Party : x + 1 \in 1..n /\ (x + 1) - 1 = x
  BY <1>1
<1>5. batch \in Seq(Launchable)
  <2> HIDE DEF Launchable
  <2>1. \A i \in 1..n : Majority(i - 1) \in Launchable
    BY <1>2, <1>3
  <2> QED BY <1>1, <2>1
<1>6. Range(batch) = {Majority(x) : x \in Party}
  <2>1. Range(batch) = {Majority(i - 1) : i \in 1..n}
    BY DEF Range
  <2> QED BY <1>3, <1>4, <2>1
<1> QED BY <1>1, <1>5, <1>6 DEF n

\* All that does not depend on when the barrier is left.
Base == Queues /\ State /\ Running /\ Knowing /\ Reported /\ Announced /\ Together

\* The root of a party goes on.
LEMMA Advancing ==
  ASSUME Base, NEW p \in Party, NEW s \in 0..5, NEW batch \in Seq(Launchable), Advance(p, s, batch)
  PROVE  /\ GoesOn(p, s + 1, Range(batch)) /\ stage[p] = s
         /\ Range(loopbacks) = {[to |-> p, id |-> Root]}
         /\ \A id \in DOMAIN live[p] : Parent(id) # Root
         /\ started = Cardinality(Party) /\ started' = started
<1>1. Queues /\ State /\ Reported
  BY DEF Base
<1>2. Joined(Root) /\ p = Head(loopbacks).to /\ stage[p] = s
      /\ stage' = [stage EXCEPT ![p] = s + 1]
      /\ Launch(p, batch, clock, Tail(loopbacks)) /\ known' = known
  BY DEF Advance
<1>3. /\ loopbacks = <<Head(loopbacks)>> /\ Head(loopbacks).id = Root
      /\ Head(loopbacks) \in Completion /\ Tail(loopbacks) = <<>>
      /\ Range(loopbacks) = {Head(loopbacks)}
      /\ started = Cardinality(Party) /\ UNCHANGED <<clock, program, quorums, end, started>>
  BY <1>1, <1>2, Joining
<1>4. Head(loopbacks) = [to |-> p, id |-> Root]
  BY <1>2, <1>3 DEF Completion
<1>5. Launch(p, batch, clock, <<>>)
  BY <1>2, <1>3 DEF Launch
<1>6. Launched(p, Range(batch))
  BY <1>1, <1>5, Launching
<1>7. \A id \in DOMAIN live[p] : Parent(id) # Root
  BY <1>1, <1>3, <1>4 DEF Reported
<1>8. started' \in 0..Cardinality(Party)
  BY <1>1, <1>3 DEF State
<1> QED BY <1>2, <1>3, <1>4, <1>6, <1>7, <1>8 DEF GoesOn

\* Which stage a party goes on to, and what it launches.
Advances(p) ==
  \/ GoesOn(p, 1, {Reconstruction(RandomNumber)}) /\ stage[p] = 0
  \/ GoesOn(p, 2, {Majority(RandomNumber)}) /\ stage[p] = 1
  \/ \E ids \in SUBSET Launchable : GoesOn(p, 3, ids) /\ stage[p] = 2 /\ RandomNumber \in known[p]
                                    /\ \A id \in ids : IsSharing(id)
  \/ GoesOn(p, 4, {Barrier}) /\ stage[p] = 3
  \/ GoesOn(p, 5, {Reconstruction(x) : x \in {w \in Wire : p \in Holders(w)}}) /\ stage[p] = 4
  \/ GoesOn(p, 6, {Majority(x) : x \in Wire}) /\ stage[p] = 5

\* The stages follow each other, each with its protocols.
LEMMA AdvancesInTurn ==
  ASSUME Base, NEW p \in Party,
         \/ ReconstructRandom(p) \/ SendRandom(p) \/ DistributeInputs(p)
         \/ EvaluateCircuit(p) \/ ReconstructOutputs(p) \/ BroadcastResults(p)
  PROVE  /\ Advances(p)
         /\ Range(loopbacks) = {[to |-> p, id |-> Root]}
         /\ \A id \in DOMAIN live[p] : Parent(id) # Root
         /\ started = Cardinality(Party) /\ started' = started
<1>0. /\ Reconstruction(RandomNumber) \in Launchable /\ Majority(RandomNumber) \in Launchable
      /\ Barrier \in Launchable /\ State
  BY DEF Launchable, Item, Base
<1>1. CASE ReconstructRandom(p)
  <2>1. Advance(p, 0, <<Reconstruction(RandomNumber)>>)
    BY <1>1 DEF ReconstructRandom
  <2>2. 0 \in 0..5 /\ 0 + 1 = 1
    OBVIOUS
  <2>3. <<Reconstruction(RandomNumber)>> \in Seq(Launchable)
        /\ Range(<<Reconstruction(RandomNumber)>>) = {Reconstruction(RandomNumber)}
    BY <1>0, OneOfThem
  <2> DEFINE batch == <<Reconstruction(RandomNumber)>>
  <2> HIDE DEF batch
  <2>4. /\ GoesOn(p, 0 + 1, Range(batch)) /\ stage[p] = 0
        /\ Range(loopbacks) = {[to |-> p, id |-> Root]}
        /\ \A id \in DOMAIN live[p] : Parent(id) # Root
        /\ started = Cardinality(Party) /\ started' = started
    <3>1. batch \in Seq(Launchable) /\ Advance(p, 0, batch)
      BY <2>1, <2>3 DEF batch
    <3> QED BY <2>2, <3>1, Advancing
  <2>5. GoesOn(p, 1, {Reconstruction(RandomNumber)})
    <3>1. Range(batch) = {Reconstruction(RandomNumber)}
      BY <2>3 DEF batch
    <3> QED BY <2>2, <2>4, <3>1
  <2> QED BY <2>4, <2>5 DEF Advances
<1>2. CASE SendRandom(p)
  <2>1. Advance(p, 1, <<Majority(RandomNumber)>>)
    BY <1>2 DEF SendRandom
  <2>2. 1 \in 0..5 /\ 1 + 1 = 2
    OBVIOUS
  <2>3. <<Majority(RandomNumber)>> \in Seq(Launchable)
        /\ Range(<<Majority(RandomNumber)>>) = {Majority(RandomNumber)}
    BY <1>0, OneOfThem
  <2> DEFINE batch == <<Majority(RandomNumber)>>
  <2> HIDE DEF batch
  <2>4. /\ GoesOn(p, 1 + 1, Range(batch)) /\ stage[p] = 1
        /\ Range(loopbacks) = {[to |-> p, id |-> Root]}
        /\ \A id \in DOMAIN live[p] : Parent(id) # Root
        /\ started = Cardinality(Party) /\ started' = started
    <3>1. batch \in Seq(Launchable) /\ Advance(p, 1, batch)
      BY <2>1, <2>3 DEF batch
    <3> QED BY <2>2, <3>1, Advancing
  <2>5. GoesOn(p, 2, {Majority(RandomNumber)})
    <3>1. Range(batch) = {Majority(RandomNumber)}
      BY <2>3 DEF batch
    <3> QED BY <2>2, <2>4, <3>1
  <2> QED BY <2>4, <2>5 DEF Advances
<1>3. CASE DistributeInputs(p)
  <2>1. Advance(p, 2, InputsOf(p)) /\ RandomNumber \in known[p]
    BY <1>3 DEF DistributeInputs
  <2>2. 2 \in 0..5 /\ 2 + 1 = 3
    OBVIOUS
  <2>3. InputsOf(p) \in Seq(Launchable) /\ \A id \in Range(InputsOf(p)) : IsSharing(id)
    BY <1>0, Inputs
  <2>4. Range(InputsOf(p)) \in SUBSET Launchable
    BY <2>3, LenProperties DEF Range
  <2> QED BY <2>1, <2>2, <2>3, <2>4, Advancing DEF Advances
<1>4. CASE EvaluateCircuit(p)
  <2>1. Advance(p, 3, <<Barrier>>)
    BY <1>4 DEF EvaluateCircuit
  <2>2. 3 \in 0..5 /\ 3 + 1 = 4
    OBVIOUS
  <2>3. <<Barrier>> \in Seq(Launchable) /\ Range(<<Barrier>>) = {Barrier}
    BY <1>0, OneOfThem
  <2> DEFINE batch == <<Barrier>>
  <2> HIDE DEF batch
  <2>4. /\ GoesOn(p, 3 + 1, Range(batch)) /\ stage[p] = 3
        /\ Range(loopbacks) = {[to |-> p, id |-> Root]}
        /\ \A id \in DOMAIN live[p] : Parent(id) # Root
        /\ started = Cardinality(Party) /\ started' = started
    <3>1. batch \in Seq(Launchable) /\ Advance(p, 3, batch)
      BY <2>1, <2>3 DEF batch
    <3> QED BY <2>2, <3>1, Advancing
  <2>5. GoesOn(p, 4, {Barrier})
    <3>1. Range(batch) = {Barrier}
      BY <2>3 DEF batch
    <3> QED BY <2>2, <2>4, <3>1
  <2> QED BY <2>4, <2>5 DEF Advances
<1>5. CASE ReconstructOutputs(p)
  <2>1. Advance(p, 4, OutputsOf(p))
    BY <1>5 DEF ReconstructOutputs
  <2>2. 4 \in 0..5 /\ 4 + 1 = 5
    OBVIOUS
  <2>3. OutputsOf(p) \in Seq(Launchable)
        /\ Range(OutputsOf(p)) = {Reconstruction(x) : x \in {w \in Wire : p \in Holders(w)}}
    BY <1>0, Outputs
  <2> DEFINE batch == OutputsOf(p)
  <2> HIDE DEF batch
  <2>4. /\ GoesOn(p, 4 + 1, Range(batch)) /\ stage[p] = 4
        /\ Range(loopbacks) = {[to |-> p, id |-> Root]}
        /\ \A id \in DOMAIN live[p] : Parent(id) # Root
        /\ started = Cardinality(Party) /\ started' = started
    <3>1. batch \in Seq(Launchable) /\ Advance(p, 4, batch)
      BY <2>1, <2>3 DEF batch
    <3> QED BY <2>2, <3>1, Advancing
  <2>5. GoesOn(p, 5, {Reconstruction(x) : x \in {w \in Wire : p \in Holders(w)}})
    <3>1. Range(batch) = {Reconstruction(x) : x \in {w \in Wire : p \in Holders(w)}}
      BY <2>3 DEF batch
    <3> QED BY <2>2, <2>4, <3>1
  <2> QED BY <2>4, <2>5 DEF Advances
<1>6. CASE BroadcastResults(p)
  <2> DEFINE batch == [i \in 1..Cardinality(Wire) |-> Majority(i - 1)]
  <2>1. Advance(p, 5, batch)
    BY <1>6 DEF BroadcastResults
  <2>2. 5 \in 0..5 /\ 5 + 1 = 6
    OBVIOUS
  <2>3. batch \in Seq(Launchable) /\ Range(batch) = {Majority(x) : x \in Wire}
    BY Results
  <2> HIDE DEF batch
  <2> QED BY <2>1, <2>2, <2>3, Advancing DEF Advances
<1> QED BY <1>1, <1>2, <1>3, <1>4, <1>5, <1>6

\* It is ready to go on.
LEMMA ReadyToAdvance ==
  ASSUME Base, NEW p \in Party, NEW s, NEW ids, GoesOn(p, s, ids),
         \A id \in DOMAIN live[p] : Parent(id) # Root,
         \/ s = 1 /\ ids = {Reconstruction(RandomNumber)} /\ stage[p] = 0
         \/ s = 2 /\ ids = {Majority(RandomNumber)} /\ stage[p] = 1
         \/ /\ s = 3 /\ ids \subseteq Launchable /\ stage[p] = 2 /\ RandomNumber \in known[p]
            /\ \A id \in ids : IsSharing(id)
         \/ s = 4 /\ ids = {Barrier} /\ stage[p] = 3
         \/ s = 5 /\ ids = {Reconstruction(x) : x \in {w \in Wire : p \in Holders(w)}} /\ stage[p] = 4
         \/ s = 6 /\ ids = {Majority(x) : x \in Wire} /\ stage[p] = 5
  PROVE  Ready(p, s, ids)
<1>1. ids \subseteq Launchable
  BY DEF Launchable, Item
<1>2. \A id \in ids : Fits(s, p, id)
  BY DEF Fits
<1>3. s \in 3..6 => RandomNumber \in known[p]
  <2>1. stage[p] \in 3..7 => RandomNumber \in known[p]
    BY DEF Base, Knowing
  <2> QED BY <2>1
<1>4. s > 4 => Left(p)
  <2>1. Parent(Barrier) = Root
    BY ProtocolNames, ParentOf
  <2> QED BY <2>1 DEF Left
<1> HIDE DEF Launchable
<1> QED BY <1>1, <1>2, <1>3, <1>4 DEF Ready

-----------------------------------------------------------------------------
(***************************************************************************)
(* What every step keeps.                                                  *)
(***************************************************************************)

\* When all parties have started, Starting says nothing more.
LEMMA AllStarted ==
  ASSUME State, started = Cardinality(Party), started' = started
  PROVE  Starting'
<1>1. \A p \in Party : ~(p >= started')
  BY PartiesAreNumbers
<1>2. ~(started' < Cardinality(Party))
  BY PartiesAreNumbers
<1> QED BY <1>1, <1>2 DEF Starting

\* The handler of a message keeps the invariants, and evaluations that are completed.
LEMMA HandlesBase ==
  ASSUME Base, NEW m \in Range(network), Handles(m)
  PROVE  /\ Base' /\ Starting'
         /\ \A q \in Party : Done(q) => Done(q)'
<1>0. Queues /\ State /\ Running /\ Knowing /\ Reported /\ Announced /\ Together
  BY DEF Base
<1>1. /\ Queues' /\ State' /\ Running' /\ Knowing' /\ Reported' /\ Touched(m.to, m.body.id)
      /\ \A q \in Party : DOMAIN live'[q] \subseteq DOMAIN live[q]
      /\ m.body # Value(Barrier) => ApartFromBarrier
  BY <1>0, HandlesKeeps
<1>2. Handled(m) /\ started = Cardinality(Party) /\ started' = started /\ stage' = stage
  BY DEF Handles, Handled
<1>3. Starting'
  BY <1>0, <1>2, AllStarted
<1>4. CASE m.body # Value(Barrier)
  <2>1. Announced' /\ Together'
    BY <1>0, <1>1, <1>4, BarrierApart
  <2> QED BY <1>1, <1>3, <1>4, <2>1 DEF Base, ApartFromBarrier
<1>5. CASE m.body = Value(Barrier)
  <2>1. m.body.id = Barrier /\ m.body.type = "value" /\ m.body.id[1] = "barrier" /\ m.to \in Party
    BY <1>0, <1>5, OnTheWay, ProtocolNames
  <2>2. \/ HeardBy(m.to, Barrier)' = HeardBy(m.to, Barrier) \union {m.from} /\ Barrier \in DOMAIN live'[m.to]
        \/ HeardBy(m.to, Barrier) \union {m.from} = Party /\ Barrier \notin DOMAIN live'[m.to]
    <3>1. CASE Hears(m)
      BY <2>1, <3>1 DEF Hears, Adjusted, HeardBy, Barrier
    <3>2. CASE Completed(m.to, Barrier) /\ Learnt(m)
      BY <2>1, <3>2 DEF Completed, Learnt
    <3> QED BY <2>1, <3>1, <3>2 DEF Handles
  <2>3. /\ Announced' /\ Together'
        /\ \A q \in Party : Done(q) => Done(q)'
    BY <1>0, <1>1, <1>2, <1>5, <2>1, <2>2, BarrierHandles
  <2> QED BY <1>1, <1>3, <2>3 DEF Base
<1> QED BY <1>4, <1>5

\* So does a party that goes on.
LEMMA GoingOnBase ==
  ASSUME Base, NEW p \in Party, NEW s, NEW ids, Ready(p, s, ids), GoesOn(p, s, ids)
  PROVE  Base' /\ ApartFromBarrier
<1>1. Queues' /\ State' /\ Running' /\ Knowing' /\ Reported' /\ ApartFromBarrier
  BY GoingOn DEF Base
<1>2. Announced' /\ Together'
  BY <1>1, BarrierApart DEF Base
<1> QED BY <1>1, <1>2 DEF Base

\* The start of a party.
LEMMA StartBase ==
  ASSUME Base, Starting, Start
  PROVE  /\ Base' /\ Starting' /\ ApartFromBarrier
         /\ started \in Party /\ \E s, ids : Ready(started, s, ids) /\ GoesOn(started, s, ids)
<1> DEFINE p == started
<1>0. /\ p \in Party /\ started' = started + 1 /\ State /\ Queues
      /\ UNCHANGED <<clock, program, quorums, end, known>>
  BY DEF Start, Base
<1>1. p \in Nat /\ p < Cardinality(Party) /\ Cardinality(Party) \in Nat
  BY <1>0, PartiesAreNumbers
<1>2. clock = 0 /\ loopbacks = <<>> /\ stage[p] = 0 /\ DOMAIN live[p] = {}
  BY <1>0, <1>1 DEF Starting
<1>3. ASSUME NEW s \in {0, 2}, NEW id \in Launchable, Fits(s, p, id), ~AtOnce(p, id), id # Barrier,
             Launch(p, <<id>>, 0, <<>>), stage' = [stage EXCEPT ![p] = s]
      PROVE  /\ Base' /\ Starting' /\ ApartFromBarrier
             /\ \E st, ids : Ready(p, st, ids) /\ GoesOn(p, st, ids)
  <2>1. <<id>> \in Seq(Launchable) /\ Range(<<id>>) = {id}
    BY OneOfThem
  <2>2. Launched(p, {id})
    <3> DEFINE batch == <<id>>
    <3>1. batch \in Seq(Launchable) /\ Launch(p, batch, clock, <<>>) /\ Range(batch) = {id}
      BY <1>2, <1>3, <2>1
    <3> HIDE DEF batch
    <3>2. Launched(p, Range(batch))
      BY <1>0, <3>1, Launching
    <3> QED BY <3>1, <3>2
  <2>3. GoesOn(p, s, {id})
    BY <1>0, <1>1, <1>3, <2>2 DEF GoesOn
  <2>4. Ready(p, s, {id})
    <3> HIDE DEF Launchable
    <3>1. s \in 0..6 /\ s < 4 /\ ~(s > 4) /\ s # 4 /\ s \notin 3..6 /\ 0 <= s
      BY <1>3
    <3> QED BY <1>2, <1>3, <3>1 DEF Ready
  <2>5. Base' /\ ApartFromBarrier
    BY <1>0, <2>3, <2>4, GoingOnBase
  <2>6. loopbacks' = <<>>
    BY <1>3, <2>2 DEF Launched
  <2>7. ASSUME NEW q \in Party, q >= started'
        PROVE  stage'[q] = 0 /\ DOMAIN live'[q] = {}
    <3>1. q # p /\ q >= started
      BY <1>0, <1>1, <2>7, PartiesAreNumbers
    <3>2. stage'[q] = stage[q] /\ live'[q] = live[q]
      BY <1>0, <1>3, <2>2, <3>1 DEF Launched, State
    <3> QED BY <3>1, <3>2 DEF Starting
  <2> QED BY <1>0, <1>2, <2>3, <2>4, <2>5, <2>6, <2>7 DEF Starting
<1>4. RandGen \in Launchable /\ Majority(RandomNumber) \in Launchable
  BY DEF Launchable, Item
<1>5. /\ ~AtOnce(p, RandGen) /\ ~AtOnce(p, Majority(RandomNumber))
      /\ RandGen # Barrier /\ Majority(RandomNumber) # Barrier
  BY PartiesAreNumbers, ProtocolNames DEF AtOnce, IsSharing
<1>6. CASE p \in RandGenQuorum
  <2>1. Launch(p, <<RandGen>>, 0, <<>>) /\ stage' = stage
    BY <1>6 DEF Start
  <2>2. stage' = [stage EXCEPT ![p] = 0]
    BY <1>0, <1>2, <2>1 DEF State
  <2>3. Fits(0, p, RandGen)
    BY DEF Fits
  <2> HIDE DEF p
  <2> QED BY <1>0, <1>3, <1>4, <1>5, <2>1, <2>2, <2>3 DEF p
<1>7. CASE p \notin RandGenQuorum
  <2>1. Launch(p, <<Majority(RandomNumber)>>, 0, <<>>) /\ stage' = [stage EXCEPT ![p] = 2]
    BY <1>7 DEF Start
  <2>2. Fits(2, p, Majority(RandomNumber))
    BY DEF Fits
  <2> HIDE DEF p
  <2> QED BY <1>0, <1>3, <1>4, <1>5, <2>1, <2>2 DEF p
<1> QED BY <1>6, <1>7

\* A party goes on to its next stage.
LEMMA AdvancesBase ==
  ASSUME Base, NEW p \in Party,
         \/ ReconstructRandom(p) \/ SendRandom(p) \/ DistributeInputs(p)
         \/ EvaluateCircuit(p) \/ ReconstructOutputs(p) \/ BroadcastResults(p)
  PROVE  /\ Base' /\ Starting' /\ ApartFromBarrier
         /\ \E s, ids : Ready(p, s, ids) /\ GoesOn(p, s, ids)
<1>1. /\ Advances(p)
      /\ \A id \in DOMAIN live[p] : Parent(id) # Root
      /\ started = Cardinality(Party) /\ started' = started
  BY AdvancesInTurn
<1>2. PICK s, ids : GoesOn(p, s, ids) /\ Ready(p, s, ids)
  <2> DEFINE held == {Reconstruction(x) : x \in {w \in Wire : p \in Holders(w)}}
             results == {Majority(x) : x \in Wire}
  <2>1. CASE GoesOn(p, 1, {Reconstruction(RandomNumber)}) /\ stage[p] = 0
    BY <1>1, <2>1, ReadyToAdvance
  <2>2. CASE GoesOn(p, 2, {Majority(RandomNumber)}) /\ stage[p] = 1
    BY <1>1, <2>2, ReadyToAdvance
  <2>3. ASSUME NEW ids \in SUBSET Launchable, GoesOn(p, 3, ids), stage[p] = 2, RandomNumber \in known[p],
               \A id \in ids : IsSharing(id)
        PROVE  \E s, i : GoesOn(p, s, i) /\ Ready(p, s, i)
    <3>1. ids \subseteq Launchable
      OBVIOUS
    <3> HIDE DEF Launchable
    <3>2. Ready(p, 3, ids)
      BY <1>1, <2>3, <3>1, ReadyToAdvance
    <3> QED BY <2>3, <3>2
  <2>4. CASE GoesOn(p, 4, {Barrier}) /\ stage[p] = 3
    BY <1>1, <2>4, ReadyToAdvance
  <2>5. CASE GoesOn(p, 5, held) /\ stage[p] = 4
    BY <1>1, <2>5, ReadyToAdvance
  <2>6. CASE GoesOn(p, 6, results) /\ stage[p] = 5
    BY <1>1, <2>6, ReadyToAdvance
  <2> QED BY <1>1, <2>1, <2>2, <2>3, <2>4, <2>5, <2>6 DEF Advances
<1>3. Base' /\ ApartFromBarrier
  BY <1>2, GoingOnBase
<1>4. Starting'
  BY <1>1, AllStarted DEF Base
<1> QED BY <1>2, <1>3, <1>4

\* A party has sent its value and waited.
LEMMA NopJoinedBase ==
  ASSUME Base, NopJoined
  PROVE  /\ Base' /\ Starting' /\ ApartFromBarrier
         /\ \E p \in Party, x \in Item :
              /\ Completed(p, Majority(x)) /\ x \in known[p] /\ Touched(p, Majority(x))
              /\ Range(loopbacks) = {[to |-> p, id |-> Majority(x)]}
              /\ stage[p] \in IF x = RandomNumber THEN {2} ELSE {6, 7}
              /\ UNCHANGED <<clock, network, program, quorums, end, started, stage, known>>
<1>0. Queues /\ State /\ Running /\ Knowing /\ Reported /\ Announced /\ Together
  BY DEF Base
<1>1. PICK x \in Item :
        /\ Joined(Majority(x))
        /\ Complete(Head(loopbacks).to, Majority(x), Tail(loopbacks))
        /\ UNCHANGED <<network, stage, known>>
  BY DEF NopJoined
<1> DEFINE p == Head(loopbacks).to
           id == Majority(x)
<1>2. /\ Head(loopbacks).id = id /\ Head(loopbacks) \in Completion /\ Tail(loopbacks) = <<>>
      /\ Range(loopbacks) = {Head(loopbacks)} /\ started = Cardinality(Party)
      /\ UNCHANGED <<clock, program, quorums, end, started>>
  BY <1>0, <1>1, Joining
<1>3. p \in Party /\ id \in Id /\ id[1] = "majority" /\ id[2] = x /\ Head(loopbacks) = [to |-> p, id |-> id]
  BY <1>2, PartiesAreNumbers, ProtocolNames DEF Completion
<1>4. Completed(p, id)
  <2>1. Complete(p, id, <<>>)
    BY <1>1, <1>2
  <2> HIDE DEF p, id
  <2> QED BY <1>0, <1>3, <2>1, Completing
<1>5. x \in known[p] /\ stage[p] \in IF x = RandomNumber THEN {2} ELSE {6, 7}
  <2>1. \E y \in known[p] : id = Majority(y) /\ stage[p] \in IF y = RandomNumber THEN {2} ELSE {6, 7}
    <3>1. id \notin {Root, Barrier}
      BY <1>3, ProtocolNames
    <3> QED BY <1>0, <1>2, <3>1 DEF Reported
  <2> QED BY <2>1 DEF Majority
<1>6. Learns(p)
  BY <1>1 DEF Learns
<1>7. UNCHANGED <<clock, network, program, quorums, end, started, stage, known>>
  BY <1>1, <1>2
<1> HIDE DEF p, id
<1>8. /\ State' /\ Running' /\ Knowing' /\ Reported' /\ Touched(p, id)
      /\ loopbacks' = <<>> \/ \E b \in Completion : loopbacks' = <<b>>
      /\ \A q \in Party : DOMAIN live'[q] \subseteq DOMAIN live[q]
  BY <1>0, <1>3, <1>4, <1>6, <1>7, CompletedKeeps
<1>9. Queues'
  BY <1>0, <1>7, <1>8 DEF Queues, InLockStep
<1>10. ApartFromBarrier
  <2>1. id # Barrier
    BY <1>3, ProtocolNames
  <2>2. BarrierValues' = BarrierValues
    BY <1>7 DEF BarrierValues, Value, Barrier
  <2>3. clock' \in {clock, clock + 1} /\ \A m \in Range(network) : m.at >= clock'
    BY <1>0, <1>7, LenProperties DEF Queues, InLockStep, Range
  <2> QED BY <1>0, <1>3, <1>7, <1>8, <2>1, <2>2, <2>3, TouchedApart
<1>11. Announced' /\ Together'
  BY <1>0, <1>10, BarrierApart
<1>12. Starting'
  BY <1>0, <1>2, AllStarted
<1> QED BY <1>2, <1>3, <1>4, <1>5, <1>7, <1>8, <1>9, <1>10, <1>11, <1>12 DEF Base, id

\* The protocol is completed at a party.
LEMMA CollectResultsBase ==
  ASSUME Base, NEW p \in Party, CollectResults(p)
  PROVE  /\ Base' /\ Starting' /\ ApartFromBarrier
         /\ Range(loopbacks) = {[to |-> p, id |-> Root]} /\ Range(loopbacks') = {}
         /\ \A id \in DOMAIN live[p] : Parent(id) # Root
         /\ stage[p] = 6 /\ stage' = [stage EXCEPT ![p] = 7]
         /\ UNCHANGED <<clock, network, program, quorums, end, started, live, known>>
<1>0. Queues /\ State /\ Running /\ Knowing /\ Reported /\ Announced /\ Together
  BY DEF Base
<1>1. /\ Joined(Root) /\ p = Head(loopbacks).to /\ stage[p] = 6
      /\ stage' = [stage EXCEPT ![p] = 7] /\ loopbacks' = Tail(loopbacks)
      /\ UNCHANGED <<network, live, known>>
  BY DEF CollectResults
<1>2. /\ Head(loopbacks).id = Root /\ Head(loopbacks) \in Completion /\ Tail(loopbacks) = <<>>
      /\ Range(loopbacks) = {Head(loopbacks)} /\ started = Cardinality(Party)
      /\ UNCHANGED <<clock, program, quorums, end, started>>
  BY <1>0, <1>1, Joining
<1>3. UNCHANGED <<clock, network, program, quorums, end, started, live, known>>
  BY <1>1, <1>2
<1>4. Range(loopbacks) = {[to |-> p, id |-> Root]} /\ loopbacks' = <<>> /\ Range(loopbacks') = {}
  <2>1. Range(loopbacks) = {[to |-> p, id |-> Root]}
    BY <1>1, <1>2 DEF Completion
  <2>2. Range(<<>>) = {}
    BY DEF Range
  <2> QED BY <1>1, <1>2, <2>1, <2>2
<1>5. \A id \in DOMAIN live[p] : Parent(id) # Root
  BY <1>0, <1>4 DEF Reported
<1>6. /\ stage' \in [Party -> 0..7] /\ stage'[p] = 7
      /\ \A q \in Party \ {p} : stage'[q] = stage[q]
  BY <1>0, <1>1 DEF State
<1>7. Queues' /\ State'
  BY <1>0, <1>3, <1>4, <1>6 DEF Queues, InLockStep, State
<1>8. Running'
  <2>1. ASSUME NEW q \in Party, NEW id \in DOMAIN live[q]
        PROVE  Fits(stage'[q], q, id)
    <3>1. Fits(stage[q], q, id) /\ id \in Id
      BY <1>0 DEF Running, State
    <3>2. CASE q = p
      <4>1. \A x \in Wire : Parent(Majority(x)) = Root
        BY PartiesAreNumbers, ProtocolNames, ParentOf
      <4>2. \E x \in Wire : id = Nop(x)
        BY <1>1, <1>5, <3>1, <3>2, <4>1 DEF Fits
      <4> QED BY <1>6, <3>2, <4>2 DEF Fits
    <3>3. CASE q # p
      BY <1>6, <3>1, <3>3
    <3> QED BY <3>2, <3>3
  <2> QED BY <1>0, <1>3, <2>1, FitsUnchanged DEF Running, Barrier
<1>9. Knowing'
  <2>1. RandomNumber \in known[p]
    BY <1>0, <1>1 DEF Knowing
  <2>2. ASSUME NEW q \in Party
        PROVE  /\ stage'[q] \in 3..7 => RandomNumber \in known[q]
               /\ stage'[q] \in 0..5 => \A x \in Wire : x \in known[q] => q \in Holders(x)
    BY <1>0, <1>6, <2>1 DEF Knowing
  <2> QED BY <1>3, <2>2, FitsUnchanged DEF Knowing, RandomNumber, Wire
<1>10. Reported'
  BY <1>4 DEF Reported
<1>11. ApartFromBarrier
  <2>1. BarrierValues' = BarrierValues
    BY <1>3 DEF BarrierValues, Value, Barrier
  <2>2. clock' \in {clock, clock + 1} /\ \A m \in Range(network) : m.at >= clock'
    BY <1>0, <1>3, LenProperties DEF Queues, InLockStep, Range
  <2>3. \A q \in Party : HeardBy(q, Barrier)' = HeardBy(q, Barrier)
    BY <1>3 DEF HeardBy, Barrier
  <2>4. \A q \in Party : (Left(q)' <=> Left(q)) /\ (Done(q) => Done(q)')
    BY <1>1, <1>3, <1>6 DEF Left, Done, Barrier
  <2> QED BY <2>1, <2>2, <2>3, <2>4 DEF ApartFromBarrier
<1>12. Announced' /\ Together'
  BY <1>0, <1>11, BarrierApart
<1>13. Starting'
  BY <1>0, <1>2, AllStarted
<1> QED BY <1>1, <1>3, <1>4, <1>5, <1>7, <1>8, <1>9, <1>10, <1>11, <1>12, <1>13 DEF Base

\* The evaluations of a party are completed, and it tells everybody.
LEMMA EvaluationsJoinedBase ==
  ASSUME Base, EvaluationsJoined
  PROVE  /\ Base' /\ Starting' /\ loopbacks' = <<>>
         /\ \A q \in Party : (Left(q)' <=> Left(q)) /\ (Done(q)' <=> Done(q))
         /\ \E p \in Party :
              /\ Range(loopbacks) = {[to |-> p, id |-> Barrier]}
              /\ \A k : k \in Range(network') \ Range(network) => k.body = Value(Barrier)
              /\ Range(network) \subseteq Range(network')
         /\ UNCHANGED <<clock, program, quorums, end, started, stage, live, known>>
<1>0. Queues /\ State /\ Running /\ Knowing /\ Reported /\ Announced /\ Together
  BY DEF Base
<1>p. PICK p : p = Head(loopbacks).to
  OBVIOUS
<1> DEFINE sent == Letters(clock, p, InOrder(Party), Value(Barrier))
<1>1. /\ Joined(Barrier) /\ loopbacks' = Tail(loopbacks)
      /\ network' = network \o sent
      /\ UNCHANGED <<stage, live, known>>
  BY <1>p DEF EvaluationsJoined, Value
<1>2. /\ Head(loopbacks).id = Barrier /\ Head(loopbacks) \in Completion /\ Tail(loopbacks) = <<>>
      /\ Range(loopbacks) = {Head(loopbacks)} /\ started = Cardinality(Party)
      /\ UNCHANGED <<clock, program, quorums, end, started>>
  BY <1>0, <1>1, Joining
<1>3. p \in Party /\ Range(loopbacks) = {[to |-> p, id |-> Barrier]} /\ loopbacks' = <<>>
  BY <1>p, <1>1, <1>2 DEF Completion
<1>4. UNCHANGED <<clock, program, quorums, end, started, stage, live, known>>
  BY <1>1, <1>2
<1>5. Done(p) /\ ~Left(p)
  BY <1>0, <1>3, ProtocolNames DEF Reported
<1>6. /\ sent \in Seq(Message)
      /\ Range(sent) = {[at |-> clock + 1, from |-> p, to |-> r, body |-> Value(Barrier)] : r \in Party}
  <2>1. clock \in Nat /\ Value(Barrier) \in Body
    BY <1>0, ProtocolNames DEF Queues, Body, Value
  <2> QED BY <1>3, <2>1, LettersProperties
<1> HIDE DEF sent
<1>7. network' \in Seq(Message) /\ Range(network') = Range(network) \union Range(sent)
  BY <1>0, <1>1, <1>6, RangeOfConcatenation DEF Queues
<1>8. InLockStep(network', clock)
  <2>1. \A i \in DOMAIN sent : sent[i].at = clock + 1
    BY <1>6 DEF Range
  <2>2. \A i \in DOMAIN network : network[i].at >= clock
    BY <1>0 DEF Queues, InLockStep
  <2>3. \A m \in Message : m.at \in Nat
    BY DEF Message
  <2>4. clock <= clock /\ clock \in Nat /\ network \in Seq(Message) /\ InLockStep(network, clock)
    BY <1>0 DEF Queues
  <2> QED BY <1>1, <1>6, <2>1, <2>2, <2>3, <2>4, SentInLockStep
<1>9. Queues'
  BY <1>0, <1>3, <1>4, <1>7, <1>8 DEF Queues, InLockStep
<1>10. State'
  BY <1>0, <1>4 DEF State
<1>11. Running' /\ Knowing'
  BY <1>0, <1>4, FitsUnchanged DEF Running, Knowing, Barrier, RandomNumber, Wire
<1>12. Reported'
  BY <1>3 DEF Reported, Range
<1>13. \A q \in Party : /\ Left(q)' <=> Left(q)
                        /\ Done(q)' <=> Done(q)
                        /\ HeardBy(q, Barrier)' = HeardBy(q, Barrier)
  BY <1>4 DEF Left, Done, HeardBy, Barrier
<1>14. ASSUME NEW k \in Range(network'), k.body = Value(Barrier)
       PROVE  k \in Range(network) \/ (k.from = p /\ k.at = clock + 1)
  BY <1>6, <1>7
<1>15. \A k \in Range(network') \ Range(network) : k.body = Value(Barrier)
  BY <1>6, <1>7
<1>16. Announced'
  <2>1. ASSUME NEW k \in Range(network'), k.body = Value(Barrier)
        PROVE  Done(k.from)'
    <3>1. Done(k.from) /\ k.from \in Party
      BY <1>0, <1>3, <1>5, <1>14, <2>1, OnTheWay DEF Announced
    <3> QED BY <1>13, <3>1
  <2>2. \A q \in Party : \A r \in HeardBy(q, Barrier)' : Done(r)'
    BY <1>0, <1>13, Hearing DEF Announced
  <2>3. \A q \in Party : Left(q)' => \A r \in Party : Done(r)'
    BY <1>0, <1>13 DEF Announced
  <2> QED BY <2>1, <2>2, <2>3 DEF Announced, Value, Barrier
<1>17. Together'
  <2>1. \A r, q, t : Told(r, q, Barrier, t) => Told(r, q, Barrier, t)'
    BY <1>7 DEF Told, Value, Barrier
  <2>2. ASSUME NEW t, t = clock + 1, NEW q \in Party
        PROVE  Told(p, q, Barrier, t)'
    <3>1. [at |-> t, from |-> p, to |-> q, body |-> Value(Barrier)] \in Range(network')
      BY <1>6, <1>7, <2>2
    <3> QED BY <3>1 DEF Told, Value, Barrier
  <2>3. ASSUME NEW k \in Range(network'), k.body = Value(Barrier), NEW q \in Party, ~Left(q)'
        PROVE  k.from \in HeardBy(q, Barrier)' \/ Told(k.from, q, Barrier, k.at)'
    <3>1. CASE k \in Range(network)
      BY <1>0, <1>13, <2>1, <2>3, <3>1 DEF Together
    <3>2. CASE k.from = p /\ k.at = clock + 1
      BY <2>2, <3>2
    <3> QED BY <1>14, <2>3, <3>1, <3>2
  <2>4. ASSUME NEW q \in Party, NEW s \in Party, ~Left(q)', NEW r \in HeardBy(s, Barrier)'
        PROVE  r \in HeardBy(q, Barrier)' \/ Told(r, q, Barrier, clock)'
    <3>1. PICK t : t = clock /\ t = clock'
      BY <1>4
    <3>2. r \in HeardBy(q, Barrier) \/ Told(r, q, Barrier, t)
      BY <1>0, <1>13, <2>4, <3>1 DEF Together
    <3>3. r \in HeardBy(q, Barrier)' \/ Told(r, q, Barrier, t)'
      BY <1>13, <2>1, <3>2
    <3> QED BY <3>1, <3>3 DEF Told, Value, Barrier
  <2> QED BY <2>3, <2>4 DEF Together, Value, Barrier
<1>18. Starting'
  BY <1>0, <1>2, AllStarted
<1> QED BY <1>3, <1>4, <1>7, <1>9, <1>10, <1>11, <1>12, <1>13, <1>15, <1>16, <1>17, <1>18 DEF Base

-----------------------------------------------------------------------------
(***************************************************************************)
(* The barrier is left by everybody in the same tick.                      *)
(***************************************************************************)

\* Before the parties start.
LEMMA InitInv == Init => Base /\ Starting /\ Closed
<1> SUFFICES ASSUME Init PROVE Base /\ Starting /\ Closed
  OBVIOUS
<1>1. /\ clock = 0 /\ network = <<>> /\ loopbacks = <<>>
      /\ quorums \in QuorumLists /\ end \in [DOMAIN quorums -> Ends] /\ started = 0
      /\ stage = [p \in Party |-> 0] /\ live = [p \in Party |-> <<>>]
      /\ known = [p \in Party |-> {}]
  BY DEF Init, NetworkInit
<1>2. Range(network) = {} /\ Range(loopbacks) = {}
  BY <1>1 DEF Range
<1>3. \A p \in Party : stage[p] = 0 /\ live[p] = <<>> /\ DOMAIN live[p] = {} /\ known[p] = {}
  BY <1>1
<1>4. Queues
  BY <1>1 DEF Queues, InLockStep
<1>5. State
  <2>1. stage \in [Party -> 0..7] /\ known \in [Party -> SUBSET Item]
    BY <1>1
  <2>2. live = [p \in Party |-> live[p]]
    BY <1>1
  <2>3. started \in 0..Cardinality(Party)
    BY <1>1, PartiesAreNumbers
  <2> QED BY <1>1, <1>3, <2>1, <2>2, <2>3 DEF State
<1>6. Running /\ Knowing /\ Reported
  BY <1>2, <1>3 DEF Running, Knowing, Reported
<1>7. Announced /\ Together /\ Closed
  <2>1. \A p \in Party : HeardBy(p, Barrier) = {} /\ ~Left(p)
    BY <1>3 DEF HeardBy, Left
  <2> QED BY <1>2, <2>1 DEF Announced, Together, Closed
<1>8. Starting
  BY <1>1, <1>3 DEF Starting
<1> QED BY <1>4, <1>5, <1>6, <1>7, <1>8 DEF Base

\* A party that goes on before the barrier is left sends no outputs.
LEMMA GoesOnClosed ==
  ASSUME Base, Closed, NEW p \in Party, NEW s, NEW ids, Ready(p, s, ids), GoesOn(p, s, ids)
  PROVE  Closed'
<1>1. \A q \in Party : ~Left(q)'
  <2>1. ApartFromBarrier
    BY GoingOnBase
  <2> QED BY <2>1 DEF ApartFromBarrier, Closed
<1>2. s \in 0..7 /\ s <= 4
  <2>1. ~(s > 4)
    BY DEF Ready, Closed
  <2> QED BY <2>1 DEF Ready
<1>3. ASSUME NEW k \in Range(network')
      PROVE  ~IsWire(k, "reconstruct") /\ ~IsWire(k, "majority")
  <2>1. CASE k \in Range(network)
    BY <2>1 DEF Closed
  <2>2. CASE k \notin Range(network)
    <3>1. PICK id \in ids : IsSentBy(p, id, clock, k)
      BY <1>3, <2>2 DEF GoesOn, Launched
    <3>2. id \in Launchable /\ id \in Id /\ Fits(s, p, id)
      BY LaunchableNames DEF Ready, IsNamed
    <3>3. CASE k.body = Value(id)
      <4>1. id[1] \in {"reconstruct", "majority"} => id[2] = RandomNumber
        BY <1>2, <3>2, FittingNames
      <4> QED BY <3>3, <4>1, PartiesAreNumbers DEF IsWire, Value
    <3>4. CASE k.body.id \in Children(p, id)
      <4>1. k.body.id[1] \in {"nop", "evaluation"}
        BY <3>2, <3>4, ChildrenProperties DEF Base
      <4> QED BY <4>1 DEF IsWire
    <3> QED BY <3>1, <3>3, <3>4 DEF IsSentBy
  <2> QED BY <2>1, <2>2
<1> QED BY <1>1, <1>3, PartiesAreNumbers DEF Closed, IsWire, Wire

\* When a message is handled and nobody leaves the barrier, it stays closed.
LEMMA HandlesClosed ==
  ASSUME Base, Closed, NEW m \in Range(network), Handles(m), \A q \in Party : ~Left(q)'
  PROVE  Closed'
<1>0. /\ Queues /\ State /\ Running /\ Handled(m) /\ m.body.id \in DOMAIN live[m.to]
  BY DEF Base, Handles, Handled
<1>1. m.to \in Party /\ m.body.id \in Id /\ Fits(stage[m.to], m.to, m.body.id) /\ stage[m.to] \in 0..7
  BY <1>0, Addressed DEF Running, State
<1>2. stage[m.to] <= 4
  BY <1>1 DEF Closed, Left
<1>3. m.body.id[1] \in {"reconstruct", "majority"} => m.body.id[2] = RandomNumber
  BY <1>1, <1>2, FittingNames
<1>4. ASSUME NEW k \in Range(network')
      PROVE  ~IsWire(k, "reconstruct") /\ ~IsWire(k, "majority")
  <2>1. CASE k \in Range(network)
    BY <2>1 DEF Closed
  <2>2. CASE k \notin Range(network)
    <3>1. k.body.id = m.body.id
      BY <1>0, <2>2 DEF Handled, NextRound, Letter
    <3> QED BY <1>3, <3>1, PartiesAreNumbers DEF IsWire
  <2> QED BY <2>1, <2>2
<1> QED BY <1>4 DEF Closed, IsWire, Wire

\* The first party leaves the barrier: everybody has completed its evaluations, and those
\* who wait hear of the rest in this tick.
LEMMA BarrierOpens ==
  ASSUME Base, Closed, NEW m \in Range(network), Handles(m), NEW l \in Party, Left(l)',
         NEW t, t = clock'
  PROVE  Opened(t)'
<1> DEFINE p == m.to
           id == m.body.id
<1>0. /\ Queues /\ State /\ Running /\ Announced /\ Together /\ Handled(m) /\ id \in DOMAIN live[p]
      /\ stage' = stage /\ quorums' = quorums /\ clock' = m.at /\ t = m.at
  BY DEF Base, Handles, Handled
<1>1. /\ Base' /\ Touched(p, id)
      /\ \A q \in Party : DOMAIN live'[q] \subseteq DOMAIN live[q]
      /\ m.body # Value(Barrier) => ApartFromBarrier
  BY <1>0, HandlesBase, HandlesKeeps DEF Base
<1>2. p \in Party /\ id \in Id /\ m.from \in Party /\ \A q \in Party : stage[q] \in 0..7 /\ ~Left(q)
  BY <1>0, Addressed DEF State, Closed
<1>3. m.body = Value(Barrier) /\ id = Barrier
  <2>1. m.body = Value(Barrier)
    BY <1>1, <1>2 DEF ApartFromBarrier
  <2> QED BY <1>0, <2>1, OnTheWay
<1>4. Barrier \notin DOMAIN live'[p] /\ l = p
  BY <1>0, <1>1, <1>2, <1>3 DEF Left, Touched, Barrier
<1>5. Completed(p, Barrier) /\ HeardBy(p, Barrier) \union {m.from} = Party /\ Range(network') \subseteq Range(network)
  <2>1. Barrier \in DOMAIN live[p] /\ Barrier[1] = "barrier"
    BY <1>0, <1>3, ProtocolNames
  <2>2. ~Adjusted(p, Barrier)
    BY <1>4, <2>1 DEF Adjusted
  <2> QED BY <1>3, <2>1, <2>2 DEF Handles, Hears, Learnt
<1>6. \A q \in Party : Done(q)'
  BY <1>1 DEF Base, Announced
<1>7. \A q \in Party : stage[q] = 4
  BY <1>0, <1>2, <1>6 DEF Done, Left
<1>8. \A q \in Party : \A c \in DOMAIN live'[q] : c = Barrier
  <2>1. ASSUME NEW q \in Party, NEW c \in DOMAIN live'[q]
        PROVE  c = Barrier
    <3>1. c \in Id /\ Fits(4, q, c) /\ c[1] # "evaluation"
      BY <1>0, <1>1, <1>6, <1>7 DEF Running, State, Done
    <3> QED BY <3>1, FittingNames
  <2> QED BY <2>1
<1>9. loopbacks' = <<[to |-> p, id |-> Root]>>
  <2>1. Parent(Barrier) = Root
    BY ProtocolNames, ParentOf
  <2> QED BY <1>2, <1>4, <1>5, <1>8, <2>1 DEF Completed
<1>10. \A q \in Party : ~Left(q)' => \A r \in Party : r \in HeardBy(q, Barrier)' \/ Told(r, q, Barrier, t)'
  <2>1. Touched(p, Barrier) /\ State'
    BY <1>1, <1>3 DEF Base
  <2>2. \A q \in Party : ~Left(q)' => \A r \in HeardBy(m.to, Barrier) \union {m.from} :
          r \in HeardBy(q, Barrier)' \/ Told(r, q, Barrier, m.at)'
    BY <1>0, <1>1, <1>3, <1>4, <1>5, <2>1, BarrierHandles
  <2>3. \A r, q : Told(r, q, Barrier, m.at)' => Told(r, q, Barrier, t)'
    BY <1>0
  <2> QED BY <1>5, <2>2, <2>3
<1>11. Leaving(t)'
  <2>1. ASSUME NEW q \in Party, Left(q)'
        PROVE  q = p
    BY <1>0, <1>1, <1>2, <1>3, <2>1 DEF Left, Touched, Barrier
  <2>2. \A q \in Party : stage'[q] = 4 => clock' = t
    BY <1>0
  <2> QED BY <1>9, <1>10, <2>1, <2>2 DEF Leaving, Root, Barrier
<1>12. /\ \A x \in Wire : Reconstruction(x) # Barrier /\ Majority(x) # Barrier
       /\ \A q \in Party, x \in Wire :
            /\ HeardBy(q, Reconstruction(x))' = {}
            /\ HeardBy(q, Majority(x))' = {}
            /\ Reconstruction(x) \notin DOMAIN live'[q]
            /\ Majority(x) \notin DOMAIN live'[q]
  <2>1. \A x \in Wire : Reconstruction(x) # Barrier /\ Majority(x) # Barrier
    BY PartiesAreNumbers, ProtocolNames
  <2> QED BY <1>8, <2>1 DEF HeardBy, Reconstruction, Majority
<1>13. \A k \in Range(network') : ~IsWire(k, "reconstruct") /\ ~IsWire(k, "majority")
  BY <1>5 DEF Closed
<1>14. \A q \in Party : stage'[q] = 4
  BY <1>0, <1>7
<1>15. Opening(t)'
  <2>1. ASSUME NEW q \in Party, NEW x \in Wire
        PROVE  /\ HeardBy(q, Reconstruction(x))' \subseteq Holders(x)'
               /\ \A h \in Holders(x)' : stage'[h] = 4
    BY <1>0, <1>12, <1>14, FitsUnchanged, QuorumsOfTheGates, PartiesAreNumbers DEF Item
  <2>2. \A q \in Party : stage'[q] # 5
    BY <1>14
  <2> QED BY <1>13, <2>1, <2>2 DEF Opening, IsWire, Wire, Reconstruction
<1>16. Telling(t)'
  <2>1. ASSUME NEW q \in Party, NEW x \in Wire
        PROVE  /\ HeardBy(q, Majority(x))' \subseteq Holders(x)'
               /\ \A h \in Holders(x)' : stage'[h] <= 5
    BY <1>0, <1>12, <1>14, FitsUnchanged, QuorumsOfTheGates, PartiesAreNumbers DEF Item
  <2>2. \A q \in Party : stage'[q] # 6 /\ stage'[q] # 7
    BY <1>14
  <2> QED BY <1>13, <2>1, <2>2 DEF Telling, IsWire, Wire, Majority
<1>17. \A b \in Range(loopbacks') : b.id # Barrier
  <2>1. Range(loopbacks') = {[to |-> p, id |-> Root]}
    BY <1>9 DEF Range
  <2> QED BY <2>1, ProtocolNames
<1> QED BY <1>6, <1>11, <1>15, <1>16, <1>17 DEF Opened, Barrier

-----------------------------------------------------------------------------
(***************************************************************************)
(* What follows the barrier.                                               *)
(***************************************************************************)

\* Nobody is in an earlier stage than the barrier.
LEMMA OpenedStages ==
  ASSUME Base, NEW t, Opened(t), NEW p \in Party
  PROVE  /\ stage[p] \in 4..7
         /\ \A id \in DOMAIN live[p] : id \in Id /\ Fits(stage[p], p, id) /\ id[1] # "evaluation"
         /\ \A x \in Item : Majority(x) \in DOMAIN live[p] => stage[p] = 6 /\ x \in Wire
         /\ \A x \in Item : Reconstruction(x) \in DOMAIN live[p] => stage[p] = 5 /\ x \in Wire
         /\ \A x \in Wire : /\ stage[p] # 6 => HeardBy(p, Majority(x)) = {}
                            /\ stage[p] # 5 => HeardBy(p, Reconstruction(x)) = {}
<1>1. stage[p] \in 0..7 /\ stage[p] >= 4 /\ \A id \in DOMAIN live[p] : id[1] # "evaluation"
  BY DEF Base, State, Opened, Done
<1>2. \A id \in DOMAIN live[p] : id \in Id /\ Fits(stage[p], p, id)
  BY DEF Base, State, Running
<1>3. ASSUME NEW x \in Item
      PROVE  /\ Majority(x) \in Id /\ Majority(x)[1] = "majority" /\ Majority(x)[2] = x
             /\ Reconstruction(x) \in Id /\ Reconstruction(x)[1] = "reconstruct" /\ Reconstruction(x)[2] = x
  BY PartiesAreNumbers, ProtocolNames
<1>4. ASSUME NEW x \in Item
      PROVE  /\ Majority(x) \in DOMAIN live[p] => stage[p] = 6 /\ x \in Wire
             /\ Reconstruction(x) \in DOMAIN live[p] => stage[p] = 5 /\ x \in Wire
  <2>1. ASSUME Majority(x) \in DOMAIN live[p]
        PROVE  stage[p] = 6 /\ x \in Wire
    <3>1. \/ stage[p] = 2 /\ Majority(x)[2] = RandomNumber
          \/ stage[p] = 6 /\ Majority(x)[2] \in Wire
      BY <1>1, <1>2, <1>3, <2>1, FittingNames
    <3> QED BY <1>1, <1>3, <3>1
  <2>2. ASSUME Reconstruction(x) \in DOMAIN live[p]
        PROVE  stage[p] = 5 /\ x \in Wire
    <3>1. \/ stage[p] = 1 /\ Reconstruction(x)[2] = RandomNumber
          \/ stage[p] = 5 /\ Reconstruction(x)[2] \in Wire
      BY <1>1, <1>2, <1>3, <2>2, FittingNames
    <3> QED BY <1>1, <1>3, <3>1
  <2> QED BY <2>1, <2>2
<1>5. \A x \in Wire : x \in Item
  BY DEF Item
<1>6. stage[p] \in 4..7
  BY <1>1
<1> QED BY <1>1, <1>2, <1>4, <1>5, <1>6, Hearing DEF Base

\* When nothing is left to do in a tick, the parties have left the stages that end in it.
LEMMA OpenedDue ==
  ASSUME Base, NEW t \in Nat, Opened(t), loopbacks = <<>>,
         NEW u \in Nat, clock <= u, \A k \in Range(network) : k.at >= u
  PROVE  \A p \in Party :
           /\ stage[p] = 4 => u = t /\ ~Left(p)
           /\ \A x \in Wire : p \in Holders(x) =>
                /\ stage[p] = 5 => u <= t + 1
                /\ u > t + 1 => stage[p] \in {6, 7}
<1>0. clock \in Nat /\ Running /\ State
  BY DEF Base, Queues
<1>1. ASSUME NEW p \in Party, stage[p] = 4
      PROVE  u = t /\ ~Left(p)
  <2>1. clock = t /\ ~Left(p)
    BY <1>1 DEF Opened, Leaving
  <2>2. Barrier \in DOMAIN live[p]
    BY <1>1, <2>1 DEF Left
  <2>3. live[p][Barrier].heard # Party /\ HeardBy(p, Barrier) = live[p][Barrier].heard
        /\ HeardBy(p, Barrier) \subseteq Party
    BY <1>0, <2>2, Hearing DEF Running, Awaited
  <2>4. PICK r \in Party : r \notin HeardBy(p, Barrier)
    BY <2>3
  <2>5. Told(r, p, Barrier, t)
    BY <2>1, <2>4 DEF Opened, Leaving
  <2>6. u <= t
    BY <2>5 DEF Told
  <2> QED BY <1>0, <2>1, <2>6
<1>2. ASSUME NEW p \in Party, NEW x \in Wire, p \in Holders(x), stage[p] = 5
      PROVE  u <= t + 1
  <2>1. DOMAIN live[p] # {}
    BY <1>2 DEF Opened, Opening
  <2>2. PICK id \in DOMAIN live[p] : TRUE
    BY <2>1
  <2>3. id \in Id /\ Fits(5, p, id)
    BY <1>2, <2>2, OpenedStages
  <2>4. id[1] = "reconstruct" /\ id[2] \in Wire /\ p \in Holders(id[2]) /\ id = Reconstruction(id[2])
    BY <2>3, FittingNames, NamesOfProtocols
  <2> DEFINE y == id[2]
  <2>5. live[p][id].heard # Holders(y) /\ HeardBy(p, id) = live[p][id].heard
    <3>1. id # Barrier
      BY <2>4, ProtocolNames
    <3> QED BY <1>0, <2>2, <2>4, <3>1, Hearing DEF Running, Awaited
  <2>6. HeardBy(p, Reconstruction(y)) \subseteq Holders(y)
    BY <2>4 DEF Opened, Opening
  <2>7. PICK h \in Holders(y) : h \notin HeardBy(p, Reconstruction(y))
    BY <2>4, <2>5, <2>6
  <2>8. stage[h] = 4 \/ Told(h, p, Reconstruction(y), t + 1)
    <3>1. Reconstruction(y) \in DOMAIN live[p]
      BY <2>2, <2>4
    <3> QED BY <2>4, <2>7, <3>1 DEF Opened, Opening
  <2>9. CASE stage[h] = 4
    <3>1. h \in Party
      BY <1>0, <2>4, QuorumsOfTheGates DEF Item
    <3> QED BY <1>1, <2>9, <3>1
  <2>10. CASE Told(h, p, Reconstruction(y), t + 1)
    BY <2>10 DEF Told
  <2> QED BY <2>8, <2>9, <2>10
<1>3. ASSUME NEW p \in Party, NEW x \in Wire, p \in Holders(x), u > t + 1
      PROVE  stage[p] \in {6, 7}
  <2>1. stage[p] \in 4..7
    BY OpenedStages
  <2>2. stage[p] # 4
    BY <1>1, <1>3
  <2>3. stage[p] # 5
    BY <1>2, <1>3
  <2> QED BY <2>1, <2>2, <2>3
<1> QED BY <1>1, <1>2, <1>3

\* What the handler of a message does to the invariants after the barrier.
HandlesOpened(m, t) ==
  /\ Base /\ t \in Nat /\ Opened(t) /\ m \in Range(network) /\ Handles(m)

\* What is needed of it.
LEMMA HandledAfterTheBarrier ==
  ASSUME NEW m, NEW t, HandlesOpened(m, t)
  PROVE  /\ Base' /\ Handled(m) /\ Touched(m.to, m.body.id) /\ loopbacks = <<>>
         /\ m.to \in Party /\ m.from \in Party /\ m.body.id \in Id /\ m.body.id \in DOMAIN live[m.to]
         /\ stage[m.to] \in 4..7 /\ Fits(stage[m.to], m.to, m.body.id)
         /\ m.body.id[1] # "evaluation"
         /\ stage' = stage /\ quorums' = quorums /\ clock' = m.at /\ m.at \in Nat /\ clock <= m.at
         /\ \A k \in Range(network) : k.at >= m.at
         /\ Range(loopbacks') \subseteq {[to |-> m.to, id |-> Parent(m.body.id)]}
         /\ \A q \in Party : DOMAIN live'[q] \subseteq DOMAIN live[q]
         /\ \A q \in Party : known[q] \subseteq known'[q]
         /\ \A q \in Party : Done(q)'
<1>1. Base /\ t \in Nat /\ Opened(t) /\ m \in Range(network) /\ Handles(m)
  BY DEF HandlesOpened
<1>2. /\ Handled(m) /\ m.body.id \in DOMAIN live[m.to] /\ loopbacks = <<>>
      /\ stage' = stage /\ quorums' = quorums /\ clock' = m.at
      /\ \A k \in Range(network) : k.at >= m.at
  BY <1>1 DEF Handles, Handled
<1>3. m.to \in Party /\ m.from \in Party /\ m.body.id \in Id /\ m.at \in Nat
  BY <1>1, OnTheWay DEF Base
<1>4. /\ stage[m.to] \in 4..7 /\ Fits(stage[m.to], m.to, m.body.id)
      /\ m.body.id[1] # "evaluation"
  BY <1>1, <1>2, <1>3, OpenedStages
<1>5. clock <= m.at
  BY <1>1, <1>2 DEF Handled, Base, Queues
<1>6. /\ Range(loopbacks') \subseteq {[to |-> m.to, id |-> Parent(m.body.id)]}
      /\ \A q \in Party : DOMAIN live'[q] \subseteq DOMAIN live[q]
      /\ \A q \in Party : known[q] \subseteq known'[q]
      /\ Touched(m.to, m.body.id)
  BY <1>1, HandlesKeeps DEF Base
<1>7. Base' /\ \A q \in Party : Done(q)'
  BY <1>1, HandlesBase DEF Opened
<1> QED BY <1>2, <1>3, <1>4, <1>5, <1>6, <1>7

\* A completion that is reported to the root.
LEMMA ReportsToRoot ==
  ASSUME NEW p \in Party, NEW id, Completed(p, id), Parent(id) = Root,
         \A c \in DOMAIN live'[p] : Parent(c) # Root
  PROVE  loopbacks' = <<[to |-> p, id |-> Root]>>
BY DEF Completed

\* Those who are at the barrier leave it in the tick in which the first has left it.
LEMMA HandlesLeaving ==
  ASSUME NEW m, NEW t, HandlesOpened(m, t)
  PROVE  Leaving(t)'
<1> DEFINE p == m.to
           id == m.body.id
<1>0. Base /\ t \in Nat /\ Opened(t) /\ m \in Range(network) /\ Handles(m)
  BY DEF HandlesOpened
<1>1. /\ Base' /\ Handled(m) /\ Touched(p, id) /\ loopbacks = <<>>
      /\ p \in Party /\ m.from \in Party /\ id \in Id /\ id \in DOMAIN live[p]
      /\ stage' = stage /\ quorums' = quorums /\ clock' = m.at /\ m.at \in Nat /\ clock <= m.at
      /\ \A k \in Range(network) : k.at >= m.at
      /\ \A q \in Party : DOMAIN live'[q] \subseteq DOMAIN live[q]
      /\ \A q \in Party : Done(q)'
  BY HandledAfterTheBarrier
<1>2. \A q \in Party : stage[q] = 4 => m.at = t /\ ~Left(q) /\ Barrier \in DOMAIN live[q]
  BY <1>0, <1>1, OpenedDue DEF Left
<1>3. ASSUME NEW q \in Party, stage[q] = 4, NEW r \in Party, ~Left(q)'
      PROVE  r \in HeardBy(q, Barrier)' \/ Told(r, q, Barrier, t)'
  <2>1. Barrier \in DOMAIN live'[q] /\ ~Left(q)
    BY <1>1, <1>2, <1>3 DEF Left, Barrier
  <2>2. r \in HeardBy(q, Barrier) \/ Told(r, q, Barrier, t)
    BY <1>0, <1>3, <2>1 DEF Opened, Leaving
  <2>3. CASE q = p /\ id = Barrier
    <3>1. Hears(m)
      <4>1. Barrier[1] = "barrier"
        BY ProtocolNames
      <4>2. ~Completed(p, id)
        BY <2>1, <2>3 DEF Completed
      <4> QED BY <1>0, <2>3, <4>1, <4>2 DEF Handles
    <3>2. HeardBy(q, Barrier)' = HeardBy(q, Barrier) \union {m.from}
      BY <2>1, <2>3, <3>1 DEF Hears, HeardBy, Barrier
    <3> QED BY <1>1, <2>2, <3>2, StillTold
  <2>4. CASE ~(q = p /\ id = Barrier)
    <3>1. HeardBy(q, Barrier)' = HeardBy(q, Barrier)
      BY <1>1, <2>4, ProtocolNames DEF Touched
    <3>2. Told(r, q, Barrier, t) => Told(r, q, Barrier, t)'
      <4>1. m.body = Value(Barrier) => id = Barrier
        BY DEF Value
      <4> QED BY <1>1, <2>4, <4>1, StillTold
    <3> QED BY <2>2, <3>1, <3>2
  <2> QED BY <2>3, <2>4
<1>4. ASSUME NEW q \in Party, stage[q] = 4, Left(q)'
      PROVE  loopbacks' = <<[to |-> q, id |-> Root]>>
  <2>1. Barrier \in DOMAIN live[q] /\ Barrier \notin DOMAIN live'[q]
    BY <1>1, <1>2, <1>4 DEF Left, Barrier
  <2>2. q = p /\ id = Barrier
    BY <1>1, <2>1, ProtocolNames DEF Touched
  <2>3. Completed(p, id)
    <3>1. ~Adjusted(p, id)
      BY <2>1, <2>2 DEF Adjusted
    <3> QED BY <1>0, <3>1 DEF Handles, Hears
  <2>4. \A c \in DOMAIN live'[p] : FALSE
    <3>1. ASSUME NEW c \in DOMAIN live'[p] PROVE FALSE
      <4>1. c \in DOMAIN live[p] /\ c # Barrier
        BY <1>1, <2>1, <2>2, <3>1
      <4>2. c \in Id /\ Fits(4, p, c) /\ c[1] # "evaluation"
        BY <1>0, <1>1, <1>4, <2>2, <4>1, OpenedStages
      <4> QED BY <1>1, <4>1, <4>2, FittingNames
    <3> QED BY <3>1
  <2>5. Parent(Barrier) = Root
    BY ProtocolNames, ParentOf
  <2> QED BY <1>1, <2>2, <2>3, <2>4, <2>5, ReportsToRoot
<1>5. \A q \in Party : ~Left(q)' => stage[q] = 4
  <2>1. \A q \in Party : stage[q] \in 4..7
    BY <1>0, OpenedStages
  <2> QED BY <1>1, <2>1 DEF Left
<1>6. \A q \in Party : stage'[q] = 4 => clock' = t
  BY <1>1, <1>2
<1> QED BY <1>1, <1>3, <1>4, <1>5, <1>6 DEF Leaving, Root, Barrier

\* The outputs are reconstructed a tick later.
LEMMA HandlesOpening ==
  ASSUME NEW m, NEW t, HandlesOpened(m, t)
  PROVE  Opening(t)'
<1> DEFINE p == m.to
           id == m.body.id
<1>0. Base /\ t \in Nat /\ Opened(t) /\ m \in Range(network) /\ Handles(m) /\ Opening(t)
  BY DEF HandlesOpened, Opened
<1>1. /\ Base' /\ Handled(m) /\ Touched(p, id) /\ loopbacks = <<>>
      /\ p \in Party /\ m.from \in Party /\ id \in Id /\ id \in DOMAIN live[p]
      /\ stage[p] \in 4..7 /\ Fits(stage[p], p, id)
      /\ stage' = stage /\ quorums' = quorums /\ clock' = m.at /\ m.at \in Nat /\ clock <= m.at
      /\ \A k \in Range(network) : k.at >= m.at
      /\ Range(loopbacks') \subseteq {[to |-> p, id |-> Parent(id)]}
      /\ \A q \in Party : DOMAIN live'[q] \subseteq DOMAIN live[q]
      /\ \A q \in Party : known[q] \subseteq known'[q]
  BY HandledAfterTheBarrier
<1>2. \A q \in Party, x \in Wire : q \in Holders(x) /\ stage[q] = 5 => m.at <= t + 1
  BY <1>0, <1>1, OpenedDue
<1>3. /\ \A x : Holders(x)' = Holders(x)
      /\ \A x \in Wire : Holders(x) \subseteq Party /\ x \in Item /\ x \in Nat
  BY <1>0, <1>1, FitsUnchanged, QuorumsOfTheGates, PartiesAreNumbers DEF Item, Base
<1>4. ASSUME id[1] = "reconstruct"
      PROVE  /\ m.body = Value(id) /\ id = Reconstruction(id[2]) /\ id[2] \in Wire
             /\ stage[p] = 5 /\ m.at = t + 1 /\ m.from \in Holders(id[2])
             /\ Range(network') \subseteq Range(network)
             /\ \/ Hears(m)
                \/ Completed(p, id) /\ known' = [known EXCEPT ![p] = @ \union {id[2]}]
  <2>1. id # Barrier /\ id = Reconstruction(id[2])
    BY <1>1, <1>4, NamesOfProtocols, ProtocolNames
  <2>2. stage[p] = 5 /\ id[2] \in Wire
    BY <1>1, <1>4, FittingNames
  <2>3. /\ m.body.type = "value" /\ Range(network') \subseteq Range(network)
        /\ \/ Hears(m)
           \/ Completed(p, id) /\ known' = [known EXCEPT ![p] = @ \union {id[2]}]
    BY <1>0, <1>4, <2>1 DEF Handles, Learnt
  <2>4. m.body = Value(id)
    BY <1>0, <2>3, OnTheWay DEF Base
  <2>5. m.at = t + 1 /\ m.from \in Holders(id[2])
    BY <1>0, <1>4, <2>2 DEF Opening, IsWire
  <2> QED BY <2>1, <2>2, <2>3, <2>4, <2>5
<1>5. \A k \in Range(network') : IsWire(k, "reconstruct") => k \in Range(network)
  <2>1. ASSUME NEW k \in Range(network'), k \notin Range(network)
        PROVE  k.body.id[1] # "reconstruct"
    <3>1. k.body.id = id
      BY <1>1, <2>1 DEF Handled, NextRound, Letter
    <3> QED BY <1>4, <2>1, <3>1
  <2> QED BY <2>1 DEF IsWire
<1>6. ASSUME NEW q \in Party, stage[q] = 5, [to |-> q, id |-> Root] \in Range(loopbacks')
      PROVE  m.at = t + 1
  <2>1. q = p
    BY <1>1, <1>6
  <2>2. id[1] = "reconstruct"
    BY <1>1, <1>6, <2>1, FittingNames
  <2> QED BY <1>4, <2>2
<1>7. ASSUME NEW q \in Party, NEW x \in Wire, q \in Holders(x), stage[q] = 5
      PROVE  /\ m.at <= t + 1
             /\ Reconstruction(x) \in DOMAIN live'[q] \/ x \in known'[q]
             /\ DOMAIN live'[q] = {} => loopbacks' = <<[to |-> q, id |-> Root]>>
  <2>1. Reconstruction(x) \in DOMAIN live[q] \/ x \in known[q]
    BY <1>0, <1>7 DEF Opening
  <2>2. DOMAIN live[q] # {}
    BY <1>0, <1>1, <1>7 DEF Opening
  <2>3. Reconstruction(x) \in Id /\ Reconstruction(x)[1] = "reconstruct" /\ Reconstruction(x)[2] = x
    BY <1>3, ProtocolNames
  <2>4. Reconstruction(x) \in DOMAIN live'[q] \/ x \in known'[q]
    <3>1. CASE Reconstruction(x) \in DOMAIN live[q] /\ Reconstruction(x) \notin DOMAIN live'[q]
      <4>1. q = p /\ id = Reconstruction(x)
        BY <1>1, <2>3, <3>1 DEF Touched
      <4>2. ~Hears(m)
        BY <3>1, <4>1 DEF Hears, Adjusted
      <4>3. known' = [known EXCEPT ![p] = @ \union {x}] /\ known \in [Party -> SUBSET Item]
        BY <1>0, <1>4, <2>3, <4>1, <4>2 DEF Base, State
      <4> QED BY <1>1, <4>1, <4>3
    <3> QED BY <1>1, <2>1, <3>1
  <2>5. ASSUME DOMAIN live'[q] = {}
        PROVE  loopbacks' = <<[to |-> q, id |-> Root]>>
    <3>1. PICK c \in DOMAIN live[q] : c \notin DOMAIN live'[q]
      BY <2>2, <2>5
    <3>2. c \in Id
      BY <1>0, <3>1 DEF Base, State
    <3>3. q = p /\ id = c
      BY <1>1, <3>1, <3>2 DEF Touched
    <3>4. id[1] = "reconstruct"
      BY <1>1, <1>7, <3>3, FittingNames
    <3>5. Completed(p, id)
      BY <1>4, <3>1, <3>3, <3>4 DEF Hears, Adjusted
    <3>6. Parent(id) = Root
      BY <1>1, <3>4, ParentOf
    <3> QED BY <1>1, <2>5, <3>3, <3>5, <3>6, ReportsToRoot
  <2> QED BY <1>2, <1>7, <2>4, <2>5
<1>8. ASSUME NEW q \in Party, NEW x \in Wire, q \in Holders(x)
      PROVE  /\ HeardBy(q, Reconstruction(x))' \subseteq Holders(x)
             /\ stage[q] = 4 \/ Reconstruction(x) \in DOMAIN live'[q] =>
                  \A h \in Holders(x) :
                    \/ h \in HeardBy(q, Reconstruction(x))'
                    \/ stage[h] = 4
                    \/ Told(h, q, Reconstruction(x), t + 1)'
  <2>1. Reconstruction(x) \in Id /\ Reconstruction(x)[1] = "reconstruct" /\ Reconstruction(x)[2] = x
    BY <1>3, ProtocolNames
  <2>2. /\ HeardBy(q, Reconstruction(x)) \subseteq Holders(x)
        /\ stage[q] = 4 \/ Reconstruction(x) \in DOMAIN live[q] =>
             \A h \in Holders(x) :
               \/ h \in HeardBy(q, Reconstruction(x))
               \/ stage[h] = 4
               \/ Told(h, q, Reconstruction(x), t + 1)
    BY <1>0, <1>8 DEF Opening
  <2>3. CASE q = p /\ id = Reconstruction(x)
    <3>1. stage[q] = 5 /\ m.from \in Holders(x)
      BY <1>4, <2>1, <2>3
    <3>2. HeardBy(q, Reconstruction(x))' \subseteq Holders(x)
      <4>1. CASE Hears(m)
        BY <2>2, <2>3, <3>1, <4>1 DEF Hears, HeardBy, Reconstruction
      <4>2. CASE Completed(p, id)
        BY <2>3, <4>2 DEF Completed, HeardBy, Reconstruction
      <4> QED BY <1>4, <2>1, <2>3, <4>1, <4>2
    <3>3. ASSUME Reconstruction(x) \in DOMAIN live'[q], NEW h \in Holders(x)
          PROVE  \/ h \in HeardBy(q, Reconstruction(x))'
                 \/ stage[h] = 4
                 \/ Told(h, q, Reconstruction(x), t + 1)'
      <4>1. Hears(m)
        BY <1>4, <2>1, <2>3, <3>3 DEF Completed
      <4>2. HeardBy(q, Reconstruction(x))' = HeardBy(q, Reconstruction(x)) \union {m.from}
        BY <2>3, <3>3, <4>1 DEF Hears, HeardBy, Reconstruction
      <4>3. \/ h \in HeardBy(q, Reconstruction(x))
            \/ stage[h] = 4
            \/ Told(h, q, Reconstruction(x), t + 1)
        BY <1>1, <2>2, <2>3, <3>3
      <4> QED BY <1>1, <4>2, <4>3, StillTold
    <3> QED BY <3>1, <3>2, <3>3
  <2>4. CASE ~(q = p /\ id = Reconstruction(x))
    <3>1. /\ HeardBy(q, Reconstruction(x))' = HeardBy(q, Reconstruction(x))
          /\ Reconstruction(x) \in DOMAIN live'[q] <=> Reconstruction(x) \in DOMAIN live[q]
      BY <1>1, <2>1, <2>4 DEF Touched
    <3>2. ASSUME NEW h, Told(h, q, Reconstruction(x), t + 1)
          PROVE  Told(h, q, Reconstruction(x), t + 1)'
      <4>1. m.body = Value(Reconstruction(x)) => id = Reconstruction(x)
        BY DEF Value
      <4> QED BY <1>1, <2>4, <3>2, <4>1, StillTold
    <3> QED BY <2>2, <3>1, <3>2
  <2> QED BY <2>3, <2>4
<1>9. \A k \in Range(network') : IsWire(k, "reconstruct") => k.at = t + 1 /\ k.from \in Holders(k.body.id[2])
  BY <1>0, <1>5 DEF Opening
<1>10. \A k : IsWire(k, "reconstruct")' <=> IsWire(k, "reconstruct")
  BY DEF IsWire, Wire
<1> HIDE DEF p, id
<1> QED BY <1>1, <1>3, <1>6, <1>7, <1>8, <1>9, <1>10 DEF Opening, Wire, Root, Reconstruction

\* Those who know an output tell the others in the tick after, and these decide yet a tick
\* later: they have then heard of everybody who knows it.
LEMMA HandlesTelling ==
  ASSUME NEW m, NEW t, HandlesOpened(m, t)
  PROVE  Telling(t)'
<1> DEFINE p == m.to
           id == m.body.id
<1>0. Base /\ t \in Nat /\ Opened(t) /\ m \in Range(network) /\ Handles(m) /\ Telling(t)
  BY DEF HandlesOpened, Opened
<1>1. /\ Base' /\ Handled(m) /\ Touched(p, id) /\ loopbacks = <<>>
      /\ p \in Party /\ m.from \in Party /\ id \in Id /\ id \in DOMAIN live[p]
      /\ stage[p] \in 4..7 /\ Fits(stage[p], p, id)
      /\ stage' = stage /\ quorums' = quorums /\ clock' = m.at /\ m.at \in Nat /\ clock <= m.at
      /\ \A k \in Range(network) : k.at >= m.at
      /\ \A q \in Party : DOMAIN live'[q] \subseteq DOMAIN live[q]
      /\ \A q \in Party : known[q] \subseteq known'[q]
  BY HandledAfterTheBarrier
<1>2. \A q \in Party, x \in Wire : q \in Holders(x) /\ m.at > t + 1 => stage[q] \in {6, 7}
  BY <1>0, <1>1, OpenedDue
<1>3. /\ \A x : Holders(x)' = Holders(x)
      /\ \A x \in Wire : Holders(x) \subseteq Party /\ x \in Item /\ x \in Nat
  BY <1>0, <1>1, FitsUnchanged, QuorumsOfTheGates, PartiesAreNumbers DEF Item, Base
<1>4. ASSUME id[1] = "majority"
      PROVE  /\ id = Majority(id[2]) /\ id[2] \in Wire /\ stage[p] = 6 /\ p \notin Holders(id[2])
             /\ \/ /\ Hears(m) /\ m.body = Value(id) /\ m.at = t + 2 /\ m.from \in Holders(id[2])
                \/ /\ Completed(p, id) /\ m.body.type = "nextRound" /\ m.at = t + 3
                   /\ Holders(id[2]) # {} /\ Range(network') \subseteq Range(network)
                   /\ known' = IF Decides(Cardinality(HeardBy(p, id)), id[2])
                                 THEN [known EXCEPT ![p] = @ \union {id[2]}] ELSE known
  <2>1. id # Barrier /\ id = Majority(id[2])
    BY <1>1, <1>4, NamesOfProtocols, ProtocolNames
  <2>2. stage[p] = 6 /\ id[2] \in Wire
    BY <1>1, <1>4, FittingNames
  <2>3. \/ Hears(m) /\ m.body.type = "value"
        \/ /\ Completed(p, id) /\ m.body.type = "nextRound" /\ Range(network') \subseteq Range(network)
           /\ known' = IF Decides(Cardinality(HeardBy(p, id)), id[2])
                         THEN [known EXCEPT ![p] = @ \union {id[2]}] ELSE known
    BY <1>0, <1>4, <2>1 DEF Handles, Learnt
  <2>4. m.body.type = "value" => m.body = Value(id)
    BY <1>0, OnTheWay DEF Base
  <2>5. /\ p \notin Holders(id[2])
        /\ IF m.body.type = "value" THEN m.at = t + 2 /\ m.from \in Holders(id[2])
           ELSE m.at = t + 3 /\ Holders(id[2]) # {}
    BY <1>0, <1>4, <2>2 DEF Telling, IsWire
  <2> QED BY <2>1, <2>2, <2>3, <2>4, <2>5
<1>5. ASSUME NEW k \in Range(network'), IsWire(k, "majority")
      PROVE  /\ k.to \notin Holders(k.body.id[2])
             /\ IF k.body.type = "value" THEN k.at = t + 2 /\ k.from \in Holders(k.body.id[2])
                ELSE k.at = t + 3 /\ Holders(k.body.id[2]) # {}
  <2>1. CASE k \in Range(network)
    BY <1>0, <1>5, <2>1 DEF Telling
  <2>2. CASE k \notin Range(network)
    <3>1. k = NextRound(m.at, p, id)
      BY <1>1, <1>5, <2>2 DEF Handled
    <3>2. k.at = m.at + 1 /\ k.to = p /\ k.body.id = id /\ k.body.type = "nextRound"
      BY <3>1 DEF NextRound, Letter
    <3>3. id[1] = "majority"
      BY <1>5, <3>2 DEF IsWire
    <3>4. m.at = t + 2 /\ m.from \in Holders(id[2]) /\ p \notin Holders(id[2])
      BY <1>4, <1>5, <2>2, <3>3
    <3>5. (t + 2) + 1 = t + 3
      BY <1>0
    <3> QED BY <3>2, <3>4, <3>5
  <2> QED BY <2>1, <2>2
<1>6. ASSUME NEW x \in Wire, id = Majority(x), Completed(p, id)
      PROVE  x \in known'[p]
  <2>1. id[1] = "majority" /\ id[2] = x
    BY <1>3, <1>6, ProtocolNames
  <2>2. ~Hears(m)
    BY <1>1, <1>6 DEF Hears, Adjusted, Completed
  <2>3. /\ m.at = t + 3 /\ Holders(x) # {} /\ p \notin Holders(x)
        /\ known' = IF Decides(Cardinality(HeardBy(p, id)), x)
                      THEN [known EXCEPT ![p] = @ \union {x}] ELSE known
    BY <1>4, <2>1, <2>2
  <2>4. HeardBy(p, Majority(x)) \subseteq Holders(x)
    BY <1>0, <1>1 DEF Telling
  <2>5. ASSUME NEW h \in Holders(x)
        PROVE  h \in HeardBy(p, Majority(x))
    <3>1. \/ h \in HeardBy(p, Majority(x))
          \/ stage[h] <= 5
          \/ Told(h, p, Majority(x), t + 2)
      BY <1>0, <1>1, <1>6, <2>3 DEF Telling
    <3>2. t + 3 > t + 1 /\ ~(t + 2 >= t + 3)
      BY <1>0
    <3>3. stage[h] \in {6, 7}
      BY <1>2, <1>3, <2>3, <3>2
    <3>4. ~Told(h, p, Majority(x), t + 2)
      BY <1>1, <2>3, <3>2 DEF Told
    <3> QED BY <3>1, <3>3, <3>4
  <2>6. HeardBy(p, id) = Holders(x)
    BY <1>6, <2>4, <2>5
  <2>7. Cardinality(Holders(x)) \in Nat /\ Cardinality(Holders(x)) # 0
    BY <1>3, <2>3, SomeParties, FS_EmptySet
  <2>8. Decides(Cardinality(HeardBy(p, id)), x)
    BY <2>6, <2>7 DEF Decides
  <2>9. known \in [Party -> SUBSET Item]
    BY <1>0 DEF Base, State
  <2> QED BY <1>1, <2>3, <2>8, <2>9
<1>7. ASSUME NEW q \in Party, NEW x \in Wire
      PROVE  /\ stage[q] = 6 => Majority(x) \in DOMAIN live'[q] \/ x \in known'[q]
             /\ stage[q] = 7 => x \in known'[q]
             /\ stage[q] = 6 /\ q \in Holders(x) => x \in known'[q]
  <2>1. /\ stage[q] = 6 => Majority(x) \in DOMAIN live[q] \/ x \in known[q]
        /\ stage[q] = 7 => x \in known[q]
        /\ stage[q] = 6 /\ q \in Holders(x) => x \in known[q]
    BY <1>0 DEF Telling
  <2>2. CASE Majority(x) \in DOMAIN live[q] /\ Majority(x) \notin DOMAIN live'[q]
    <3>1. Majority(x) \in Id
      BY <1>3, ProtocolNames
    <3>2. q = p /\ id = Majority(x)
      BY <1>1, <2>2, <3>1 DEF Touched
    <3>3. Completed(p, id)
      BY <1>0, <2>2, <3>2 DEF Handles, Hears, Adjusted
    <3> QED BY <1>1, <1>6, <2>1, <3>2, <3>3
  <2> QED BY <1>1, <2>1, <2>2
<1>8. ASSUME NEW q \in Party, NEW x \in Wire
      PROVE  /\ HeardBy(q, Majority(x))' \subseteq Holders(x)
             /\ q \notin Holders(x) /\ (stage[q] <= 5 \/ Majority(x) \in DOMAIN live'[q]) =>
                  \A h \in Holders(x) :
                    \/ h \in HeardBy(q, Majority(x))'
                    \/ stage[h] <= 5
                    \/ Told(h, q, Majority(x), t + 2)'
  <2>1. Majority(x) \in Id /\ Majority(x)[1] = "majority" /\ Majority(x)[2] = x
    BY <1>3, ProtocolNames
  <2>2. /\ HeardBy(q, Majority(x)) \subseteq Holders(x)
        /\ q \notin Holders(x) /\ (stage[q] <= 5 \/ Majority(x) \in DOMAIN live[q]) =>
             \A h \in Holders(x) :
               \/ h \in HeardBy(q, Majority(x))
               \/ stage[h] <= 5
               \/ Told(h, q, Majority(x), t + 2)
    BY <1>0 DEF Telling
  <2>3. CASE q = p /\ id = Majority(x)
    <3>1. stage[q] = 6
      BY <1>4, <2>1, <2>3
    <3>2. HeardBy(q, Majority(x))' \subseteq Holders(x)
      <4>1. CASE Hears(m)
        <5>1. m.from \in Holders(x)
          BY <1>1, <1>4, <2>1, <2>3, <4>1 DEF Hears, Adjusted, Completed
        <5> QED BY <2>2, <2>3, <4>1, <5>1 DEF Hears, HeardBy, Majority
      <4>2. CASE Completed(p, id)
        BY <2>3, <4>2 DEF Completed, HeardBy, Majority
      <4> QED BY <1>4, <2>1, <2>3, <4>1, <4>2
    <3>3. ASSUME Majority(x) \in DOMAIN live'[q], q \notin Holders(x), NEW h \in Holders(x)
          PROVE  \/ h \in HeardBy(q, Majority(x))'
                 \/ stage[h] <= 5
                 \/ Told(h, q, Majority(x), t + 2)'
      <4>1. Hears(m)
        BY <1>4, <2>1, <2>3, <3>3 DEF Completed
      <4>2. HeardBy(q, Majority(x))' = HeardBy(q, Majority(x)) \union {m.from}
        BY <2>3, <3>3, <4>1 DEF Hears, HeardBy, Majority
      <4>3. \/ h \in HeardBy(q, Majority(x))
            \/ stage[h] <= 5
            \/ Told(h, q, Majority(x), t + 2)
        BY <1>1, <2>2, <2>3, <3>3
      <4> QED BY <1>1, <4>2, <4>3, StillTold
    <3>4. ~(stage[q] <= 5)
      BY <3>1
    <3> QED BY <3>2, <3>3, <3>4
  <2>4. CASE ~(q = p /\ id = Majority(x))
    <3>1. /\ HeardBy(q, Majority(x))' = HeardBy(q, Majority(x))
          /\ Majority(x) \in DOMAIN live'[q] <=> Majority(x) \in DOMAIN live[q]
      BY <1>1, <2>1, <2>4 DEF Touched
    <3>2. ASSUME NEW h, Told(h, q, Majority(x), t + 2)
          PROVE  Told(h, q, Majority(x), t + 2)'
      <4>1. m.body = Value(Majority(x)) => id = Majority(x)
        BY DEF Value
      <4> QED BY <1>1, <2>4, <3>2, <4>1, StillTold
    <3> QED BY <2>2, <3>1, <3>2
  <2> QED BY <2>3, <2>4
<1>9. \A k : IsWire(k, "majority")' <=> IsWire(k, "majority")
  BY DEF IsWire, Wire
<1> HIDE DEF p, id
<1> QED BY <1>1, <1>3, <1>5, <1>7, <1>8, <1>9 DEF Telling, Wire, Majority

\* All of it is kept when a message is handled.
LEMMA HandlesAfterTheBarrier ==
  ASSUME NEW m, NEW t, HandlesOpened(m, t)
  PROVE  Opened(t)'
<1>1. Leaving(t)' /\ Opening(t)' /\ Telling(t)'
  BY HandlesLeaving, HandlesOpening, HandlesTelling
<1>2. /\ \A q \in Party : Done(q)'
      /\ Range(loopbacks') \subseteq {[to |-> m.to, id |-> Parent(m.body.id)]}
      /\ m.body.id \in Id /\ m.body.id[1] # "evaluation"
  BY HandledAfterTheBarrier
<1>3. Parent(m.body.id) # Barrier
  <2>1. /\ m.body.id[1] = "nop" => Parent(m.body.id) = Majority(m.body.id[2])
        /\ m.body.id[1] # "nop" => Parent(m.body.id) = Root
        /\ m.body.id[2] \in Nat
    BY <1>2, ParentOf, NamesOfProtocols
  <2> QED BY <2>1, ProtocolNames
<1>4. \A b \in Range(loopbacks') : b.id # Barrier
  BY <1>2, <1>3
<1> QED BY <1>1, <1>2, <1>4 DEF Opened, Barrier

\* A party that has sent its value and waited knows the value.
LEMMA NopJoinedOpened ==
  ASSUME Base, NEW t \in Nat, Opened(t), NopJoined
  PROVE  Opened(t)'
<1>1. PICK p \in Party, x \in Item :
        /\ Completed(p, Majority(x)) /\ x \in known[p] /\ Touched(p, Majority(x))
        /\ Range(loopbacks) = {[to |-> p, id |-> Majority(x)]}
        /\ stage[p] \in IF x = RandomNumber THEN {2} ELSE {6, 7}
        /\ UNCHANGED <<clock, network, program, quorums, end, started, stage, known>>
  BY NopJoinedBase
<1>2. ApartFromBarrier
  BY NopJoinedBase
<1>3. /\ stage[p] \in {6, 7} /\ x \in Wire /\ Majority(x) \in Id /\ Majority(x) # Root
      /\ Parent(Majority(x)) = Root
  <2>1. stage[p] \in 4..7
    BY OpenedStages
  <2>2. x # RandomNumber /\ x \in Nat
    BY <1>1, <2>1, PartiesAreNumbers
  <2> QED BY <1>1, <2>2, ProtocolNames, ParentOf DEF Item
<1>4. \A q : loopbacks # <<[to |-> q, id |-> Root]>>
  <2>1. ASSUME NEW q, loopbacks = <<[to |-> q, id |-> Root]>> PROVE FALSE
    <3>1. [to |-> q, id |-> Root] \in Range(loopbacks)
      BY <2>1 DEF Range
    <3> QED BY <1>1, <1>3, <3>1
  <2> QED BY <2>1
<1>5. Range(loopbacks') \subseteq {[to |-> p, id |-> Root]}
  BY <1>1, <1>3 DEF Completed, Range
<1>6. \A y, q, h, u : Told(h, q, y, u) => Told(h, q, y, u)'
  BY <1>1 DEF Told, Value
<1>7. \A y : Holders(y)' = Holders(y)
  BY <1>1, FitsUnchanged
<1>8. \A q \in Party : \A c \in Id : q # p \/ c # Majority(x) =>
        /\ c \in DOMAIN live'[q] <=> c \in DOMAIN live[q]
        /\ HeardBy(q, c)' = HeardBy(q, c)
  BY <1>1 DEF Touched
<1>9. /\ \A q \in Party : (Left(q)' <=> Left(q)) /\ HeardBy(q, Barrier)' = HeardBy(q, Barrier)
      /\ \A q \in Party : Done(q)'
  BY <1>2 DEF ApartFromBarrier, Opened
<1>10. Leaving(t)'
  BY <1>1, <1>4, <1>6, <1>9 DEF Opened, Leaving, Barrier, Root
<1>11. Opening(t)'
  <2>1. \A k : IsWire(k, "reconstruct")' <=> IsWire(k, "reconstruct")
    BY DEF IsWire, Wire
  <2>2. ASSUME NEW q \in Party, stage[q] = 5
        PROVE  [to |-> q, id |-> Root] \notin Range(loopbacks')
    BY <1>3, <1>5, <2>2
  <2>3. ASSUME NEW q \in Party, NEW y \in Wire
        PROVE  /\ Reconstruction(y) \in DOMAIN live'[q] <=> Reconstruction(y) \in DOMAIN live[q]
               /\ HeardBy(q, Reconstruction(y))' = HeardBy(q, Reconstruction(y))
    <3>1. Reconstruction(y) \in Id /\ Reconstruction(y) # Majority(x)
      <4>1. x \in Nat /\ y \in Nat
        BY <1>3, PartiesAreNumbers
      <4>2. Reconstruction(y) \in Id /\ Reconstruction(y)[1] = "reconstruct" /\ Majority(x)[1] = "majority"
        BY <4>1, ProtocolNames
      <4> QED BY <4>2
    <3> QED BY <1>8, <3>1
  <2>4. ASSUME NEW q \in Party, NEW y \in Wire, q \in Holders(y), stage[q] = 5
        PROVE  DOMAIN live'[q] # {} /\ clock <= t + 1 /\ (Reconstruction(y) \in DOMAIN live[q] \/ y \in known[q])
    <3>1. DOMAIN live[q] # {} /\ clock <= t + 1 /\ (Reconstruction(y) \in DOMAIN live[q] \/ y \in known[q])
      BY <1>4, <2>4 DEF Opened, Opening
    <3>2. live'[q] = live[q]
      BY <1>1, <1>3, <2>4 DEF Completed
    <3> QED BY <3>1, <3>2
  <2> QED BY <1>1, <1>6, <1>7, <2>1, <2>2, <2>3, <2>4 DEF Opened, Opening, Wire, Root, Reconstruction
<1>12. Telling(t)'
  <2>1. \A k : IsWire(k, "majority")' <=> IsWire(k, "majority")
    BY DEF IsWire, Wire
  <2>2. ASSUME NEW q \in Party, NEW y \in Wire
        PROVE  Majority(y) \in Id /\ (Majority(y) = Majority(x) => y = x)
    BY PartiesAreNumbers, ProtocolNames DEF Majority
  <2>3. ASSUME NEW q \in Party, NEW y \in Wire
        PROVE  /\ stage[q] = 6 => Majority(y) \in DOMAIN live'[q] \/ y \in known[q]
               /\ stage[q] = 7 => y \in known[q]
               /\ stage[q] = 6 /\ q \in Holders(y) => y \in known[q]
    BY <1>1, <1>8, <2>2 DEF Opened, Telling
  <2>4. ASSUME NEW q \in Party, NEW y \in Wire
        PROVE  /\ HeardBy(q, Majority(y))' \subseteq Holders(y)
               /\ q \notin Holders(y) /\ (stage[q] <= 5 \/ Majority(y) \in DOMAIN live'[q]) =>
                    \A h \in Holders(y) :
                      \/ h \in HeardBy(q, Majority(y))'
                      \/ stage[h] <= 5
                      \/ Told(h, q, Majority(y), t + 2)'
    <3>1. CASE q = p /\ Majority(y) = Majority(x)
      <4>1. Majority(y) \notin DOMAIN live'[q] /\ HeardBy(q, Majority(y))' = {}
        BY <1>1, <3>1 DEF Completed, HeardBy, Majority
      <4>2. ~(stage[q] <= 5)
        BY <1>3, <3>1
      <4> QED BY <4>1, <4>2
    <3>2. CASE ~(q = p /\ Majority(y) = Majority(x))
      <4>1. /\ Majority(y) \in DOMAIN live'[q] <=> Majority(y) \in DOMAIN live[q]
            /\ HeardBy(q, Majority(y))' = HeardBy(q, Majority(y))
        BY <1>8, <2>2, <3>2
      <4> QED BY <1>6, <4>1 DEF Opened, Telling
    <3> QED BY <3>1, <3>2
  <2> QED BY <1>1, <1>7, <2>1, <2>3, <2>4 DEF Opened, Telling, Wire, Majority
<1>13. \A b \in Range(loopbacks') : b.id # Barrier
  BY <1>5, ProtocolNames
<1> QED BY <1>9, <1>10, <1>11, <1>12, <1>13 DEF Opened, Barrier

\* Whoever completes the protocol knows the outputs.
LEMMA CollectResultsOpened ==
  ASSUME Base, NEW t \in Nat, Opened(t), NEW p \in Party, CollectResults(p)
  PROVE  Opened(t)'
<1>1. /\ ApartFromBarrier
      /\ Range(loopbacks) = {[to |-> p, id |-> Root]} /\ Range(loopbacks') = {}
      /\ \A id \in DOMAIN live[p] : Parent(id) # Root
      /\ stage[p] = 6 /\ stage' = [stage EXCEPT ![p] = 7]
      /\ UNCHANGED <<clock, network, program, quorums, end, started, live, known>>
  BY CollectResultsBase
<1>2. stage'[p] = 7 /\ \A q \in Party \ {p} : stage'[q] = stage[q]
  BY <1>1 DEF Base, State
<1>3. \A q \in Party : loopbacks = <<[to |-> q, id |-> Root]>> => q = p
  <2>1. ASSUME NEW q \in Party, loopbacks = <<[to |-> q, id |-> Root]>> PROVE q = p
    <3>1. [to |-> q, id |-> Root] \in Range(loopbacks)
      BY <2>1 DEF Range
    <3> QED BY <1>1, <3>1
  <2> QED BY <2>1
<1>4. \A y, q, h, u : Told(h, q, y, u) => Told(h, q, y, u)'
  BY <1>1 DEF Told, Value
<1>5. /\ \A y : Holders(y)' = Holders(y)
      /\ \A q, c : HeardBy(q, c)' = HeardBy(q, c)
      /\ \A k, s : IsWire(k, s)' <=> IsWire(k, s)
  BY <1>1, FitsUnchanged DEF HeardBy, IsWire, Wire
<1>6. /\ \A q \in Party : Left(q)' <=> Left(q)
      /\ \A q \in Party : Done(q)'
  BY <1>1 DEF ApartFromBarrier, Opened
<1>7. ASSUME NEW q \in Party, stage'[q] = 4 \/ stage'[q] = 5
      PROVE  q # p /\ stage[q] = stage'[q]
  BY <1>2, <1>7
<1>8. Leaving(t)'
  <2>1. \A q \in Party : stage'[q] = 4 => ~Left(q)
    BY <1>3, <1>7 DEF Opened, Leaving
  <2> QED BY <1>1, <1>4, <1>5, <1>6, <1>7, <2>1 DEF Opened, Leaving, Barrier, Root
<1>9. \A x \in Wire : \A h \in Holders(x) : h \in Party
  BY QuorumsOfTheGates DEF Base, Item
<1>10. Opening(t)'
  <2>1. ASSUME NEW q \in Party, NEW x \in Wire, q \in Holders(x), stage'[q] = 5
        PROVE  /\ DOMAIN live[q] # {} /\ clock <= t + 1
               /\ Reconstruction(x) \in DOMAIN live[q] \/ x \in known[q]
    BY <1>3, <1>7, <2>1 DEF Opened, Opening
  <2>2. ASSUME NEW q \in Party, NEW x \in Wire, q \in Holders(x)
        PROVE  /\ HeardBy(q, Reconstruction(x)) \subseteq Holders(x)
               /\ stage'[q] = 4 \/ Reconstruction(x) \in DOMAIN live[q] =>
                    \A h \in Holders(x) :
                      \/ h \in HeardBy(q, Reconstruction(x))
                      \/ stage'[h] = 4
                      \/ Told(h, q, Reconstruction(x), t + 1)
    <3>1. \A h \in Holders(x) : stage[h] = 4 => stage'[h] = 4
      BY <1>1, <1>2, <1>9
    <3>2. stage'[q] = 4 => stage[q] = 4
      BY <1>7
    <3>3. /\ HeardBy(q, Reconstruction(x)) \subseteq Holders(x)
          /\ stage[q] = 4 \/ Reconstruction(x) \in DOMAIN live[q] =>
               \A h \in Holders(x) :
                 \/ h \in HeardBy(q, Reconstruction(x))
                 \/ stage[h] = 4
                 \/ Told(h, q, Reconstruction(x), t + 1)
      BY <2>2 DEF Opened, Opening
    <3> QED BY <3>1, <3>2, <3>3
  <2>3. \A k \in Range(network) : IsWire(k, "reconstruct") => k.at = t + 1 /\ k.from \in Holders(k.body.id[2])
    BY DEF Opened, Opening
  <2> QED BY <1>1, <1>4, <1>5, <2>1, <2>2, <2>3 DEF Opening, Wire, Root, Reconstruction
<1>11. Telling(t)'
  <2>1. ASSUME NEW q \in Party, NEW x \in Wire
        PROVE  /\ stage'[q] = 6 => Majority(x) \in DOMAIN live[q] \/ x \in known[q]
               /\ stage'[q] = 7 => x \in known[q]
               /\ stage'[q] = 6 /\ q \in Holders(x) => x \in known[q]
    <3>1. CASE q = p
      <4>1. Parent(Majority(x)) = Root
        BY PartiesAreNumbers, ProtocolNames, ParentOf
      <4> QED BY <1>1, <1>2, <3>1, <4>1 DEF Opened, Telling
    <3>2. CASE q # p
      BY <1>2, <3>2 DEF Opened, Telling
    <3> QED BY <3>1, <3>2
  <2>2. ASSUME NEW q \in Party, NEW x \in Wire
        PROVE  /\ HeardBy(q, Majority(x)) \subseteq Holders(x)
               /\ q \notin Holders(x) /\ (stage'[q] <= 5 \/ Majority(x) \in DOMAIN live[q]) =>
                    \A h \in Holders(x) :
                      \/ h \in HeardBy(q, Majority(x))
                      \/ stage'[h] <= 5
                      \/ Told(h, q, Majority(x), t + 2)
    <3>1. \A h \in Party : stage'[h] <= 5 <=> stage[h] <= 5
      BY <1>1, <1>2
    <3> QED BY <1>9, <3>1 DEF Opened, Telling
  <2>3. \A k \in Range(network) : IsWire(k, "majority") =>
          /\ k.to \notin Holders(k.body.id[2])
          /\ IF k.body.type = "value" THEN k.at = t + 2 /\ k.from \in Holders(k.body.id[2])
             ELSE k.at = t + 3 /\ Holders(k.body.id[2]) # {}
    BY DEF Opened, Telling
  <2> QED BY <1>1, <1>4, <1>5, <2>1, <2>2, <2>3 DEF Telling, Wire, Majority
<1>12. \A b \in Range(loopbacks') : b.id # Barrier
  BY <1>1
<1> QED BY <1>6, <1>8, <1>10, <1>11, <1>12 DEF Opened, Barrier

\* A party that goes on when the barrier is left.
GoesOnOpened(p, s, ids, t) ==
  /\ Base /\ t \in Nat /\ Opened(t) /\ Ready(p, s, ids) /\ GoesOn(p, s, ids)
  /\ Range(loopbacks) = {[to |-> p, id |-> Root]}
  /\ \A id \in DOMAIN live[p] : Parent(id) # Root

\* What is known of it.
LEMMA GoingOnOpened ==
  ASSUME NEW p \in Party, NEW s, NEW ids, NEW t, GoesOnOpened(p, s, ids, t)
  PROVE  /\ Base' /\ ApartFromBarrier /\ Launched(p, ids)
         /\ stage'[p] = s /\ \A q \in Party \ {p} : stage'[q] = stage[q] /\ live'[q] = live[q]
         /\ clock' = clock /\ clock \in Nat /\ quorums' = quorums /\ known' = known
         /\ \A q \in Party : loopbacks = <<[to |-> q, id |-> Root]>> => q = p
         /\ \A q \in Party \ {p} : stage[q] = 4 => ~Left(q)
         /\ \A y, q, h, u : Told(h, q, y, u) => Told(h, q, y, u)'
         /\ \A y : Holders(y)' = Holders(y)
         /\ \A q \in Party \ {p} : \A c : HeardBy(q, c)' = HeardBy(q, c)
         /\ \A c : HeardBy(p, c)' = {}
         /\ \A q \in Party : Left(q)' <=> Left(q)
         /\ \A q \in Party : Done(q)'
<1>0. Base /\ t \in Nat /\ Opened(t) /\ Ready(p, s, ids) /\ GoesOn(p, s, ids)
      /\ Range(loopbacks) = {[to |-> p, id |-> Root]}
  BY DEF GoesOnOpened
<1>1. Base' /\ ApartFromBarrier
  BY <1>0, GoingOnBase
<1>2. /\ Launched(p, ids) /\ stage' = [stage EXCEPT ![p] = s] /\ stage \in [Party -> 0..7]
      /\ clock' = clock /\ quorums' = quorums /\ known' = known /\ clock \in Nat
  BY <1>0 DEF GoesOn, Base, State, Queues
<1>3. /\ stage'[p] = s /\ \A q \in Party \ {p} : stage'[q] = stage[q] /\ live'[q] = live[q]
      /\ Range(network) \subseteq Range(network')
      /\ \A id \in DOMAIN live'[p] : live'[p][id].heard = {}
  BY <1>2 DEF Launched
<1>4. \A q \in Party : loopbacks = <<[to |-> q, id |-> Root]>> => q = p
  <2>1. ASSUME NEW q \in Party, loopbacks = <<[to |-> q, id |-> Root]>> PROVE q = p
    <3>1. [to |-> q, id |-> Root] \in Range(loopbacks)
      BY <2>1 DEF Range
    <3> QED BY <1>0, <3>1
  <2> QED BY <2>1
<1>5. \A q \in Party \ {p} : stage[q] = 4 => ~Left(q)
  BY <1>0, <1>4 DEF Opened, Leaving
<1>6. \A y, q, h, u : Told(h, q, y, u) => Told(h, q, y, u)'
  BY <1>3 DEF Told, Value
<1>7. \A y : Holders(y)' = Holders(y)
  BY <1>2, FitsUnchanged
<1>8. /\ \A q \in Party \ {p} : \A c : HeardBy(q, c)' = HeardBy(q, c)
      /\ \A c : HeardBy(p, c)' = {}
  BY <1>3 DEF HeardBy
<1>9. /\ \A q \in Party : Left(q)' <=> Left(q)
      /\ \A q \in Party : Done(q)'
  BY <1>0, <1>1 DEF ApartFromBarrier, Opened
<1> QED BY <1>1, <1>2, <1>3, <1>4, <1>5, <1>6, <1>7, <1>8, <1>9

\* Whoever leaves the barrier has those who hold an output with it hear of its share.
LEMMA ReconstructOutputsOpened ==
  ASSUME NEW p \in Party, NEW t,
         GoesOnOpened(p, 5, {Reconstruction(x) : x \in {w \in Wire : p \in Holders(w)}}, t),
         stage[p] = 4
  PROVE  Opened(t)'
<1> DEFINE ids == {Reconstruction(x) : x \in {w \in Wire : p \in Holders(w)}}
<1>0. /\ Base /\ t \in Nat /\ Leaving(t) /\ Opening(t) /\ Telling(t) /\ Opened(t)
      /\ Ready(p, 5, ids)
  BY DEF GoesOnOpened, Opened
<1>1. /\ Base' /\ ApartFromBarrier /\ Launched(p, ids)
      /\ stage'[p] = 5 /\ \A q \in Party \ {p} : stage'[q] = stage[q] /\ live'[q] = live[q]
      /\ clock' = clock /\ clock \in Nat /\ quorums' = quorums /\ known' = known
      /\ \A q \in Party : loopbacks = <<[to |-> q, id |-> Root]>> => q = p
      /\ \A q \in Party \ {p} : stage[q] = 4 => ~Left(q)
      /\ \A y, q, h, u : Told(h, q, y, u) => Told(h, q, y, u)'
      /\ \A y : Holders(y)' = Holders(y)
      /\ \A q \in Party \ {p} : \A c : HeardBy(q, c)' = HeardBy(q, c)
      /\ \A c : HeardBy(p, c)' = {}
      /\ \A q \in Party : Left(q)' <=> Left(q)
      /\ \A q \in Party : Done(q)'
  <2> HIDE DEF ids
  <2> QED BY GoingOnOpened DEF ids
<1>2. clock = t
  BY <1>0 DEF Leaving
<1>3. ASSUME NEW x \in Wire
      PROVE  /\ Reconstruction(x) \in Id /\ Reconstruction(x)[1] = "reconstruct" /\ Reconstruction(x)[2] = x
             /\ ~AtOnce(p, Reconstruction(x)) /\ Reconstruction(x) # Barrier
             /\ x \in Item /\ Holders(x) \subseteq Party
  BY <1>0, PartiesAreNumbers, ProtocolNames, QuorumsOfTheGates DEF AtOnce, IsSharing, Item, Base
<1>4. ASSUME NEW id \in ids
      PROVE  /\ id[1] = "reconstruct" /\ id[2] \in Wire /\ p \in Holders(id[2]) /\ id = Reconstruction(id[2])
             /\ ~AtOnce(p, id) /\ id # Barrier /\ Children(p, id) = {}
             /\ \A r \in Holders(id[2]) : Tells(clock, p, r, id) \in Range(network')
  <2>1. PICK x \in Wire : p \in Holders(x) /\ id = Reconstruction(x)
    OBVIOUS
  <2>2. \A c : c \notin Children(p, id)
    <3>1. ASSUME NEW c \in Children(p, id) PROVE FALSE
      <4>1. id \in Launchable
        BY <1>0 DEF Ready
      <4>2. id[1] = "majority" \/ id = Barrier
        BY <1>0, <3>1, <4>1, ChildrenProperties DEF Base
      <4> QED BY <1>3, <2>1, <4>2
    <3> QED BY <3>1
  <2>3. \A r \in Holders(x) : Tells(clock, p, r, id) \in Range(network')
    BY <1>1, <1>3, <2>1 DEF Launched
  <2> QED BY <1>3, <2>1, <2>2, <2>3
<1>5. loopbacks' = <<>>
  BY <1>1, <1>4 DEF Launched
<1>6. Range(loopbacks') = {}
  BY <1>5 DEF Range
<1>7. \A x \in Wire : p \in Holders(x) => Reconstruction(x) \in DOMAIN live'[p]
  BY <1>1, <1>4 DEF Launched
<1>8. ASSUME NEW c \in DOMAIN live'[p]
      PROVE  c[1] = "reconstruct"
  <2>1. c \in ids \/ \E parent \in ids : c \in Children(p, parent)
    BY <1>1 DEF Launched
  <2> QED BY <1>4, <2>1
<1>9. ASSUME NEW k \in Range(network'), k \notin Range(network)
      PROVE  k.at = t + 1 /\ k.from = p /\ k.body.id[1] = "reconstruct" /\ p \in Holders(k.body.id[2])
  <2>1. PICK id \in ids : IsSentBy(p, id, clock, k)
    BY <1>1, <1>9 DEF Launched
  <2>2. k.body = Value(id)
    BY <1>4, <2>1 DEF IsSentBy
  <2> QED BY <1>2, <1>4, <2>1, <2>2 DEF IsSentBy, Value
<1>10. ASSUME NEW x \in Wire, p \in Holders(x), NEW q \in Holders(x)
       PROVE  Told(p, q, Reconstruction(x), t + 1)'
  <2>1. Tells(t, p, q, Reconstruction(x)) \in Range(network')
    BY <1>2, <1>4, <1>10, <1>3
  <2> QED BY <2>1 DEF Told, Tells, Reconstruction, Value
<1> HIDE DEF ids
<1>11. \A k, s : IsWire(k, s)' <=> IsWire(k, s)
  BY DEF IsWire, Wire
<1>12. Leaving(t)'
  <2>1. ASSUME NEW q \in Party, stage'[q] = 4
        PROVE  /\ q # p /\ stage[q] = 4 /\ ~Left(q)
               /\ \A r \in Party : r \in HeardBy(q, Barrier)' \/ Told(r, q, Barrier, t)'
    <3>1. q # p /\ stage[q] = 4 /\ ~Left(q)
      BY <1>1, <2>1
    <3>2. \A r \in Party : r \in HeardBy(q, Barrier) \/ Told(r, q, Barrier, t)
      BY <1>0, <3>1 DEF Leaving
    <3> QED BY <1>1, <3>1, <3>2
  <2>2. ASSUME NEW q \in Party, ~Left(q)'
        PROVE  stage'[q] = 4
    <3>1. stage[q] \in 4..7 /\ ~Left(q)
      BY <1>0, <1>1, <2>2, OpenedStages
    <3>2. q # p
      BY <1>0, <3>1 DEF Ready
    <3> QED BY <1>1, <3>1, <3>2 DEF Left
  <2> QED BY <1>1, <1>2, <2>1, <2>2 DEF Leaving, Barrier, Root
<1>13. Opening(t)'
  <2>1. \A k \in Range(network') : IsWire(k, "reconstruct") => k.at = t + 1 /\ k.from \in Holders(k.body.id[2])
    BY <1>0, <1>9 DEF Opening
  <2>2. ASSUME NEW q \in Party, NEW x \in Wire, q \in Holders(x), stage'[q] = 5
        PROVE  /\ clock <= t + 1 /\ DOMAIN live'[q] # {}
               /\ Reconstruction(x) \in DOMAIN live'[q] \/ x \in known[q]
    <3>1. CASE q = p
      BY <1>2, <1>7, <2>2, <3>1, <1>1
    <3>2. CASE q # p
      BY <1>0, <1>1, <2>2, <3>2 DEF Opening
    <3> QED BY <3>1, <3>2
  <2>3. ASSUME NEW q \in Party, NEW x \in Wire, q \in Holders(x)
        PROVE  /\ HeardBy(q, Reconstruction(x))' \subseteq Holders(x)
               /\ stage'[q] = 4 \/ Reconstruction(x) \in DOMAIN live'[q] =>
                    \A h \in Holders(x) :
                      \/ h \in HeardBy(q, Reconstruction(x))'
                      \/ stage'[h] = 4
                      \/ Told(h, q, Reconstruction(x), t + 1)'
    <3>1. HeardBy(q, Reconstruction(x))' \subseteq Holders(x)
      <4>1. CASE q = p
        BY <1>1, <4>1
      <4>2. CASE q # p
        BY <1>0, <1>1, <2>3, <4>2 DEF Opening
      <4> QED BY <4>1, <4>2
    <3>2. ASSUME stage'[q] = 4 \/ Reconstruction(x) \in DOMAIN live'[q], NEW h \in Holders(x)
          PROVE  \/ h \in HeardBy(q, Reconstruction(x))'
                 \/ stage'[h] = 4
                 \/ Told(h, q, Reconstruction(x), t + 1)'
      <4>1. stage[q] = 4 \/ Reconstruction(x) \in DOMAIN live[q]
        BY <1>1, <3>2
      <4>2. \/ h \in HeardBy(q, Reconstruction(x))
            \/ stage[h] = 4
            \/ Told(h, q, Reconstruction(x), t + 1)
        BY <1>0, <2>3, <3>2, <4>1 DEF Opening
      <4>3. h \in HeardBy(q, Reconstruction(x)) => h \in HeardBy(q, Reconstruction(x))'
        <5>1. q = p => HeardBy(q, Reconstruction(x)) = {}
          BY <1>0, OpenedStages
        <5> QED BY <1>1, <5>1
      <4>4. stage[h] = 4 => stage'[h] = 4 \/ Told(h, q, Reconstruction(x), t + 1)'
        <5>1. CASE h = p
          BY <1>10, <2>3, <3>2, <5>1
        <5>2. CASE h # p
          BY <1>1, <1>3, <3>2, <5>2
        <5> QED BY <5>1, <5>2
      <4> QED BY <1>1, <4>2, <4>3, <4>4
    <3> QED BY <3>1, <3>2
  <2> QED BY <1>1, <1>6, <1>11, <2>1, <2>2, <2>3 DEF Opening, Wire, Root, Reconstruction
<1>14. Telling(t)'
  <2>1. ASSUME NEW k \in Range(network'), IsWire(k, "majority")
        PROVE  k \in Range(network)
    BY <1>9, <2>1 DEF IsWire
  <2>2. ASSUME NEW q \in Party, NEW x \in Wire
        PROVE  /\ stage'[q] = 6 => Majority(x) \in DOMAIN live'[q] \/ x \in known[q]
               /\ stage'[q] = 7 => x \in known[q]
               /\ stage'[q] = 6 /\ q \in Holders(x) => x \in known[q]
    BY <1>0, <1>1 DEF Telling
  <2>3. ASSUME NEW q \in Party, NEW x \in Wire
        PROVE  /\ HeardBy(q, Majority(x))' \subseteq Holders(x)
               /\ q \notin Holders(x) /\ (stage'[q] <= 5 \/ Majority(x) \in DOMAIN live'[q]) =>
                    \A h \in Holders(x) :
                      \/ h \in HeardBy(q, Majority(x))'
                      \/ stage'[h] <= 5
                      \/ Told(h, q, Majority(x), t + 2)'
    <3>1. /\ HeardBy(q, Majority(x)) \subseteq Holders(x)
          /\ q \notin Holders(x) /\ (stage[q] <= 5 \/ Majority(x) \in DOMAIN live[q]) =>
               \A h \in Holders(x) :
                 \/ h \in HeardBy(q, Majority(x))
                 \/ stage[h] <= 5
                 \/ Told(h, q, Majority(x), t + 2)
      BY <1>0 DEF Telling
    <3>2. HeardBy(q, Majority(x))' = HeardBy(q, Majority(x))
      <4>1. q = p => HeardBy(q, Majority(x)) = {}
        BY <1>0, OpenedStages
      <4> QED BY <1>1, <4>1
    <3>3. stage'[q] <= 5 \/ Majority(x) \in DOMAIN live'[q] => stage[q] <= 5 \/ Majority(x) \in DOMAIN live[q]
      BY <1>1
    <3>4. \A h \in Holders(x) : stage[h] <= 5 => stage'[h] <= 5
      BY <1>1, <1>3
    <3> QED BY <1>1, <3>1, <3>2, <3>3, <3>4
  <2> QED BY <1>0, <1>1, <1>11, <2>1, <2>2, <2>3 DEF Telling, Wire, Majority
<1> QED BY <1>1, <1>6, <1>12, <1>13, <1>14 DEF Opened, Barrier

\* Whoever has reconstructed an output tells those who do not hold it.
LEMMA BroadcastResultsOpened ==
  ASSUME NEW p \in Party, NEW t, GoesOnOpened(p, 6, {Majority(x) : x \in Wire}, t), stage[p] = 5
  PROVE  Opened(t)'
<1> DEFINE ids == {Majority(x) : x \in Wire}
<1>0. /\ Base /\ t \in Nat /\ Leaving(t) /\ Opening(t) /\ Telling(t) /\ Opened(t)
      /\ Ready(p, 6, ids)
      /\ Range(loopbacks) = {[to |-> p, id |-> Root]}
      /\ \A id \in DOMAIN live[p] : Parent(id) # Root
  BY DEF GoesOnOpened, Opened
<1>1. /\ Base' /\ ApartFromBarrier /\ Launched(p, ids)
      /\ stage'[p] = 6 /\ \A q \in Party \ {p} : stage'[q] = stage[q] /\ live'[q] = live[q]
      /\ clock' = clock /\ clock \in Nat /\ quorums' = quorums /\ known' = known
      /\ \A q \in Party : loopbacks = <<[to |-> q, id |-> Root]>> => q = p
      /\ \A q \in Party \ {p} : stage[q] = 4 => ~Left(q)
      /\ \A y, q, h, u : Told(h, q, y, u) => Told(h, q, y, u)'
      /\ \A y : Holders(y)' = Holders(y)
      /\ \A q \in Party \ {p} : \A c : HeardBy(q, c)' = HeardBy(q, c)
      /\ \A c : HeardBy(p, c)' = {}
      /\ \A q \in Party : Left(q)' <=> Left(q)
      /\ \A q \in Party : Done(q)'
  <2> HIDE DEF ids
  <2> QED BY GoingOnOpened DEF ids
<1>2. clock = t + 1 /\ (t + 1) + 1 = t + 2 /\ t # t + 1
  BY <1>0 DEF Opening
<1>3. ASSUME NEW x \in Wire
      PROVE  /\ Majority(x) \in Id /\ Majority(x)[1] = "majority" /\ Majority(x)[2] = x
             /\ ~AtOnce(p, Majority(x)) /\ Majority(x) # Barrier /\ Majority(x) \in ids
             /\ x \in Item /\ Holders(x) \subseteq Party
             /\ Parent(Reconstruction(x)) = Root
             /\ Reconstruction(x)[1] = "reconstruct"
  <2>1. x \in Nat /\ x \in Item
    BY PartiesAreNumbers DEF Item
  <2>2. /\ Majority(x) \in Id /\ Majority(x)[1] = "majority" /\ Majority(x)[2] = x
        /\ Reconstruction(x) \in Id /\ Reconstruction(x)[1] = "reconstruct"
        /\ Barrier[1] = "barrier"
    BY <2>1, ProtocolNames
  <2>3. Parent(Reconstruction(x)) = Root
    BY <2>2, ParentOf
  <2>4. ~AtOnce(p, Majority(x)) /\ Majority(x) # Barrier
    BY <2>2 DEF AtOnce, IsSharing
  <2>5. Holders(x) \subseteq Party
    BY <1>0, <2>1, QuorumsOfTheGates DEF Base
  <2> QED BY <2>1, <2>2, <2>3, <2>4, <2>5
<1>4. ASSUME NEW id \in ids
      PROVE  /\ id[1] = "majority" /\ id[2] \in Wire /\ id = Majority(id[2]) /\ ~AtOnce(p, id) /\ id # Barrier
             /\ \A c \in Children(p, id) : c[1] = "nop"
             /\ id[2] \in known[p] =>
                  \A r \in Party \ Holders(id[2]) : Tells(clock, p, r, id) \in Range(network')
  <2>1. PICK x \in Wire : id = Majority(x)
    OBVIOUS
  <2>2. \A c \in Children(p, id) : c[1] = "nop"
    <3>1. id \in Launchable /\ State
      BY <1>0 DEF Ready, Base
    <3>2. id # Barrier
      BY <1>3, <2>1
    <3> QED BY <3>1, <3>2, ChildrenProperties
  <2> QED BY <1>1, <1>3, <2>1, <2>2 DEF Launched
<1>5. loopbacks' = <<>>
  BY <1>1, <1>4 DEF Launched
<1>6. Range(loopbacks') = {}
  BY <1>5 DEF Range
<1>7. \A x \in Wire : Majority(x) \in DOMAIN live'[p]
  BY <1>1, <1>3 DEF Launched
<1>8. \A x \in Wire : p \in Holders(x) <=> x \in known[p]
  <2>1. ASSUME NEW x \in Wire, p \in Holders(x)
        PROVE  x \in known[p]
    <3>1. Reconstruction(x) \in DOMAIN live[p] \/ x \in known[p]
      BY <1>0, <2>1 DEF Opening
    <3> QED BY <1>0, <1>3, <3>1
  <2>2. ASSUME NEW x \in Wire, x \in known[p]
        PROVE  p \in Holders(x)
    BY <1>0, <2>2 DEF Base, Knowing
  <2> QED BY <2>1, <2>2
<1>9. ASSUME NEW k \in Range(network'), k \notin Range(network)
      PROVE  /\ k.body.id[1] # "reconstruct"
             /\ IsWire(k, "majority") =>
                  /\ k.at = t + 2 /\ k.body.type = "value"
                  /\ k.from \in Holders(k.body.id[2]) /\ k.to \notin Holders(k.body.id[2])
  <2>1. PICK id \in ids : IsSentBy(p, id, clock, k)
    BY <1>1, <1>9 DEF Launched
  <2>2. CASE k.body = Value(id)
    <3>1. k.body.id = id /\ k.body.type = "value" /\ id \notin Children(p, id)
      BY <1>4, <2>2 DEF Value
    <3>2. k.at = t + 2 /\ k.from = p /\ id[2] \in known[p] /\ k.to \notin Holders(id[2])
      BY <1>2, <1>4, <2>1, <3>1 DEF IsSentBy
    <3> QED BY <1>4, <1>8, <3>1, <3>2
  <2>3. CASE k.body.id \in Children(p, id)
    BY <1>4, <2>3 DEF IsWire
  <2> QED BY <2>1, <2>2, <2>3 DEF IsSentBy
<1>10. ASSUME NEW x \in Wire, p \in Holders(x), NEW q \in Party, q \notin Holders(x)
       PROVE  Told(p, q, Majority(x), t + 2)'
  <2>1. Tells(t + 1, p, q, Majority(x)) \in Range(network')
    BY <1>2, <1>3, <1>4, <1>8, <1>10
  <2>2. Tells(t + 1, p, q, Majority(x)).at = t + 2
    BY <1>2 DEF Tells
  <2> QED BY <2>1, <2>2 DEF Told, Tells, Majority, Value
<1> HIDE DEF ids
<1>11. \A k, s : IsWire(k, s)' <=> IsWire(k, s)
  BY DEF IsWire, Wire
<1>12. \A q \in Party : stage[q] # 4 /\ stage'[q] # 4 /\ Left(q)
  <2>1. ASSUME NEW q \in Party PROVE stage[q] # 4 /\ stage[q] \in 4..7
    BY <1>0, <1>2, OpenedStages DEF Leaving
  <2> QED BY <1>1, <2>1 DEF Left
<1>13. Leaving(t)'
  BY <1>1, <1>12 DEF Leaving, Barrier, Root
<1>14. Opening(t)'
  <2>1. \A k \in Range(network') : IsWire(k, "reconstruct") => k.at = t + 1 /\ k.from \in Holders(k.body.id[2])
    BY <1>0, <1>9 DEF Opening, IsWire
  <2>2. ASSUME NEW q \in Party, NEW x \in Wire, q \in Holders(x), stage'[q] = 5
        PROVE  /\ clock <= t + 1 /\ DOMAIN live'[q] # {}
               /\ Reconstruction(x) \in DOMAIN live'[q] \/ x \in known[q]
    <3>1. q # p /\ stage[q] = 5 /\ live'[q] = live[q] /\ loopbacks # <<[to |-> q, id |-> Root]>>
      BY <1>1, <2>2
    <3>2. /\ clock <= t + 1 /\ (DOMAIN live[q] = {} => loopbacks = <<[to |-> q, id |-> Root]>>)
          /\ Reconstruction(x) \in DOMAIN live[q] \/ x \in known[q]
      BY <1>0, <2>2, <3>1 DEF Opening
    <3> QED BY <3>1, <3>2
  <2>3. ASSUME NEW q \in Party, NEW x \in Wire, q \in Holders(x)
        PROVE  /\ HeardBy(q, Reconstruction(x))' \subseteq Holders(x)
               /\ Reconstruction(x) \in DOMAIN live'[q] =>
                    \A h \in Holders(x) :
                      \/ h \in HeardBy(q, Reconstruction(x))'
                      \/ Told(h, q, Reconstruction(x), t + 1)'
    <3>1. CASE q = p
      <4>1. Reconstruction(x) \notin DOMAIN live'[p]
        <5>1. \A c \in DOMAIN live'[p] : c[1] # "reconstruct"
          <6>1. \A c \in DOMAIN live'[p] : c \in ids \/ \E parent \in ids : c \in Children(p, parent)
            BY <1>1 DEF Launched
          <6> QED BY <1>4, <6>1
        <5> QED BY <1>3, <5>1
      <4> QED BY <1>1, <3>1, <4>1
    <3>2. CASE q # p
      <4>1. \A h \in Holders(x) : stage[h] # 4
        BY <1>3, <1>12
      <4>2. /\ HeardBy(q, Reconstruction(x)) \subseteq Holders(x)
            /\ Reconstruction(x) \in DOMAIN live[q] =>
                 \A h \in Holders(x) :
                   \/ h \in HeardBy(q, Reconstruction(x))
                   \/ stage[h] = 4
                   \/ Told(h, q, Reconstruction(x), t + 1)
        BY <1>0, <2>3 DEF Opening
      <4> QED BY <1>1, <3>2, <4>1, <4>2
    <3> QED BY <3>1, <3>2
  <2> QED BY <1>1, <1>6, <1>11, <1>12, <2>1, <2>2, <2>3 DEF Opening, Wire, Root, Reconstruction
<1>15. Telling(t)'
  <2>1. ASSUME NEW k \in Range(network'), IsWire(k, "majority")
        PROVE  /\ k.to \notin Holders(k.body.id[2])
               /\ IF k.body.type = "value" THEN k.at = t + 2 /\ k.from \in Holders(k.body.id[2])
                  ELSE k.at = t + 3 /\ Holders(k.body.id[2]) # {}
    <3>1. CASE k \in Range(network)
      BY <1>0, <2>1, <3>1 DEF Telling
    <3>2. CASE k \notin Range(network)
      BY <1>9, <2>1, <3>2
    <3> QED BY <3>1, <3>2
  <2>2. ASSUME NEW q \in Party, NEW x \in Wire
        PROVE  /\ stage'[q] = 6 => Majority(x) \in DOMAIN live'[q] \/ x \in known[q]
               /\ stage'[q] = 7 => x \in known[q]
               /\ stage'[q] = 6 /\ q \in Holders(x) => x \in known[q]
    <3>1. CASE q = p
      BY <1>1, <1>7, <1>8, <3>1
    <3>2. CASE q # p
      BY <1>0, <1>1, <3>2 DEF Telling
    <3> QED BY <3>1, <3>2
  <2>3. ASSUME NEW q \in Party, NEW x \in Wire
        PROVE  /\ HeardBy(q, Majority(x))' \subseteq Holders(x)
               /\ q \notin Holders(x) /\ (stage'[q] <= 5 \/ Majority(x) \in DOMAIN live'[q]) =>
                    \A h \in Holders(x) :
                      \/ h \in HeardBy(q, Majority(x))'
                      \/ stage'[h] <= 5
                      \/ Told(h, q, Majority(x), t + 2)'
    <3>1. /\ HeardBy(q, Majority(x)) \subseteq Holders(x)
          /\ q \notin Holders(x) /\ (stage[q] <= 5 \/ Majority(x) \in DOMAIN live[q]) =>
               \A h \in Holders(x) :
                 \/ h \in HeardBy(q, Majority(x))
                 \/ stage[h] <= 5
                 \/ Told(h, q, Majority(x), t + 2)
      BY <1>0 DEF Telling
    <3>2. HeardBy(q, Majority(x))' = HeardBy(q, Majority(x))
      <4>1. q = p => HeardBy(q, Majority(x)) = {}
        BY <1>0, OpenedStages
      <4> QED BY <1>1, <4>1
    <3>3. stage'[q] <= 5 \/ Majority(x) \in DOMAIN live'[q] => stage[q] <= 5 \/ Majority(x) \in DOMAIN live[q]
      BY <1>1
    <3>4. ASSUME q \notin Holders(x), NEW h \in Holders(x), stage[h] <= 5
          PROVE  stage'[h] <= 5 \/ Told(h, q, Majority(x), t + 2)'
      <4>1. CASE h = p
        BY <1>10, <3>4, <4>1
      <4>2. CASE h # p
        BY <1>1, <1>3, <3>4, <4>2
      <4> QED BY <4>1, <4>2
    <3> QED BY <1>1, <3>1, <3>2, <3>3, <3>4
  <2> QED BY <1>1, <1>11, <2>1, <2>2, <2>3 DEF Telling, Wire, Majority
<1> QED BY <1>1, <1>6, <1>13, <1>14, <1>15 DEF Opened, Barrier

-----------------------------------------------------------------------------
(***************************************************************************)
(* The invariant is inductive.                                             *)
(***************************************************************************)

\* What kinds of steps there are.
LEMMA Steps ==
  ASSUME Base, Next
  PROVE  \/ Start \/ EvaluationsJoined \/ NopJoined
         \/ \E m \in Range(network) : Handles(m)
         \/ \E p \in Party :
              \/ ReconstructRandom(p) \/ SendRandom(p) \/ DistributeInputs(p)
              \/ EvaluateCircuit(p) \/ ReconstructOutputs(p) \/ BroadcastResults(p)
         \/ \E p \in Party : CollectResults(p)
<1>1. Queues /\ State /\ Running
  BY DEF Base
<1>2. Collect \/ Tally \/ Gather \/ ReceiveShare \/ PassRound => \E m \in Range(network) : Handles(m)
  BY <1>1, CollectHandles, TallyHandles, GatherHandles, ReceiveShareHandles, PassRoundHandles
<1> QED BY <1>2 DEF Next

\* A step keeps all that does not depend on when the barrier is left.
LEMMA NextBase ==
  ASSUME Base, Starting, Next
  PROVE  Base' /\ Starting'
BY Steps, StartBase, EvaluationsJoinedBase, NopJoinedBase, HandlesBase, AdvancesBase, CollectResultsBase

\* Before the barrier is left a step keeps it closed, or everybody leaves it in this tick.
LEMMA NextClosed ==
  ASSUME Base, Starting, Closed, Next
  PROVE  Closed' \/ \E t \in {clock'} : Opened(t)'
<1>1. ASSUME NEW p \in Party, NEW s, NEW ids, Ready(p, s, ids), GoesOn(p, s, ids)
      PROVE  Closed'
  BY <1>1, GoesOnClosed
<1>2. CASE Start
  BY <1>1, <1>2, StartBase
<1>3. CASE EvaluationsJoined
  <2>1. /\ \A q \in Party : Left(q)' <=> Left(q)
        /\ \A k \in Range(network') : k \in Range(network) \/ k.body = Value(Barrier)
    BY <1>3, EvaluationsJoinedBase
  <2>2. \A k : k.body = Value(Barrier) => ~IsWire(k, "reconstruct") /\ ~IsWire(k, "majority")
    BY ProtocolNames DEF IsWire, Value
  <2> QED BY <2>1, <2>2 DEF Closed, IsWire, Wire
<1>4. CASE NopJoined
  <2>1. (\A q \in Party : Left(q)' <=> Left(q)) /\ network' = network
    BY <1>4, NopJoinedBase DEF ApartFromBarrier
  <2> QED BY <2>1 DEF Closed, IsWire, Wire
<1>5. ASSUME NEW m \in Range(network), Handles(m)
      PROVE  Closed' \/ \E t \in {clock'} : Opened(t)'
  <2>1. CASE \A q \in Party : ~Left(q)'
    BY <1>5, <2>1, HandlesClosed
  <2>2. ASSUME NEW l \in Party, Left(l)'
        PROVE  \E t \in {clock'} : Opened(t)'
    <3>1. PICK t : t = clock'
      OBVIOUS
    <3>2. Opened(t)'
      BY <1>5, <2>2, <3>1, BarrierOpens
    <3> QED BY <3>1, <3>2
  <2> QED BY <2>1, <2>2
<1>6. ASSUME NEW p \in Party,
             \/ ReconstructRandom(p) \/ SendRandom(p) \/ DistributeInputs(p)
             \/ EvaluateCircuit(p) \/ ReconstructOutputs(p) \/ BroadcastResults(p)
      PROVE  Closed'
  BY <1>1, <1>6, AdvancesBase
<1>7. ASSUME NEW p \in Party, CollectResults(p)
      PROVE  FALSE
  <2>1. stage[p] = 6
    BY <1>7, CollectResultsBase
  <2> QED BY <2>1 DEF Closed, Left
<1> QED BY <1>2, <1>3, <1>4, <1>5, <1>6, <1>7, Steps

\* After it has been left in the tick t, a step keeps what follows.
LEMMA NextOpened ==
  ASSUME Base, Starting, NEW t \in Nat, Opened(t), Next
  PROVE  Opened(t)'
<1>1. \A p \in Party : stage[p] \in 4..7
  BY OpenedStages
<1>2. CASE Start
  <2>1. started \in Party /\ started >= started
    BY <1>2, StartBase, PartiesAreNumbers
  <2>2. stage[started] = 0
    BY <2>1 DEF Starting
  <2> QED BY <1>1, <2>1, <2>2
<1>3. CASE EvaluationsJoined
  <2>1. PICK p \in Party : Range(loopbacks) = {[to |-> p, id |-> Barrier]}
    BY <1>3, EvaluationsJoinedBase
  <2>2. [to |-> p, id |-> Barrier] \in Range(loopbacks) /\ [to |-> p, id |-> Barrier].id = Barrier
    BY <2>1
  <2> QED BY <2>2 DEF Opened
<1>4. CASE NopJoined
  BY <1>4, NopJoinedOpened
<1>5. ASSUME NEW m \in Range(network), Handles(m)
      PROVE  Opened(t)'
  BY <1>5, HandlesAfterTheBarrier DEF HandlesOpened
<1>6. ASSUME NEW p \in Party,
             \/ ReconstructRandom(p) \/ SendRandom(p) \/ DistributeInputs(p)
             \/ EvaluateCircuit(p) \/ ReconstructOutputs(p) \/ BroadcastResults(p)
      PROVE  Opened(t)'
  <2>1. /\ Advances(p)
        /\ Range(loopbacks) = {[to |-> p, id |-> Root]}
        /\ \A id \in DOMAIN live[p] : Parent(id) # Root
    BY <1>6, AdvancesInTurn
  <2> DEFINE held == {Reconstruction(x) : x \in {w \in Wire : p \in Holders(w)}}
             results == {Majority(x) : x \in Wire}
  <2>2. \/ GoesOn(p, 5, held) /\ stage[p] = 4
        \/ GoesOn(p, 6, results) /\ stage[p] = 5
    BY <1>1, <2>1 DEF Advances
  <2>3. CASE GoesOn(p, 5, held) /\ stage[p] = 4
    <3>1. Ready(p, 5, held)
      BY <2>1, <2>3, ReadyToAdvance
    <3>2. GoesOnOpened(p, 5, held, t)
      BY <2>1, <2>3, <3>1 DEF GoesOnOpened
    <3> QED BY <2>3, <3>2, ReconstructOutputsOpened
  <2>4. CASE GoesOn(p, 6, results) /\ stage[p] = 5
    <3>1. Ready(p, 6, results)
      BY <2>1, <2>4, ReadyToAdvance
    <3>2. GoesOnOpened(p, 6, results, t)
      BY <2>1, <2>4, <3>1 DEF GoesOnOpened
    <3> QED BY <2>4, <3>2, BroadcastResultsOpened
  <2> QED BY <2>2, <2>3, <2>4
<1>7. ASSUME NEW p \in Party, CollectResults(p)
      PROVE  Opened(t)'
  BY <1>7, CollectResultsOpened
<1> QED BY <1>2, <1>3, <1>4, <1>5, <1>6, <1>7, Steps

\* A step keeps the invariant.
LEMMA NextInv == Inv /\ [Next]_vars => Inv'
<1> SUFFICES ASSUME Inv, [Next]_vars PROVE Inv'
  OBVIOUS
<1>1. Base /\ Starting /\ (Closed \/ \E t \in 0..clock : Opened(t)) /\ clock \in Nat
  BY DEF Inv, Base, Queues
<1>2. CASE Next
  <2>1. Base' /\ Starting'
    BY <1>1, <1>2, NextBase
  <2>2. clock' \in Nat /\ clock <= clock'
    <3>1. clock' \in {clock, clock + 1}
      <4>1. ASSUME NEW m \in Range(network), Handles(m) PROVE clock' \in {clock, clock + 1}
        BY <4>1 DEF Handles, Handled
      <4>2. ApartFromBarrier => clock' \in {clock, clock + 1}
        BY DEF ApartFromBarrier
      <4> QED BY <1>1, <1>2, <4>1, <4>2, Steps, StartBase, EvaluationsJoinedBase, NopJoinedBase,
                 AdvancesBase, CollectResultsBase
    <3> QED BY <1>1, <3>1
  <2>3. Closed' \/ \E t \in 0..clock' : Opened(t)'
    <3>1. CASE Closed
      <4>1. clock' \in 0..clock'
        BY <2>2
      <4> QED BY <1>1, <1>2, <3>1, <4>1, NextClosed
    <3>2. ASSUME NEW t \in 0..clock, Opened(t)
          PROVE  \E u \in 0..clock' : Opened(u)'
      <4>1. t \in Nat /\ t \in 0..clock'
        BY <1>1, <2>2
      <4> QED BY <1>1, <1>2, <3>2, <4>1, NextOpened
    <3> QED BY <1>1, <3>1, <3>2
  <2> QED BY <2>1, <2>3 DEF Inv, Base
<1>3. CASE UNCHANGED vars
  <2>1. UNCHANGED <<clock, network, loopbacks, program, quorums, end, started, stage, live, known>>
    BY <1>3 DEF vars
  <2>2. /\ \A q \in Party : (Left(q)' <=> Left(q)) /\ (Done(q)' <=> Done(q))
        /\ \A q, c : HeardBy(q, c)' = HeardBy(q, c)
        /\ \A h, q, c, u : Told(h, q, c, u)' <=> Told(h, q, c, u)
        /\ \A k, c : IsWire(k, c)' <=> IsWire(k, c)
        /\ \A x : Holders(x)' = Holders(x)
        /\ \A s, p, id : Fits(s, p, id)' = Fits(s, p, id)
        /\ \A p, id : Awaited(p, id)' = Awaited(p, id)
    BY <2>1, FitsUnchanged DEF Left, Done, HeardBy, Told, IsWire, Wire, Barrier, Value
  <2>3. Queues' /\ State' /\ Starting'
    BY <1>1, <2>1 DEF Base, Queues, InLockStep, State, Starting
  <2>4. Running' /\ Knowing' /\ Reported'
    <3>1. Running'
      BY <1>1, <2>1, <2>2 DEF Base, Running, Barrier
    <3>2. Knowing'
      BY <1>1, <2>1, <2>2 DEF Base, Knowing, RandomNumber, Wire
    <3>3. Reported'
      BY <1>1, <2>1 DEF Base, Reported, Done, Left, Parent, Barrier, Root, Majority, RandomNumber
    <3> QED BY <3>1, <3>2, <3>3
  <2>5. Announced' /\ Together'
    <3>1. Announced'
      BY <1>1, <2>1 DEF Base, Announced, Barrier, Value, Left, Done, HeardBy
    <3>2. \A p, r : Told(r, p, Barrier, clock)' <=> Told(r, p, Barrier, clock)
      BY <2>1 DEF Told, Barrier, Value
    <3>3. Together'
      BY <1>1, <2>1, <2>2, <3>2 DEF Base, Together, Barrier, Value
    <3> QED BY <3>1, <3>3
  <2>6. Closed => Closed'
    BY <2>1, <2>2 DEF Closed
  <2>7. ASSUME NEW t \in Nat, Opened(t)
        PROVE  Opened(t)'
    <3>1. Leaving(t)'
      BY <2>1, <2>2, <2>7 DEF Opened, Leaving, Barrier, Root
    <3>2. Opening(t)'
      BY <2>1, <2>2, <2>7 DEF Opened, Opening, Wire, Root, Reconstruction
    <3>3. Telling(t)'
      BY <2>1, <2>2, <2>7 DEF Opened, Telling, Wire, Majority
    <3> QED BY <2>1, <2>2, <2>7, <3>1, <3>2, <3>3 DEF Opened, Barrier
  <2>8. (\E t \in 0..clock : Opened(t)) => \E t \in 0..clock' : Opened(t)'
    BY <1>1, <2>1, <2>7
  <2> QED BY <1>1, <2>3, <2>4, <2>5, <2>6, <2>8 DEF Inv, Base
<1> QED BY <1>2, <1>3

\* The invariant holds.
LEMMA InvHolds == Spec => []Inv
<1>1. Init => Inv
  BY InitInv DEF Inv, Base
<1> QED BY <1>1, NextInv, PTL DEF Spec

\* The barrier does what it is for: while a party still evaluates gates, nobody has gone on
\* to open outputs (SynchronizationProtocol.cs, which every party waits in).
THEOREM NobodyOpensEarly == Spec => []NoOutputBeforeTheEnd
<1>1. Inv => NoOutputBeforeTheEnd
  <2> SUFFICES ASSUME Inv, NEW p \in Party, NEW r \in Party, stage[p] = 5
               PROVE  \A id \in DOMAIN live[r] : id[1] # "evaluation"
    BY DEF NoOutputBeforeTheEnd
  <2>1. Left(p)
    BY DEF Left
  <2>2. Done(r)
    BY <2>1 DEF Inv, Announced
  <2> QED BY <2>2 DEF Done
<1> QED BY <1>1, InvHolds, PTL

\* Whoever has left a stage knows what the stage was for: the random number that the quorums
\* are made of, and in the end all outputs, though a party decides in the tick after it has
\* heard two fifths of those who send a value (MajorityFilteringProtocol.cs), for they are
\* heard in one tick.
THEOREM WhoLeavesKnows == Spec => []KnowsResults
<1>1. Inv => KnowsResults
  <2> SUFFICES ASSUME Inv, NEW p \in Party
               PROVE  /\ stage[p] \in 3..7 => RandomNumber \in known[p]
                      /\ stage[p] = 7 => Wire \subseteq known[p]
    BY DEF KnowsResults
  <2>1. stage[p] \in 3..7 => RandomNumber \in known[p]
    BY DEF Inv, Knowing
  <2>2. ASSUME stage[p] = 7, NEW x \in Wire
        PROVE  x \in known[p]
    <3>1. ~Closed
      BY <2>2 DEF Closed, Left
    <3>2. PICK t \in 0..clock : Opened(t)
      BY <3>1 DEF Inv
    <3> QED BY <2>2, <3>2 DEF Opened, Telling
  <2> QED BY <2>1, <2>2
<1> QED BY <1>1, InvHolds, PTL

=============================================================================
