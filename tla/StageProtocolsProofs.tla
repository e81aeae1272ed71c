------------------------ MODULE StageProtocolsProofs -------------------------
(***************************************************************************)
(* Theorems about the protocols that stand between the stages of           *)
(* shuffling, for every number of parties and all other parameters.        *)
(***************************************************************************)
EXTENDS StageProtocolsMC, SequenceLemmas

-----------------------------------------------------------------------------
(***************************************************************************)
(* The barrier.                                                            *)
(***************************************************************************)

\* A party whose sub-protocols are completed.
HasArrived(p) == stage[p] # "unregistered" /\ nopCount[p] = 0

\* The tick in which the sub-protocols of a party are completed.
ArrivalTime(p) == startAt[p] + work[p]

BarrierQueues ==
  /\ InLockStep(network, clock)
  /\ Distinct(network, {"nop"})
  /\ Distinct(network, {"nextRound"})
  /\ IsInjective(loopbacks)

\* Nobody is late for the start.
StartsToCome == \A p \in S!Party : stage[p] = "unregistered" => clock <= startAt[p]

\* A party with rounds to go has one message on the way, which comes in time.
RoundsInTime ==
  \A m \in Range(network) : m.body = "nop" =>
    /\ m.from = m.to
    /\ stage[m.to] = "registered" /\ nopCount[m.to] > 0
    /\ m.at + nopCount[m.to] = ArrivalTime(m.to) + 1

\* A party that is to be told of its completion has just arrived.
CompletionsInTime ==
  \A p \in Range(loopbacks) :
    stage[p] = "registered" /\ nopCount[p] = 0 /\ clock = ArrivalTime(p)

\* A party tells the others a tick after its arrival, each of them once.
Announcements ==
  \A m \in Range(network) : m.body = "nextRound" =>
    /\ HasArrived(m.from)
    /\ m.from \notin Range(loopbacks)
    /\ m.from \notin peersCompleted[m.to]
    /\ m.at = ArrivalTime(m.from) + 1

\* Who is counted has arrived, and has told everybody.
CountedPeers ==
  \A p \in S!Party : \A q \in peersCompleted[p] :
    HasArrived(q) /\ q \notin Range(loopbacks) /\ ArrivalTime(q) < clock

AllCounted == \A p \in S!Party : stage[p] = "completed" => peersCompleted[p] = S!Party

BarrierInv ==
  /\ S!TypeOK
  /\ S!Overlapping
  /\ BarrierQueues
  /\ StartsToCome
  /\ RoundsInTime
  /\ CompletionsInTime
  /\ Announcements
  /\ CountedPeers
  /\ AllCounted

\* What a party sends when its sub-protocols are completed.
LEMMA NextRoundProperties ==
  ASSUME NEW now \in Nat, NEW p \in S!Party
  PROVE  /\ S!NextRound(now, p) \in Seq(S!Message)
         /\ \A m \in Range(S!NextRound(now, p)) :
              m.at = now + 1 /\ m.from = p /\ m.to \in S!Party /\ m.body = "nextRound"
         /\ \A i \in DOMAIN S!NextRound(now, p) : S!NextRound(now, p)[i].at = now + 1
         /\ Distinct(S!NextRound(now, p), {"nop"})
         /\ Distinct(S!NextRound(now, p), {"nextRound"})
<1>1. S!NextRound(now, p) =
        [i \in 1..N |-> [at |-> now + 1, from |-> p, to |-> i, body |-> "nextRound"]]
  BY DEF S!NextRound, S!Letters, S!Letter, S!Everybody, S!Party
<1>2. N \in Nat
  BY BarrierAssumption DEF S!SynchronizationAssumption
<1>3. \A i \in 1..N : [at |-> now + 1, from |-> p, to |-> i, body |-> "nextRound"] \in S!Message
  BY DEF S!Message, S!Party
<1> QED
  BY <1>1, <1>2, <1>3 DEF Range, Distinct, S!Party

\* A round of a sub-protocol.
LEMMA NopProperties ==
  ASSUME NEW now \in Nat, NEW p \in S!Party
  PROVE  /\ <<S!Letter(now, p, p, "nop")>> \in Seq(S!Message)
         /\ S!Letter(now, p, p, "nop") \in S!Message
         /\ S!Letter(now, p, p, "nop") = [at |-> now + 1, from |-> p, to |-> p, body |-> "nop"]
         /\ \A m \in Range(<<S!Letter(now, p, p, "nop")>>) : m = S!Letter(now, p, p, "nop")
         /\ \A i \in DOMAIN <<S!Letter(now, p, p, "nop")>> :
              <<S!Letter(now, p, p, "nop")>>[i].at = now + 1
         /\ Distinct(<<S!Letter(now, p, p, "nop")>>, {"nop"})
         /\ Distinct(<<S!Letter(now, p, p, "nop")>>, {"nextRound"})
<1>1. S!Letter(now, p, p, "nop") = [at |-> now + 1, from |-> p, to |-> p, body |-> "nop"]
  BY DEF S!Letter
<1>2. [at |-> now + 1, from |-> p, to |-> p, body |-> "nop"] \in S!Message
  BY DEF S!Message
<1> QED
  BY <1>1, <1>2 DEF Range, Distinct

LEMMA BarrierInit ==
  ASSUME S!Init
  PROVE  BarrierInv
<1>1. MaxWork \in Nat /\ MaxSkew \in Nat
  BY BarrierAssumption DEF S!SynchronizationAssumption
<1>2. network = <<>> /\ loopbacks = <<>> /\ clock = 0
  BY DEF S!Init, S!NetworkInit
<1>3. Range(network) = {} /\ Range(loopbacks) = {}
  BY <1>2 DEF Range
<1>4. S!TypeOK
  BY <1>1, <1>2 DEF S!Init, S!TypeOK
<1>5. BarrierQueues
  BY <1>2 DEF BarrierQueues, InLockStep, Distinct, IsInjective
<1> QED
  BY <1>1, <1>2, <1>3, <1>4, <1>5 DEF S!Init, BarrierInv, StartsToCome, RoundsInTime,
     CompletionsInTime, Announcements, CountedPeers, AllCounted

\* The message whose turn it is, and the queue without it.
LEMMA BarrierDue ==
  ASSUME BarrierInv, NEW m \in S!Due
  PROVE  /\ loopbacks = <<>> /\ Range(loopbacks) = {}
         /\ m \in S!Message /\ m \in Range(network)
         /\ Tail(network) \in Seq(S!Message) /\ Range(Tail(network)) \subseteq Range(network)
         /\ m.at \in {clock, clock + 1}
         /\ InLockStep(Tail(network), m.at)
         /\ Distinct(Tail(network), {"nop"}) /\ Distinct(Tail(network), {"nextRound"})
         /\ \A k \in Range(Tail(network)) :
              k.body = m.body => k.from # m.from \/ k.to # m.to
<1>1. network # <<>> /\ loopbacks = <<>> /\ m = Head(network)
  BY DEF S!Due
<1>2. network \in Seq(S!Message) /\ clock \in Nat /\ \A k \in S!Message : k.at \in Nat
  BY DEF BarrierInv, S!TypeOK, S!Message
<1>3. InLockStep(network, clock) /\ Distinct(network, {"nop"}) /\ Distinct(network, {"nextRound"})
  BY DEF BarrierInv, BarrierQueues
<1>4. /\ m \in S!Message /\ m \in Range(network)
      /\ Tail(network) \in Seq(S!Message) /\ Range(Tail(network)) \subseteq Range(network)
  BY <1>1, <1>2, HeadAndTail
<1>5. m.at \in {clock, clock + 1} /\ InLockStep(Tail(network), m.at)
  BY <1>1, <1>2, <1>3, HandledInLockStep
<1>6. /\ Distinct(Tail(network), {"nop"})
      /\ \A k \in Range(Tail(network)) :
           m.body \in {"nop"} /\ k.body \in {"nop"} => k.from # m.from \/ k.to # m.to
  BY <1>1, <1>2, <1>3, HandledDistinct
<1>7. /\ Distinct(Tail(network), {"nextRound"})
      /\ \A k \in Range(Tail(network)) :
           m.body \in {"nextRound"} /\ k.body \in {"nextRound"} => k.from # m.from \/ k.to # m.to
  BY <1>1, <1>2, <1>3, HandledDistinct
<1>8. m.body \in {"nop", "nextRound"}
  BY <1>4 DEF S!Message
<1> QED
  BY <1>1, <1>4, <1>5, <1>6, <1>7, <1>8 DEF Range

\* The last of the parties is counted when as many are as there are.
LEMMA EverybodyCounted ==
  ASSUME NEW peers \in SUBSET S!Party, S!EnoughPeers(peers)
  PROVE  peers = S!Party
<1>1. IsFiniteSet(S!Party) /\ Cardinality(S!Party) = N
  BY FS_Interval, BarrierAssumption DEF S!SynchronizationAssumption, S!Party
<1>2. Cardinality(peers) = N
  BY DEF S!EnoughPeers, S!Cardinality, Cardinality
<1> QED
  BY <1>1, <1>2, FS_Subset

LEMMA BarrierFields ==
  ASSUME BarrierInv
  PROVE  /\ clock \in Nat /\ network \in Seq(S!Message) /\ loopbacks \in Seq(S!Party)
         /\ startAt \in [S!Party -> Nat] /\ work \in [S!Party -> Nat]
         /\ stage \in [S!Party -> {"unregistered", "registered", "completed"}]
         /\ nopCount \in [S!Party -> Nat]
         /\ peersCompleted \in [S!Party -> SUBSET S!Party]
         /\ Range(loopbacks) \subseteq S!Party
         /\ Range(network) \subseteq S!Message
         /\ \A m \in S!Message : /\ m.at \in Nat /\ m.from \in S!Party /\ m.to \in S!Party
                                 /\ m.body \in {"nop", "nextRound"}
<1>1. MaxWork \in Nat /\ MaxSkew \in Nat
  BY BarrierAssumption DEF S!SynchronizationAssumption
<1>2. /\ clock \in Nat /\ network \in Seq(S!Message) /\ loopbacks \in Seq(S!Party)
      /\ startAt \in [S!Party -> Nat] /\ work \in [S!Party -> Nat]
      /\ stage \in [S!Party -> {"unregistered", "registered", "completed"}]
      /\ nopCount \in [S!Party -> Nat]
      /\ peersCompleted \in [S!Party -> SUBSET S!Party]
  BY <1>1 DEF BarrierInv, S!TypeOK
<1>3. Range(loopbacks) \subseteq S!Party /\ Range(network) \subseteq S!Message
  BY <1>2, RangeOfSeq
<1> QED
  BY <1>2, <1>3 DEF S!Message

\* What is sent during the tick that the queue has reached.
LEMMA BarrierSent ==
  ASSUME NEW q \in Seq(S!Message), NEW t \in Seq(S!Message), NEW now \in Nat,
         InLockStep(q, now), Distinct(q, {"nop"}), Distinct(q, {"nextRound"}),
         \A i \in DOMAIN t : t[i].at = now + 1,
         Distinct(t, {"nop"}), Distinct(t, {"nextRound"}),
         \A m \in Range(q), k \in Range(t) : m.body = k.body => m.from # k.from
  PROVE  /\ q \o t \in Seq(S!Message)
         /\ InLockStep(q \o t, now)
         /\ Distinct(q \o t, {"nop"}) /\ Distinct(q \o t, {"nextRound"})
         /\ Range(q \o t) = Range(q) \union Range(t)
<1>1. q \o t \in Seq(S!Message) /\ Range(q \o t) = Range(q) \union Range(t)
  BY RangeConcatenation, ConcatProperties
<1>2. \A m \in S!Message : m.at \in Nat
  BY DEF S!Message
<1>3. \A i \in DOMAIN q : q[i].at >= now
  BY DEF InLockStep
<1>4. InLockStep(q \o t, now)
  BY <1>2, <1>3, SentInLockStep
<1>5. Distinct(q \o t, {"nop"})
  BY SentDistinct
<1>6. Distinct(q \o t, {"nextRound"})
  BY SentDistinct
<1> QED BY <1>1, <1>4, <1>5, <1>6

LEMMA BarrierStart ==
  ASSUME BarrierInv, NEW p \in S!Party, S!Start(p)
  PROVE  BarrierInv'
<1>0. PICK now \in Nat : now = startAt[p]
  BY BarrierFields
<1>2. /\ stage[p] = "unregistered" /\ clock <= now /\ clock' = now
      /\ UNCHANGED <<startAt, work, peersCompleted>>
      /\ stage' = [stage EXCEPT ![p] = "registered"]
      /\ nopCount' = [nopCount EXCEPT ![p] = work[p]]
      /\ loopbacks # <<>> => now = clock
      /\ \A i \in DOMAIN network : network[i].at >= now
      /\ \A q \in S!Party : stage[q] = "unregistered" => startAt[q] >= now
      /\ Range(loopbacks) # {} => now = clock
  BY <1>0 DEF BarrierInv, StartsToCome, S!Start, S!IsTime, Range
<1>3. /\ p \notin Range(loopbacks)
      /\ \A m \in Range(network) : m.from # p
      /\ \A q \in S!Party : p \notin peersCompleted[q]
  BY <1>2, BarrierFields
     DEF BarrierInv, RoundsInTime, CompletionsInTime, Announcements, CountedPeers, HasArrived
<1>4. /\ stage' \in [S!Party -> {"unregistered", "registered", "completed"}]
      /\ nopCount' \in [S!Party -> 0..MaxWork]
      /\ stage'[p] = "registered" /\ nopCount'[p] = work[p] 
      /\ \A q \in S!Party : q # p => stage'[q] = stage[q] /\ nopCount'[q] = nopCount[q]
  BY <1>0, <1>2, BarrierFields DEF BarrierInv, S!TypeOK
<1>5. S!Overlapping' /\ StartsToCome' /\ AllCounted'
  BY <1>0, <1>2, <1>4 DEF BarrierInv, S!Overlapping, StartsToCome, AllCounted
<1>10. Range(loopbacks') \subseteq Range(loopbacks) \union {p} => CountedPeers'
  <2> SUFFICES ASSUME Range(loopbacks') \subseteq Range(loopbacks) \union {p},
                      NEW r \in S!Party, NEW q \in peersCompleted[r]
               PROVE  /\ stage'[q] # "unregistered" /\ nopCount'[q] = 0
                      /\ q \notin Range(loopbacks') /\ startAt[q] + work[q] < clock'
    BY <1>2 DEF CountedPeers, HasArrived, ArrivalTime
  <2>1. q \in S!Party /\ q # p /\ startAt[q] + work[q] \in Nat
    BY <1>3, BarrierFields
  <2>2. /\ stage[q] # "unregistered" /\ nopCount[q] = 0
        /\ q \notin Range(loopbacks) /\ startAt[q] + work[q] < clock
    BY DEF BarrierInv, CountedPeers, HasArrived, ArrivalTime
  <2> QED BY <1>0, <1>2, <1>4, <2>1, <2>2, BarrierFields
<1>6. ASSUME NEW t \in Seq(S!Message),
             \A i \in DOMAIN t : t[i].at = now + 1, \A m \in Range(t) : m.from = p,
             Distinct(t, {"nop"}), Distinct(t, {"nextRound"})
      PROVE  /\ network \o t \in Seq(S!Message)
             /\ InLockStep(network \o t, now)
             /\ Distinct(network \o t, {"nop"}) /\ Distinct(network \o t, {"nextRound"})
             /\ Range(network \o t) = Range(network) \union Range(t)
  <2>1. InLockStep(network, now)
    BY <1>0, <1>2, BarrierFields DEF BarrierInv, BarrierQueues, InLockStep
  <2>2. \A m \in Range(network), k \in Range(t) : m.body = k.body => m.from # k.from
    BY <1>3, <1>6
  <2> QED BY <1>6, <2>1, <2>2, BarrierFields, BarrierSent DEF BarrierInv, BarrierQueues
<1>7. CASE work[p] = 0 /\ network' = network \o S!NextRound(now, p) /\ UNCHANGED loopbacks
  <2>1. /\ network' \in Seq(S!Message) /\ BarrierQueues'
        /\ Range(network') = Range(network) \union Range(S!NextRound(now, p))
    BY <1>2, <1>6, <1>7, NextRoundProperties DEF BarrierInv, BarrierQueues
  <2>2. \A m \in Range(S!NextRound(now, p)) : m.at = now + 1 /\ m.from = p /\ m.to \in S!Party /\ m.body = "nextRound"
    BY NextRoundProperties
  <2>3. S!TypeOK'
    BY <1>2, <1>4, <1>7, <2>1, BarrierFields DEF BarrierInv, S!TypeOK
  <2>4. RoundsInTime'
    BY <1>0, <1>2, <1>3, <1>4, <2>1, <2>2, BarrierFields DEF BarrierInv, RoundsInTime, HasArrived, ArrivalTime
  <2>5. CompletionsInTime'
    BY <1>0, <1>2, <1>3, <1>4, <1>7, BarrierFields DEF BarrierInv, CompletionsInTime, HasArrived, ArrivalTime
  <2>6. Announcements'
    BY <1>0, <1>2, <1>3, <1>4, <1>7, <2>1, <2>2, BarrierFields DEF BarrierInv, Announcements, HasArrived, ArrivalTime
  <2>7. CountedPeers'
    BY <1>7, <1>10
  <2> QED BY <1>2, <1>5, <2>1, <2>3, <2>4, <2>5, <2>6, <2>7 DEF BarrierInv
<1>8. CASE work[p] = 0 /\ loopbacks' = Append(loopbacks, p) /\ UNCHANGED network
  <2>1. /\ loopbacks' \in Seq(S!Party) /\ IsInjective(loopbacks')
        /\ Range(loopbacks') = Range(loopbacks) \union {p}
    BY <1>3, <1>8, BarrierFields, InjectiveAppend, AppendProperties DEF BarrierInv, BarrierQueues
  <2>2. BarrierQueues'
    <3>1. InLockStep(network, now)
      BY <1>0, <1>2, BarrierFields DEF BarrierInv, BarrierQueues, InLockStep
    <3> QED BY <1>2, <1>8, <2>1, <3>1 DEF BarrierInv, BarrierQueues
  <2>3. S!TypeOK'
    BY <1>2, <1>4, <1>8, <2>1, BarrierFields DEF BarrierInv, S!TypeOK
  <2>4. RoundsInTime'
    BY <1>0, <1>2, <1>3, <1>4, <1>8, BarrierFields DEF BarrierInv, RoundsInTime, HasArrived, ArrivalTime
  <2>5. CompletionsInTime'
    BY <1>0, <1>2, <1>3, <1>4, <1>8, <2>1, BarrierFields DEF BarrierInv, CompletionsInTime, HasArrived, ArrivalTime
  <2>6. Announcements'
    BY <1>0, <1>2, <1>3, <1>4, <1>8, <2>1, BarrierFields DEF BarrierInv, Announcements, HasArrived, ArrivalTime
  <2>7. CountedPeers'
    BY <1>10, <2>1
  <2> QED BY <1>2, <1>5, <2>2, <2>3, <2>4, <2>5, <2>6, <2>7 DEF BarrierInv
<1>9. CASE work[p] > 0 /\ network' = Append(network, S!Letter(now, p, p, "nop")) /\ UNCHANGED loopbacks
  <2>1. network' = network \o <<S!Letter(now, p, p, "nop")>>
    BY <1>0, <1>9, BarrierFields, NopProperties, AppendIsConcat
  <2>3. /\ <<S!Letter(now, p, p, "nop")>> \in Seq(S!Message)
        /\ \A m \in Range(<<S!Letter(now, p, p, "nop")>>) :
             m.at = now + 1 /\ m.from = p /\ m.to = p /\ m.body = "nop"
        /\ \A i \in DOMAIN <<S!Letter(now, p, p, "nop")>> :
             <<S!Letter(now, p, p, "nop")>>[i].at = now + 1
        /\ Distinct(<<S!Letter(now, p, p, "nop")>>, {"nop"})
        /\ Distinct(<<S!Letter(now, p, p, "nop")>>, {"nextRound"})
    BY NopProperties
  <2>2. /\ network' \in Seq(S!Message) /\ BarrierQueues'
        /\ Range(network') = Range(network) \union Range(<<S!Letter(now, p, p, "nop")>>)
    <3>1. /\ network' \in Seq(S!Message) /\ InLockStep(network', now)
          /\ Distinct(network', {"nop"}) /\ Distinct(network', {"nextRound"})
          /\ Range(network') = Range(network) \union Range(<<S!Letter(now, p, p, "nop")>>)
      BY <1>6, <2>1, <2>3
    <3> QED BY <1>2, <1>9, <3>1 DEF BarrierInv, BarrierQueues
  <2>4. S!TypeOK'
    BY <1>2, <1>4, <1>9, <2>2, BarrierFields DEF BarrierInv, S!TypeOK
  <2>5. RoundsInTime'
    <3> SUFFICES ASSUME NEW m \in Range(network'), m.body = "nop"
                 PROVE  /\ m.from = m.to
                        /\ stage'[m.to] = "registered" /\ nopCount'[m.to] > 0
                        /\ m.at + nopCount'[m.to] = startAt[m.to] + work[m.to] + 1
      BY <1>2 DEF RoundsInTime, ArrivalTime
    <3>1. CASE m \in Range(network)
      <4>1. m.from = m.to /\ m.to # p /\ m.to \in S!Party
        BY <1>3, <3>1, BarrierFields DEF BarrierInv, RoundsInTime
      <4> QED BY <1>4, <3>1, <4>1 DEF BarrierInv, RoundsInTime, ArrivalTime
    <3>2. CASE m.at = now + 1 /\ m.from = p /\ m.to = p
      BY <1>0, <1>4, <1>9, <3>2, BarrierFields
    <3> QED BY <2>2, <2>3, <3>1, <3>2
  <2>6. CompletionsInTime'
    BY <1>0, <1>2, <1>3, <1>4, <1>9, BarrierFields DEF BarrierInv, CompletionsInTime, HasArrived, ArrivalTime
  <2>7. Announcements'
    BY <1>0, <1>2, <1>3, <1>4, <1>9, <2>2, <2>3, BarrierFields DEF BarrierInv, Announcements, HasArrived, ArrivalTime
  <2>8. CountedPeers'
    BY <1>9, <1>10
  <2> QED BY <1>2, <1>5, <2>2, <2>4, <2>5, <2>6, <2>7, <2>8 DEF BarrierInv
<1> QED
  BY <1>0, <1>7, <1>8, <1>9 DEF S!Start

LEMMA BarrierHandleNop ==
  ASSUME BarrierInv, S!HandleNop
  PROVE  BarrierInv'
<1>1. PICK m \in S!Due : /\ S!Handle(m, "nop") /\ S!NopRound(m.to, m.at)
                         /\ UNCHANGED <<stage, peersCompleted>>
  BY DEF S!HandleNop
<1> DEFINE p == m.to
           now == m.at
<1>2. /\ loopbacks = <<>> /\ Range(loopbacks) = {}
      /\ m \in S!Message /\ m \in Range(network)
      /\ Tail(network) \in Seq(S!Message) /\ Range(Tail(network)) \subseteq Range(network)
      /\ now \in {clock, clock + 1}
      /\ InLockStep(Tail(network), now)
      /\ Distinct(Tail(network), {"nop"}) /\ Distinct(Tail(network), {"nextRound"})
      /\ \A k \in Range(Tail(network)) :
              k.body = m.body => k.from # m.from \/ k.to # m.to
  BY BarrierDue
<1>3. /\ m.body = "nop" /\ stage[p] = "registered" /\ clock' = now
      /\ \A q \in S!Party : stage[q] = "unregistered" => startAt[q] >= now
      /\ UNCHANGED <<startAt, work, stage, peersCompleted>>
  BY <1>1 DEF S!Handle
<1>4. /\ p \in S!Party /\ now \in Nat /\ m.from = p /\ nopCount[p] > 0
      /\ now + nopCount[p] = startAt[p] + work[p] + 1
      /\ nopCount[p] \in Nat /\ clock \in Nat /\ clock <= now
      /\ startAt[p] \in Nat /\ work[p] \in Nat
  BY <1>2, <1>3, BarrierFields DEF BarrierInv, RoundsInTime, ArrivalTime
<1>5. \A k \in Range(Tail(network)) : k.body = "nop" => k.from # p /\ k.to # p
  BY <1>2, <1>3, <1>4 DEF BarrierInv, RoundsInTime
<1>6. /\ nopCount' \in [S!Party -> 0..MaxWork] /\ nopCount'[p] = nopCount[p] - 1
      /\ \A q \in S!Party : q # p => nopCount'[q] = nopCount[q]
  <2>1. nopCount \in [S!Party -> 0..MaxWork] /\ MaxWork \in Nat
    BY BarrierAssumption DEF BarrierInv, S!TypeOK, S!SynchronizationAssumption
  <2>2. nopCount' = [nopCount EXCEPT ![p] = nopCount[p] - 1]
    BY <1>1 DEF S!NopRound
  <2> QED BY <1>4, <2>1, <2>2
<1>7. S!Overlapping' /\ StartsToCome' /\ AllCounted'
  BY <1>3, BarrierFields DEF BarrierInv, S!Overlapping, StartsToCome, AllCounted
<1>8. Range(loopbacks') \subseteq {p} => CountedPeers'
  <2> SUFFICES ASSUME Range(loopbacks') \subseteq {p},
                      NEW r \in S!Party, NEW q \in peersCompleted[r]
               PROVE  /\ stage[q] # "unregistered" /\ nopCount'[q] = 0
                      /\ q \notin Range(loopbacks') /\ startAt[q] + work[q] < now
    BY <1>3 DEF CountedPeers, HasArrived, ArrivalTime
  <2>1. /\ stage[q] # "unregistered" /\ nopCount[q] = 0
        /\ startAt[q] + work[q] < clock
    BY DEF BarrierInv, CountedPeers, HasArrived, ArrivalTime
  <2>2. q \in S!Party /\ q # p /\ startAt[q] + work[q] \in Nat
    BY <1>4, <2>1, BarrierFields
  <2> QED BY <1>4, <1>6, <2>1, <2>2
<1>9. ASSUME Range(loopbacks') \subseteq {p},
             \A k \in Range(network') : k.body = "nextRound" => k \in Range(Tail(network))
      PROVE  Announcements'
  <2> SUFFICES ASSUME NEW k \in Range(network'), k.body = "nextRound"
               PROVE  /\ stage[k.from] # "unregistered" /\ nopCount'[k.from] = 0
                      /\ k.from \notin Range(loopbacks')
                      /\ k.from \notin peersCompleted[k.to]
                      /\ k.at = startAt[k.from] + work[k.from] + 1
    BY <1>3 DEF Announcements, HasArrived, ArrivalTime
  <2>1. /\ k \in Range(network) /\ k \in S!Message /\ k.from \in S!Party
    BY <1>2, <1>9, BarrierFields
  <2>2. /\ stage[k.from] # "unregistered" /\ nopCount[k.from] = 0
        /\ k.from \notin peersCompleted[k.to]
        /\ k.at = startAt[k.from] + work[k.from] + 1
    BY <2>1 DEF BarrierInv, Announcements, HasArrived, ArrivalTime
  <2>3. k.from # p
    BY <1>4, <2>2
  <2> QED BY <1>6, <1>9, <2>1, <2>2, <2>3
<1>10. ASSUME \A k \in Range(network') : k.body = "nop" =>
                \/ k \in Range(Tail(network))
                \/ nopCount[p] > 1 /\ k.at = now + 1 /\ k.from = p /\ k.to = p
       PROVE  RoundsInTime'
  <2> SUFFICES ASSUME NEW k \in Range(network'), k.body = "nop"
               PROVE  /\ k.from = k.to /\ stage[k.to] = "registered" /\ nopCount'[k.to] > 0
                      /\ k.at + nopCount'[k.to] = startAt[k.to] + work[k.to] + 1
    BY <1>3 DEF RoundsInTime, ArrivalTime
  <2>1. CASE k \in Range(Tail(network))
    <3>1. k.to # p /\ k.to \in S!Party /\ k \in Range(network)
      BY <1>2, <1>5, <2>1, BarrierFields
    <3> QED BY <1>6, <3>1 DEF BarrierInv, RoundsInTime, ArrivalTime
  <2>2. CASE nopCount[p] > 1 /\ k.at = now + 1 /\ k.from = p /\ k.to = p
    BY <1>3, <1>4, <1>6, <2>2
  <2> QED BY <1>10, <2>1, <2>2
<1>11. CASE nopCount[p] = 1
  <2>1. loopbacks' = <<p>> /\ network' = Tail(network)
    BY <1>1, <1>2, <1>11 DEF S!NopRound
  <2>2. loopbacks' \in Seq(S!Party) /\ Range(loopbacks') = {p} /\ IsInjective(loopbacks')
    BY <2>1, <1>4 DEF Range, IsInjective
  <2>3. S!TypeOK' /\ BarrierQueues'
    BY <1>2, <1>3, <1>4, <1>6, <2>1, <2>2 DEF BarrierInv, S!TypeOK, BarrierQueues
  <2>4. CompletionsInTime'
    <3>2. nopCount'[p] = 0 /\ now = startAt[p] + work[p]
      BY <1>4, <1>6, <1>11
    <3>1. \A r \in Range(loopbacks') :
            stage'[r] = "registered" /\ nopCount'[r] = 0 /\ clock' = startAt'[r] + work'[r]
      BY <1>3, <2>2, <3>2
    <3> QED BY <3>1 DEF CompletionsInTime, ArrivalTime
  <2>5. RoundsInTime' /\ Announcements' /\ CountedPeers'
    BY <1>8, <1>9, <1>10, <2>1, <2>2
  <2> QED BY <1>7, <2>3, <2>4, <2>5 DEF BarrierInv
<1>12. CASE nopCount[p] > 1
  <2> DEFINE t == <<S!Letter(now, p, p, "nop")>>
  <2>1. network' = Append(Tail(network), S!Letter(now, p, p, "nop")) /\ loopbacks' = <<>>
    BY <1>1, <1>2, <1>4, <1>12 DEF S!NopRound
  <2>2. network' = Tail(network) \o t
    BY <1>2, <1>4, <2>1, NopProperties, AppendIsConcat
  <2>3. /\ t \in Seq(S!Message)
        /\ \A k \in Range(t) : k.at = now + 1 /\ k.from = p /\ k.to = p /\ k.body = "nop"
        /\ \A i \in DOMAIN t : t[i].at = now + 1
        /\ Distinct(t, {"nop"})
        /\ Distinct(t, {"nextRound"})
    BY <1>4, NopProperties
  <2> HIDE DEF t
  <2>4. \A k \in Range(Tail(network)), l \in Range(t) : k.body = l.body => k.from # l.from
    BY <1>5, <2>3
  <2>5. /\ network' \in Seq(S!Message) /\ InLockStep(network', now)
        /\ Distinct(network', {"nop"}) /\ Distinct(network', {"nextRound"})
        /\ Range(network') = Range(Tail(network)) \union Range(t)
    BY <1>2, <1>4, <2>2, <2>3, <2>4, BarrierSent
  <2>6. loopbacks' \in Seq(S!Party) /\ Range(loopbacks') = {} /\ IsInjective(loopbacks')
    BY <2>1 DEF Range, IsInjective
  <2>7. S!TypeOK' /\ BarrierQueues'
    BY <1>2, <1>3, <1>4, <1>6, <2>5, <2>6 DEF BarrierInv, S!TypeOK, BarrierQueues
  <2>8. CompletionsInTime'
    BY <2>6 DEF CompletionsInTime
  <2>9. RoundsInTime'
    BY <1>10, <1>12, <2>3, <2>5
  <2>10. Announcements' /\ CountedPeers'
    BY <1>8, <1>9, <2>3, <2>5, <2>6
  <2> QED BY <1>7, <2>7, <2>8, <2>9, <2>10 DEF BarrierInv
<1> QED BY <1>4, <1>11, <1>12
LEMMA BarrierHandleSubProtocolCompleted ==
  ASSUME BarrierInv, S!HandleSubProtocolCompleted
  PROVE  BarrierInv'
<1> DEFINE p == Head(loopbacks)
           t == S!NextRound(clock, p)
<1>1. /\ loopbacks # <<>> /\ loopbacks' = Tail(loopbacks) /\ network' = network \o t
      /\ UNCHANGED <<clock, startAt, work, stage, nopCount, peersCompleted>>
  BY DEF S!HandleSubProtocolCompleted
<1>2. /\ p \in S!Party /\ p \in Range(loopbacks)
      /\ loopbacks' \in Seq(S!Party) /\ Range(loopbacks') \subseteq Range(loopbacks)
      /\ IsInjective(loopbacks') /\ p \notin Range(loopbacks')
  BY <1>1, BarrierFields, HeadAndTail, InjectiveTail DEF BarrierInv, BarrierQueues
<1>3. /\ stage[p] = "registered" /\ nopCount[p] = 0 /\ clock = startAt[p] + work[p]
  BY <1>2 DEF BarrierInv, CompletionsInTime, ArrivalTime
<1>4. /\ t \in Seq(S!Message)
      /\ \A k \in Range(t) :
              k.at = clock + 1 /\ k.from = p /\ k.to \in S!Party /\ k.body = "nextRound"
      /\ \A i \in DOMAIN t : t[i].at = clock + 1
      /\ Distinct(t, {"nop"}) /\ Distinct(t, {"nextRound"})
  BY <1>2, BarrierFields, NextRoundProperties
<1> HIDE DEF t
<1>5. \A k \in Range(network), l \in Range(t) : k.body = l.body => k.from # l.from
  BY <1>2, <1>4 DEF BarrierInv, Announcements
<1>6. /\ network' \in Seq(S!Message) /\ InLockStep(network', clock)
      /\ Distinct(network', {"nop"}) /\ Distinct(network', {"nextRound"})
      /\ Range(network') = Range(network) \union Range(t)
  BY <1>1, <1>4, <1>5, BarrierFields, BarrierSent DEF BarrierInv, BarrierQueues
<1> HIDE DEF p
<1>7. S!TypeOK' /\ S!Overlapping' /\ BarrierQueues' /\ StartsToCome' /\ AllCounted'
  BY <1>1, <1>2, <1>6
     DEF BarrierInv, S!TypeOK, S!Overlapping, BarrierQueues, StartsToCome, AllCounted
<1>8. RoundsInTime'
  BY <1>1, <1>4, <1>6 DEF BarrierInv, RoundsInTime, ArrivalTime
<1>9. CompletionsInTime'
  BY <1>1, <1>2 DEF BarrierInv, CompletionsInTime, ArrivalTime
<1>10. CountedPeers'
  BY <1>1, <1>2 DEF BarrierInv, CountedPeers, HasArrived, ArrivalTime
<1>11. Announcements'
  <2> SUFFICES ASSUME NEW k \in Range(network'), k.body = "nextRound"
               PROVE  /\ stage[k.from] # "unregistered" /\ nopCount[k.from] = 0
                      /\ k.from \notin Range(loopbacks')
                      /\ k.from \notin peersCompleted[k.to]
                      /\ k.at = startAt[k.from] + work[k.from] + 1
    BY <1>1 DEF Announcements, HasArrived, ArrivalTime
  <2>1. CASE k \in Range(network)
    BY <1>2, <2>1 DEF BarrierInv, Announcements, HasArrived, ArrivalTime
  <2>2. CASE k \in Range(t)
    <3>1. p \notin peersCompleted[k.to]
      BY <1>2, <1>4, <2>2 DEF BarrierInv, CountedPeers
    <3> QED BY <1>2, <1>3, <1>4, <2>2, <3>1
  <2> QED BY <1>6, <2>1, <2>2
<1> QED BY <1>7, <1>8, <1>9, <1>10, <1>11 DEF BarrierInv

\* What changes for the barrier of a party that is told by a peer.
LEMMA BarrierToldByPeer ==
  ASSUME BarrierInv, NEW m \in S!Due, S!Handle(m, "nextRound")
  PROVE  /\ m.to \in S!Party /\ m.from \in S!Party
         /\ stage[m.to] = "registered"
         /\ stage[m.from] # "unregistered" /\ nopCount[m.from] = 0
         /\ m.at = startAt[m.from] + work[m.from] + 1
         /\ m.from \notin peersCompleted[m.to]
         /\ clock' = m.at /\ clock <= m.at /\ m.at \in Nat
         /\ \A q \in S!Party : stage[q] = "unregistered" => startAt[q] >= m.at
         /\ UNCHANGED <<startAt, work>>
         /\ S!EnoughPeers(peersCompleted[m.to] \union {m.from}) =>
              /\ peersCompleted[m.to] \union {m.from} = S!Party
              /\ \A q \in S!Party : /\ stage[q] # "unregistered" /\ nopCount[q] = 0
                                    /\ startAt[q] + work[q] < m.at
<1>1. /\ m \in S!Message /\ m \in Range(network) /\ m.at \in {clock, clock + 1}
      /\ m.to \in S!Party /\ m.from \in S!Party /\ clock \in Nat
  BY BarrierDue, BarrierFields
<1>2. /\ m.body = "nextRound" /\ stage[m.to] = "registered" /\ clock' = m.at
      /\ \A q \in S!Party : stage[q] = "unregistered" => startAt[q] >= m.at
      /\ UNCHANGED <<startAt, work>>
  BY DEF S!Handle
<1>3. /\ stage[m.from] # "unregistered" /\ nopCount[m.from] = 0
      /\ m.from \notin peersCompleted[m.to]
      /\ m.at = startAt[m.from] + work[m.from] + 1
  BY <1>1, <1>2 DEF BarrierInv, Announcements, HasArrived, ArrivalTime
<1>4. \A q \in peersCompleted[m.to] :
         /\ stage[q] # "unregistered" /\ nopCount[q] = 0
         /\ startAt[q] + work[q] < clock
  BY <1>1 DEF BarrierInv, CountedPeers, HasArrived, ArrivalTime
<1>5. \A q \in S!Party : startAt[q] + work[q] \in Nat
  BY BarrierFields
<1>6. peersCompleted[m.to] \union {m.from} \in SUBSET S!Party
  BY <1>1, BarrierFields
<1>7. \A q \in peersCompleted[m.to] \union {m.from} :
         /\ stage[q] # "unregistered" /\ nopCount[q] = 0
         /\ startAt[q] + work[q] < m.at
  BY <1>1, <1>3, <1>4, <1>5, <1>6
<1>8. S!EnoughPeers(peersCompleted[m.to] \union {m.from}) =>
        peersCompleted[m.to] \union {m.from} = S!Party
  BY <1>6, EverybodyCounted
<1> QED BY <1>1, <1>2, <1>3, <1>7, <1>8

LEMMA BarrierHandleNextRound ==
  ASSUME BarrierInv, S!HandleNextRound
  PROVE  BarrierInv'
<1>1. PICK m \in S!Due :
        /\ S!Handle(m, "nextRound")
        /\ peersCompleted' = [peersCompleted EXCEPT ![m.to] = peersCompleted[m.to] \union {m.from}]
        /\ stage' = IF S!EnoughPeers(peersCompleted[m.to] \union {m.from})
                      THEN [stage EXCEPT ![m.to] = "completed"]
                      ELSE stage
        /\ network' = Tail(network)
        /\ UNCHANGED <<nopCount, loopbacks>>
  BY DEF S!HandleNextRound
<1> DEFINE p == m.to
           peers == peersCompleted[p] \union {m.from}
<1>2. /\ loopbacks = <<>> /\ Range(loopbacks) = {}
      /\ Tail(network) \in Seq(S!Message) /\ Range(Tail(network)) \subseteq Range(network)
      /\ InLockStep(Tail(network), m.at)
      /\ Distinct(Tail(network), {"nop"}) /\ Distinct(Tail(network), {"nextRound"})
      /\ \A k \in Range(Tail(network)) :
              k.body = m.body => k.from # m.from \/ k.to # m.to
  BY BarrierDue
<1>3. /\ p \in S!Party /\ m.from \in S!Party
      /\ stage[p] = "registered"
      /\ stage[m.from] # "unregistered" /\ nopCount[m.from] = 0
      /\ m.at = startAt[m.from] + work[m.from] + 1
      /\ clock' = m.at /\ clock <= m.at /\ m.at \in Nat /\ clock \in Nat
      /\ \A q \in S!Party : stage[q] = "unregistered" => startAt[q] >= m.at
      /\ UNCHANGED <<startAt, work>>
      /\ S!EnoughPeers(peers) =>
              /\ peers = S!Party
              /\ \A q \in S!Party : nopCount[q] = 0
      /\ m.body = "nextRound"
  BY <1>1, BarrierToldByPeer, BarrierFields DEF S!Handle
<1>4. /\ peersCompleted' \in [S!Party -> SUBSET S!Party]
      /\ peersCompleted'[p] = peers
      /\ \A q \in S!Party : q # p => peersCompleted'[q] = peersCompleted[q]
  BY <1>1, <1>3, BarrierFields
<1>5. /\ stage' \in [S!Party -> {"unregistered", "registered", "completed"}]
      /\ stage'[p] = IF S!EnoughPeers(peers) THEN "completed" ELSE "registered"
      /\ \A q \in S!Party : q # p => stage'[q] = stage[q]
      /\ \A q \in S!Party : stage'[q] # "unregistered" <=> stage[q] # "unregistered"
  BY <1>1, <1>3, BarrierFields
<1>6. S!TypeOK' /\ S!Overlapping' /\ BarrierQueues'
  BY <1>1, <1>2, <1>3, <1>4, <1>5 DEF BarrierInv, S!TypeOK, S!Overlapping, BarrierQueues
<1>7. StartsToCome' /\ CompletionsInTime'
  BY <1>1, <1>2, <1>3, <1>5 DEF StartsToCome, CompletionsInTime
<1>8. RoundsInTime'
  <2> SUFFICES ASSUME NEW k \in Range(Tail(network)), k.body = "nop"
               PROVE  /\ k.from = k.to /\ stage'[k.to] = "registered" /\ nopCount[k.to] > 0
                      /\ k.at + nopCount[k.to] = startAt[k.to] + work[k.to] + 1
    BY <1>1, <1>3 DEF RoundsInTime, ArrivalTime
  <2>1. /\ k.from = k.to /\ stage[k.to] = "registered" /\ nopCount[k.to] > 0
        /\ k.at + nopCount[k.to] = startAt[k.to] + work[k.to] + 1
        /\ k.to \in S!Party
    BY <1>2, BarrierFields DEF BarrierInv, RoundsInTime, ArrivalTime
  <2>2. k.to = p => ~S!EnoughPeers(peers)
    BY <1>3, <2>1
  <2> QED BY <1>5, <2>1, <2>2
<1>9. Announcements'
  <2> SUFFICES ASSUME NEW k \in Range(Tail(network)), k.body = "nextRound"
               PROVE  /\ stage'[k.from] # "unregistered" /\ nopCount[k.from] = 0
                      /\ k.from \notin Range(loopbacks)
                      /\ k.from \notin peersCompleted'[k.to]
                      /\ k.at = startAt[k.from] + work[k.from] + 1
    BY <1>1, <1>3 DEF Announcements, HasArrived, ArrivalTime
  <2>1. /\ stage[k.from] # "unregistered" /\ nopCount[k.from] = 0
        /\ k.from \notin peersCompleted[k.to]
        /\ k.at = startAt[k.from] + work[k.from] + 1
        /\ k.from \in S!Party /\ k.to \in S!Party
    BY <1>2, BarrierFields DEF BarrierInv, Announcements, HasArrived, ArrivalTime
  <2>2. k.from # m.from \/ k.to # p
    BY <1>2, <1>3
  <2> QED BY <1>2, <1>4, <1>5, <2>1, <2>2
<1>10. CountedPeers'
  <2> SUFFICES ASSUME NEW r \in S!Party, NEW q \in peersCompleted'[r]
               PROVE  /\ stage'[q] # "unregistered" /\ nopCount[q] = 0
                      /\ q \notin Range(loopbacks) /\ startAt[q] + work[q] < m.at
    BY <1>1, <1>3 DEF CountedPeers, HasArrived, ArrivalTime
  <2>1. q \in S!Party /\ startAt[q] + work[q] \in Nat
    BY <1>4, BarrierFields
  <2>2. CASE q \in peersCompleted[r]
    <3>1. /\ stage[q] # "unregistered" /\ nopCount[q] = 0
          /\ startAt[q] + work[q] < clock
      BY <2>2 DEF BarrierInv, CountedPeers, HasArrived, ArrivalTime
    <3> QED BY <1>2, <1>3, <1>5, <2>1, <3>1
  <2>3. CASE q = m.from
    BY <1>2, <1>3, <1>5, <2>1, <2>3
  <2> QED BY <1>4, <2>2, <2>3
<1>11. AllCounted'
  <2> SUFFICES ASSUME NEW r \in S!Party, stage'[r] = "completed"
               PROVE  peersCompleted'[r] = S!Party
    BY DEF AllCounted
  <2>1. CASE r = p
    BY <1>3, <1>4, <1>5, <2>1
  <2>2. CASE r # p
    BY <1>4, <1>5, <2>2 DEF BarrierInv, AllCounted
  <2> QED BY <2>1, <2>2
<1> QED BY <1>6, <1>7, <1>8, <1>9, <1>10, <1>11 DEF BarrierInv

LEMMA BarrierStep ==
  ASSUME BarrierInv, S!Next
  PROVE  BarrierInv'
BY BarrierStart, BarrierHandleNop, BarrierHandleSubProtocolCompleted, BarrierHandleNextRound
   DEF S!Next
LEMMA BarrierMessagesFindProtocol ==
  ASSUME BarrierInv
  PROVE  S!TypeOK /\ S!MessagesFindProtocol
<1> SUFFICES ASSUME NEW m \in Range(network)
             PROVE  /\ stage[m.to] # "completed"
                    /\ stage[m.to] = "unregistered" => startAt[m.to] < m.at
  BY DEF BarrierInv, S!MessagesFindProtocol, Range
<1>1. m.to \in S!Party /\ m.from \in S!Party /\ m.body \in {"nop", "nextRound"}
  BY BarrierFields
<1>2. CASE m.body = "nop"
  BY <1>2 DEF BarrierInv, RoundsInTime
<1>3. CASE m.body = "nextRound"
  <2>1. /\ m.from \notin peersCompleted[m.to]
        /\ m.at = startAt[m.from] + work[m.from] + 1
    BY <1>3 DEF BarrierInv, Announcements, ArrivalTime
  <2>2. stage[m.to] # "completed"
    BY <1>1, <2>1 DEF BarrierInv, AllCounted
  <2>3. startAt[m.to] < m.at
    BY <1>1, <2>1, BarrierFields DEF BarrierInv, S!Overlapping
  <2> QED BY <2>2, <2>3
<1> QED BY <1>1, <1>2, <1>3

LEMMA BarrierLeave ==
  ASSUME BarrierInv, S!Next, NEW p \in S!Party, stage[p] # "completed", stage'[p] = "completed"
  PROVE  S!HandleNextRound /\ S!LeavingTick(clock') /\ S!Arrived = S!Party
<1>1. S!HandleNextRound
  <2>1. ASSUME NEW q \in S!Party, S!Start(q)
        PROVE  FALSE
    BY <2>1, BarrierFields DEF S!Start
  <2> QED BY <2>1 DEF S!Next, S!HandleNop, S!HandleSubProtocolCompleted
<1>2. PICK m \in S!Due :
        /\ S!Handle(m, "nextRound")
        /\ stage' = IF S!EnoughPeers(peersCompleted[m.to] \union {m.from})
                      THEN [stage EXCEPT ![m.to] = "completed"]
                      ELSE stage
  BY <1>1 DEF S!HandleNextRound
<1>3. S!EnoughPeers(peersCompleted[m.to] \union {m.from})
  BY <1>2
<1>4. /\ \A q \in S!Party : /\ stage[q] # "unregistered" /\ nopCount[q] = 0
                            /\ startAt[q] + work[q] < clock'
      /\ clock' = startAt[m.from] + work[m.from] + 1
      /\ m.from \in S!Party
  BY <1>2, <1>3, BarrierToldByPeer
<1>5. S!LeavingTick(clock')
  BY <1>4 DEF S!LeavingTick
<1>6. S!Arrived = S!Party
  BY <1>4 DEF S!Arrived
<1> QED BY <1>1, <1>5, <1>6

\* A step of the barrier is a step of its abstraction: the party that enters with nothing
\* to do, or does its last round, arrives, and one that is told by the last peer leaves.
LEMMA BarrierImplements ==
  ASSUME BarrierInv, S!Next
  PROVE  \/ UNCHANGED <<S!Arrived, S!Left>>
         \/ \E p \in S!Party : /\ p \notin S!Arrived /\ S!Arrived' = S!Arrived \union {p}
                               /\ UNCHANGED S!Left
         \/ \E p \in S!Party : /\ S!Arrived = S!Party
                               /\ p \notin S!Left /\ S!Left' = S!Left \union {p}
                               /\ UNCHANGED S!Arrived
<1>1. ASSUME NEW p \in S!Party, S!Start(p)
      PROVE  /\ UNCHANGED S!Left
             /\ S!Arrived' = S!Arrived \/ (p \notin S!Arrived /\ S!Arrived' = S!Arrived \union {p})
  <2>1. /\ stage[p] = "unregistered" /\ stage'[p] = "registered" /\ nopCount'[p] = work[p]
        /\ \A q \in S!Party : q # p => stage'[q] = stage[q] /\ nopCount'[q] = nopCount[q]
    BY <1>1, BarrierFields DEF S!Start
  <2>2. p \notin S!Arrived /\ p \notin S!Left
    BY <2>1 DEF S!Arrived, S!Left
  <2>3. UNCHANGED S!Left
    BY <2>1 DEF S!Left
  <2>4. CASE work[p] = 0
    <3>1. S!Arrived' = S!Arrived \union {p}
      BY <2>1, <2>4 DEF S!Arrived
    <3> QED BY <2>2, <2>3, <3>1
  <2>5. CASE work[p] # 0
    <3>1. S!Arrived' = S!Arrived
      BY <2>1, <2>5 DEF S!Arrived
    <3> QED BY <2>3, <3>1
  <2> QED BY <2>4, <2>5
<1>2. ASSUME S!HandleNop
      PROVE  /\ UNCHANGED S!Left
             /\ \/ S!Arrived' = S!Arrived
                \/ \E p \in S!Party : p \notin S!Arrived /\ S!Arrived' = S!Arrived \union {p}
  <2>1. PICK m \in S!Due : /\ S!Handle(m, "nop") /\ S!NopRound(m.to, m.at)
                           /\ UNCHANGED <<stage, peersCompleted>>
    BY <1>2 DEF S!HandleNop
  <2>2. /\ m.to \in S!Party /\ stage[m.to] = "registered" /\ nopCount[m.to] > 0
        /\ nopCount[m.to] \in Nat
    BY <2>1, BarrierDue, BarrierFields DEF S!Handle, BarrierInv, RoundsInTime
  <2>3. /\ nopCount'[m.to] = nopCount[m.to] - 1
        /\ \A q \in S!Party : q # m.to => nopCount'[q] = nopCount[q]
    BY <2>1, <2>2, BarrierFields DEF S!NopRound
  <2>4. m.to \notin S!Arrived
    BY <2>2 DEF S!Arrived
  <2>5. UNCHANGED S!Left
    BY <2>1 DEF S!Left
  <2>6. CASE nopCount[m.to] = 1
    <3>1. S!Arrived' = S!Arrived \union {m.to}
      BY <2>1, <2>2, <2>3, <2>6 DEF S!Arrived
    <3> QED BY <2>2, <2>4, <2>5, <3>1
  <2>7. CASE nopCount[m.to] # 1
    <3>1. nopCount'[m.to] # 0
      BY <2>2, <2>3, <2>7
    <3>2. S!Arrived' = S!Arrived
      BY <2>1, <2>2, <2>3, <3>1 DEF S!Arrived
    <3> QED BY <2>5, <3>2
  <2> QED BY <2>6, <2>7
<1>3. ASSUME S!HandleSubProtocolCompleted
      PROVE  UNCHANGED <<S!Arrived, S!Left>>
  BY <1>3 DEF S!HandleSubProtocolCompleted, S!Arrived, S!Left
<1>4. ASSUME S!HandleNextRound
      PROVE  /\ UNCHANGED S!Arrived
             /\ \/ UNCHANGED S!Left
                \/ \E p \in S!Party : /\ S!Arrived = S!Party
                                      /\ p \notin S!Left /\ S!Left' = S!Left \union {p}
  <2>1. PICK m \in S!Due :
        /\ S!Handle(m, "nextRound")
        /\ stage' = IF S!EnoughPeers(peersCompleted[m.to] \union {m.from})
                      THEN [stage EXCEPT ![m.to] = "completed"]
                      ELSE stage
        /\ UNCHANGED nopCount
    BY <1>4 DEF S!HandleNextRound
  <2>2. m.to \in S!Party /\ stage[m.to] = "registered"
    BY <2>1, BarrierToldByPeer
  <2>3. CASE S!EnoughPeers(peersCompleted[m.to] \union {m.from})
    <3>1. /\ stage'[m.to] = "completed"
          /\ \A q \in S!Party : q # m.to => stage'[q] = stage[q]
      BY <2>1, <2>2, <2>3, BarrierFields
    <3>2. UNCHANGED S!Arrived
      BY <2>1, <2>2, <3>1 DEF S!Arrived
    <3>3. m.to \notin S!Left /\ S!Left' = S!Left \union {m.to}
      BY <2>2, <3>1 DEF S!Left
    <3>4. S!Arrived = S!Party
      BY <1>4, <2>2, <3>1, BarrierLeave DEF S!Next
    <3> QED BY <2>2, <3>2, <3>3, <3>4
  <2>4. CASE ~S!EnoughPeers(peersCompleted[m.to] \union {m.from})
    BY <2>1, <2>4 DEF S!Arrived, S!Left
  <2> QED BY <2>3, <2>4
<1> QED
  BY <1>1, <1>2, <1>3, <1>4 DEF S!Next

-----------------------------------------------------------------------------
(***************************************************************************)
(* Majority filtering.                                                     *)
(***************************************************************************)

Honest == Sender \ Faulty

MajorityQueues ==
  /\ clock \in 0..2
  /\ InLockStep(network, clock)
  /\ Distinct(network, {"nop"})
  /\ Distinct(network, {"nextRound"})
  /\ IsInjective(loopbacks)

StartsAtZero == \A p \in M!Party : stage[p] = "unregistered" => clock = 0

\* The values come from the members in the first tick, those of correct members are agreed.
ValuesInTime ==
  \A m \in Range(network) : m.body \in Value =>
    /\ m.at = 1 /\ m.from \in Sender /\ m.to \in Receiver
    /\ m.from \in Faulty \/ m.body = Agreed

\* A member that runs its no-op rounds is in the first or in the second of them.
NopRoundsInTime ==
  \A m \in Range(network) : m.body = "nop" =>
    /\ m.from = m.to /\ m.to \in Sender
    /\ stage[m.to] = "registered"
    /\ nopCount[m.to] > 0 /\ m.at + nopCount[m.to] = 3

MembersDone ==
  \A s \in Range(loopbacks) : stage[s] = "registered" /\ nopCount[s] = 0 /\ clock = 2

\* A receiver tallies in the second tick, once.
TalliesInTime ==
  \A m \in Range(network) : m.body = "nextRound" =>
    /\ m.from = m.to /\ m.to \in Receiver
    /\ stage[m.to] = "registered" /\ scheduledTally[m.to]
    /\ m.at = 2

\* What a receiver has not heard of a correct member that has started is on the way.
ValuesOnTheWay ==
  \A r \in Receiver : \A s \in senders[r] \intersect Honest : stage[s] # "unregistered" =>
    \E m \in Range(network) : m.body \in Value /\ m.from = s /\ m.to = r

\* Every correct member that was heard sent the agreed value, and no correct one another.
ValuesCounted ==
  \A r \in Receiver :
    /\ Cardinality(Occurrences(received[r], {Agreed})) >= Cardinality(Honest \ senders[r])
    /\ Cardinality(Occurrences(received[r], Value \ {Agreed})) <=
         Cardinality(Faulty \ senders[r])

LeftAtTwo == \A p \in M!Party : stage[p] = "completed" => clock = 2

ResultsAgreed ==
  M!HonestMajority => \A r \in Receiver : stage[r] = "completed" => result[r] = Agreed

MajorityInv ==
  /\ M!TypeOK
  /\ MajorityQueues
  /\ StartsAtZero
  /\ ValuesInTime
  /\ NopRoundsInTime
  /\ MembersDone
  /\ TalliesInTime
  /\ ValuesOnTheWay
  /\ ValuesCounted
  /\ LeftAtTwo
  /\ ResultsAgreed

LEMMA MembersAreFinite ==
  /\ IsFiniteSet(Sender) /\ IsFiniteSet(Receiver)
  /\ Sender \intersect Receiver = {}
  /\ Faulty \subseteq Sender
  /\ Agreed \in Value /\ NoValue \notin Value
  /\ "nop" \notin Value /\ "nextRound" \notin Value
<1>1. M!MajorityAssumption
  BY FilteringAssumption
<1> QED BY <1>1 DEF M!MajorityAssumption, M!IsFiniteSet, IsFiniteSet

LEMMA SubsetsOfMembers ==
  ASSUME NEW T, T \subseteq Sender
  PROVE  IsFiniteSet(T) /\ Cardinality(T) \in Nat /\ Cardinality(T) <= Cardinality(Sender)
BY MembersAreFinite, FS_Subset, FS_CardinalityType

LEMMA MajorityFields ==
  ASSUME MajorityInv
  PROVE  /\ clock \in Nat /\ network \in Seq(M!Message) /\ loopbacks \in Seq(Sender)
         /\ stage \in [M!Party -> {"unregistered", "registered", "completed"}]
         /\ nopCount \in [Sender -> Nat]
         /\ senders \in [Receiver -> SUBSET Sender]
         /\ received \in [Receiver -> Seq(Value)]
         /\ \A r \in Receiver :
              Len(received[r]) + Cardinality(senders[r]) = Cardinality(Sender)
         /\ scheduledTally \in [Receiver -> BOOLEAN]
         /\ result \in [Receiver -> Value \union {NoValue}]
         /\ Range(loopbacks) \subseteq Sender
         /\ Range(network) \subseteq M!Message
         /\ \A m \in M!Message : /\ m.at \in Nat /\ m.from \in M!Party /\ m.to \in M!Party
                                 /\ m.body \in Value \union {"nop", "nextRound"}
         /\ Sender \subseteq M!Party /\ Receiver \subseteq M!Party
<1>1. /\ clock \in Nat /\ network \in Seq(M!Message) /\ loopbacks \in Seq(Sender)
      /\ stage \in [M!Party -> {"unregistered", "registered", "completed"}]
      /\ nopCount \in [Sender -> 0..2]
      /\ senders \in [Receiver -> SUBSET Sender]
      /\ received \in [Receiver -> Seq(Value)]
      /\ \A r \in Receiver :
           Len(received[r]) + M!Cardinality(senders[r]) = M!Cardinality(Sender)
      /\ scheduledTally \in [Receiver -> BOOLEAN]
      /\ result \in [Receiver -> Value \union {NoValue}]
  BY DEF MajorityInv, M!TypeOK
<1>3. \A T : M!Cardinality(T) = Cardinality(T)
  BY DEF M!Cardinality, Cardinality, M!IsFiniteSet, IsFiniteSet
<1>2. Range(loopbacks) \subseteq Sender /\ Range(network) \subseteq M!Message
  BY <1>1, RangeOfSeq
<1>4. nopCount \in [Sender -> Nat]
  <2>1. nopCount \in [Sender -> 0..2]
    BY <1>1
  <2>2. 0..2 \subseteq Nat
    OBVIOUS
  <2> QED BY <2>1, <2>2, Zenon
<1> QED BY <1>1, <1>2, <1>3, <1>4 DEF M!Message, M!Party

LEMMA MajorityInit ==
  ASSUME M!Init
  PROVE  MajorityInv
<1>1. network = <<>> /\ loopbacks = <<>> /\ clock = 0
  BY DEF M!Init, M!NetworkInit
<1>2. Range(network) = {} /\ Range(loopbacks) = {}
  BY <1>1 DEF Range
<1>3. MajorityQueues
  BY <1>1 DEF MajorityQueues, InLockStep, Distinct, IsInjective
<1>4. Cardinality(Sender) \in Nat
  BY SubsetsOfMembers
<1>5. M!TypeOK
  <2>1. \A r \in Receiver : Len(<<>>) + Cardinality(Sender) = Cardinality(Sender)
    BY <1>4
  <2>2. \A r \in Receiver : Len(received[r]) + M!Cardinality(senders[r]) = M!Cardinality(Sender)
    BY <2>1 DEF M!Init, M!Cardinality, Cardinality, M!IsFiniteSet, IsFiniteSet
  <2> QED BY <1>1, <2>2, MembersAreFinite DEF M!Init, M!TypeOK
<1>6. ValuesCounted
  <2> SUFFICES ASSUME NEW r \in Receiver
               PROVE  /\ Cardinality(Occurrences(<<>>, {Agreed})) >= Cardinality(Honest \ Sender)
                      /\ Cardinality(Occurrences(<<>>, Value \ {Agreed})) <=
                           Cardinality(Faulty \ Sender)
    BY DEF M!Init, ValuesCounted
  <2>1. Occurrences(<<>>, {Agreed}) = {} /\ Occurrences(<<>>, Value \ {Agreed}) = {}
    BY DEF Occurrences
  <2>2. Honest \ Sender = {} /\ Faulty \ Sender = {}
    BY MembersAreFinite DEF Honest
  <2>3. Cardinality({}) = 0
    BY FS_EmptySet
  <2>4. /\ Cardinality(Occurrences(<<>>, {Agreed})) = 0
        /\ Cardinality(Occurrences(<<>>, Value \ {Agreed})) = 0
        /\ Cardinality(Honest \ Sender) = 0 /\ Cardinality(Faulty \ Sender) = 0
    BY <2>1, <2>2, <2>3, Zenon
  <2> QED BY <2>4
<1>7. ValuesOnTheWay /\ LeftAtTwo /\ ResultsAgreed
  BY DEF M!Init, M!Party, ValuesOnTheWay, LeftAtTwo, ResultsAgreed, Honest
<1> QED
  BY <1>1, <1>2, <1>3, <1>5, <1>6, <1>7 DEF MajorityInv, StartsAtZero, ValuesInTime,
     NopRoundsInTime, MembersDone, TalliesInTime

LEMMA MajoritySent ==
  ASSUME NEW q \in Seq(M!Message), NEW t \in Seq(M!Message), NEW now \in Nat,
         InLockStep(q, now), Distinct(q, {"nop"}), Distinct(q, {"nextRound"}),
         \A i \in DOMAIN t : t[i].at = now + 1,
         Distinct(t, {"nop"}), Distinct(t, {"nextRound"}),
         \A m \in Range(q), k \in Range(t) :
           m.body = k.body /\ k.body \notin Value => m.from # k.from
  PROVE  /\ q \o t \in Seq(M!Message)
         /\ InLockStep(q \o t, now)
         /\ Distinct(q \o t, {"nop"}) /\ Distinct(q \o t, {"nextRound"})
         /\ Range(q \o t) = Range(q) \union Range(t)
<1>1. q \o t \in Seq(M!Message) /\ Range(q \o t) = Range(q) \union Range(t)
  BY RangeConcatenation, ConcatProperties
<1>2. \A m \in M!Message : m.at \in Nat
  BY DEF M!Message
<1>3. \A i \in DOMAIN q : q[i].at >= now
  BY DEF InLockStep
<1>4. InLockStep(q \o t, now)
  BY <1>2, <1>3, SentInLockStep
<1>5. Distinct(q \o t, {"nop"})
  BY SentDistinct, MembersAreFinite
<1>6. Distinct(q \o t, {"nextRound"})
  BY SentDistinct, MembersAreFinite
<1> QED BY <1>1, <1>4, <1>5, <1>6

\* A message that a party posts for the next tick to itself.
LEMMA RoundProperties ==
  ASSUME NEW now \in Nat, NEW p \in M!Party, NEW body \in {"nop", "nextRound"}
  PROVE  /\ <<M!Letter(now, p, p, body)>> \in Seq(M!Message)
         /\ M!Letter(now, p, p, body) \in M!Message
         /\ \A m \in Range(<<M!Letter(now, p, p, body)>>) :
              m.at = now + 1 /\ m.from = p /\ m.to = p /\ m.body = body
         /\ \A i \in DOMAIN <<M!Letter(now, p, p, body)>> :
              <<M!Letter(now, p, p, body)>>[i].at = now + 1
         /\ Distinct(<<M!Letter(now, p, p, body)>>, {"nop"})
         /\ Distinct(<<M!Letter(now, p, p, body)>>, {"nextRound"})
<1>1. M!Letter(now, p, p, body) = [at |-> now + 1, from |-> p, to |-> p, body |-> body]
  BY DEF M!Letter
<1>2. [at |-> now + 1, from |-> p, to |-> p, body |-> body] \in M!Message
  BY DEF M!Message
<1> QED
  BY <1>1, <1>2 DEF Range, Distinct

\* What a member sends to the receivers.
LEMMA OutgoingProperties ==
  ASSUME NEW s \in Sender, NEW values \in M!Sendings(s)
  PROVE  /\ M!Outgoing(s, values) \in Seq(M!Message)
         /\ \A m \in Range(M!Outgoing(s, values)) :
              /\ m.at = 1 /\ m.from = s /\ m.to \in Receiver
              /\ m.body \in Value \/ (m.body = "nextRound" /\ s \in forging)
              /\ s \in Faulty \/ m.body = Agreed
         /\ s \notin Faulty => \A r \in Receiver :
              \E m \in Range(M!Outgoing(s, values)) : m.to = r
<1> DEFINE sent(r) == [k \in DOMAIN values[r] |-> M!Letter(0, s, r, values[r][k])]
           seqs == [i \in 1..Cardinality(Receiver) |-> sent(SetToSeq(Receiver)[i])]
<1>0. /\ \A b \in M!Bodies(s) : b \in Value \/ (b = "nextRound" /\ s \in forging)
      /\ Agreed \in M!Bodies(s)
  BY MembersAreFinite DEF M!Bodies
<1>1. M!Outgoing(s, values) = FlattenSeq(seqs)
  <2>1. M!Outgoing(s, values) = M!FlattenSeq(
          [i \in 1..M!Cardinality(Receiver) |->
             [k \in DOMAIN values[M!SetToSeq(Receiver)[i]] |->
                M!Letter(0, s, M!SetToSeq(Receiver)[i], values[M!SetToSeq(Receiver)[i]][k])]])
    BY DEF M!Outgoing
  <2>2. M!Cardinality(Receiver) = Cardinality(Receiver)
    BY DEF M!Cardinality, Cardinality, M!IsFiniteSet, IsFiniteSet
  <2>3. M!SetToSeq(Receiver) = SetToSeq(Receiver)
    BY <2>2 DEF M!SetToSeq, SetToSeq, M!IsInjective, IsInjective
  <2>4. \A X : M!FlattenSeq(X) = FlattenSeq(X)
    BY DEF M!FlattenSeq, FlattenSeq
  <2> QED BY <2>1, <2>2, <2>3, <2>4
<1>2. /\ Cardinality(Receiver) \in Nat
      /\ SetToSeq(Receiver) \in [1..Cardinality(Receiver) -> Receiver]
      /\ Range(SetToSeq(Receiver)) = Receiver
  BY MembersAreFinite, SetToSeqProperties
<1>3. /\ values \in [Receiver -> Seq(M!Bodies(s))]
      /\ s \notin Faulty => \A r \in Receiver : values[r] = <<Agreed>>
  <2>0. PICK bodies : bodies = M!Bodies(s)
    OBVIOUS
  <2>1. CASE s \in Faulty
    <3> DEFINE few == {<<>>} \union {<<v>> : v \in bodies} \union {<<v, w>> : v, w \in bodies}
    <3>1. values \in [Receiver -> few]
      BY <2>0, <2>1 DEF M!Sendings
    <3>2. /\ <<>> \in Seq(bodies)
          /\ \A v \in bodies : <<v>> \in Seq(bodies)
          /\ \A v, w \in bodies : <<v, w>> \in Seq(bodies)
      OBVIOUS
    <3>3. few \subseteq Seq(bodies)
      <4> SUFFICES ASSUME NEW x \in few PROVE x \in Seq(bodies)
        OBVIOUS
      <4>1. \/ x = <<>>
            \/ \E v \in bodies : x = <<v>>
            \/ \E v, w \in bodies : x = <<v, w>>
        OBVIOUS
      <4>2. \A v \in bodies : x = <<v>> => x \in Seq(bodies)
        BY <3>2
      <4>3. \A v, w \in bodies : x = <<v, w>> => x \in Seq(bodies)
        BY <3>2
      <4>4. x = <<>> => x \in Seq(bodies)
        BY <3>2
      <4> HIDE DEF few
      <4> QED BY <4>1, <4>2, <4>3, <4>4, Zenon
    <3> HIDE DEF few
    <3> QED BY <2>0, <2>1, <3>1, <3>3
  <2>2. CASE s \notin Faulty
    <3>1. values \in [Receiver -> {<<Agreed>>}]
      BY <2>2 DEF M!Sendings
    <3>2. <<Agreed>> \in Seq(bodies)
      BY <1>0, <2>0
    <3> QED BY <2>0, <3>1, <3>2
  <2> QED BY <2>1, <2>2
<1>4. ASSUME NEW r \in Receiver
      PROVE  /\ sent(r) \in Seq(M!Message)
             /\ \A m \in Range(sent(r)) :
                  /\ m.at = 1 /\ m.from = s /\ m.to = r
                  /\ m.body \in Value \/ (m.body = "nextRound" /\ s \in forging)
                  /\ s \in Faulty \/ m.body = Agreed
             /\ s \notin Faulty => \E m \in Range(sent(r)) : m.to = r
  <2>1. /\ values[r] \in Seq(M!Bodies(s)) /\ Len(values[r]) \in Nat
        /\ DOMAIN values[r] = 1..Len(values[r])
    BY <1>3, LenProperties
  <2>2. \A k \in 1..Len(values[r]) :
           values[r][k] \in M!Bodies(s) /\ (s \in Faulty \/ values[r][k] = Agreed)
    <3>1. \A k \in 1..Len(values[r]) : values[r][k] \in M!Bodies(s)
      BY <2>1, ElementOfSeq
    <3>2. CASE s \notin Faulty
      <4>0. values[r] = <<Agreed>>
        BY <1>3, <3>2
      <4>1. values[r] = <<Agreed>> /\ Len(values[r]) = 1
        BY <4>0, Len(<<Agreed>>) = 1
      <4>2. \A k \in 1..Len(values[r]) : k = 1
        BY <4>1
      <4> QED BY <3>1, <4>1, <4>2
    <3> QED BY <3>1, <3>2
  <2>3. \A v : M!Letter(0, s, r, v) = [at |-> 1, from |-> s, to |-> r, body |-> v]
    BY DEF M!Letter
  <2>4. \A v \in M!Bodies(s) : [at |-> 1, from |-> s, to |-> r, body |-> v] \in M!Message
    BY <1>0 DEF M!Message, M!Party
  <2>5. sent(r) \in Seq(M!Message) /\ DOMAIN sent(r) = 1..Len(values[r])
    BY <2>1, <2>2, <2>3, <2>4
  <2>6. ASSUME NEW m \in Range(sent(r))
        PROVE  /\ m.at = 1 /\ m.from = s /\ m.to = r
               /\ m.body \in Value \/ (m.body = "nextRound" /\ s \in forging)
               /\ s \in Faulty \/ m.body = Agreed
    <3>1. PICK k \in 1..Len(values[r]) : m = M!Letter(0, s, r, values[r][k])
      BY <2>1 DEF Range
    <3> QED BY <1>0, <2>2, <2>3, <3>1
  <2>7. s \notin Faulty => sent(r)[1] \in Range(sent(r)) /\ sent(r)[1].to = r
    <3> SUFFICES ASSUME s \notin Faulty
                 PROVE  sent(r)[1] \in Range(sent(r)) /\ sent(r)[1].to = r
      OBVIOUS
    <3>1. values[r] = <<Agreed>> /\ 1 \in DOMAIN values[r]
      BY <1>3
    <3> QED BY <2>2, <2>3, <2>5, <3>1 DEF Range
  <2> QED BY <2>5, <2>6, <2>7
<1> HIDE DEF sent
<1>5. /\ seqs \in Seq(Seq(M!Message)) /\ DOMAIN seqs = 1..Cardinality(Receiver)
      /\ \A i \in DOMAIN seqs : SetToSeq(Receiver)[i] \in Receiver /\ seqs[i] = sent(SetToSeq(Receiver)[i])
  BY <1>2, <1>4
<1>6. /\ FlattenSeq(seqs) \in Seq(M!Message)
      /\ Range(FlattenSeq(seqs)) = UNION {Range(seqs[i]) : i \in DOMAIN seqs}
  BY <1>5, FlattenSeqProperties, Zenon
<1>7. UNION {Range(seqs[i]) : i \in DOMAIN seqs} = UNION {Range(sent(r)) : r \in Receiver}
  <2>1. \A r \in Receiver : \E i \in DOMAIN seqs : SetToSeq(Receiver)[i] = r
    BY <1>2, <1>5 DEF Range
  <2> QED BY <1>5, <2>1
<1> HIDE DEF seqs
<1>8. Range(M!Outgoing(s, values)) = UNION {Range(sent(r)) : r \in Receiver}
  BY <1>1, <1>6, <1>7
<1>9. M!Outgoing(s, values) \in Seq(M!Message)
  BY <1>1, <1>6
<1> QED BY <1>4, <1>8, <1>9

\* The message whose turn it is, and the queue without it.
LEMMA MajorityDue ==
  ASSUME MajorityInv, NEW m \in M!Due
  PROVE  /\ loopbacks = <<>> /\ Range(loopbacks) = {} /\ network # <<>>
         /\ m \in M!Message /\ m \in Range(network)
         /\ Tail(network) \in Seq(M!Message) /\ Range(Tail(network)) \subseteq Range(network)
         /\ Range(network) = {m} \union Range(Tail(network))
         /\ clock <= m.at /\ m.at \in Nat
         /\ InLockStep(Tail(network), m.at)
         /\ Distinct(Tail(network), {"nop"}) /\ Distinct(Tail(network), {"nextRound"})
         /\ \A k \in Range(Tail(network)) :
              k.body = m.body /\ m.body \notin Value => k.from # m.from \/ k.to # m.to
<1>1. network # <<>> /\ loopbacks = <<>> /\ m = Head(network)
  BY DEF M!Due
<1>2. network \in Seq(M!Message) /\ clock \in Nat /\ \A k \in M!Message : k.at \in Nat
  BY MajorityFields
<1>3. InLockStep(network, clock) /\ Distinct(network, {"nop"}) /\ Distinct(network, {"nextRound"})
  BY DEF MajorityInv, MajorityQueues
<1>4. /\ m \in M!Message /\ m \in Range(network)
      /\ Tail(network) \in Seq(M!Message) /\ Range(Tail(network)) \subseteq Range(network)
      /\ Range(network) = {m} \union Range(Tail(network))
  BY <1>1, <1>2, HeadAndTail
<1>5. m.at \in {clock, clock + 1} /\ InLockStep(Tail(network), m.at)
  BY <1>1, <1>2, <1>3, HandledInLockStep
<1>6. /\ Distinct(Tail(network), {"nop"})
      /\ \A k \in Range(Tail(network)) :
           m.body \in {"nop"} /\ k.body \in {"nop"} => k.from # m.from \/ k.to # m.to
  BY <1>1, <1>2, <1>3, HandledDistinct
<1>7. /\ Distinct(Tail(network), {"nextRound"})
      /\ \A k \in Range(Tail(network)) :
           m.body \in {"nextRound"} /\ k.body \in {"nextRound"} => k.from # m.from \/ k.to # m.to
  BY <1>1, <1>2, <1>3, HandledDistinct
<1>8. m.body \in Value \union {"nop", "nextRound"}
  BY <1>4, MajorityFields
<1>9. clock <= m.at /\ m.at \in Nat
  BY <1>2, <1>4, <1>5
<1>10. Range(loopbacks) = {}
  BY <1>1 DEF Range
<1> QED
  BY <1>1, <1>4, <1>5, <1>6, <1>7, <1>8, <1>9, <1>10

LEMMA MajorityStartSender ==
  ASSUME PlainFaults, MajorityInv, NEW s \in Sender, M!StartSender(s)
  PROVE  MajorityInv'
<1>1. /\ stage[s] = "unregistered"
      /\ nopCount' = [nopCount EXCEPT ![s] = 2]
      /\ stage' = [stage EXCEPT ![s] = "registered"]
      /\ UNCHANGED <<clock, loopbacks, senders, received, scheduledTally, result>>
  BY DEF M!StartSender, M!NopRounds
<1>2. PICK values \in M!Sendings(s) :
        network' = Append(network \o M!Outgoing(s, values), M!Letter(0, s, s, "nop"))
  BY DEF M!StartSender
<1> DEFINE out == M!Outgoing(s, values)
           nop == <<M!Letter(0, s, s, "nop")>>
<1>3. /\ out \in Seq(M!Message)
      /\ \A m \in Range(out) :
           /\ m.at = 1 /\ m.from = s /\ m.to \in Receiver /\ m.body \in Value
           /\ s \in Faulty \/ m.body = Agreed
      /\ s \notin Faulty => \A r \in Receiver : \E m \in Range(out) : m.to = r
  <2>1. /\ out \in Seq(M!Message)
        /\ \A m \in Range(out) :
             /\ m.at = 1 /\ m.from = s /\ m.to \in Receiver
             /\ m.body \in Value \/ (m.body = "nextRound" /\ s \in forging)
             /\ s \in Faulty \/ m.body = Agreed
        /\ s \notin Faulty => \A r \in Receiver : \E m \in Range(out) : m.to = r
    BY OutgoingProperties
  <2>2. forging = {}
    BY DEF PlainFaults
  <2> HIDE DEF out
  <2> QED BY <2>1, <2>2
<1>4. /\ nop \in Seq(M!Message)
      /\ M!Letter(0, s, s, "nop") \in M!Message
      /\ \A m \in Range(nop) : m.at = 1 /\ m.from = s /\ m.to = s /\ m.body = "nop"
      /\ \A i \in DOMAIN nop : nop[i].at = 0 + 1
      /\ Distinct(nop, {"nop"}) /\ Distinct(nop, {"nextRound"})
  <2>1. s \in M!Party
    BY DEF M!Party
  <2>2. \A m \in Range(nop) : m.at = 0 + 1 /\ m.from = s /\ m.to = s /\ m.body = "nop"
    BY <2>1, RoundProperties
  <2>3. /\ nop \in Seq(M!Message)
        /\ M!Letter(0, s, s, "nop") \in M!Message
        /\ \A i \in DOMAIN nop : nop[i].at = 0 + 1
        /\ Distinct(nop, {"nop"}) /\ Distinct(nop, {"nextRound"})
    BY <2>1, RoundProperties
  <2> HIDE DEF nop
  <2> QED BY <2>2, <2>3
<1>5. network' = (network \o out) \o nop
  <2> DEFINE sent == network \o out
  <2>1. network' = Append(sent, M!Letter(0, s, s, "nop"))
    BY <1>2
  <2> HIDE DEF out
  <2>2. sent \in Seq(M!Message)
    BY <1>3, MajorityFields, ConcatProperties
  <2> HIDE DEF sent
  <2>3. Append(sent, M!Letter(0, s, s, "nop")) = sent \o nop
    BY <1>4, <2>2, AppendIsConcat
  <2>4. network' = sent \o nop
    BY <2>1, <2>3
  <2> HIDE DEF nop
  <2> QED BY <2>4 DEF sent
<1> HIDE DEF out, nop
<1>6. /\ s \in M!Party /\ clock = 0
      /\ s \notin Range(loopbacks)
      /\ \A m \in Range(network) : m.body = "nop" => m.from # s /\ m.to # s
  BY <1>1 DEF MajorityInv, StartsAtZero, MembersDone, NopRoundsInTime, M!Party
<1>7. /\ network \o out \in Seq(M!Message)
      /\ InLockStep(network \o out, 0)
      /\ Distinct(network \o out, {"nop"}) /\ Distinct(network \o out, {"nextRound"})
      /\ Range(network \o out) = Range(network) \union Range(out)
  <2>1. \A i \in DOMAIN out : out[i].at = 0 + 1 /\ out[i].body \in Value
    BY <1>3 DEF Range
  <2>2. Distinct(out, {"nop"}) /\ Distinct(out, {"nextRound"})
    BY <2>1, MembersAreFinite DEF Distinct
  <2>3. \A m \in Range(network), k \in Range(out) :
          m.body = k.body /\ k.body \notin Value => m.from # k.from
    BY <1>3
  <2>4. /\ InLockStep(network, 0) /\ Distinct(network, {"nop"}) /\ Distinct(network, {"nextRound"})
        /\ network \in Seq(M!Message)
    BY <1>6, MajorityFields DEF MajorityInv, MajorityQueues
  <2> QED BY <1>3, <2>1, <2>2, <2>3, <2>4, MajoritySent
<1>8. /\ network' \in Seq(M!Message)
      /\ InLockStep(network', 0)
      /\ Distinct(network', {"nop"}) /\ Distinct(network', {"nextRound"})
      /\ Range(network') = Range(network) \union Range(out) \union Range(nop)
  <2>1. \A m \in Range(network \o out), k \in Range(nop) :
          m.body = k.body /\ k.body \notin Value => m.from # k.from
    BY <1>3, <1>4, <1>6, <1>7, MembersAreFinite
  <2> QED BY <1>4, <1>5, <1>7, <2>1, MajoritySent
<1>9. /\ stage' \in [M!Party -> {"unregistered", "registered", "completed"}]
      /\ nopCount' \in [Sender -> 0..2]
      /\ stage'[s] = "registered" /\ nopCount'[s] = 2
      /\ \A p \in M!Party : p # s => stage'[p] = stage[p]
      /\ \A p \in Sender : p # s => nopCount'[p] = nopCount[p]
  <2>1. nopCount \in [Sender -> 0..2]
    BY DEF MajorityInv, M!TypeOK
  <2> QED BY <1>1, <1>6, <2>1, MajorityFields
<1>10. M!TypeOK' /\ MajorityQueues'
  BY <1>1, <1>6, <1>8, <1>9 DEF MajorityInv, M!TypeOK, MajorityQueues
<1>11. /\ StartsAtZero' /\ MembersDone' /\ ValuesCounted' /\ LeftAtTwo'
  BY <1>1, <1>6, <1>9, MajorityFields
     DEF MajorityInv, StartsAtZero, MembersDone, ValuesCounted, LeftAtTwo
<1>12. ResultsAgreed'
  <2>1. \A r \in Receiver : r # s /\ r \in M!Party
    BY MembersAreFinite DEF M!Party
  <2> QED BY <1>1, <1>9, <2>1 DEF MajorityInv, ResultsAgreed
<1>13. ValuesInTime'
  BY <1>3, <1>4, <1>8, MembersAreFinite DEF MajorityInv, ValuesInTime
<1>14. NopRoundsInTime'
  <2> SUFFICES ASSUME NEW m \in Range(network'), m.body = "nop"
               PROVE  /\ m.from = m.to /\ m.to \in Sender
                      /\ stage'[m.to] = "registered"
                      /\ nopCount'[m.to] > 0 /\ m.at + nopCount'[m.to] = 3
    BY DEF NopRoundsInTime
  <2>1. CASE m \in Range(network)
    <3>1. m.to # s /\ m.to \in Sender /\ m.to \in M!Party
      BY <1>6, <2>1 DEF MajorityInv, NopRoundsInTime, M!Party
    <3> QED BY <1>9, <2>1, <3>1 DEF MajorityInv, NopRoundsInTime
  <2>2. CASE m \in Range(out)
    BY <1>3, <2>2, MembersAreFinite
  <2>3. CASE m \in Range(nop)
    BY <1>4, <1>9, <2>3
  <2> QED BY <1>8, <2>1, <2>2, <2>3
<1>15. TalliesInTime'
  <2> SUFFICES ASSUME NEW m \in Range(network), m.body = "nextRound"
               PROVE  /\ m.from = m.to /\ m.to \in Receiver
                      /\ stage'[m.to] = "registered" /\ scheduledTally[m.to]
                      /\ m.at = 2
    BY <1>1, <1>3, <1>4, <1>8, MembersAreFinite DEF TalliesInTime
  <2>1. m.to # s /\ m.to \in M!Party
    BY MembersAreFinite DEF MajorityInv, TalliesInTime, M!Party
  <2> QED BY <1>9, <2>1 DEF MajorityInv, TalliesInTime
<1>16. ValuesOnTheWay'
  <2> SUFFICES ASSUME NEW r \in Receiver, NEW h \in senders[r] \intersect Honest,
                      stage'[h] # "unregistered"
               PROVE  \E m \in Range(network') : m.body \in Value /\ m.from = h /\ m.to = r
    BY <1>1 DEF ValuesOnTheWay
  <2>1. CASE h = s
    <3>1. \E m \in Range(out) : m.to = r
      BY <1>3, <2>1 DEF Honest
    <3> QED BY <1>3, <1>8, <2>1, <3>1
  <2>2. CASE h # s
    <3>1. stage[h] # "unregistered"
      BY <1>9, <2>2, MembersAreFinite DEF Honest, M!Party
    <3> QED BY <1>8, <3>1 DEF MajorityInv, ValuesOnTheWay
  <2> QED BY <2>1, <2>2
<1> QED
  BY <1>10, <1>11, <1>12, <1>13, <1>14, <1>15, <1>16 DEF MajorityInv

LEMMA MajorityStartReceiver ==
  ASSUME MajorityInv, NEW r \in Receiver, M!StartReceiver(r)
  PROVE  MajorityInv'
<1>1. /\ stage[r] = "unregistered" /\ stage' = [stage EXCEPT ![r] = "registered"]
      /\ UNCHANGED <<clock, network, loopbacks, nopCount, senders, received,
                     scheduledTally, result>>
  BY DEF M!StartReceiver
<1>2. r \in M!Party /\ r \notin Sender
  BY MembersAreFinite DEF M!Party
<1>3. /\ stage' \in [M!Party -> {"unregistered", "registered", "completed"}]
      /\ stage'[r] = "registered"
      /\ \A p \in M!Party : p # r => stage'[p] = stage[p]
  BY <1>1, <1>2, MajorityFields
<1>4. M!TypeOK' /\ MajorityQueues'
  BY <1>1, <1>3 DEF MajorityInv, M!TypeOK, MajorityQueues
<1>5. StartsAtZero' /\ LeftAtTwo' /\ ValuesInTime' /\ ValuesCounted'
  BY <1>1, <1>2, <1>3
     DEF MajorityInv, StartsAtZero, LeftAtTwo, ValuesInTime, ValuesCounted
<1>6. NopRoundsInTime' /\ MembersDone' /\ TalliesInTime'
  BY <1>1, <1>2, <1>3, MajorityFields
     DEF MajorityInv, NopRoundsInTime, MembersDone, TalliesInTime
<1>7. ValuesOnTheWay'
  BY <1>1, <1>2, <1>3, MajorityFields DEF MajorityInv, ValuesOnTheWay
<1>8. ResultsAgreed'
  BY <1>1, <1>2, <1>3, MajorityFields DEF MajorityInv, ResultsAgreed
<1> QED BY <1>4, <1>5, <1>6, <1>7, <1>8 DEF MajorityInv

\* The correct members and the faulty ones.
LEMMA HonestMembers ==
  /\ Cardinality(Sender) \in Nat /\ Cardinality(Honest) \in Nat /\ Cardinality(Faulty) \in Nat
  /\ Cardinality(Honest) + Cardinality(Faulty) = Cardinality(Sender)
  /\ M!HonestMajority <=> 2 * Cardinality(Honest) > Cardinality(Sender)
  /\ M!MajorityThreshold = Cardinality(Sender) \div 2 + 1
<1>1. /\ Cardinality(Sender) \in Nat /\ Cardinality(Honest) \in Nat /\ Cardinality(Faulty) \in Nat
      /\ IsFiniteSet(Sender)
  BY SubsetsOfMembers, MembersAreFinite DEF Honest
<1>2. Cardinality(Honest) = Cardinality(Sender) - Cardinality(Sender \intersect Faulty)
  BY <1>1, FS_Difference DEF Honest
<1>3. Sender \intersect Faulty = Faulty
  BY MembersAreFinite
<1>4. \A T : M!Cardinality(T) = Cardinality(T)
  BY DEF M!Cardinality, Cardinality, M!IsFiniteSet, IsFiniteSet
<1>5. M!HonestMajority <=> 2 * Cardinality(Honest) > Cardinality(Sender)
  BY <1>4 DEF M!HonestMajority, Honest
<1>6. M!MajorityThreshold = Cardinality(Sender) \div 2 + 1
  BY <1>4 DEF M!MajorityThreshold
<1>7. Cardinality(Honest) + Cardinality(Faulty) = Cardinality(Sender)
  BY <1>1, <1>2, <1>3
<1> QED BY <1>1, <1>5, <1>6, <1>7

\* A value that reaches the threshold is the agreed one, if not more than the faulty
\* members have said another.
LEMMA OthersDecideNothing ==
  ASSUME NEW r \in Receiver, received[r] \in Seq(Value), M!HonestMajority,
         Cardinality(Occurrences(received[r], Value \ {Agreed})) <= Cardinality(Faulty)
  PROVE  /\ M!Decided(r) = {i \in 1..Len(received[r]) :
              Cardinality({j \in 1..i : received[r][j] = received[r][i]}) >= M!MajorityThreshold}
         /\ M!Tally(r) \in {Agreed, NoValue}
         /\ M!Decided(r) # {} => M!Tally(r) = Agreed
<1> DEFINE q == received[r]
           threshold == M!MajorityThreshold
           others == Occurrences(q, Value \ {Agreed})
           same(i) == {j \in 1..i : q[j] = q[i]}
<1>1. Cardinality(Faulty) < threshold /\ threshold \in Nat \ {0}
  BY HonestMembers
<1>2. IsFiniteSet(others) /\ Cardinality(others) \in Nat
  BY OccurrencesAreFinite
<1>3. Cardinality(others) < threshold
  BY <1>1, <1>2, HonestMembers
<1>4. Len(q) \in Nat /\ DOMAIN q = 1..Len(q) /\ \A i \in DOMAIN q : q[i] \in Value
  BY LenProperties, ElementOfSeq
<1>5. others = {j \in 1..Len(q) : q[j] # Agreed}
  BY <1>4 DEF Occurrences
<1>6. M!Decided(r) = {i \in 1..Len(q) : Cardinality(same(i)) >= threshold}
  <2>1. M!Decided(r) = {i \in DOMAIN q : M!Cardinality(same(i)) >= threshold}
    BY DEF M!Decided
  <2>2. \A T : M!Cardinality(T) = Cardinality(T)
    BY DEF M!Cardinality, Cardinality, M!IsFiniteSet, IsFiniteSet
  <2> QED BY <1>4, <2>1, <2>2
<1>7. ASSUME NEW i \in M!Decided(r)
      PROVE  q[i] = Agreed
  <2>1. SUFFICES ASSUME q[i] # Agreed PROVE FALSE
    OBVIOUS
  <2>2. i \in 1..Len(q) /\ Cardinality(same(i)) >= threshold
    BY <1>6
  <2>3. \A j \in 1..i : j \in 1..Len(q)
    BY <1>4, <2>2
  <2>4. same(i) \subseteq others
    BY <1>5, <2>1, <2>3
  <2>5. Cardinality(same(i)) <= Cardinality(others) /\ Cardinality(same(i)) \in Nat
    BY <1>2, <2>4, FS_Subset, FS_CardinalityType
  <2> QED BY <1>1, <1>2, <1>3, <2>2, <2>5
<1>8. M!Decided(r) # {} => M!Min(M!Decided(r)) \in M!Decided(r)
  <2> SUFFICES ASSUME M!Decided(r) # {}
               PROVE  M!Min(M!Decided(r)) \in M!Decided(r)
    OBVIOUS
  <2>1. M!Decided(r) \subseteq Nat
    BY <1>4, <1>6
  <2>2. \E n \in M!Decided(r) : \A k \in M!Decided(r) : n <= k
    BY <2>1, LeastElement, Zenon
  <2> QED BY <2>2 DEF M!Min
<1>9. M!Tally(r) \in {Agreed, NoValue} /\ (M!Decided(r) # {} => M!Tally(r) = Agreed)
  BY <1>7, <1>8 DEF M!Tally
<1> QED BY <1>6, <1>9

\* If all correct members have said it, the agreed value does reach the threshold.
LEMMA TallyIsAgreed ==
  ASSUME NEW r \in Receiver, received[r] \in Seq(Value), M!HonestMajority,
         Cardinality(Occurrences(received[r], {Agreed})) >= Cardinality(Honest),
         Cardinality(Occurrences(received[r], Value \ {Agreed})) <= Cardinality(Faulty)
  PROVE  M!Tally(r) = Agreed
<1> DEFINE q == received[r]
           threshold == M!MajorityThreshold
           agreed == Occurrences(q, {Agreed})
           same(i) == {j \in 1..i : q[j] = q[i]}
<1>1. Cardinality(Honest) >= threshold /\ threshold \in Nat \ {0}
  BY HonestMembers
<1>2. IsFiniteSet(agreed) /\ Cardinality(agreed) \in Nat
  BY OccurrencesAreFinite
<1>3. Cardinality(agreed) >= threshold
  BY <1>1, <1>2, HonestMembers
<1>4. Len(q) \in Nat /\ DOMAIN q = 1..Len(q)
  BY LenProperties
<1>5. agreed = {j \in 1..Len(q) : q[j] = Agreed}
  BY <1>4 DEF Occurrences
<1>6. M!Decided(r) = {i \in 1..Len(q) : Cardinality(same(i)) >= threshold}
  BY OthersDecideNothing
<1>7. M!Decided(r) # {}
  <2>1. agreed # {}
    <3> HIDE DEF agreed
    <3>1. agreed = {} => Cardinality(agreed) = 0
      BY FS_EmptySet, Zenon
    <3> QED BY <1>1, <1>3, <3>1
  <2>2. PICK k \in agreed : \A j \in agreed : j <= k
    BY <1>4, <1>5, <2>1, LastPosition
  <2>3. k \in 1..Len(q) /\ q[k] = Agreed
    BY <1>5
  <2>4. same(k) = agreed
    <3>1. \A j \in 1..k : j \in 1..Len(q)
      BY <1>4, <2>3
    <3>2. ASSUME NEW j \in agreed
          PROVE  j \in 1..k
      <4>1. j \in 1..Len(q) /\ j <= k
        BY <1>5, <2>2
      <4> HIDE DEF agreed
      <4> QED BY <1>4, <2>3, <4>1
    <3> QED BY <1>5, <2>3, <3>1, <3>2
  <2> QED BY <1>3, <1>6, <2>3, <2>4
<1> QED BY <1>7, OthersDecideNothing

\* The tally is one of the values received, or none.
LEMMA TallyIsAValue ==
  ASSUME NEW r \in Receiver, received[r] \in Seq(Value)
  PROVE  M!Tally(r) \in Value \union {NoValue}
<1>1. CASE M!Decided(r) = {}
  BY <1>1 DEF M!Tally
<1>2. CASE M!Decided(r) # {}
  <2>1. M!Decided(r) \subseteq DOMAIN received[r]
    BY DEF M!Decided
  <2>2. M!Decided(r) \subseteq Nat
    BY <2>1, LenProperties
  <2>3. \E n \in M!Decided(r) : \A k \in M!Decided(r) : n <= k
    BY <1>2, <2>2, LeastElement, Zenon
  <2>4. M!Min(M!Decided(r)) \in M!Decided(r)
    BY <2>3 DEF M!Min
  <2>5. received[r][M!Min(M!Decided(r))] \in Value
    BY <2>1, <2>4, ElementOfSeq, LenProperties
  <2> QED BY <1>2, <2>5 DEF M!Tally
<1> QED BY <1>1, <1>2

\* A handler runs for a registered party, after all have started.
LEMMA MajorityHandle ==
  ASSUME MajorityInv, NEW m \in M!Due, M!Handle(m)
  PROVE  /\ m \in M!Message /\ m.to \in M!Party /\ stage[m.to] = "registered"
         /\ clock' = m.at /\ m.at \in 0..2
         /\ \A p \in M!Party : stage[p] # "unregistered"
         /\ m.body \in Value => m.at = 1 /\ m.from \in Sender /\ m.to \in Receiver
         /\ m.body = "nop" => /\ m.from = m.to /\ m.to \in Sender
                              /\ nopCount[m.to] > 0 /\ m.at + nopCount[m.to] = 3
         /\ m.body = "nextRound" => /\ m.from = m.to /\ m.to \in Receiver
                                    /\ scheduledTally[m.to] /\ m.at = 2
<1>1. /\ m \in M!Message /\ m \in Range(network) /\ m.at \in Nat
      /\ m.body \in Value \union {"nop", "nextRound"} /\ m.to \in M!Party
  BY MajorityDue, MajorityFields
<1>2. m.body \in Value => m.at = 1 /\ m.from \in Sender /\ m.to \in Receiver
  BY <1>1 DEF MajorityInv, ValuesInTime
<1>3. m.body = "nop" => /\ m.from = m.to /\ m.to \in Sender
                        /\ nopCount[m.to] > 0 /\ m.at + nopCount[m.to] = 3
  BY <1>1 DEF MajorityInv, NopRoundsInTime
<1>4. m.body = "nextRound" => /\ m.from = m.to /\ m.to \in Receiver
                              /\ scheduledTally[m.to] /\ m.at = 2
  BY <1>1 DEF MajorityInv, TalliesInTime
<1>5. m.at \in 0..2
  BY <1>1, <1>2, <1>3, <1>4, MajorityFields
<1> QED BY <1>1, <1>2, <1>3, <1>4, <1>5 DEF M!Handle

\* Hearing a member keeps the counts right.
LEMMA MajorityAccept ==
  ASSUME MajorityInv, NEW m \in M!Due, M!Handle(m), m.body \in Value, M!Accept(m.to, m)
  PROVE  /\ senders' \in [Receiver -> SUBSET Sender]
         /\ received' \in [Receiver -> Seq(Value)]
         /\ \A r \in Receiver :
              M!Cardinality(senders'[r]) + Len(received'[r]) = M!Cardinality(Sender)
         /\ m.from \notin senders'[m.to]
         /\ \A r \in Receiver : senders'[r] \subseteq senders[r]
         /\ ValuesCounted'
<1> DEFINE r == m.to
           s == m.from
<1>1. r \in Receiver /\ s \in Sender /\ (s \in Faulty \/ m.body = Agreed)
  BY MajorityHandle, MajorityDue DEF MajorityInv, ValuesInTime
<1>2. /\ senders \in [Receiver -> SUBSET Sender] /\ received \in [Receiver -> Seq(Value)]
      /\ \A p \in Receiver : Len(received[p]) + Cardinality(senders[p]) = Cardinality(Sender)
  BY MajorityFields
<1>3. \A T : M!Cardinality(T) = Cardinality(T)
  BY DEF M!Cardinality, Cardinality, M!IsFiniteSet, IsFiniteSet
<1>4. CASE s \notin senders[r]
  <2>1. UNCHANGED <<senders, received>>
    BY <1>4 DEF M!Accept
  <2>2. ValuesCounted'
    BY <2>1 DEF MajorityInv, ValuesCounted
  <2>3. \A p \in Receiver : Cardinality(senders[p]) \in Nat /\ Len(received[p]) \in Nat
    BY <1>2, SubsetsOfMembers, LenProperties
  <2> QED BY <1>2, <1>3, <1>4, <2>1, <2>2, <2>3
<1>5. CASE s \in senders[r]
  <2>1. /\ senders' = [senders EXCEPT ![r] = senders[r] \ {s}]
        /\ received' = [received EXCEPT ![r] = Append(received[r], m.body)]
    BY <1>5 DEF M!Accept
  <2> DEFINE left == senders[r] \ {s}
             values == Append(received[r], m.body)
  <2>2. /\ left \subseteq Sender /\ senders[r] \subseteq Sender
        /\ received[r] \in Seq(Value) /\ values \in Seq(Value)
        /\ Len(values) = Len(received[r]) + 1 /\ Len(received[r]) \in Nat
    BY <1>1, <1>2, AppendProperties, LenProperties
  <2>3. /\ senders' \in [Receiver -> SUBSET Sender] /\ received' \in [Receiver -> Seq(Value)]
        /\ senders'[r] = left /\ received'[r] = values
        /\ \A p \in Receiver : p # r => senders'[p] = senders[p] /\ received'[p] = received[p]
    BY <1>1, <1>2, <2>1, <2>2
  <2>4. Cardinality(left) = Cardinality(senders[r]) - 1 /\ Cardinality(senders[r]) \in Nat
    BY <1>5, <2>2, SubsetsOfMembers, FS_RemoveElement
  <2>5. \A p \in Receiver :
          M!Cardinality(senders'[p]) + Len(received'[p]) = M!Cardinality(Sender)
    <3> SUFFICES ASSUME NEW p \in Receiver
                 PROVE  Cardinality(senders'[p]) + Len(received'[p]) = Cardinality(Sender)
      BY <1>3
    <3>1. CASE p = r
      <4>1. Len(received[r]) + Cardinality(senders[r]) = Cardinality(Sender)
        BY <1>1, <1>2
      <4>2. Cardinality(senders'[p]) = Cardinality(left) /\ Len(received'[p]) = Len(values)
        BY <2>3, <3>1
      <4> HIDE DEF left, values
      <4> QED BY <2>2, <2>4, <4>1, <4>2
    <3>2. CASE p # r
      <4>1. Cardinality(senders[p]) \in Nat /\ Len(received[p]) \in Nat
        BY <1>2, SubsetsOfMembers, LenProperties
      <4> QED BY <1>2, <2>3, <3>2, <4>1
    <3> QED BY <3>1, <3>2
  <2>6. /\ Cardinality(Occurrences(received[r], {Agreed})) >= Cardinality(Honest \ senders[r])
        /\ Cardinality(Occurrences(received[r], Value \ {Agreed})) <=
             Cardinality(Faulty \ senders[r])
    BY <1>1 DEF MajorityInv, ValuesCounted
  <2>7. /\ Cardinality(Occurrences(received[r], {Agreed})) \in Nat
        /\ Cardinality(Occurrences(received[r], Value \ {Agreed})) \in Nat
    BY <2>2, OccurrencesAreFinite
  <2>8. /\ Cardinality(Occurrences(values, {Agreed})) =
             IF m.body = Agreed
               THEN Cardinality(Occurrences(received[r], {Agreed})) + 1
               ELSE Cardinality(Occurrences(received[r], {Agreed}))
        /\ Cardinality(Occurrences(values, Value \ {Agreed})) =
             IF m.body = Agreed
               THEN Cardinality(Occurrences(received[r], Value \ {Agreed}))
               ELSE Cardinality(Occurrences(received[r], Value \ {Agreed})) + 1
    BY <2>2, OccurrencesInAppend
  <2>9. /\ Cardinality(Honest \ left) = IF s \in Honest
                                          THEN Cardinality(Honest \ senders[r]) + 1
                                          ELSE Cardinality(Honest \ senders[r])
        /\ Cardinality(Faulty \ left) = IF s \in Faulty
                                          THEN Cardinality(Faulty \ senders[r]) + 1
                                          ELSE Cardinality(Faulty \ senders[r])
        /\ Cardinality(Honest \ senders[r]) \in Nat /\ Cardinality(Faulty \ senders[r]) \in Nat
    <3>1. /\ IsFiniteSet(Honest \ senders[r]) /\ IsFiniteSet(Faulty \ senders[r])
          /\ Cardinality(Honest \ senders[r]) \in Nat /\ Cardinality(Faulty \ senders[r]) \in Nat
      BY SubsetsOfMembers, MembersAreFinite DEF Honest
    <3>2. /\ s \in Honest => Honest \ left = (Honest \ senders[r]) \union {s}
          /\ s \in Faulty => Faulty \ left = (Faulty \ senders[r]) \union {s}
          /\ s \notin Honest => Honest \ left = Honest \ senders[r]
          /\ s \notin Faulty => Faulty \ left = Faulty \ senders[r]
      OBVIOUS
    <3>3. s \notin Honest \ senders[r] /\ s \notin Faulty \ senders[r]
      BY <1>5
    <3>4. /\ Cardinality((Honest \ senders[r]) \union {s}) = Cardinality(Honest \ senders[r]) + 1
          /\ Cardinality((Faulty \ senders[r]) \union {s}) = Cardinality(Faulty \ senders[r]) + 1
      BY <3>1, <3>3, FS_AddElement
    <3> QED BY <3>1, <3>2, <3>4
  <2>10. /\ s \in Honest <=> s \notin Faulty
         /\ s \notin Faulty => m.body = Agreed
    BY <1>1 DEF Honest
  <2> HIDE DEF left, values
  <2>11. /\ Cardinality(Occurrences(values, {Agreed})) >= Cardinality(Honest \ left)
         /\ Cardinality(Occurrences(values, Value \ {Agreed})) <= Cardinality(Faulty \ left)
    <3>1. CASE s \notin Faulty
      BY <2>6, <2>7, <2>8, <2>9, <2>10, <3>1
    <3>2. CASE s \in Faulty /\ m.body = Agreed
      BY <2>6, <2>7, <2>8, <2>9, <2>10, <3>2
    <3>3. CASE s \in Faulty /\ m.body # Agreed
      BY <2>6, <2>7, <2>8, <2>9, <2>10, <3>3
    <3> QED BY <3>1, <3>2, <3>3
  <2>12. ValuesCounted'
    <3> SUFFICES ASSUME NEW p \in Receiver
                 PROVE  /\ Cardinality(Occurrences(received'[p], {Agreed})) >=
                             Cardinality(Honest \ senders'[p])
                        /\ Cardinality(Occurrences(received'[p], Value \ {Agreed})) <=
                             Cardinality(Faulty \ senders'[p])
      BY DEF ValuesCounted, Honest
    <3> QED BY <2>3, <2>11 DEF MajorityInv, ValuesCounted
  <2>13. s \notin senders'[r] /\ \A p \in Receiver : senders'[p] \subseteq senders[p]
    BY <2>3 DEF left
  <2> QED BY <2>3, <2>5, <2>12, <2>13
<1> QED BY <1>4, <1>5

LEMMA MajorityHandleBasic ==
  ASSUME MajorityInv, M!HandleBasic
  PROVE  MajorityInv'
<1>1. PICK m \in M!Due :
        /\ M!Handle(m) /\ m.body \in Value /\ M!Accept(m.to, m) /\ M!ScheduleTally(m.to, m)
        /\ UNCHANGED <<loopbacks, stage, nopCount, result>>
  BY DEF M!HandleBasic
<1> DEFINE r == m.to
           tally == <<M!Letter(m.at, r, r, "nextRound")>>
<1>2. /\ Tail(network) \in Seq(M!Message) /\ Range(Tail(network)) \subseteq Range(network)
      /\ Range(network) = {m} \union Range(Tail(network))
      /\ m.at \in Nat /\ clock <= m.at /\ Range(loopbacks) = {}
      /\ InLockStep(Tail(network), m.at)
      /\ Distinct(Tail(network), {"nop"}) /\ Distinct(Tail(network), {"nextRound"})
  BY <1>1, MajorityDue
<1>3. /\ r \in M!Party /\ r \in Receiver /\ stage[r] = "registered"
      /\ clock' = 1 /\ m.at = 1
      /\ \A p \in M!Party : stage[p] # "unregistered"
  BY <1>1, MajorityHandle
<1>4. /\ senders' \in [Receiver -> SUBSET Sender]
      /\ received' \in [Receiver -> Seq(Value)]
      /\ \A p \in Receiver :
           M!Cardinality(senders'[p]) + Len(received'[p]) = M!Cardinality(Sender)
      /\ m.from \notin senders'[r]
      /\ \A p \in Receiver : senders'[p] \subseteq senders[p]
      /\ ValuesCounted'
  BY <1>1, MajorityAccept
<1>5. \/ network' = Tail(network) /\ UNCHANGED scheduledTally
      \/ /\ ~scheduledTally[r]
         /\ network' = Append(Tail(network), M!Letter(m.at, r, r, "nextRound"))
         /\ scheduledTally' = [scheduledTally EXCEPT ![r] = TRUE]
  BY <1>1 DEF M!ScheduleTally
<1>6. /\ tally \in Seq(M!Message) /\ M!Letter(m.at, r, r, "nextRound") \in M!Message
      /\ \A k \in Range(tally) : k.at = m.at + 1 /\ k.from = r /\ k.to = r /\ k.body = "nextRound"
      /\ \A i \in DOMAIN tally : tally[i].at = m.at + 1
      /\ Distinct(tally, {"nop"}) /\ Distinct(tally, {"nextRound"})
  <2>1. "nextRound" \in {"nop", "nextRound"} /\ m.at \in Nat /\ r \in M!Party
    BY <1>2, <1>3
  <2> HIDE DEF r
  <2> QED BY <2>1, RoundProperties
<1>7. Append(Tail(network), M!Letter(m.at, r, r, "nextRound")) = Tail(network) \o tally
  BY <1>2, <1>6, AppendIsConcat
<1> HIDE DEF tally
<1>8. /\ network' \in Seq(M!Message) /\ InLockStep(network', m.at)
      /\ Distinct(network', {"nop"}) /\ Distinct(network', {"nextRound"})
      /\ Range(Tail(network)) \subseteq Range(network')
      /\ scheduledTally' \in [Receiver -> BOOLEAN]
      /\ \A p \in Receiver : scheduledTally[p] => scheduledTally'[p]
      /\ \A k \in Range(network') :
            \/ k \in Range(Tail(network))
            \/ k.at = 2 /\ k.from = r /\ k.to = r /\ k.body = "nextRound" /\ scheduledTally'[r]
  <2>1. CASE network' = Tail(network) /\ UNCHANGED scheduledTally
    BY <1>2, <2>1, MajorityFields
  <2>2. CASE /\ ~scheduledTally[r]
             /\ network' = Tail(network) \o tally
             /\ scheduledTally' = [scheduledTally EXCEPT ![r] = TRUE]
    <3>1. \A k \in Range(Tail(network)), l \in Range(tally) :
            k.body = l.body /\ l.body \notin Value => k.from # l.from
      BY <1>2, <1>6, <2>2 DEF MajorityInv, TalliesInTime
    <3>2. /\ network' \in Seq(M!Message) /\ InLockStep(network', m.at)
          /\ Distinct(network', {"nop"}) /\ Distinct(network', {"nextRound"})
          /\ Range(network') = Range(Tail(network)) \union Range(tally)
      BY <1>2, <1>6, <2>2, <3>1, MajoritySent
    <3>3. /\ scheduledTally' \in [Receiver -> BOOLEAN] /\ scheduledTally'[r] = TRUE
          /\ \A p \in Receiver : scheduledTally[p] => scheduledTally'[p]
      BY <1>3, <2>2, MajorityFields
    <3>4. m.at + 1 = 2
      BY <1>3
    <3> QED BY <1>6, <3>2, <3>3, <3>4
  <2> QED BY <1>5, <1>7, <2>1, <2>2
<1>9. M!TypeOK' /\ MajorityQueues'
  <2>1. \A p \in Receiver : Len(received'[p]) + M!Cardinality(senders'[p]) = M!Cardinality(Sender)
    <3> SUFFICES ASSUME NEW p \in Receiver
                 PROVE  Len(received'[p]) + M!Cardinality(senders'[p]) = M!Cardinality(Sender)
      OBVIOUS
    <3>1. M!Cardinality(senders'[p]) = Cardinality(senders'[p])
      BY DEF M!Cardinality, Cardinality, M!IsFiniteSet, IsFiniteSet
    <3>2. Len(received'[p]) \in Nat /\ M!Cardinality(senders'[p]) \in Nat
      BY <1>4, <3>1, SubsetsOfMembers, LenProperties
    <3> QED BY <1>4, <3>2
  <2>2. M!TypeOK'
    BY <1>1, <1>3, <1>4, <1>8, <2>1 DEF MajorityInv, M!TypeOK
  <2>3. MajorityQueues'
    BY <1>1, <1>3, <1>8 DEF MajorityInv, MajorityQueues
  <2> QED BY <2>2, <2>3
<1>10. StartsAtZero' /\ MembersDone' /\ LeftAtTwo' /\ ResultsAgreed'
  <2>1. LeftAtTwo'
    BY <1>1, <1>2, <1>3 DEF MajorityInv, LeftAtTwo
  <2>2. ResultsAgreed'
    BY <1>1 DEF MajorityInv, ResultsAgreed
  <2> QED BY <1>1, <1>2, <1>3, <2>1, <2>2 DEF StartsAtZero, MembersDone
<1>11. ValuesInTime' /\ NopRoundsInTime'
  BY <1>1, <1>2, <1>8, MembersAreFinite DEF MajorityInv, ValuesInTime, NopRoundsInTime
<1>12. TalliesInTime'
  BY <1>1, <1>2, <1>3, <1>8 DEF MajorityInv, TalliesInTime
<1>13. ValuesOnTheWay'
  <2> SUFFICES ASSUME NEW p \in Receiver, NEW s \in senders'[p] \intersect Honest
               PROVE  \E k \in Range(network') : k.body \in Value /\ k.from = s /\ k.to = p
    BY DEF ValuesOnTheWay, Honest
  <2>1. s \in senders[p] \intersect Honest /\ s \in M!Party
    BY <1>4 DEF M!Party
  <2>2. PICK k \in Range(network) : k.body \in Value /\ k.from = s /\ k.to = p
    BY <1>3, <2>1 DEF MajorityInv, ValuesOnTheWay
  <2>3. k # m
    BY <1>4, <2>2
  <2> QED BY <1>2, <1>8, <2>2, <2>3
<1> QED
  BY <1>4, <1>9, <1>10, <1>11, <1>12, <1>13 DEF MajorityInv

\* The tally comes when every value has: the correct members decide it.
LEMMA MajorityHandleNextRound ==
  ASSUME MajorityInv, M!HandleNextRound
  PROVE  MajorityInv'
<1>1. PICK m \in M!Due :
        /\ M!Handle(m) /\ m.body = "nextRound"
        /\ result' = [result EXCEPT ![m.to] = M!Tally(m.to)]
        /\ stage' = [stage EXCEPT ![m.to] = "completed"]
        /\ network' = Tail(network)
        /\ UNCHANGED <<loopbacks, nopCount, senders, received, scheduledTally>>
  BY DEF M!HandleNextRound
<1> DEFINE r == m.to
<1>2. /\ Tail(network) \in Seq(M!Message) /\ Range(Tail(network)) \subseteq Range(network)
      /\ Range(network) = {m} \union Range(Tail(network))
      /\ Range(loopbacks) = {}
      /\ InLockStep(Tail(network), m.at)
      /\ Distinct(Tail(network), {"nop"}) /\ Distinct(Tail(network), {"nextRound"})
      /\ \A k \in Range(Tail(network)) :
              k.body = "nextRound" => k.from # m.from \/ k.to # m.to
  BY <1>1, MajorityDue, MembersAreFinite
<1>3. /\ r \in M!Party /\ r \in Receiver /\ r \notin Sender /\ m.from = r
      /\ stage[r] = "registered"
      /\ clock' = 2 /\ m.at = 2
      /\ \A p \in M!Party : stage[p] # "unregistered"
  BY <1>1, MajorityHandle, MembersAreFinite
<1>4. /\ stage' \in [M!Party -> {"unregistered", "registered", "completed"}]
      /\ stage'[r] = "completed"
      /\ \A p \in M!Party : p # r => stage'[p] = stage[p]
  BY <1>1, <1>3, MajorityFields
<1>5. M!HonestMajority => M!Tally(r) = Agreed
  <2>1. \A k \in Range(network) : k.body \notin Value
    <3>1. \A k \in Range(Tail(network)) : k.at \in {2, 3}
      BY <1>2, <1>3 DEF InLockStep, Range
    <3>2. \A k \in Range(Tail(network)) : k.body \notin Value
      BY <1>2, <3>1 DEF MajorityInv, ValuesInTime
    <3> QED BY <1>1, <1>2, <3>2, MembersAreFinite
  <2>2. senders[r] \intersect Honest = {}
    BY <1>3, <2>1, MajorityFields DEF MajorityInv, ValuesOnTheWay, Honest, M!Party
  <2>3. Honest \ senders[r] = Honest
    BY <2>2
  <2>4. Cardinality(Occurrences(received[r], {Agreed})) >= Cardinality(Honest)
    BY <1>3, <2>3 DEF MajorityInv, ValuesCounted
  <2>5. received[r] \in Seq(Value)
    BY <1>3, MajorityFields
  <2>6. Cardinality(Occurrences(received[r], Value \ {Agreed})) <= Cardinality(Faulty)
    <3>1. Cardinality(Occurrences(received[r], Value \ {Agreed})) <= Cardinality(Faulty \ senders[r])
      BY <1>3 DEF MajorityInv, ValuesCounted
    <3>2. /\ Cardinality(Faulty \ senders[r]) <= Cardinality(Faulty)
          /\ Cardinality(Faulty \ senders[r]) \in Nat /\ Cardinality(Faulty) \in Nat
      <4>1. IsFiniteSet(Faulty) /\ Faulty \ senders[r] \in SUBSET Faulty
        BY SubsetsOfMembers, MembersAreFinite
      <4> QED BY <4>1, FS_Subset, FS_CardinalityType
    <3>3. Cardinality(Occurrences(received[r], Value \ {Agreed})) \in Nat
      BY <2>5, OccurrencesAreFinite
    <3> QED BY <3>1, <3>2, <3>3
  <2> QED BY <1>3, <2>4, <2>5, <2>6, TallyIsAgreed
<1>6. /\ result' \in [Receiver -> Value \union {NoValue}]
      /\ M!HonestMajority => result'[r] = Agreed
      /\ \A p \in Receiver : p # r => result'[p] = result[p]
  <2>1. M!Tally(r) \in Value \union {NoValue}
    BY <1>3, MajorityFields, TallyIsAValue
  <2> QED BY <1>1, <1>3, <1>5, <2>1, MajorityFields
<1>7. M!TypeOK' /\ MajorityQueues'
  BY <1>1, <1>2, <1>3, <1>4, <1>6 DEF MajorityInv, M!TypeOK, MajorityQueues
<1>8. ValuesInTime' /\ MembersDone' /\ ValuesCounted' /\ LeftAtTwo' /\ StartsAtZero'
  BY <1>1, <1>2, <1>3, <1>4
     DEF MajorityInv, ValuesInTime, MembersDone, ValuesCounted, LeftAtTwo, StartsAtZero
<1>9. NopRoundsInTime'
  BY <1>1, <1>2, <1>3, <1>4, MajorityFields DEF MajorityInv, NopRoundsInTime
<1>10. TalliesInTime'
  <2> SUFFICES ASSUME NEW k \in Range(Tail(network)), k.body = "nextRound"
               PROVE  /\ k.from = k.to /\ k.to \in Receiver
                      /\ stage'[k.to] = "registered" /\ scheduledTally[k.to]
                      /\ k.at = 2
    BY <1>1 DEF TalliesInTime
  <2>1. /\ k.from = k.to /\ k.to \in Receiver
        /\ stage[k.to] = "registered" /\ scheduledTally[k.to] /\ k.at = 2
    BY <1>2 DEF MajorityInv, TalliesInTime
  <2>2. k.to # r /\ k.to \in M!Party
    BY <1>2, <1>3, <2>1 DEF M!Party
  <2> QED BY <1>4, <2>1, <2>2
<1>11. ValuesOnTheWay'
  <2> SUFFICES ASSUME NEW p \in Receiver, NEW s \in senders[p] \intersect Honest
               PROVE  \E k \in Range(Tail(network)) : k.body \in Value /\ k.from = s /\ k.to = p
    BY <1>1 DEF ValuesOnTheWay
  <2>1. PICK k \in Range(network) : k.body \in Value /\ k.from = s /\ k.to = p
    BY <1>3 DEF MajorityInv, ValuesOnTheWay, Honest, M!Party
  <2>2. k # m
    BY <1>1, <2>1, MembersAreFinite
  <2> QED BY <1>2, <2>1, <2>2
<1>12. ResultsAgreed'
  BY <1>3, <1>4, <1>6, MajorityFields DEF MajorityInv, ResultsAgreed
<1> QED
  BY <1>7, <1>8, <1>9, <1>10, <1>11, <1>12 DEF MajorityInv

LEMMA MajorityHandleNop ==
  ASSUME MajorityInv, M!HandleNop
  PROVE  MajorityInv'
<1>1. PICK m \in M!Due :
        /\ M!Handle(m) /\ m.body = "nop"
        /\ nopCount' = [nopCount EXCEPT ![m.to] = nopCount[m.to] - 1]
        /\ IF nopCount[m.to] - 1 <= 0
             THEN /\ loopbacks' = Append(loopbacks, m.to)
                  /\ network' = Tail(network)
             ELSE /\ network' = Append(Tail(network), M!Letter(m.at, m.to, m.to, "nop"))
                  /\ UNCHANGED loopbacks
        /\ UNCHANGED <<stage, senders, received, scheduledTally, result>>
  BY DEF M!HandleNop
<1> DEFINE s == m.to
           nop == <<M!Letter(m.at, s, s, "nop")>>
<1>2. /\ Tail(network) \in Seq(M!Message) /\ Range(Tail(network)) \subseteq Range(network)
      /\ Range(network) = {m} \union Range(Tail(network))
      /\ loopbacks = <<>> /\ Range(loopbacks) = {} /\ clock <= m.at /\ m.at \in Nat
      /\ InLockStep(Tail(network), m.at)
      /\ Distinct(Tail(network), {"nop"}) /\ Distinct(Tail(network), {"nextRound"})
      /\ \A k \in Range(Tail(network)) :
              k.body = "nop" => k.from # m.from \/ k.to # m.to
  BY <1>1, MajorityDue, MembersAreFinite
<1>3. /\ s \in M!Party /\ s \in Sender /\ m.from = s
      /\ stage[s] = "registered"
      /\ clock' = m.at /\ m.at \in 0..2
      /\ nopCount[s] > 0 /\ m.at + nopCount[s] = 3
      /\ \A p \in M!Party : stage[p] # "unregistered"
  BY <1>1, MajorityHandle
<1>4. /\ nopCount \in [Sender -> 0..2] /\ nopCount[s] \in {1, 2}
      /\ nopCount' \in [Sender -> 0..2] /\ nopCount'[s] = nopCount[s] - 1
      /\ \A p \in Sender : p # s => nopCount'[p] = nopCount[p]
  <2>1. nopCount \in [Sender -> 0..2]
    BY DEF MajorityInv, M!TypeOK
  <2>2. nopCount[s] \in {1, 2}
    BY <1>3, <2>1
  <2> QED BY <1>1, <1>3, <2>1, <2>2
<1>5. \A k \in Range(Tail(network)) : k.body = "nop" => k.from # s /\ k.to # s
  BY <1>2, <1>3 DEF MajorityInv, NopRoundsInTime
<1>6. /\ network' \in Seq(M!Message) /\ InLockStep(network', m.at)
      /\ Distinct(network', {"nop"}) /\ Distinct(network', {"nextRound"})
      /\ Range(Tail(network)) \subseteq Range(network')
      /\ \A k \in Range(network') :
           \/ k \in Range(Tail(network))
           \/ /\ k.at = m.at + 1 /\ k.from = s /\ k.to = s /\ k.body = "nop"
              /\ nopCount[s] = 2
      /\ loopbacks' \in Seq(Sender) /\ IsInjective(loopbacks')
      /\ \A p \in Range(loopbacks') : p = s /\ nopCount[s] = 1
  <2>1. CASE nopCount[s] = 1
    <3>1. network' = Tail(network) /\ loopbacks' = <<s>>
      BY <1>1, <1>2, <2>1
    <3>2. /\ loopbacks' \in Seq(Sender) /\ IsInjective(loopbacks')
          /\ \A p \in Range(loopbacks') : p = s
      BY <1>3, <3>1 DEF Range, IsInjective
    <3> QED BY <1>2, <2>1, <3>1, <3>2
  <2>2. CASE nopCount[s] = 2
    <3>1. network' = Append(Tail(network), M!Letter(m.at, s, s, "nop")) /\ loopbacks' = <<>>
      BY <1>1, <1>2, <2>2
    <3>2. /\ nop \in Seq(M!Message) /\ M!Letter(m.at, s, s, "nop") \in M!Message
          /\ \A k \in Range(nop) : k.at = m.at + 1 /\ k.from = s /\ k.to = s /\ k.body = "nop"
          /\ \A i \in DOMAIN nop : nop[i].at = m.at + 1
          /\ Distinct(nop, {"nop"}) /\ Distinct(nop, {"nextRound"})
      <4>1. "nop" \in {"nop", "nextRound"} /\ m.at \in Nat /\ s \in M!Party
        BY <1>2, <1>3
      <4> HIDE DEF s
      <4> QED BY <4>1, RoundProperties
    <3>3. network' = Tail(network) \o nop
      BY <1>2, <3>1, <3>2, AppendIsConcat
    <3> HIDE DEF nop
    <3>4. \A k \in Range(Tail(network)), l \in Range(nop) :
            k.body = l.body /\ l.body \notin Value => k.from # l.from
      BY <1>5, <3>2
    <3>5. /\ network' \in Seq(M!Message) /\ InLockStep(network', m.at)
          /\ Distinct(network', {"nop"}) /\ Distinct(network', {"nextRound"})
          /\ Range(network') = Range(Tail(network)) \union Range(nop)
      BY <1>2, <3>2, <3>3, <3>4, MajoritySent
    <3>6. loopbacks' \in Seq(Sender) /\ IsInjective(loopbacks') /\ Range(loopbacks') = {}
      BY <3>1 DEF Range, IsInjective
    <3> QED BY <2>2, <3>2, <3>5, <3>6
  <2> QED BY <1>4, <2>1, <2>2
<1>7. M!TypeOK' /\ MajorityQueues'
  BY <1>1, <1>2, <1>3, <1>4, <1>6 DEF MajorityInv, M!TypeOK, MajorityQueues
<1>8. StartsAtZero' /\ ValuesCounted' /\ ResultsAgreed'
  BY <1>1, <1>3 DEF MajorityInv, StartsAtZero, ValuesCounted, ResultsAgreed
<1>9. LeftAtTwo'
  BY <1>1, <1>2, <1>3 DEF MajorityInv, LeftAtTwo
<1>10. ValuesInTime' /\ TalliesInTime'
  BY <1>1, <1>2, <1>6, MembersAreFinite DEF MajorityInv, ValuesInTime, TalliesInTime
<1>11. MembersDone'
  <2> SUFFICES ASSUME NEW p \in Range(loopbacks')
               PROVE  stage[p] = "registered" /\ nopCount'[p] = 0 /\ m.at = 2
    BY <1>1, <1>3 DEF MembersDone
  <2>1. p = s /\ nopCount[s] = 1
    BY <1>6
  <2> QED BY <1>3, <1>4, <2>1
<1>12. NopRoundsInTime'
  <2> SUFFICES ASSUME NEW k \in Range(network'), k.body = "nop"
               PROVE  /\ k.from = k.to /\ k.to \in Sender
                      /\ stage[k.to] = "registered"
                      /\ nopCount'[k.to] > 0 /\ k.at + nopCount'[k.to] = 3
    BY <1>1 DEF NopRoundsInTime
  <2>1. CASE k \in Range(Tail(network))
    <3>1. k.to # s /\ k \in Range(network)
      BY <1>2, <1>5, <2>1
    <3> QED BY <1>4, <3>1 DEF MajorityInv, NopRoundsInTime
  <2>2. CASE /\ k.at = m.at + 1 /\ k.from = s /\ k.to = s /\ k.body = "nop"
             /\ nopCount[s] = 2
    <3>1. nopCount'[s] = 1 /\ m.at = 1
      BY <1>3, <1>4, <2>2
    <3> QED BY <1>3, <2>2, <3>1
  <2> QED BY <1>6, <2>1, <2>2
<1>13. ValuesOnTheWay'
  <2> SUFFICES ASSUME NEW p \in Receiver, NEW h \in senders[p] \intersect Honest
               PROVE  \E k \in Range(network') : k.body \in Value /\ k.from = h /\ k.to = p
    BY <1>1 DEF ValuesOnTheWay
  <2>1. PICK k \in Range(network) : k.body \in Value /\ k.from = h /\ k.to = p
    BY <1>3 DEF MajorityInv, ValuesOnTheWay, Honest, M!Party
  <2>2. k # m
    BY <1>1, <2>1, MembersAreFinite
  <2> QED BY <1>2, <1>6, <2>1, <2>2
<1> QED
  BY <1>7, <1>8, <1>9, <1>10, <1>11, <1>12, <1>13 DEF MajorityInv

LEMMA MajorityHandleSubProtocolCompleted ==
  ASSUME MajorityInv, M!HandleSubProtocolCompleted
  PROVE  MajorityInv'
<1> DEFINE s == Head(loopbacks)
<1>1. /\ loopbacks # <<>> /\ loopbacks' = Tail(loopbacks)
      /\ stage' = [stage EXCEPT ![s] = "completed"]
      /\ UNCHANGED <<clock, network, nopCount, senders, received, scheduledTally, result>>
  BY DEF M!HandleSubProtocolCompleted
<1>2. /\ s \in Sender /\ s \in Range(loopbacks)
      /\ loopbacks' \in Seq(Sender) /\ Range(loopbacks') \subseteq Range(loopbacks)
      /\ IsInjective(loopbacks') /\ s \notin Range(loopbacks')
  BY <1>1, MajorityFields, HeadAndTail, InjectiveTail DEF MajorityInv, MajorityQueues
<1>3. stage[s] = "registered" /\ nopCount[s] = 0 /\ clock = 2
  BY <1>2 DEF MajorityInv, MembersDone
<1>4. s \in M!Party /\ s \notin Receiver
  BY <1>2, MembersAreFinite DEF M!Party
<1> HIDE DEF s
<1>5. /\ stage' \in [M!Party -> {"unregistered", "registered", "completed"}]
      /\ stage'[s] = "completed"
      /\ \A p \in M!Party : p # s => stage'[p] = stage[p]
  BY <1>1, <1>4, MajorityFields
<1>6. M!TypeOK' /\ MajorityQueues'
  BY <1>1, <1>2, <1>5 DEF MajorityInv, M!TypeOK, MajorityQueues
<1>7. StartsAtZero' /\ ValuesInTime' /\ ValuesCounted' /\ LeftAtTwo'
  BY <1>1, <1>3, <1>5
     DEF MajorityInv, StartsAtZero, ValuesInTime, ValuesCounted, LeftAtTwo
<1>8. NopRoundsInTime' /\ MembersDone' /\ TalliesInTime'
  BY <1>1, <1>2, <1>3, <1>4, <1>5, MajorityFields
     DEF MajorityInv, NopRoundsInTime, MembersDone, TalliesInTime
<1>9. ValuesOnTheWay'
  BY <1>1, <1>3, <1>4, <1>5, MajorityFields DEF MajorityInv, ValuesOnTheWay
<1>10. ResultsAgreed'
  BY <1>1, <1>4, <1>5, MajorityFields DEF MajorityInv, ResultsAgreed
<1> QED BY <1>6, <1>7, <1>8, <1>9, <1>10 DEF MajorityInv

LEMMA MajorityStep ==
  ASSUME PlainFaults, MajorityInv, M!Next
  PROVE  MajorityInv'
BY MajorityStartSender, MajorityStartReceiver, MajorityHandleBasic, MajorityHandleNextRound,
   MajorityHandleNop, MajorityHandleSubProtocolCompleted DEF M!Next

LEMMA MajorityMessagesFindProtocol ==
  ASSUME MajorityInv
  PROVE  M!TypeOK /\ M!MessagesFindProtocol
<1> SUFFICES ASSUME NEW i \in DOMAIN network
             PROVE  stage[network[i].to] # "completed"
  BY DEF MajorityInv, M!MessagesFindProtocol
<1> DEFINE m == network[i]
<1>1. m \in Range(network) /\ m.to \in M!Party /\ m.body \in Value \union {"nop", "nextRound"}
  <2>1. m \in Range(network)
    BY DEF Range
  <2> QED BY <2>1, MajorityFields
<1>2. CASE m.body \in Value
  <2>1. m.at = 1
    BY <1>1, <1>2 DEF MajorityInv, ValuesInTime
  <2>2. m.at \in {clock, clock + 1} /\ clock \in Nat
    BY MajorityFields DEF MajorityInv, MajorityQueues, InLockStep
  <2> QED BY <1>1, <2>1, <2>2 DEF MajorityInv, LeftAtTwo
<1>3. CASE m.body = "nop"
  BY <1>1, <1>3 DEF MajorityInv, NopRoundsInTime
<1>4. CASE m.body = "nextRound"
  BY <1>1, <1>4 DEF MajorityInv, TalliesInTime
<1> QED BY <1>1, <1>2, <1>3, <1>4

LEMMA MajorityLeave ==
  ASSUME MajorityInv, M!Next, NEW p \in M!Party, stage[p] # "completed", stage'[p] = "completed"
  PROVE  clock' = 2
<1>1. ASSUME NEW s \in Sender, M!StartSender(s)
      PROVE  FALSE
  BY <1>1, MajorityFields DEF M!StartSender
<1>2. ASSUME NEW r \in Receiver, M!StartReceiver(r)
      PROVE  FALSE
  BY <1>2, MajorityFields DEF M!StartReceiver
<1>3. ASSUME M!HandleNextRound
      PROVE  clock' = 2
  BY <1>3, MajorityHandle DEF M!HandleNextRound
<1>4. ASSUME M!HandleSubProtocolCompleted
      PROVE  clock' = 2
  <2>1. MajorityInv'
    BY <1>4, MajorityHandleSubProtocolCompleted
  <2> QED BY <2>1 DEF MajorityInv, LeftAtTwo
<1> QED
  BY <1>1, <1>2, <1>3, <1>4 DEF M!Next, M!HandleBasic, M!HandleNop

-----------------------------------------------------------------------------
(***************************************************************************)
(* Majority filtering when faulty members may end the round of a receiver. *)
(* Then values come after it has left, and the invariant above does not    *)
(* hold; what is left of it is that only faulty members say anything but   *)
(* the agreed value, each of them once to a receiver.                      *)
(***************************************************************************)

ValuesFromMembers ==
  \A m \in Range(network) :
    /\ m.body \in Value => /\ m.from \in Sender /\ m.to \in Receiver
                           /\ m.from \in Faulty \/ m.body = Agreed
    /\ m.body = "nextRound" => m.to \in Receiver

OthersCounted ==
  \A r \in Receiver :
    Cardinality(Occurrences(received[r], Value \ {Agreed})) <= Cardinality(Faulty \ senders[r])

NothingWrong ==
  M!HonestMajority => \A r \in Receiver : result[r] \in {Agreed, NoValue}

FilterInv ==
  /\ network \in Seq(M!Message)
  /\ senders \in [Receiver -> SUBSET Sender]
  /\ received \in [Receiver -> Seq(Value)]
  /\ result \in [Receiver -> Value \union {NoValue}]
  /\ ValuesFromMembers
  /\ OthersCounted
  /\ NothingWrong

LEMMA FilterInit ==
  ASSUME M!Init
  PROVE  FilterInv
<1>1. network = <<>> /\ Range(network) = {}
  BY DEF M!Init, M!NetworkInit, Range
<1>2. OthersCounted
  <2> SUFFICES ASSUME NEW r \in Receiver
               PROVE  Cardinality(Occurrences(<<>>, Value \ {Agreed})) <=
                        Cardinality(Faulty \ Sender)
    BY DEF M!Init, OthersCounted
  <2>1. Occurrences(<<>>, Value \ {Agreed}) = {} /\ Faulty \ Sender = {}
    BY MembersAreFinite DEF Occurrences
  <2>2. Cardinality(Occurrences(<<>>, Value \ {Agreed})) = 0 /\ Cardinality(Faulty \ Sender) = 0
    BY <2>1, FS_EmptySet, Zenon
  <2> QED BY <2>2
<1> QED BY <1>1, <1>2 DEF M!Init, FilterInv, ValuesFromMembers, NothingWrong

\* The message whose turn it is, and the queue without it.
LEMMA FilterDue ==
  ASSUME FilterInv, NEW m \in M!Due
  PROVE  /\ m \in Range(network) /\ m \in M!Message
         /\ m.at \in Nat /\ m.from \in M!Party /\ m.to \in M!Party
         /\ Tail(network) \in Seq(M!Message)
         /\ Range(Tail(network)) \subseteq Range(network)
<1>1. network # <<>> /\ m = Head(network) /\ network \in Seq(M!Message)
  BY DEF M!Due, FilterInv
<1>2. /\ m \in M!Message /\ m \in Range(network)
      /\ Tail(network) \in Seq(M!Message) /\ Range(Tail(network)) \subseteq Range(network)
  BY <1>1, HeadAndTail
<1> QED BY <1>2 DEF M!Message

\* A message that a party posts to itself behind others.
LEMMA FilterPosted ==
  ASSUME NEW q \in Seq(M!Message), NEW now \in Nat, NEW p \in M!Party,
         NEW body \in {"nop", "nextRound"}
  PROVE  /\ Append(q, M!Letter(now, p, p, body)) \in Seq(M!Message)
         /\ \A m \in Range(Append(q, M!Letter(now, p, p, body))) :
              m \in Range(q) \/ (m.to = p /\ m.body = body)
<1> DEFINE t == <<M!Letter(now, p, p, body)>>
<1>1. /\ t \in Seq(M!Message) /\ M!Letter(now, p, p, body) \in M!Message
      /\ \A m \in Range(t) : m.to = p /\ m.body = body
  <2>1. t \in Seq(M!Message) /\ M!Letter(now, p, p, body) \in M!Message
    BY RoundProperties
  <2>2. M!Letter(now, p, p, body).to = p /\ M!Letter(now, p, p, body).body = body
    BY DEF M!Letter
  <2>3. Range(t) = {M!Letter(now, p, p, body)}
    BY DEF Range
  <2> HIDE DEF t
  <2> QED BY <2>1, <2>2, <2>3
<1>2. Append(q, M!Letter(now, p, p, body)) = q \o t
  BY <1>1, AppendIsConcat
<1> HIDE DEF t
<1>3. q \o t \in Seq(M!Message) /\ Range(q \o t) = Range(q) \union Range(t)
  BY <1>1, RangeConcatenation, ConcatProperties
<1> QED BY <1>1, <1>2, <1>3

LEMMA FilterStartSender ==
  ASSUME FilterInv, NEW s \in Sender, M!StartSender(s)
  PROVE  FilterInv'
<1>1. UNCHANGED <<senders, received, result>>
  BY DEF M!StartSender
<1>2. PICK values \in M!Sendings(s) :
        network' = Append(network \o M!Outgoing(s, values), M!Letter(0, s, s, "nop"))
  BY DEF M!StartSender
<1> DEFINE out == M!Outgoing(s, values)
<1>3. /\ out \in Seq(M!Message)
      /\ \A m \in Range(out) :
           /\ m.at = 1 /\ m.from = s /\ m.to \in Receiver
           /\ m.body \in Value \/ (m.body = "nextRound" /\ s \in forging)
           /\ s \in Faulty \/ m.body = Agreed
  BY OutgoingProperties
<1>4. network' = Append(network \o out, M!Letter(0, s, s, "nop"))
  BY <1>2
<1> HIDE DEF out
<1>5. /\ network \o out \in Seq(M!Message)
      /\ Range(network \o out) = Range(network) \union Range(out)
  BY <1>3, RangeConcatenation, ConcatProperties DEF FilterInv
<1>6. /\ network' \in Seq(M!Message)
      /\ \A m \in Range(network') : m \in Range(network \o out) \/ (m.to = s /\ m.body = "nop")
  <2>1. s \in M!Party /\ "nop" \in {"nop", "nextRound"}
    BY DEF M!Party
  <2>2. 0 \in Nat
    OBVIOUS
  <2> QED BY <1>4, <1>5, <2>1, <2>2, FilterPosted
<1>7. ValuesFromMembers'
  BY <1>3, <1>5, <1>6, MembersAreFinite DEF FilterInv, ValuesFromMembers
<1> QED BY <1>1, <1>6, <1>7 DEF FilterInv, OthersCounted, NothingWrong

\* Hearing a member adds another value only if it is faulty and was not heard before.
LEMMA OthersAfterHearing ==
  ASSUME NEW q \in Seq(Value), NEW left, left \subseteq Sender, NEW s \in left, NEW v \in Value,
         s \in Faulty \/ v = Agreed,
         Cardinality(Occurrences(q, Value \ {Agreed})) <= Cardinality(Faulty \ left)
  PROVE  Cardinality(Occurrences(Append(q, v), Value \ {Agreed})) <=
           Cardinality(Faulty \ (left \ {s}))
<1> DEFINE before == Faulty \ left
           after == Faulty \ (left \ {s})
           others == Occurrences(q, Value \ {Agreed})
<1>1. /\ IsFiniteSet(before) /\ Cardinality(before) \in Nat
      /\ IsFiniteSet(after) /\ Cardinality(after) \in Nat
      /\ Cardinality(others) \in Nat
  BY SubsetsOfMembers, MembersAreFinite, OccurrencesAreFinite
<1>2. CASE v = Agreed
  <2>1. Occurrences(Append(q, v), Value \ {Agreed}) = others
    BY <1>2, OccurrencesInAppend
  <2>2. Cardinality(before) <= Cardinality(after)
    <3>1. before \in SUBSET after
      OBVIOUS
    <3> QED BY <1>1, <3>1, FS_Subset
  <2> HIDE DEF before, after, others
  <2>3. Cardinality(others) <= Cardinality(after)
    BY <1>1, <2>2 DEF before, others
  <2> QED BY <2>1, <2>3 DEF after
<1>3. CASE v # Agreed
  <2>1. Cardinality(Occurrences(Append(q, v), Value \ {Agreed})) = Cardinality(others) + 1
    BY <1>3, OccurrencesInAppend
  <2>2. after = before \union {s} /\ s \notin before
    BY <1>3
  <2> HIDE DEF before, after, others
  <2>3. Cardinality(after) = Cardinality(before) + 1
    BY <1>1, <2>2, FS_AddElement
  <2>4. Cardinality(others) + 1 <= Cardinality(after)
    BY <1>1, <2>3 DEF before, others
  <2> QED BY <2>1, <2>4 DEF after
<1> QED BY <1>2, <1>3

LEMMA FilterHandleBasic ==
  ASSUME FilterInv, M!HandleBasic
  PROVE  FilterInv'
<1>1. PICK m \in M!Due :
        /\ m.body \in Value /\ M!Accept(m.to, m) /\ M!ScheduleTally(m.to, m)
        /\ UNCHANGED result
  BY DEF M!HandleBasic
<1>2. PICK r \in Receiver, s \in Sender :
        m.to = r /\ m.from = s /\ (s \in Faulty \/ m.body = Agreed)
  BY <1>1, FilterDue DEF FilterInv, ValuesFromMembers
<1>3. /\ Tail(network) \in Seq(M!Message) /\ Range(Tail(network)) \subseteq Range(network)
      /\ m.at \in Nat /\ r \in M!Party
  BY <1>2, FilterDue
<1>4. /\ senders' \in [Receiver -> SUBSET Sender]
      /\ received' \in [Receiver -> Seq(Value)]
      /\ OthersCounted'
  <2>0. senders \in [Receiver -> SUBSET Sender] /\ received \in [Receiver -> Seq(Value)]
    BY DEF FilterInv
  <2>1. CASE s \notin senders[r]
    <3>1. UNCHANGED <<senders, received>>
      BY <1>1, <1>2, <2>1 DEF M!Accept
    <3> QED BY <2>0, <3>1 DEF FilterInv, OthersCounted
  <2>2. CASE s \in senders[r]
    <3>1. /\ senders' = [senders EXCEPT ![r] = senders[r] \ {s}]
          /\ received' = [received EXCEPT ![r] = Append(received[r], m.body)]
      BY <1>1, <1>2, <2>2 DEF M!Accept
    <3>2. /\ senders[r] \ {s} \subseteq Sender /\ senders[r] \subseteq Sender
          /\ received[r] \in Seq(Value) /\ Append(received[r], m.body) \in Seq(Value)
      BY <1>1, <1>2, <2>0, AppendProperties
    <3>3. /\ senders' \in [Receiver -> SUBSET Sender]
          /\ received' \in [Receiver -> Seq(Value)]
          /\ senders'[r] = senders[r] \ {s} /\ received'[r] = Append(received[r], m.body)
          /\ \A p \in Receiver : p # r => senders'[p] = senders[p] /\ received'[p] = received[p]
      BY <1>2, <2>0, <3>1, <3>2
    <3>4. Cardinality(Occurrences(Append(received[r], m.body), Value \ {Agreed})) <=
            Cardinality(Faulty \ (senders[r] \ {s}))
      <4>1. Cardinality(Occurrences(received[r], Value \ {Agreed})) <=
              Cardinality(Faulty \ senders[r])
        BY <1>2 DEF FilterInv, OthersCounted
      <4> QED BY <1>1, <1>2, <2>2, <3>2, <4>1, OthersAfterHearing
    <3> QED BY <3>3, <3>4 DEF FilterInv, OthersCounted
  <2> QED BY <2>1, <2>2
<1>5. \/ network' = Tail(network)
      \/ network' = Append(Tail(network), M!Letter(m.at, r, r, "nextRound"))
  BY <1>1, <1>2 DEF M!ScheduleTally
<1>6. /\ network' \in Seq(M!Message)
      /\ \A k \in Range(network') : k \in Range(network) \/ (k.to = r /\ k.body = "nextRound")
  <2>1. CASE network' = Tail(network)
    BY <1>3, <2>1
  <2>2. CASE network' = Append(Tail(network), M!Letter(m.at, r, r, "nextRound"))
    <3> DEFINE posted == Append(Tail(network), M!Letter(m.at, r, r, "nextRound"))
    <3>1. "nextRound" \in {"nop", "nextRound"}
      OBVIOUS
    <3>2. /\ posted \in Seq(M!Message)
          /\ \A k \in Range(posted) :
               k \in Range(Tail(network)) \/ (k.to = r /\ k.body = "nextRound")
      BY <1>3, <3>1, FilterPosted
    <3>3. network' = posted
      BY <2>2
    <3> HIDE DEF posted
    <3> QED BY <1>3, <3>2, <3>3
  <2> QED BY <1>5, <2>1, <2>2
<1>7. ValuesFromMembers'
  BY <1>2, <1>6, MembersAreFinite DEF FilterInv, ValuesFromMembers
<1> QED BY <1>1, <1>4, <1>6, <1>7 DEF FilterInv, NothingWrong

\* The tally, whenever it comes.
LEMMA FilterHandleNextRound ==
  ASSUME FilterInv, M!HandleNextRound
  PROVE  FilterInv'
<1>1. PICK m \in M!Due :
        /\ m.body = "nextRound"
        /\ result' = [result EXCEPT ![m.to] = M!Tally(m.to)]
        /\ network' = Tail(network)
        /\ UNCHANGED <<senders, received>>
  BY DEF M!HandleNextRound
<1>2. PICK r \in Receiver : r = m.to
  BY <1>1, FilterDue DEF FilterInv, ValuesFromMembers
<1>3. Tail(network) \in Seq(M!Message) /\ Range(Tail(network)) \subseteq Range(network)
  BY FilterDue
<1>4. received[r] \in Seq(Value) /\ result \in [Receiver -> Value \union {NoValue}]
  BY DEF FilterInv
<1>5. M!Tally(r) \in Value \union {NoValue}
  BY <1>4, TallyIsAValue
<1>6. ASSUME M!HonestMajority
      PROVE  M!Tally(r) \in {Agreed, NoValue}
  <2>1. Cardinality(Occurrences(received[r], Value \ {Agreed})) <= Cardinality(Faulty \ senders[r])
    BY DEF FilterInv, OthersCounted
  <2>2. /\ Cardinality(Faulty \ senders[r]) <= Cardinality(Faulty)
        /\ Cardinality(Faulty \ senders[r]) \in Nat /\ Cardinality(Faulty) \in Nat
    <3>1. IsFiniteSet(Faulty) /\ Faulty \ senders[r] \in SUBSET Faulty
      BY SubsetsOfMembers, MembersAreFinite
    <3> QED BY <3>1, FS_Subset, FS_CardinalityType
  <2>3. Cardinality(Occurrences(received[r], Value \ {Agreed})) \in Nat
    BY <1>4, OccurrencesAreFinite
  <2>4. Cardinality(Occurrences(received[r], Value \ {Agreed})) <= Cardinality(Faulty)
    BY <2>1, <2>2, <2>3
  <2> QED BY <1>4, <1>6, <2>4, OthersDecideNothing
<1>7. /\ result' \in [Receiver -> Value \union {NoValue}]
      /\ result'[r] = M!Tally(r)
      /\ \A p \in Receiver : p # r => result'[p] = result[p]
  BY <1>1, <1>2, <1>4, <1>5
<1>8. NothingWrong'
  <2> SUFFICES ASSUME M!HonestMajority, NEW p \in Receiver
               PROVE  result'[p] \in {Agreed, NoValue}
    BY DEF NothingWrong, M!HonestMajority
  <2>1. CASE p = r
    BY <1>6, <1>7, <2>1
  <2>2. CASE p # r
    BY <1>7, <2>2 DEF FilterInv, NothingWrong
  <2> QED BY <2>1, <2>2
<1>9. ValuesFromMembers'
  BY <1>1, <1>3 DEF FilterInv, ValuesFromMembers
<1> QED BY <1>1, <1>3, <1>7, <1>8, <1>9 DEF FilterInv, OthersCounted

LEMMA FilterHandleNop ==
  ASSUME FilterInv, M!HandleNop
  PROVE  FilterInv'
<1>1. PICK m \in M!Due :
        /\ \/ network' = Tail(network)
           \/ network' = Append(Tail(network), M!Letter(m.at, m.to, m.to, "nop"))
        /\ UNCHANGED <<senders, received, result>>
  BY DEF M!HandleNop
<1>2. PICK p \in M!Party, now \in Nat : p = m.to /\ now = m.at
  BY FilterDue
<1>3. Tail(network) \in Seq(M!Message) /\ Range(Tail(network)) \subseteq Range(network)
  BY FilterDue
<1>4. /\ network' \in Seq(M!Message)
      /\ \A k \in Range(network') : k \in Range(network) \/ k.body = "nop"
  <2>1. CASE network' = Tail(network)
    BY <1>3, <2>1
  <2>2. CASE network' = Append(Tail(network), M!Letter(now, p, p, "nop"))
    <3> DEFINE posted == Append(Tail(network), M!Letter(now, p, p, "nop"))
    <3>1. "nop" \in {"nop", "nextRound"}
      OBVIOUS
    <3>2. /\ posted \in Seq(M!Message)
          /\ \A k \in Range(posted) :
               k \in Range(Tail(network)) \/ (k.to = p /\ k.body = "nop")
      BY <1>3, <3>1, FilterPosted
    <3>3. network' = posted
      BY <2>2
    <3> HIDE DEF posted
    <3> QED BY <1>3, <3>2, <3>3
  <2> QED BY <1>1, <1>2, <2>1, <2>2
<1>5. ValuesFromMembers'
  BY <1>4, MembersAreFinite DEF FilterInv, ValuesFromMembers
<1> QED BY <1>1, <1>4, <1>5 DEF FilterInv, OthersCounted, NothingWrong

LEMMA FilterStep ==
  ASSUME FilterInv, M!Next
  PROVE  FilterInv'
<1>1. ASSUME NEW r \in Receiver, M!StartReceiver(r)
      PROVE  UNCHANGED <<network, senders, received, result>>
  BY <1>1 DEF M!StartReceiver
<1>2. ASSUME M!HandleSubProtocolCompleted
      PROVE  UNCHANGED <<network, senders, received, result>>
  BY <1>2 DEF M!HandleSubProtocolCompleted
<1>3. UNCHANGED <<network, senders, received, result>> => FilterInv'
  BY DEF FilterInv, ValuesFromMembers, OthersCounted, NothingWrong
<1> QED
  BY <1>1, <1>2, <1>3, FilterStartSender, FilterHandleBasic, FilterHandleNextRound,
     FilterHandleNop DEF M!Next

-----------------------------------------------------------------------------
(***************************************************************************)
(* Random generation: for any size of the quorum, any member that may      *)
(* misbehave and any field every message finds its protocol, and all       *)
(* members leave in the third tick.                                        *)
(*                                                                         *)
(* When messages come, and in what order, does not depend on the shares    *)
(* that they carry, so the invariant is about the types of the messages.   *)
(* A member goes on when two thirds of the members have dealt to it.  This *)
(* does not mean that the others go on: that they do, and before they are  *)
(* asked to open the number, follows because the shares that are counted   *)
(* are those of the correct members, the same for everybody, and no share  *)
(* is on the way any more when the first message of the opening is due.    *)
(***************************************************************************)

\* What the proof looks at in a message, and in the queue.
KindOf(m) == [at |-> m.at, from |-> m.from, to |-> m.to, body |-> m.body.type]
Kinds(q) == [i \in DOMAIN q |-> KindOf(q[i])]

Kind == [at : Nat, from : R!Member, to : R!Member,
         body : {"commit", "share", "nextRound", "reconst"}]

kinds == Kinds(network)

RandomQueue ==
  /\ clock \in 0..3
  /\ network \in Seq(Range(network))
  /\ kinds \in Seq(Kind)
  /\ InLockStep(kinds, clock)
  /\ Distinct(kinds, {"share"})
  /\ Distinct(kinds, {"nextRound"})
  /\ Distinct(kinds, {"reconst"})

RandomState ==
  /\ loopbacks \in Seq(R!Member)
  /\ IsInjective(loopbacks)
  /\ conduct \in {"correct", "uncommitted", "late", "silent"}
  /\ reconstRecv = [p \in R!Member |-> reconstRecv[p]]

\* Members start before any message is handled.
MembersStartAtZero ==
  \A p \in R!Member : stage[p] = "unregistered" =>
    clock = 0 /\ \A q \in R!Member : ~scheduledReconst[q]

\* What members deal comes in the first tick.
DealingsInTime ==
  /\ \A m \in Range(kinds) : m.body \in {"commit", "share"} =>
       m.at = 1 /\ stage[m.from] # "unregistered"
  /\ \A p, q \in R!Member : q \in commitsRecv[p] => stage[q] # "unregistered"

IsCommitBefore(c, m) == c.body = "commit" /\ c.from = m.from /\ c.to = m.to

\* The share of a correct member, one of D, finds its commitment, and that of no other does.
CommitsFirst(q, recv, D) ==
  \A i \in DOMAIN q : q[i].body = "share" =>
    (q[i].from \in D <=> \/ q[i].from \in recv[q[i].to]
                         \/ \E j \in 1..(i - 1) : IsCommitBefore(q[j], q[i]))

\* The correct members whose share a member has got, and counted.
Counted(p) ==
  {q \in R!Dealers : /\ stage[q] # "unregistered"
                     /\ ~\E m \in Range(kinds) : m.body = "share" /\ m.from = q /\ m.to = p}

SharesCounted ==
  \A p \in R!Member :
    /\ numSharesRecv[p] = Cardinality(Counted(p))
    /\ scheduledReconst[p] <=> R!EnoughShares(numSharesRecv[p])

\* A member that has enough shares ends its round in the second tick, once.
RoundsEnd ==
  /\ \A m \in Range(kinds) : m.body = "nextRound" =>
       /\ m.from = m.to /\ m.at = 2
       /\ scheduledReconst[m.to] /\ stage[m.to] = "generating"
  /\ \A p \in R!Member : scheduledReconst[p] /\ stage[p] = "generating" =>
       \E m \in Range(kinds) : m.body = "nextRound" /\ m.to = p

\* Only then does it go on.
MembersGoOn ==
  \A p \in R!Member :
    /\ stage[p] \in {"generated", "opening", "completed"} => scheduledReconst[p] /\ clock >= 2
    /\ p \in Range(loopbacks) <=> stage[p] = "generated"
    /\ stage[p] = "generated" => clock = 2
    /\ stage[p] = "completed" => DOMAIN reconstRecv[p] = R!Member

\* In the third tick a member gets the share of every member that goes on, once.
OpeningsInTime ==
  /\ \A m \in Range(kinds) : m.body = "reconst" =>
       /\ m.at = 3 /\ stage[m.from] \in {"opening", "completed"}
       /\ m.from \notin DOMAIN reconstRecv[m.to]
  /\ \A p, q \in R!Member : q \in DOMAIN reconstRecv[p] => stage[q] \in {"opening", "completed"}

RandomInv ==
  /\ R!TypeOK
  /\ RandomQueue
  /\ RandomState
  /\ MembersStartAtZero
  /\ DealingsInTime
  /\ CommitsFirst(kinds, commitsRecv, R!Dealers)
  /\ SharesCounted
  /\ RoundsEnd
  /\ MembersGoOn
  /\ OpeningsInTime

LEMMA MembersOfRandom ==
  /\ Size \in Nat \ {0} /\ IsFiniteSet(R!Member) /\ Cardinality(R!Member) = Size
  /\ R!Dealers \subseteq R!Member
<1>1. Size \in Nat \ {0}
  BY RandomAssumption DEF R!RandomGenerationAssumption
<1> QED BY <1>1, FS_Interval DEF R!Member, R!Dealers

LEMMA KindsOfTail ==
  ASSUME NEW T, NEW q \in Seq(T), q # <<>>
  PROVE  /\ Kinds(q) # <<>> /\ Head(Kinds(q)) = KindOf(Head(q))
         /\ Kinds(q) \in Seq(Kind) => Kinds(Tail(q)) = Tail(Kinds(q))
<1>1. /\ Head(q) = q[1] /\ 1 \in DOMAIN q
      /\ Len(q) \in Nat /\ DOMAIN q = 1..Len(q)
      /\ DOMAIN Tail(q) = 1..(Len(q) - 1)
      /\ \A i \in 1..(Len(q) - 1) : Tail(q)[i] = q[i + 1]
  BY HeadTailProperties, LenProperties
<1>2. /\ DOMAIN Kinds(q) = 1..Len(q) /\ Kinds(q)[1] = KindOf(Head(q))
      /\ \A i \in 1..Len(q) : Kinds(q)[i] = KindOf(q[i])
  BY <1>1 DEF Kinds
<1>3. Kinds(q) # <<>>
  BY <1>1, <1>2
<1>4. Head(Kinds(q)) = KindOf(Head(q))
  BY <1>2, <1>3
<1>5. ASSUME Kinds(q) \in Seq(Kind)
      PROVE  Kinds(Tail(q)) = Tail(Kinds(q))
  <2>1. /\ Len(Kinds(q)) = Len(q)
        /\ DOMAIN Tail(Kinds(q)) = 1..(Len(q) - 1)
        /\ \A i \in 1..(Len(q) - 1) : Tail(Kinds(q))[i] = Kinds(q)[i + 1]
        /\ Tail(Kinds(q)) \in Seq(Kind)
    BY <1>1, <1>2, <1>3, <1>5, HeadTailProperties, LenProperties
  <2>2. /\ DOMAIN Kinds(Tail(q)) = 1..(Len(q) - 1)
        /\ \A i \in 1..(Len(q) - 1) : Kinds(Tail(q))[i] = KindOf(q[i + 1])
    BY <1>1 DEF Kinds
  <2>3. \A i \in 1..(Len(q) - 1) : i + 1 \in 1..Len(q)
    BY <1>1
  <2>4. \A i \in 1..(Len(q) - 1) : Kinds(Tail(q))[i] = Tail(Kinds(q))[i]
    BY <1>2, <2>1, <2>2, <2>3
  <2>5. Tail(Kinds(q)) = [i \in 1..(Len(q) - 1) |-> Tail(Kinds(q))[i]]
    BY <2>1, LenProperties
  <2>6. Kinds(Tail(q)) = [i \in 1..(Len(q) - 1) |-> Kinds(Tail(q))[i]]
    BY <2>2 DEF Kinds
  <2> QED BY <2>4, <2>5, <2>6
<1> QED BY <1>3, <1>4, <1>5

LEMMA KindsOfConcatenation ==
  ASSUME NEW T, NEW q \in Seq(T), NEW t \in Seq(T),
         Kinds(q) \in Seq(Kind), Kinds(t) \in Seq(Kind)
  PROVE  Kinds(q \o t) = Kinds(q) \o Kinds(t)
<1>1. /\ Len(q) \in Nat /\ Len(t) \in Nat /\ DOMAIN q = 1..Len(q) /\ DOMAIN t = 1..Len(t)
      /\ DOMAIN (q \o t) = 1..(Len(q) + Len(t))
      /\ \A i \in 1..(Len(q) + Len(t)) : (q \o t)[i] = IF i <= Len(q) THEN q[i] ELSE t[i - Len(q)]
  BY ConcatProperties, LenProperties
<1>2. /\ DOMAIN Kinds(q) = 1..Len(q) /\ DOMAIN Kinds(t) = 1..Len(t)
      /\ \A i \in 1..Len(q) : Kinds(q)[i] = KindOf(q[i])
      /\ \A i \in 1..Len(t) : Kinds(t)[i] = KindOf(t[i])
  BY <1>1 DEF Kinds
<1>3. Len(Kinds(q)) = Len(q) /\ Len(Kinds(t)) = Len(t)
  BY <1>1, <1>2, LenProperties
<1>4. /\ DOMAIN (Kinds(q) \o Kinds(t)) = 1..(Len(q) + Len(t))
      /\ \A i \in 1..(Len(q) + Len(t)) :
           (Kinds(q) \o Kinds(t))[i] = IF i <= Len(q) THEN Kinds(q)[i] ELSE Kinds(t)[i - Len(q)]
      /\ Kinds(q) \o Kinds(t) \in Seq(Kind)
  BY <1>3, ConcatProperties, LenProperties
<1>5. /\ DOMAIN Kinds(q \o t) = 1..(Len(q) + Len(t))
      /\ \A i \in 1..(Len(q) + Len(t)) : Kinds(q \o t)[i] = KindOf((q \o t)[i])
  BY <1>1 DEF Kinds
<1>6. ASSUME NEW i \in 1..(Len(q) + Len(t))
      PROVE  Kinds(q \o t)[i] = (Kinds(q) \o Kinds(t))[i]
  <2>1. CASE i <= Len(q)
    BY <1>1, <1>2, <1>4, <1>5, <2>1
  <2>2. CASE i > Len(q)
    <3>1. i - Len(q) \in 1..Len(t) /\ ~ (i <= Len(q))
      BY <1>1, <2>2
    <3>2. (q \o t)[i] = t[i - Len(q)]
      BY <1>1, <3>1
    <3>3. Kinds(q \o t)[i] = KindOf(t[i - Len(q)])
      BY <1>5, <3>2
    <3>4. (Kinds(q) \o Kinds(t))[i] = Kinds(t)[i - Len(q)]
      BY <1>4, <3>1
    <3>5. Kinds(t)[i - Len(q)] = KindOf(t[i - Len(q)])
      BY <1>2, <3>1
    <3> QED BY <3>3, <3>4, <3>5
  <2>3. i <= Len(q) \/ i > Len(q)
    BY <1>1
  <2> QED BY <2>1, <2>2, <2>3, Zenon
<1>7. Kinds(q) \o Kinds(t) = [i \in 1..(Len(q) + Len(t)) |-> (Kinds(q) \o Kinds(t))[i]]
  BY <1>4, LenProperties
<1>8. Kinds(q \o t) = [i \in 1..(Len(q) + Len(t)) |-> Kinds(q \o t)[i]]
  BY <1>5 DEF Kinds
<1> QED BY <1>6, <1>7, <1>8

LEMMA CommitsFirstHandled ==
  ASSUME NEW q \in Seq(Kind), q # <<>>, NEW D,
         NEW recv \in [R!Member -> SUBSET R!Member], NEW recv2 \in [R!Member -> SUBSET R!Member],
         CommitsFirst(q, recv, D),
         \A p, r \in R!Member : p \in recv2[r] <=>
           \/ p \in recv[r]
           \/ Head(q).body = "commit" /\ p = Head(q).from /\ r = Head(q).to
  PROVE  CommitsFirst(Tail(q), recv2, D)
<1>1. /\ Head(q) = q[1] /\ Len(q) \in Nat /\ DOMAIN q = 1..Len(q)
      /\ DOMAIN Tail(q) = 1..(Len(q) - 1)
      /\ \A i \in 1..(Len(q) - 1) : Tail(q)[i] = q[i + 1]
  BY HeadTailProperties, LenProperties
<1> SUFFICES ASSUME NEW i \in DOMAIN Tail(q), Tail(q)[i].body = "share"
             PROVE  Tail(q)[i].from \in D <=>
                      \/ Tail(q)[i].from \in recv2[Tail(q)[i].to]
                      \/ \E j \in 1..(i - 1) : IsCommitBefore(Tail(q)[j], Tail(q)[i])
  BY DEF CommitsFirst
<1> DEFINE m == q[i + 1]
<1>2. /\ Tail(q)[i] = m /\ i + 1 \in DOMAIN q /\ m.body = "share" /\ i \in Nat
      /\ m \in Kind /\ m.from \in R!Member /\ m.to \in R!Member
  <2>1. i + 1 \in 1..Len(q) /\ i \in Nat /\ Tail(q)[i] = m
    BY <1>1
  <2>2. m \in Kind
    BY <2>1, ElementOfSeq
  <2> QED BY <1>1, <2>1, <2>2 DEF Kind
<1>3. m.from \in D <=> \/ m.from \in recv[m.to]
                       \/ \E j \in 1..i : IsCommitBefore(q[j], m)
  <2>1. (i + 1) - 1 = i
    BY <1>2
  <2> QED BY <1>2, <2>1 DEF CommitsFirst
<1>4. m.from \in recv2[m.to] <=> m.from \in recv[m.to] \/ IsCommitBefore(q[1], m)
  BY <1>1, <1>2 DEF IsCommitBefore
<1> HIDE DEF m
<1>5. (\E j \in 1..i : IsCommitBefore(q[j], m))
       <=> IsCommitBefore(q[1], m) \/ \E j \in 1..(i - 1) : IsCommitBefore(Tail(q)[j], m)
  <2>1. \A j \in 1..i : j # 1 => j - 1 \in 1..(i - 1) /\ Tail(q)[j - 1] = q[j]
    BY <1>1, <1>2
  <2>2. \A j \in 1..(i - 1) : j + 1 \in 1..i /\ Tail(q)[j] = q[j + 1]
    BY <1>1, <1>2
  <2>3. 1 \in 1..i
    BY <1>1, <1>2
  <2> QED BY <2>1, <2>2, <2>3
<1> QED BY <1>2, <1>3, <1>4, <1>5

LEMMA CommitsFirstSent ==
  ASSUME NEW q \in Seq(Kind), NEW t \in Seq(Kind), NEW D, NEW recv,
         CommitsFirst(q, recv, D),
         \A i \in DOMAIN t : t[i].body = "share" =>
           /\ t[i].from \notin recv[t[i].to]
           /\ \A c \in Range(q) : ~IsCommitBefore(c, t[i])
           /\ t[i].from \in D <=> \E j \in 1..(i - 1) : IsCommitBefore(t[j], t[i])
  PROVE  CommitsFirst(q \o t, recv, D)
<1> DEFINE s == q \o t
<1>1. /\ Len(q) \in Nat /\ Len(t) \in Nat /\ DOMAIN q = 1..Len(q) /\ DOMAIN t = 1..Len(t)
      /\ DOMAIN s = 1..(Len(q) + Len(t))
      /\ \A i \in 1..(Len(q) + Len(t)) : s[i] = IF i <= Len(q) THEN q[i] ELSE t[i - Len(q)]
  BY ConcatProperties, LenProperties
<1> SUFFICES ASSUME NEW i \in DOMAIN s, s[i].body = "share"
             PROVE  s[i].from \in D <=>
                      \/ s[i].from \in recv[s[i].to]
                      \/ \E j \in 1..(i - 1) : IsCommitBefore(s[j], s[i])
  BY DEF CommitsFirst
<1> HIDE DEF s
<1>2. CASE i <= Len(q)
  <2>1. s[i] = q[i] /\ i \in DOMAIN q /\ \A j \in 1..(i - 1) : s[j] = q[j]
    BY <1>1, <1>2
  <2> QED BY <2>1 DEF CommitsFirst
<1>3. CASE i > Len(q)
  <2> DEFINE k == i - Len(q)
  <2>1. k \in DOMAIN t /\ s[i] = t[k] /\ k \in Nat
    BY <1>1, <1>3
  <2>2. \A j \in 1..(i - 1) : \/ s[j] \in Range(q)
                              \/ j - Len(q) \in 1..(k - 1) /\ s[j] = t[j - Len(q)]
    BY <1>1, <1>3 DEF Range
  <2>3. \A j \in 1..(k - 1) : j + Len(q) \in 1..(i - 1) /\ s[j + Len(q)] = t[j]
    BY <1>1, <1>3
  <2> HIDE DEF k
  <2>4. (\E j \in 1..(i - 1) : IsCommitBefore(s[j], t[k]))
         <=> \E j \in 1..(k - 1) : IsCommitBefore(t[j], t[k])
    BY <2>1, <2>2, <2>3
  <2> QED BY <2>1, <2>4
<1>4. i <= Len(q) \/ i > Len(q)
  BY <1>1
<1> QED BY <1>2, <1>3, <1>4

\* Messages that are sent at the time now.
LEMMA RandomSent ==
  ASSUME NEW q \in Seq(Kind), NEW t \in Seq(Kind), NEW now \in Nat,
         InLockStep(q, now),
         Distinct(q, {"share"}), Distinct(q, {"nextRound"}), Distinct(q, {"reconst"}),
         \A m \in Range(t) : m.at = now + 1,
         Distinct(t, {"share"}), Distinct(t, {"nextRound"}), Distinct(t, {"reconst"}),
         \A m \in Range(q), k \in Range(t) :
           m.body = k.body /\ k.body # "commit" => m.from # k.from
  PROVE  /\ q \o t \in Seq(Kind)
         /\ InLockStep(q \o t, now)
         /\ Distinct(q \o t, {"share"}) /\ Distinct(q \o t, {"nextRound"})
         /\ Distinct(q \o t, {"reconst"})
         /\ Range(q \o t) = Range(q) \union Range(t)
<1>1. q \o t \in Seq(Kind) /\ Range(q \o t) = Range(q) \union Range(t)
  BY RangeConcatenation, ConcatProperties
<1>2. \A m \in Kind : m.at \in Nat
  BY DEF Kind
<1>3. \A i \in DOMAIN q : q[i].at >= now
  BY DEF InLockStep
<1>4. InLockStep(q \o t, now)
  <2>1. \A i \in DOMAIN t : t[i].at = now + 1
    BY DEF Range
  <2> QED BY <1>2, <1>3, <2>1, SentInLockStep
<1>5. Distinct(q \o t, {"share"})
  BY SentDistinct
<1>6. Distinct(q \o t, {"nextRound"})
  BY SentDistinct
<1>7. Distinct(q \o t, {"reconst"})
  BY SentDistinct
<1> QED BY <1>1, <1>4, <1>5, <1>6, <1>7

\* What the invariant says of the types of the state.
LEMMA RandomFields ==
  ASSUME RandomInv
  PROVE  /\ clock \in Nat /\ clock \in 0..3
         /\ kinds \in Seq(Kind) /\ Range(kinds) \subseteq Kind
         /\ loopbacks \in Seq(R!Member) /\ Range(loopbacks) \subseteq R!Member
         /\ stage \in [R!Member ->
                         {"unregistered", "generating", "generated", "opening", "completed"}]
         /\ commitsRecv \in [R!Member -> SUBSET R!Member]
         /\ numSharesRecv \in [R!Member -> Nat]
         /\ scheduledReconst \in [R!Member -> BOOLEAN]
         /\ \A p \in R!Member : DOMAIN reconstRecv[p] \subseteq R!Member
         /\ \A k \in Kind : /\ k.at \in Nat /\ k.from \in R!Member /\ k.to \in R!Member
                            /\ k.body \in {"commit", "share", "nextRound", "reconst"}
         /\ \A k \in Range(kinds) : k.at \in {clock, clock + 1}
<1>1. /\ clock \in 0..3 /\ kinds \in Seq(Kind) /\ loopbacks \in Seq(R!Member)
      /\ InLockStep(kinds, clock)
  BY DEF RandomInv, RandomQueue, RandomState
<1>2. /\ stage \in [R!Member ->
                      {"unregistered", "generating", "generated", "opening", "completed"}]
      /\ commitsRecv \in [R!Member -> SUBSET R!Member]
      /\ numSharesRecv \in [R!Member -> 0..Size]
      /\ scheduledReconst \in [R!Member -> BOOLEAN]
      /\ \A p \in R!Member : DOMAIN reconstRecv[p] \subseteq R!Member
  BY DEF RandomInv, R!TypeOK
<1>3. numSharesRecv \in [R!Member -> Nat]
  <2>1. 0..Size \subseteq Nat
    BY MembersOfRandom
  <2> QED BY <1>2, <2>1, Zenon
<1>4. Range(loopbacks) \subseteq R!Member /\ Range(kinds) \subseteq Kind
  BY <1>1, RangeOfSeq
<1>5. \A k \in Range(kinds) : k.at \in {clock, clock + 1}
  BY <1>1 DEF InLockStep, Range
<1> QED BY <1>1, <1>2, <1>3, <1>4, <1>5 DEF Kind

\* The message whose turn it is, and the queue without it.
LEMMA RandomDue ==
  ASSUME RandomInv, NEW m \in R!Due
  PROVE  /\ loopbacks = <<>> /\ Range(loopbacks) = {} /\ network # <<>>
         /\ kinds # <<>> /\ Head(kinds) = KindOf(m)
         /\ KindOf(m) \in Kind /\ KindOf(m) \in Range(kinds)
         /\ Tail(network) \in Seq(Range(Tail(network)))
         /\ Kinds(Tail(network)) = Tail(kinds)
         /\ Tail(kinds) \in Seq(Kind) /\ Range(Tail(kinds)) \subseteq Range(kinds)
         /\ Range(kinds) = {KindOf(m)} \union Range(Tail(kinds))
         /\ m.at \in {clock, clock + 1} /\ m.at \in Nat
         /\ \A k \in Range(kinds) : k.at >= m.at
         /\ InLockStep(Tail(kinds), m.at)
         /\ Distinct(Tail(kinds), {"share"}) /\ Distinct(Tail(kinds), {"nextRound"})
         /\ Distinct(Tail(kinds), {"reconst"})
         /\ \A k \in Range(Tail(kinds)) :
              k.body = m.body.type /\ k.body # "commit" => k.from # m.from \/ k.to # m.to
<1>1. network # <<>> /\ loopbacks = <<>> /\ m = Head(network)
  BY DEF R!Due
<1>2. /\ network \in Seq(Range(network)) /\ clock \in Nat /\ kinds \in Seq(Kind)
      /\ \A k \in Kind : k.at \in Nat
      /\ InLockStep(kinds, clock) /\ Distinct(kinds, {"share"})
      /\ Distinct(kinds, {"nextRound"}) /\ Distinct(kinds, {"reconst"})
  BY RandomFields DEF RandomInv, RandomQueue
<1>3. /\ kinds # <<>> /\ Head(kinds) = KindOf(m)
      /\ Kinds(Tail(network)) = Tail(kinds)
  BY <1>1, <1>2, KindsOfTail DEF kinds
<1>4. Tail(network) \in Seq(Range(Tail(network)))
  <2>1. Tail(network) \in Seq(Range(network))
    BY <1>1, <1>2, HeadTailProperties
  <2> QED BY <2>1, SeqOfRange
<1>5. /\ Head(kinds) \in Kind /\ Tail(kinds) \in Seq(Kind)
      /\ Head(kinds) \in Range(kinds)
      /\ Range(Tail(kinds)) \subseteq Range(kinds)
      /\ Range(kinds) = {Head(kinds)} \union Range(Tail(kinds))
  BY <1>2, <1>3, HeadAndTail
<1>6. Head(kinds).at \in {clock, clock + 1} /\ InLockStep(Tail(kinds), Head(kinds).at)
  BY <1>2, <1>3, HandledInLockStep
<1>7. /\ KindOf(m).at = m.at /\ KindOf(m).from = m.from /\ KindOf(m).to = m.to
      /\ KindOf(m).body = m.body.type
  BY DEF KindOf
<1>8. ASSUME NEW Types
      PROVE  Distinct(kinds, Types) =>
               /\ Distinct(Tail(kinds), Types)
               /\ \A k \in Range(Tail(kinds)) :
                    Head(kinds).body \in Types /\ k.body \in Types =>
                      k.from # Head(kinds).from \/ k.to # Head(kinds).to
  BY <1>2, <1>3, HandledDistinct
<1>9. /\ Distinct(Tail(kinds), {"share"}) /\ Distinct(Tail(kinds), {"nextRound"})
      /\ Distinct(Tail(kinds), {"reconst"})
  BY <1>2, <1>8
<1>10. \A k \in Range(Tail(kinds)) :
         k.body = m.body.type /\ k.body # "commit" => k.from # m.from \/ k.to # m.to
  <2> SUFFICES ASSUME NEW k \in Range(Tail(kinds)), k.body = m.body.type, k.body # "commit"
               PROVE  k.from # m.from \/ k.to # m.to
    OBVIOUS
  <2>1. Head(kinds).body = k.body /\ k.body \in {"share", "nextRound", "reconst"}
    BY <1>3, <1>5, <1>7, RandomFields
  <2> QED BY <1>2, <1>3, <1>7, <1>8, <2>1
<1>11. \A k \in Range(kinds) : k.at >= m.at
  <2>1. ASSUME NEW k \in Range(Tail(kinds)) PROVE k.at >= m.at
    <3>1. k.at \in {m.at, m.at + 1} /\ m.at \in Nat
      BY <1>2, <1>3, <1>5, <1>6, <1>7 DEF InLockStep, Range
    <3> QED BY <3>1
  <2>2. Head(kinds).at >= m.at
    BY <1>2, <1>3, <1>5, <1>7
  <2> QED BY <1>5, <2>1, <2>2
<1>12. Range(loopbacks) = {}
  BY <1>1 DEF Range
<1>13. m.at \in Nat
  BY <1>2, <1>3, <1>5, <1>7
<1> QED
  BY <1>1, <1>3, <1>4, <1>5, <1>6, <1>7, <1>9, <1>10, <1>11, <1>12, <1>13

\* When the members reconstruct, everybody whose number is awaited is there to open it.
LEMMA RandomMessagesFind ==
  ASSUME RandomInv, NEW m \in R!Due
  PROVE  stage[m.to] \in {R!Handler(m.body.type), "unregistered"}
<1>1. /\ KindOf(m) \in Kind /\ KindOf(m) \in Range(kinds) /\ loopbacks = <<>>
      /\ Range(loopbacks) = {}
      /\ m.at \in Nat /\ m.at \in {clock, clock + 1}
      /\ \A k \in Range(kinds) : k.at >= m.at
  BY RandomDue
<1>2. /\ KindOf(m).at = m.at /\ KindOf(m).from = m.from /\ KindOf(m).to = m.to
      /\ KindOf(m).body = m.body.type
  BY DEF KindOf
<1>3. /\ m.from \in R!Member /\ m.to \in R!Member
      /\ m.body.type \in {"commit", "share", "nextRound", "reconst"}
      /\ stage[m.to] \in {"unregistered", "generating", "generated", "opening", "completed"}
      /\ clock \in Nat
  BY <1>1, <1>2, RandomFields
<1>4. stage[m.to] # "generated"
  BY <1>1, <1>3 DEF RandomInv, MembersGoOn
<1>5. CASE m.body.type \in {"commit", "share"}
  <2>1. m.at = 1
    BY <1>1, <1>2, <1>5 DEF RandomInv, DealingsInTime
  <2>2. ~ (clock >= 2)
    BY <1>1, <1>3, <2>1
  <2>3. stage[m.to] \notin {"opening", "completed"}
    BY <1>3, <2>2 DEF RandomInv, MembersGoOn
  <2> QED BY <1>3, <1>4, <1>5, <2>3 DEF R!Handler
<1>6. CASE m.body.type = "nextRound"
  <2>1. stage[m.to] = "generating"
    BY <1>1, <1>2, <1>6 DEF RandomInv, RoundsEnd
  <2> QED BY <1>6, <2>1 DEF R!Handler
<1>7. CASE m.body.type = "reconst"
  <2>1. /\ m.at = 3 /\ stage[m.from] \in {"opening", "completed"}
        /\ m.from \notin DOMAIN reconstRecv[m.to]
    BY <1>1, <1>2, <1>7 DEF RandomInv, OpeningsInTime
  <2>2. scheduledReconst[m.from] /\ clock # 0
    BY <1>3, <2>1 DEF RandomInv, MembersGoOn
  <2>3. \A p \in R!Member : stage[p] # "unregistered"
    BY <2>2 DEF RandomInv, MembersStartAtZero
  <2>4. \A k \in Range(kinds) : k.body \notin {"share", "nextRound"}
    <3>1. \A k \in Range(kinds) : k.at # 1 /\ k.at # 2
      BY <1>1, <2>1
    <3> QED BY <3>1 DEF RandomInv, DealingsInTime, RoundsEnd
  <2>5. \A p \in R!Member : Counted(p) = R!Dealers
    BY <2>3, <2>4, MembersOfRandom DEF Counted
  <2>6. numSharesRecv[m.from] = numSharesRecv[m.to]
    BY <1>3, <2>5 DEF RandomInv, SharesCounted
  <2>7. scheduledReconst[m.to]
    BY <1>3, <2>2, <2>6 DEF RandomInv, SharesCounted
  <2>8. stage[m.to] # "generating"
    BY <1>3, <2>4, <2>7 DEF RandomInv, RoundsEnd
  <2>9. stage[m.to] # "completed"
    BY <1>3, <2>1 DEF RandomInv, MembersGoOn
  <2> QED BY <1>3, <1>4, <1>7, <2>3, <2>8, <2>9 DEF R!Handler
<1> QED BY <1>3, <1>5, <1>6, <1>7

LEMMA RandomInit ==
  ASSUME PlainFaults, R!Init
  PROVE  RandomInv
<1>1. network = <<>> /\ loopbacks = <<>> /\ clock = 0
  BY DEF R!Init, R!NetworkInit
<1>2. kinds = <<>>
  BY <1>1 DEF kinds, Kinds
<1>3. Range(network) = {} /\ Range(loopbacks) = {} /\ Range(kinds) = {}
  BY <1>1, <1>2 DEF Range
<1>4. RandomQueue
  BY <1>1, <1>2 DEF RandomQueue, InLockStep, Distinct
<1>5. RandomState
  BY <1>1 DEF RandomState, IsInjective, R!Init, PlainFaults
<1>6. Size \in Nat \ {0} /\ ~R!EnoughShares(0)
  BY MembersOfRandom DEF R!EnoughShares
<1>7. R!TypeOK
  <2>1. DOMAIN <<>> \subseteq R!Member
    OBVIOUS
  <2> QED BY <1>6, <2>1 DEF R!Init, R!TypeOK
<1>8. CommitsFirst(kinds, commitsRecv, R!Dealers)
  BY <1>2 DEF CommitsFirst
<1>9. SharesCounted
  <2>1. \A p \in R!Member : stage[p] = "unregistered"
    BY DEF R!Init
  <2>2. \A p : Counted(p) = {}
    BY <2>1, MembersOfRandom DEF Counted
  <2> QED BY <1>6, <2>2, FS_EmptySet DEF SharesCounted, R!Init
<1>10. /\ MembersStartAtZero /\ DealingsInTime /\ RoundsEnd /\ MembersGoOn /\ OpeningsInTime
  BY <1>1, <1>3 DEF R!Init, MembersStartAtZero, DealingsInTime, RoundsEnd, MembersGoOn,
                    OpeningsInTime
<1> QED BY <1>4, <1>5, <1>7, <1>8, <1>9, <1>10 DEF RandomInv

\* The commitments and the shares of a member.
LEMMA DealtProperties ==
  ASSUME NEW p \in R!Member
  PROVE  /\ R!Commits(p) \in Seq(Range(R!Commits(p)))
         /\ R!Shares(p) \in Seq(Range(R!Shares(p)))
         /\ Kinds(R!Commits(p)) \in Seq(Kind) /\ Len(Kinds(R!Commits(p))) = Size
         /\ Kinds(R!Shares(p)) \in Seq(Kind) /\ Len(Kinds(R!Shares(p))) = Size
         /\ \A i \in 1..Size :
              /\ Kinds(R!Commits(p))[i].at = 1 /\ Kinds(R!Commits(p))[i].from = p
              /\ Kinds(R!Commits(p))[i].to = i /\ Kinds(R!Commits(p))[i].body = "commit"
              /\ Kinds(R!Shares(p))[i].at = 1 /\ Kinds(R!Shares(p))[i].from = p
              /\ Kinds(R!Shares(p))[i].to = i /\ Kinds(R!Shares(p))[i].body = "share"
<1>1. Size \in Nat /\ R!Member = 1..Size
  BY MembersOfRandom DEF R!Member
<1>2. /\ R!Commits(p) =
           [i \in 1..Size |-> [at |-> 1, from |-> p, to |-> i, body |-> [type |-> "commit"]]]
      /\ R!Shares(p) =
           [i \in 1..Size |-> [at |-> 1, from |-> p, to |-> i,
              body |-> [type |-> "share", value |-> R!ShareOf(polynomial[p], i)]]]
  BY <1>1 DEF R!Commits, R!Shares, R!Letters, R!Letter, R!Members
<1>3. /\ DOMAIN R!Commits(p) = 1..Size /\ DOMAIN R!Shares(p) = 1..Size
      /\ R!Commits(p) = [i \in 1..Size |-> R!Commits(p)[i]]
      /\ R!Shares(p) = [i \in 1..Size |-> R!Shares(p)[i]]
      /\ \A i \in 1..Size :
           /\ KindOf(R!Commits(p)[i]) = [at |-> 1, from |-> p, to |-> i, body |-> "commit"]
           /\ KindOf(R!Shares(p)[i]) = [at |-> 1, from |-> p, to |-> i, body |-> "share"]
  BY <1>2 DEF KindOf
<1>4. /\ Kinds(R!Commits(p)) =
           [i \in 1..Size |-> [at |-> 1, from |-> p, to |-> i, body |-> "commit"]]
      /\ Kinds(R!Shares(p)) =
           [i \in 1..Size |-> [at |-> 1, from |-> p, to |-> i, body |-> "share"]]
  BY <1>3 DEF Kinds
<1>5. \A i \in 1..Size : /\ [at |-> 1, from |-> p, to |-> i, body |-> "commit"] \in Kind
                         /\ [at |-> 1, from |-> p, to |-> i, body |-> "share"] \in Kind
  BY <1>1 DEF Kind
<1>6. \A q : DOMAIN q = 1..Size /\ q = [i \in 1..Size |-> q[i]] => q \in Seq(Range(q))
  <2> SUFFICES ASSUME NEW q, DOMAIN q = 1..Size, q = [i \in 1..Size |-> q[i]]
               PROVE  q \in Seq(Range(q))
    OBVIOUS
  <2>1. \A i \in 1..Size : q[i] \in Range(q)
    BY DEF Range
  <2>2. q \in [1..Size -> Range(q)]
    BY <2>1, Zenon
  <2>3. \A T : [1..Size -> T] \subseteq Seq(T)
    BY <1>1
  <2> QED BY <2>2, <2>3, Zenon
<1>7. R!Commits(p) \in Seq(Range(R!Commits(p))) /\ R!Shares(p) \in Seq(Range(R!Shares(p)))
  BY <1>3, <1>6, Zenon
<1>8. /\ Kinds(R!Commits(p)) \in Seq(Kind) /\ Len(Kinds(R!Commits(p))) = Size
      /\ Kinds(R!Shares(p)) \in Seq(Kind) /\ Len(Kinds(R!Shares(p))) = Size
  BY <1>1, <1>4, <1>5
<1>9. ASSUME NEW i \in 1..Size
      PROVE  /\ Kinds(R!Commits(p))[i] = [at |-> 1, from |-> p, to |-> i, body |-> "commit"]
             /\ Kinds(R!Shares(p))[i] = [at |-> 1, from |-> p, to |-> i, body |-> "share"]
  BY <1>4
<1> QED BY <1>7, <1>8, <1>9

\* Only what a correct member sends has each share behind the commitment to it.
LEMMA SentProperties ==
  ASSUME NEW p \in R!Member, conduct \in {"correct", "uncommitted", "late", "silent"}
  PROVE  /\ R!Sent(p) \in Seq(Range(R!Sent(p)))
         /\ Kinds(R!Sent(p)) \in Seq(Kind)
         /\ \A m \in Range(Kinds(R!Sent(p))) :
              m.at = 1 /\ m.from = p /\ m.body \in {"commit", "share"}
         /\ Distinct(Kinds(R!Sent(p)), {"share"})
         /\ \A i \in DOMAIN Kinds(R!Sent(p)) : Kinds(R!Sent(p))[i].body = "share" =>
              (p \in R!Dealers <=> \E j \in 1..(i - 1) :
                 IsCommitBefore(Kinds(R!Sent(p))[j], Kinds(R!Sent(p))[i]))
         /\ p \in R!Dealers => \A r \in R!Member :
              \E m \in Range(Kinds(R!Sent(p))) : m.body = "share" /\ m.to = r
<1> DEFINE C == R!Commits(p)
           H == R!Shares(p)
           c == Kinds(C)
           h == Kinds(H)
<1>1. Size \in Nat /\ R!Member = 1..Size
  BY MembersOfRandom DEF R!Member
<1>2. /\ C \in Seq(Range(C)) /\ H \in Seq(Range(H))
      /\ c \in Seq(Kind) /\ Len(c) = Size /\ h \in Seq(Kind) /\ Len(h) = Size
      /\ \A i \in 1..Size :
           /\ c[i].at = 1 /\ c[i].from = p /\ c[i].to = i /\ c[i].body = "commit"
           /\ h[i].at = 1 /\ h[i].from = p /\ h[i].to = i /\ h[i].body = "share"
  BY DealtProperties
<1>3. R!Conduct(p) \in {"correct", "uncommitted", "late", "silent"}
  BY DEF R!Conduct
<1>4. p \in R!Dealers <=> R!Conduct(p) = "correct"
  BY DEF R!Dealers
<1>5. /\ R!Conduct(p) = "correct" => R!Sent(p) = C \o H
      /\ R!Conduct(p) = "uncommitted" => R!Sent(p) = H
      /\ R!Conduct(p) = "late" => R!Sent(p) = H \o C
      /\ R!Conduct(p) = "silent" => R!Sent(p) = <<>>
  BY DEF R!Sent
<1>6. /\ C \o H \in Seq(Range(C \o H)) /\ H \o C \in Seq(Range(H \o C))
      /\ Kinds(C \o H) = c \o h /\ Kinds(H \o C) = h \o c
  <2> DEFINE T == Range(C) \union Range(H)
  <2>1. C \in Seq(T) /\ H \in Seq(T)
    BY <1>2, SeqMonotonic, Zenon
  <2> HIDE DEF C, H, T
  <2>2. C \o H \in Seq(T) /\ H \o C \in Seq(T)
    BY <2>1, ConcatProperties
  <2>3. Kinds(C) \in Seq(Kind) /\ Kinds(H) \in Seq(Kind)
    BY <1>2
  <2>4. Kinds(C \o H) = Kinds(C) \o Kinds(H) /\ Kinds(H \o C) = Kinds(H) \o Kinds(C)
    BY <2>1, <2>3, KindsOfConcatenation
  <2>5. C \o H \in Seq(Range(C \o H)) /\ H \o C \in Seq(Range(H \o C))
    BY <2>2, SeqOfRange
  <2> QED BY <2>4, <2>5
<1> HIDE DEF C, H, c, h
<1>7. /\ c \o h \in Seq(Kind) /\ h \o c \in Seq(Kind)
      /\ DOMAIN h = 1..Size
      /\ DOMAIN (c \o h) = 1..(Size + Size) /\ DOMAIN (h \o c) = 1..(Size + Size)
      /\ \A i \in 1..(Size + Size) :
           /\ (c \o h)[i] = IF i <= Size THEN c[i] ELSE h[i - Size]
           /\ (h \o c)[i] = IF i <= Size THEN h[i] ELSE c[i - Size]
  <2>0. c \in Seq(Kind) /\ h \in Seq(Kind)
    BY <1>2
  <2>1. /\ c \o h \in Seq(Kind) /\ Len(c \o h) = Len(c) + Len(h)
        /\ \A i \in 1..(Len(c) + Len(h)) :
             (c \o h)[i] = IF i <= Len(c) THEN c[i] ELSE h[i - Len(c)]
    BY <2>0, ConcatProperties
  <2>3. /\ h \o c \in Seq(Kind) /\ Len(h \o c) = Len(h) + Len(c)
        /\ \A i \in 1..(Len(h) + Len(c)) :
             (h \o c)[i] = IF i <= Len(h) THEN h[i] ELSE c[i - Len(h)]
    BY <2>0, ConcatProperties
  <2>2. /\ DOMAIN h = 1..Len(h) /\ DOMAIN (c \o h) = 1..Len(c \o h)
        /\ DOMAIN (h \o c) = 1..Len(h \o c)
    BY <2>0, <2>1, <2>3, LenProperties
  <2> QED BY <1>2, <2>1, <2>2, <2>3
<1>8. \A i \in 1..(Size + Size) :
        /\ (c \o h)[i].at = 1 /\ (c \o h)[i].from = p
        /\ (h \o c)[i].at = 1 /\ (h \o c)[i].from = p
        /\ i <= Size => /\ (c \o h)[i].to = i /\ (c \o h)[i].body = "commit"
                        /\ (h \o c)[i].to = i /\ (h \o c)[i].body = "share"
        /\ i > Size => /\ (c \o h)[i].to = i - Size /\ (c \o h)[i].body = "share"
                       /\ (h \o c)[i].to = i - Size /\ (h \o c)[i].body = "commit"
        /\ i <= Size \/ i > Size
  <2> SUFFICES ASSUME NEW i \in 1..(Size + Size)
               PROVE  /\ (c \o h)[i].at = 1 /\ (c \o h)[i].from = p
                      /\ (h \o c)[i].at = 1 /\ (h \o c)[i].from = p
                      /\ i <= Size => /\ (c \o h)[i].to = i /\ (c \o h)[i].body = "commit"
                                      /\ (h \o c)[i].to = i /\ (h \o c)[i].body = "share"
                      /\ i > Size => /\ (c \o h)[i].to = i - Size /\ (c \o h)[i].body = "share"
                                     /\ (h \o c)[i].to = i - Size /\ (h \o c)[i].body = "commit"
                      /\ i <= Size \/ i > Size
    OBVIOUS
  <2>1. CASE i <= Size
    <3>1. i \in 1..Size /\ ~ (i > Size) /\ (c \o h)[i] = c[i] /\ (h \o c)[i] = h[i]
      BY <1>1, <1>7, <2>1
    <3> QED BY <1>2, <2>1, <3>1
  <2>2. CASE i > Size
    <3>1. /\ i - Size \in 1..Size /\ ~ (i <= Size)
          /\ (c \o h)[i] = h[i - Size] /\ (h \o c)[i] = c[i - Size]
      BY <1>1, <1>7, <2>2
    <3> QED BY <1>2, <2>2, <3>1
  <2>3. i <= Size \/ i > Size
    BY <1>1
  <2> QED BY <2>1, <2>2, <2>3, Zenon
<1>9. CASE R!Conduct(p) = "correct"
  <2> DEFINE t == c \o h
  <2>1. R!Sent(p) = C \o H /\ Kinds(R!Sent(p)) = t
    BY <1>5, <1>6, <1>9
  <2>2. ASSUME NEW m \in Range(t)
        PROVE  m.at = 1 /\ m.from = p /\ m.body \in {"commit", "share"}
    <3>1. PICK i \in 1..(Size + Size) : m = t[i]
      BY <1>7 DEF Range
    <3> QED BY <1>8, <3>1
  <2>3. Distinct(t, {"share"})
    <3> SUFFICES ASSUME NEW i \in DOMAIN t, NEW j \in DOMAIN t,
                        t[i].body = "share", t[j].body = "share", t[i].to = t[j].to
                 PROVE  i = j
      BY DEF Distinct
    <3>1. i > Size /\ j > Size /\ t[i].to = i - Size /\ t[j].to = j - Size
      BY <1>7, <1>8
    <3>2. i \in Nat /\ j \in Nat
      BY <1>7
    <3>3. t[i].to = t[j].to
      OBVIOUS
    <3> HIDE DEF t
    <3>4. i - Size = j - Size
      BY <3>1, <3>3
    <3> QED BY <1>1, <3>2, <3>4
  <2>4. ASSUME NEW i \in DOMAIN t, t[i].body = "share"
        PROVE  \E j \in 1..(i - 1) : IsCommitBefore(t[j], t[i])
    <3>1. i > Size /\ i \in 1..(Size + Size)
      BY <1>7, <1>8, <2>4
    <3>2. /\ i - Size \in 1..(i - 1) /\ i - Size \in 1..(Size + Size) /\ i - Size <= Size
      BY <1>1, <3>1
    <3>3. /\ t[i - Size].from = p /\ t[i - Size].to = i - Size /\ t[i - Size].body = "commit"
          /\ t[i].from = p /\ t[i].to = i - Size
      BY <1>8, <3>1, <3>2
    <3>4. IsCommitBefore(t[i - Size], t[i])
      BY <3>3 DEF IsCommitBefore
    <3> QED BY <3>2, <3>4
  <2>5. ASSUME NEW r \in R!Member
        PROVE  \E m \in Range(t) : m.body = "share" /\ m.to = r
    <3>1. r + Size \in 1..(Size + Size) /\ r + Size > Size /\ (r + Size) - Size = r
      BY <1>1
    <3>2. t[r + Size].to = r /\ t[r + Size].body = "share"
      BY <1>8, <3>1
    <3> QED BY <1>7, <3>1, <3>2 DEF Range
  <2> HIDE DEF t
  <2> QED BY <1>4, <1>6, <1>7, <1>9, <2>1, <2>2, <2>3, <2>4, <2>5 DEF t
<1>10. CASE R!Conduct(p) = "uncommitted"
  <2>1. R!Sent(p) = H /\ Kinds(R!Sent(p)) = h
    BY <1>5, <1>10 DEF h
  <2>2. \A m \in Range(h) : m.at = 1 /\ m.from = p /\ m.body = "share"
    BY <1>2, <1>7 DEF Range
  <2>3. Distinct(h, {"share"})
    BY <1>2, <1>7 DEF Distinct
  <2>4. \A i \in DOMAIN h : \A j \in 1..(i - 1) : ~IsCommitBefore(h[j], h[i])
    <3>1. \A i \in DOMAIN h : \A j \in 1..(i - 1) : j \in 1..Size
      BY <1>1, <1>7
    <3> QED BY <1>2, <3>1 DEF IsCommitBefore
  <2> QED BY <1>2, <1>4, <1>10, <2>1, <2>2, <2>3, <2>4
<1>11. CASE R!Conduct(p) = "late"
  <2> DEFINE t == h \o c
  <2>1. R!Sent(p) = H \o C /\ Kinds(R!Sent(p)) = t
    BY <1>5, <1>6, <1>11
  <2>2. ASSUME NEW m \in Range(t)
        PROVE  m.at = 1 /\ m.from = p /\ m.body \in {"commit", "share"}
    <3>1. PICK i \in 1..(Size + Size) : m = t[i]
      BY <1>7 DEF Range
    <3> QED BY <1>8, <3>1
  <2>3. Distinct(t, {"share"})
    <3> SUFFICES ASSUME NEW i \in DOMAIN t, NEW j \in DOMAIN t,
                        t[i].body = "share", t[j].body = "share", t[i].to = t[j].to
                 PROVE  i = j
      BY DEF Distinct
    <3>1. t[i].to = i /\ t[j].to = j
      BY <1>7, <1>8
    <3> QED BY <3>1
  <2>4. ASSUME NEW i \in DOMAIN t, t[i].body = "share", NEW j \in 1..(i - 1)
        PROVE  ~IsCommitBefore(t[j], t[i])
    <3>1. i <= Size
      BY <1>7, <1>8, <2>4
    <3>2. j \in 1..(Size + Size) /\ j <= Size
      BY <1>1, <1>7, <3>1
    <3>3. t[j].body = "share"
      BY <1>8, <3>2
    <3> QED BY <3>3 DEF IsCommitBefore
  <2> HIDE DEF t
  <2> QED BY <1>4, <1>6, <1>7, <1>11, <2>1, <2>2, <2>3, <2>4 DEF t
<1>12. CASE R!Conduct(p) = "silent"
  <2>1. R!Sent(p) = <<>> /\ Kinds(R!Sent(p)) = <<>>
    BY <1>5, <1>12 DEF Kinds
  <2>2. Range(<<>>) = {} /\ DOMAIN <<>> = {}
    BY DEF Range
  <2>3. p \notin R!Dealers
    BY <1>4, <1>12
  <2>4. <<>> \in Seq(Range(<<>>)) /\ <<>> \in Seq(Kind) /\ Distinct(<<>>, {"share"})
    BY <2>2 DEF Distinct
  <2> QED BY <2>1, <2>2, <2>3, <2>4
<1> QED BY <1>3, <1>9, <1>10, <1>11, <1>12

LEMMA QueueOfConcatenation ==
  ASSUME NEW q, q \in Seq(Range(q)), NEW t, t \in Seq(Range(t)),
         Kinds(q) \in Seq(Kind), Kinds(t) \in Seq(Kind)
  PROVE  q \o t \in Seq(Range(q \o t)) /\ Kinds(q \o t) = Kinds(q) \o Kinds(t)
<1> DEFINE T == Range(q) \union Range(t)
<1>1. q \in Seq(T) /\ t \in Seq(T)
  BY SeqMonotonic, Zenon
<1> HIDE DEF T
<1>2. q \o t \in Seq(T)
  BY <1>1, ConcatProperties
<1> QED BY <1>1, <1>2, SeqOfRange, KindsOfConcatenation

\* A member starts.
LEMMA RandomStart ==
  ASSUME RandomInv, NEW p \in R!Member, R!Start(p)
  PROVE  RandomInv'
<1> DEFINE t == Kinds(R!Sent(p))
<1>1. /\ stage[p] = "unregistered" /\ stage' = [stage EXCEPT ![p] = "generating"]
      /\ network' = network \o R!Sent(p)
      /\ UNCHANGED <<clock, loopbacks, conduct, polynomial, commitsRecv, numSharesRecv,
                     scheduledReconst, reconstRecv>>
  BY DEF R!Start, R!private
<1>2. /\ R!Sent(p) \in Seq(Range(R!Sent(p)))
      /\ t \in Seq(Kind)
      /\ \A m \in Range(t) : m.at = 1 /\ m.from = p /\ m.body \in {"commit", "share"}
      /\ Distinct(t, {"share"})
      /\ \A i \in DOMAIN t : t[i].body = "share" =>
           (p \in R!Dealers <=> \E j \in 1..(i - 1) : IsCommitBefore(t[j], t[i]))
      /\ p \in R!Dealers => \A r \in R!Member : \E m \in Range(t) : m.body = "share" /\ m.to = r
  BY SentProperties DEF RandomInv, RandomState
<1> HIDE DEF t
<1>3. /\ network \in Seq(Range(network)) /\ kinds \in Seq(Kind)
      /\ InLockStep(kinds, clock) /\ Distinct(kinds, {"share"})
      /\ Distinct(kinds, {"nextRound"}) /\ Distinct(kinds, {"reconst"})
      /\ clock = 0
  BY <1>1 DEF RandomInv, RandomQueue, MembersStartAtZero
<1>4. /\ network' \in Seq(Range(network')) /\ kinds' = kinds \o t
  BY <1>1, <1>2, <1>3, QueueOfConcatenation DEF kinds, t
<1>5. /\ \A m \in Range(kinds) : m.body \in {"commit", "share"} => m.from # p
      /\ \A m \in Range(t) : m.body \in {"commit", "share"}
      /\ \A q \in R!Member : p \notin commitsRecv[q] /\ p \notin DOMAIN reconstRecv[q]
  BY <1>1, <1>2 DEF RandomInv, DealingsInTime, OpeningsInTime
<1>6. Distinct(t, {"nextRound"}) /\ Distinct(t, {"reconst"})
  <2>1. \A i \in DOMAIN t : t[i].body \notin {"nextRound", "reconst"}
    BY <1>5 DEF Range
  <2> QED BY <2>1 DEF Distinct
<1>7. /\ kinds' \in Seq(Kind) /\ InLockStep(kinds', clock)
      /\ Distinct(kinds', {"share"}) /\ Distinct(kinds', {"nextRound"})
      /\ Distinct(kinds', {"reconst"})
      /\ Range(kinds') = Range(kinds) \union Range(t)
  <2>1. \A m \in Range(t) : m.at = clock + 1
    BY <1>2, <1>3
  <2>2. \A m \in Range(kinds), k \in Range(t) :
          m.body = k.body /\ k.body # "commit" => m.from # k.from
    BY <1>2, <1>5
  <2>3. clock \in Nat
    BY <1>3
  <2>4. /\ kinds \o t \in Seq(Kind) /\ InLockStep(kinds \o t, clock)
        /\ Distinct(kinds \o t, {"share"}) /\ Distinct(kinds \o t, {"nextRound"})
        /\ Distinct(kinds \o t, {"reconst"})
        /\ Range(kinds \o t) = Range(kinds) \union Range(t)
    BY <1>2, <1>3, <1>6, <2>1, <2>2, <2>3, RandomSent
  <2> QED BY <1>4, <2>4
<1>8. /\ stage' \in [R!Member ->
                       {"unregistered", "generating", "generated", "opening", "completed"}]
      /\ stage'[p] = "generating" /\ \A q \in R!Member : q # p => stage'[q] = stage[q]
  BY <1>1, RandomFields
<1>9. R!Dealers' = R!Dealers
  BY <1>1 DEF R!Dealers, R!Conduct
<1>10. R!TypeOK' /\ RandomQueue' /\ RandomState'
  <2>1. R!TypeOK'
    BY <1>1, <1>8 DEF RandomInv, R!TypeOK
  <2>2. RandomQueue'
    BY <1>1, <1>3, <1>4, <1>7 DEF RandomQueue
  <2>3. RandomState'
    BY <1>1 DEF RandomInv, RandomState
  <2> QED BY <2>1, <2>2, <2>3
<1>11. MembersStartAtZero'
  BY <1>1, <1>3, <1>8 DEF RandomInv, MembersStartAtZero
<1>12. DealingsInTime'
  <2>1. ASSUME NEW m \in Range(kinds'), m.body \in {"commit", "share"}
        PROVE  m.at = 1 /\ stage'[m.from] # "unregistered"
    <3>1. CASE m \in Range(kinds)
      BY <1>5, <1>8, <2>1, <3>1, RandomFields DEF RandomInv, DealingsInTime
    <3>2. CASE m \in Range(t)
      BY <1>2, <1>8, <3>2
    <3> QED BY <1>7, <2>1, <3>1, <3>2
  <2>2. ASSUME NEW q \in R!Member, NEW r \in R!Member, r \in commitsRecv[q]
        PROVE  stage'[r] # "unregistered"
    BY <1>8, <2>2 DEF RandomInv, DealingsInTime
  <2> QED BY <1>1, <2>1, <2>2 DEF DealingsInTime
<1>13. CommitsFirst(kinds, commitsRecv, R!Dealers)'
  <2>1. CommitsFirst(kinds, commitsRecv, R!Dealers)
    BY DEF RandomInv
  <2>2. ASSUME NEW i \in DOMAIN t, t[i].body = "share"
        PROVE  /\ t[i].from \notin commitsRecv[t[i].to]
               /\ \A c \in Range(kinds) : ~IsCommitBefore(c, t[i])
               /\ t[i].from \in R!Dealers <=> \E j \in 1..(i - 1) : IsCommitBefore(t[j], t[i])
    <3>1. t[i] \in Range(t) /\ t[i].from = p /\ t[i].to \in R!Member
      <4>1. t[i] \in Range(t) /\ t[i] \in Kind
        BY <1>2, ElementOfSeq, LenProperties DEF Range
      <4> QED BY <1>2, <4>1 DEF Kind
    <3>2. t[i].from \notin commitsRecv[t[i].to]
      BY <1>5, <3>1
    <3>3. \A c \in Range(kinds) : ~IsCommitBefore(c, t[i])
      BY <1>5, <3>1 DEF IsCommitBefore
    <3> QED BY <1>2, <2>2, <3>1, <3>2, <3>3
  <2>3. CommitsFirst(kinds \o t, commitsRecv, R!Dealers)
    BY <1>2, <1>3, <2>1, <2>2, CommitsFirstSent
  <2> QED BY <1>1, <1>4, <1>9, <2>3
<1>14. SharesCounted'
  <2>1. ASSUME NEW r \in R!Member
        PROVE  Counted(r)' = Counted(r)
    <3>1. ASSUME NEW q \in R!Dealers, q # p
          PROVE  q \in Counted(r)' <=> q \in Counted(r)
      <4>1. \A m \in Range(t) : m.from # q
        BY <1>2, <3>1
      <4> QED BY <1>7, <1>8, <1>9, <3>1, <4>1, MembersOfRandom DEF Counted
    <3>2. p \notin Counted(r)
      BY <1>1 DEF Counted
    <3>3. p \notin Counted(r)'
      <4>1. CASE p \in R!Dealers
        <5>1. PICK m \in Range(t) : m.body = "share" /\ m.to = r
          BY <1>2, <4>1
        <5>2. m.from = p /\ m \in Range(kinds')
          BY <1>2, <1>7, <5>1
        <5> QED BY <5>1, <5>2 DEF Counted
      <4>2. CASE p \notin R!Dealers
        BY <1>9, <4>2 DEF Counted
      <4> QED BY <4>1, <4>2
    <3>4. Counted(r) \subseteq R!Dealers /\ Counted(r)' \subseteq R!Dealers
      BY <1>9 DEF Counted
    <3> QED BY <3>1, <3>2, <3>3, <3>4
  <2>2. ASSUME NEW r \in R!Member
        PROVE  /\ numSharesRecv'[r] = Cardinality(Counted(r)')
               /\ scheduledReconst'[r] <=> R!EnoughShares(numSharesRecv'[r])
    <3>1. /\ numSharesRecv[r] = Cardinality(Counted(r))
          /\ scheduledReconst[r] <=> R!EnoughShares(numSharesRecv[r])
      BY DEF RandomInv, SharesCounted
    <3> QED BY <1>1, <2>1, <3>1
  <2> QED BY <2>2 DEF SharesCounted
<1>15. RoundsEnd'
  <2>1. ASSUME NEW m \in Range(kinds'), m.body = "nextRound"
        PROVE  /\ m.from = m.to /\ m.at = 2
               /\ scheduledReconst[m.to] /\ stage'[m.to] = "generating"
    <3>1. m \in Range(kinds)
      BY <1>5, <1>7, <2>1
    <3> QED BY <1>8, <2>1, <3>1, RandomFields DEF RandomInv, RoundsEnd
  <2>2. ~scheduledReconst[p]
    BY <1>1 DEF RandomInv, MembersStartAtZero
  <2>3. ASSUME NEW q \in R!Member, scheduledReconst[q], stage'[q] = "generating"
        PROVE  \E m \in Range(kinds') : m.body = "nextRound" /\ m.to = q
    <3>1. stage[q] = "generating"
      BY <1>8, <2>2, <2>3
    <3> QED BY <1>7, <2>3, <3>1 DEF RandomInv, RoundsEnd
  <2> QED BY <1>1, <2>1, <2>3 DEF RoundsEnd
<1>16. MembersGoOn'
  BY <1>1, <1>8 DEF RandomInv, MembersGoOn
<1>17. OpeningsInTime'
  <2>1. ASSUME NEW m \in Range(kinds'), m.body = "reconst"
        PROVE  /\ m.at = 3 /\ stage'[m.from] \in {"opening", "completed"}
               /\ m.from \notin DOMAIN reconstRecv[m.to]
    <3>1. m \in Range(kinds) /\ m.from \in R!Member
      BY <1>5, <1>7, <2>1, RandomFields
    <3> QED BY <1>1, <1>8, <2>1, <3>1 DEF RandomInv, OpeningsInTime
  <2>2. ASSUME NEW q \in R!Member, NEW r \in R!Member, r \in DOMAIN reconstRecv[q]
        PROVE  stage'[r] \in {"opening", "completed"}
    BY <1>1, <1>8, <2>2 DEF RandomInv, OpeningsInTime
  <2> QED BY <1>1, <2>1, <2>2 DEF OpeningsInTime
<1> QED BY <1>10, <1>11, <1>12, <1>13, <1>14, <1>15, <1>16, <1>17 DEF RandomInv

\* A message is handled when all members have started and none has just been woken up.
LEMMA RandomHandle ==
  ASSUME RandomInv, NEW m \in R!Due, NEW type, R!Handle(m, type)
  PROVE  /\ KindOf(m).at = m.at /\ KindOf(m).from = m.from /\ KindOf(m).to = m.to
         /\ KindOf(m).body = type /\ m.body.type = type
         /\ m.from \in R!Member /\ m.to \in R!Member
         /\ clock' = m.at /\ clock' \in 0..3 /\ clock <= clock' /\ clock' \in Nat
         /\ \A p \in R!Member : stage[p] \notin {"unregistered", "generated"}
         /\ type \in {"commit", "share"} =>
              m.at = 1 /\ clock < 2 /\ \A p \in R!Member : stage[p] = "generating"
         /\ type = "nextRound" =>
              /\ m.from = m.to /\ m.at = 2
              /\ scheduledReconst[m.to] /\ stage[m.to] = "generating"
         /\ type = "reconst" =>
              /\ m.at = 3 /\ stage[m.from] \in {"opening", "completed"}
              /\ stage[m.to] = "opening" /\ m.from \notin DOMAIN reconstRecv[m.to]
<1>1. /\ KindOf(m) \in Kind /\ KindOf(m) \in Range(kinds) /\ Range(loopbacks) = {}
      /\ m.at \in Nat /\ m.at \in {clock, clock + 1}
  BY RandomDue
<1>2. /\ KindOf(m).at = m.at /\ KindOf(m).from = m.from /\ KindOf(m).to = m.to
      /\ KindOf(m).body = type /\ m.body.type = type
      /\ clock' = m.at /\ \A p \in R!Member : stage[p] # "unregistered"
  BY DEF KindOf, R!Handle
<1>3. /\ m.from \in R!Member /\ m.to \in R!Member
      /\ type \in {"commit", "share", "nextRound", "reconst"}
      /\ stage \in [R!Member ->
                      {"unregistered", "generating", "generated", "opening", "completed"}]
      /\ clock \in Nat
  BY <1>1, <1>2, RandomFields
<1>4. \A p \in R!Member : stage[p] # "generated"
  BY <1>1 DEF RandomInv, MembersGoOn
<1>5. type \in {"commit", "share"} =>
        m.at = 1 /\ clock < 2 /\ \A p \in R!Member : stage[p] = "generating"
  <2> SUFFICES ASSUME type \in {"commit", "share"}
               PROVE  m.at = 1 /\ clock < 2 /\ \A p \in R!Member : stage[p] = "generating"
    OBVIOUS
  <2>1. m.at = 1
    BY <1>1, <1>2 DEF RandomInv, DealingsInTime
  <2>2. clock < 2 /\ ~ (clock >= 2)
    BY <1>1, <1>3, <2>1
  <2>3. \A p \in R!Member : stage[p] \notin {"opening", "completed"}
    BY <2>2 DEF RandomInv, MembersGoOn
  <2> QED BY <1>2, <1>3, <1>4, <2>1, <2>2, <2>3
<1>6. type = "nextRound" =>
        /\ m.from = m.to /\ m.at = 2
        /\ scheduledReconst[m.to] /\ stage[m.to] = "generating"
  BY <1>1, <1>2 DEF RandomInv, RoundsEnd
<1>7. type = "reconst" =>
        /\ m.at = 3 /\ stage[m.from] \in {"opening", "completed"}
        /\ stage[m.to] = "opening" /\ m.from \notin DOMAIN reconstRecv[m.to]
  BY <1>1, <1>2, <1>3, RandomMessagesFind DEF RandomInv, OpeningsInTime, R!Handler
<1>8. m.at \in {1, 2, 3} /\ clock <= m.at
  BY <1>1, <1>3, <1>5, <1>6, <1>7
<1> QED BY <1>1, <1>2, <1>3, <1>4, <1>5, <1>6, <1>7, <1>8

\* The queue without the message that is handled.
LEMMA RandomQueueHandled ==
  ASSUME RandomInv, NEW m \in R!Due, NEW type, R!Handle(m, type), network' = Tail(network)
  PROVE  RandomQueue' /\ kinds' = Tail(kinds)
<1>1. kinds' = Tail(kinds)
  BY RandomDue DEF kinds
<1>2. clock' = m.at /\ clock' \in 0..3
  BY RandomHandle
<1>3. /\ Tail(network) \in Seq(Range(Tail(network)))
      /\ Tail(kinds) \in Seq(Kind)
      /\ InLockStep(Tail(kinds), m.at)
      /\ Distinct(Tail(kinds), {"share"}) /\ Distinct(Tail(kinds), {"nextRound"})
      /\ Distinct(Tail(kinds), {"reconst"})
  BY RandomDue
<1> QED BY <1>1, <1>2, <1>3 DEF RandomQueue

LEMMA RandomHandleCommit ==
  ASSUME RandomInv, R!HandleCommit
  PROVE  RandomInv'
<1>1. PICK m \in R!Due :
        /\ R!Handle(m, "commit")
        /\ commitsRecv' = [commitsRecv EXCEPT ![m.to] = commitsRecv[m.to] \union {m.from}]
        /\ network' = Tail(network)
        /\ UNCHANGED <<loopbacks, stage, conduct, polynomial, combinedShare, numSharesRecv,
                       scheduledReconst, reconstRecv, opened>>
  BY DEF R!HandleCommit
<1>2. /\ KindOf(m).from = m.from /\ KindOf(m).to = m.to /\ KindOf(m).body = "commit"
      /\ m.from \in R!Member /\ m.to \in R!Member
      /\ clock' = 1 /\ \A p \in R!Member : stage[p] = "generating"
  BY <1>1, RandomHandle
<1>3. RandomQueue' /\ kinds' = Tail(kinds)
  BY <1>1, RandomQueueHandled
<1>4. /\ kinds \in Seq(Kind) /\ kinds # <<>> /\ Head(kinds) = KindOf(m)
      /\ Range(kinds) = {KindOf(m)} \union Range(Tail(kinds))
      /\ Range(loopbacks) = {}
  BY <1>1, RandomDue, RandomFields
<1>5. /\ commitsRecv \in [R!Member -> SUBSET R!Member]
      /\ commitsRecv' \in [R!Member -> SUBSET R!Member]
      /\ \A p, r \in R!Member : p \in commitsRecv'[r] <=>
           \/ p \in commitsRecv[r]
           \/ p = m.from /\ r = m.to
  BY <1>1, <1>2, RandomFields
<1>6. R!TypeOK'
  BY <1>1, <1>5 DEF RandomInv, R!TypeOK
<1>7. RandomState'
  BY <1>1 DEF RandomInv, RandomState
<1>8. R!Dealers' = R!Dealers
  BY <1>1 DEF R!Dealers, R!Conduct
<1>9. CommitsFirst(kinds, commitsRecv, R!Dealers)'
  <2>1. CommitsFirst(kinds, commitsRecv, R!Dealers)
    BY DEF RandomInv
  <2>2. \A p, r \in R!Member : p \in commitsRecv'[r] <=>
          \/ p \in commitsRecv[r]
          \/ Head(kinds).body = "commit" /\ p = Head(kinds).from /\ r = Head(kinds).to
    BY <1>2, <1>4, <1>5
  <2>3. CommitsFirst(Tail(kinds), commitsRecv', R!Dealers)
    BY <1>4, <1>5, <2>1, <2>2, CommitsFirstHandled
  <2> QED BY <1>3, <1>8, <2>3
<1>10. MembersStartAtZero' /\ DealingsInTime'
  BY <1>1, <1>2, <1>3, <1>4, <1>5 DEF RandomInv, MembersStartAtZero, DealingsInTime
<1>11. SharesCounted'
  <2>1. \A p \in R!Member : Counted(p)' = Counted(p)
    BY <1>1, <1>2, <1>3, <1>4, <1>8 DEF Counted
  <2>2. ASSUME NEW p \in R!Member
        PROVE  /\ numSharesRecv'[p] = Cardinality(Counted(p)')
               /\ scheduledReconst'[p] <=> R!EnoughShares(numSharesRecv'[p])
    BY <1>1, <2>1 DEF RandomInv, SharesCounted
  <2> QED BY <2>2 DEF SharesCounted
<1>12. RoundsEnd'
  BY <1>1, <1>2, <1>3, <1>4 DEF RandomInv, RoundsEnd
<1>13. MembersGoOn' /\ OpeningsInTime'
  BY <1>1, <1>2, <1>3, <1>4 DEF RandomInv, MembersGoOn, OpeningsInTime
<1> QED BY <1>3, <1>6, <1>7, <1>9, <1>10, <1>11, <1>12, <1>13 DEF RandomInv

LEMMA RandomHandleNextRound ==
  ASSUME RandomInv, R!HandleNextRound
  PROVE  RandomInv'
<1>1. PICK m \in R!Due :
        /\ R!Handle(m, "nextRound")
        /\ stage' = [stage EXCEPT ![m.to] = "generated"]
        /\ loopbacks' = Append(loopbacks, m.to)
        /\ network' = Tail(network)
        /\ UNCHANGED <<conduct, polynomial, commitsRecv, combinedShare, numSharesRecv,
                       scheduledReconst, reconstRecv, opened>>
  BY DEF R!HandleNextRound, R!private
<1> DEFINE p == m.to
<1>2. /\ KindOf(m).from = p /\ KindOf(m).to = p /\ KindOf(m).body = "nextRound" 
      /\ m.from = p /\ m.body.type = "nextRound" /\ p \in R!Member
      /\ clock' = 2 /\ clock <= 2
      /\ \A q \in R!Member : stage[q] \notin {"unregistered", "generated"}
      /\ scheduledReconst[p] /\ stage[p] = "generating"
  BY <1>1, RandomHandle
<1>3. RandomQueue' /\ kinds' = Tail(kinds)
  BY <1>1, RandomQueueHandled
<1>4. /\ kinds \in Seq(Kind) /\ kinds # <<>> /\ Head(kinds) = KindOf(m)
      /\ Range(kinds) = {KindOf(m)} \union Range(Tail(kinds))
      /\ Range(Tail(kinds)) \subseteq Kind
      /\ loopbacks = <<>> /\ Range(loopbacks) = {}
      /\ \A k \in Range(Tail(kinds)) :
           k.body = m.body.type /\ k.body # "commit" => k.from # p \/ k.to # p
  BY <1>1, <1>2, RandomDue, RandomFields
<1> HIDE DEF p
<1>5. /\ stage \in [R!Member ->
                      {"unregistered", "generating", "generated", "opening", "completed"}]
      /\ stage' \in [R!Member ->
                       {"unregistered", "generating", "generated", "opening", "completed"}]
      /\ stage'[p] = "generated" /\ \A q \in R!Member : q # p => stage'[q] = stage[q]
  BY <1>1, <1>2, RandomFields DEF p
<1>6. /\ loopbacks' = <<p>> /\ Range(loopbacks') = {p} /\ IsInjective(loopbacks')
      /\ loopbacks' \in Seq(R!Member)
  <2>1. loopbacks' = <<p>>
    BY <1>1, <1>4 DEF p
  <2>2. Range(<<p>>) = {p} /\ IsInjective(<<p>>)
    BY DEF Range, IsInjective
  <2> QED BY <1>2, <2>1, <2>2
<1>7. R!TypeOK'
  BY <1>1, <1>5 DEF RandomInv, R!TypeOK
<1>8. RandomState'
  BY <1>1, <1>6 DEF RandomInv, RandomState
<1>9. R!Dealers' = R!Dealers
  BY <1>1 DEF R!Dealers, R!Conduct
<1>10. CommitsFirst(kinds, commitsRecv, R!Dealers)'
  <2>1. CommitsFirst(kinds, commitsRecv, R!Dealers)
    BY DEF RandomInv
  <2>2. /\ commitsRecv \in [R!Member -> SUBSET R!Member]
        /\ \A q, r \in R!Member : q \in commitsRecv[r] <=>
             \/ q \in commitsRecv[r]
             \/ Head(kinds).body = "commit" /\ q = Head(kinds).from /\ r = Head(kinds).to
    BY <1>2, <1>4, RandomFields
  <2>3. CommitsFirst(Tail(kinds), commitsRecv, R!Dealers)
    BY <1>4, <2>1, <2>2, CommitsFirstHandled
  <2> QED BY <1>1, <1>3, <1>9, <2>3
<1>11. MembersStartAtZero'
  BY <1>2, <1>5 DEF MembersStartAtZero
<1>12. DealingsInTime'
  <2>1. \A k \in Range(kinds') : k.from \in R!Member /\ k \in Range(kinds)
    BY <1>3, <1>4, RandomFields
  <2>2. \A q \in R!Member : stage'[q] # "unregistered"
    BY <1>2, <1>5
  <2> QED BY <2>1, <2>2 DEF RandomInv, DealingsInTime
<1>13. SharesCounted'
  <2>0. \A q \in R!Member : stage[q] # "unregistered" /\ stage'[q] # "unregistered"
    BY <1>2, <1>5
  <2>1. \A q \in R!Member : Counted(q)' = Counted(q)
    BY <2>0, <1>2, <1>3, <1>4, <1>9, MembersOfRandom DEF Counted
  <2>2. ASSUME NEW q \in R!Member
        PROVE  /\ numSharesRecv'[q] = Cardinality(Counted(q)')
               /\ scheduledReconst'[q] <=> R!EnoughShares(numSharesRecv'[q])
    BY <1>1, <2>1 DEF RandomInv, SharesCounted
  <2> QED BY <2>2 DEF SharesCounted
<1>14. RoundsEnd'
  <2>1. ASSUME NEW k \in Range(Tail(kinds)), k.body = "nextRound"
        PROVE  /\ k.from = k.to /\ k.at = 2
               /\ scheduledReconst[k.to] /\ stage'[k.to] = "generating"
    <3>1. /\ k.from = k.to /\ k.at = 2
          /\ scheduledReconst[k.to] /\ stage[k.to] = "generating" /\ k.to \in R!Member
      BY <1>4, <2>1, RandomFields DEF RandomInv, RoundsEnd
    <3>2. k.to # p
      BY <1>2, <1>4, <2>1, <3>1
    <3> QED BY <1>5, <3>1, <3>2
  <2>2. ASSUME NEW q \in R!Member, scheduledReconst[q], stage'[q] = "generating"
        PROVE  \E k \in Range(Tail(kinds)) : k.body = "nextRound" /\ k.to = q
    <3>1. q # p /\ stage[q] = "generating"
      BY <1>5, <2>2
    <3>2. PICK k \in Range(kinds) : k.body = "nextRound" /\ k.to = q
      BY <2>2, <3>1 DEF RandomInv, RoundsEnd
    <3> QED BY <1>2, <1>4, <3>1, <3>2
  <2> QED BY <1>1, <1>3, <2>1, <2>2 DEF RoundsEnd
<1>15. MembersGoOn'
  <2> SUFFICES ASSUME NEW q \in R!Member
               PROVE  /\ stage'[q] \in {"generated", "opening", "completed"} =>
                           scheduledReconst[q] /\ clock' >= 2
                      /\ q \in Range(loopbacks') <=> stage'[q] = "generated"
                      /\ stage'[q] = "generated" => clock' = 2
                      /\ stage'[q] = "completed" => DOMAIN reconstRecv[q] = R!Member
    BY <1>1 DEF MembersGoOn
  <2>1. CASE q = p
    BY <1>2, <1>5, <1>6, <2>1
  <2>2. CASE q # p
    BY <1>2, <1>5, <1>6, <2>2 DEF RandomInv, MembersGoOn
  <2> QED BY <2>1, <2>2
<1>16. OpeningsInTime'
  <2>1. \A k \in Range(kinds') : k.from \in R!Member /\ k \in Range(kinds)
    BY <1>3, <1>4, RandomFields
  <2>2. \A q \in R!Member : stage[q] \in {"opening", "completed"} =>
                              stage'[q] \in {"opening", "completed"}
    BY <1>2, <1>5
  <2> QED BY <1>1, <2>1, <2>2 DEF RandomInv, OpeningsInTime
<1> QED
  BY <1>3, <1>7, <1>8, <1>10, <1>11, <1>12, <1>13, <1>14, <1>15, <1>16 DEF RandomInv

\* The message with which a member ends its round.
LEMMA EndOfRoundProperties ==
  ASSUME NEW now \in Nat, NEW p \in R!Member
  PROVE  /\ R!NextRound(now, p) \in Seq(Range(R!NextRound(now, p)))
         /\ Kinds(R!NextRound(now, p)) \in Seq(Kind)
         /\ Range(Kinds(R!NextRound(now, p))) =
              {[at |-> now + 1, from |-> p, to |-> p, body |-> "nextRound"]}
         /\ \A Types : Distinct(Kinds(R!NextRound(now, p)), Types)
<1> DEFINE e == [at |-> now + 1, from |-> p, to |-> p, body |-> [type |-> "nextRound"]]
           k == [at |-> now + 1, from |-> p, to |-> p, body |-> "nextRound"]
<1>1. R!NextRound(now, p) = <<e>>
  BY DEF R!NextRound, R!Letter
<1>2. KindOf(e) = k
  BY DEF KindOf
<1>3. k \in Kind
  BY DEF Kind
<1> HIDE DEF e, k
<1>4. Kinds(<<e>>) = <<k>>
  BY <1>2 DEF Kinds
<1>5. \A x : Range(<<x>>) = {x}
  BY DEF Range
<1>6. \A Types : Distinct(<<k>>, Types)
  BY DEF Distinct
<1>7. <<e>> \in Seq({e}) /\ <<k>> \in Seq(Kind)
  BY <1>3
<1> QED BY <1>1, <1>4, <1>5, <1>6, <1>7 DEF k

\* Counting one more share may reach the threshold, and never falls below it.
LEMMA EnoughSharesGrow ==
  ASSUME NEW n \in Nat, R!EnoughShares(n)
  PROVE  R!EnoughShares(n + 1)
BY MembersOfRandom DEF R!EnoughShares

LEMMA RandomHandleShare ==
  ASSUME RandomInv, R!HandleShare
  PROVE  RandomInv'
<1>1. PICK m \in R!Due :
        LET p == m.to
            counts == m.from \in commitsRecv[p]
            ends == counts /\ R!EnoughShares(numSharesRecv[p] + 1) /\ ~scheduledReconst[p]
        IN  /\ R!Handle(m, "share")
            /\ numSharesRecv' = IF counts THEN [numSharesRecv EXCEPT ![p] = numSharesRecv[p] + 1]
                                          ELSE numSharesRecv
            /\ scheduledReconst' = [scheduledReconst EXCEPT ![p] = scheduledReconst[p] \/ ends]
            /\ \/ ends /\ R!EndRound(m.at, p)
               \/ ~ends /\ network' = Tail(network) /\ UNCHANGED <<loopbacks, stage>>
            /\ UNCHANGED <<conduct, polynomial, commitsRecv, reconstRecv, opened>>
  BY DEF R!HandleShare
<1> DEFINE p == m.to
           d == m.from
           ends == /\ d \in commitsRecv[p] /\ R!EnoughShares(numSharesRecv[p] + 1)
                   /\ ~scheduledReconst[p]
           round == Kinds(R!NextRound(m.at, p))
<1>2. /\ KindOf(m).from = d /\ KindOf(m).to = p /\ KindOf(m).body = "share"
      /\ m.body.type = "share" /\ d \in R!Member /\ p \in R!Member
      /\ clock' = 1 /\ m.at = 1 /\ clock < 2
      /\ \A q \in R!Member : stage[q] = "generating"
  BY <1>1, RandomHandle
<1>3. /\ UNCHANGED <<loopbacks, stage, conduct, polynomial, commitsRecv, reconstRecv>>
      /\ d \in commitsRecv[p] =>
           numSharesRecv' = [numSharesRecv EXCEPT ![p] = numSharesRecv[p] + 1]
      /\ d \notin commitsRecv[p] => numSharesRecv' = numSharesRecv
      /\ scheduledReconst' = [scheduledReconst EXCEPT ![p] = scheduledReconst[p] \/ ends]
      /\ ends => network' = Tail(network) \o R!NextRound(m.at, p)
      /\ ~ends => network' = Tail(network)
  BY <1>1 DEF R!EndRound
<1>4. /\ kinds \in Seq(Kind) /\ kinds # <<>> /\ Head(kinds) = KindOf(m)
      /\ Tail(network) \in Seq(Range(Tail(network))) /\ Kinds(Tail(network)) = Tail(kinds)
      /\ Tail(kinds) \in Seq(Kind)
      /\ Range(kinds) = {KindOf(m)} \union Range(Tail(kinds))
      /\ Range(Tail(kinds)) \subseteq Kind
      /\ Range(loopbacks) = {}
      /\ InLockStep(Tail(kinds), 1)
      /\ Distinct(Tail(kinds), {"share"}) /\ Distinct(Tail(kinds), {"nextRound"})
      /\ Distinct(Tail(kinds), {"reconst"})
      /\ \A k \in Range(Tail(kinds)) : k.body = "share" => k.from # d \/ k.to # p
  <2>1. /\ kinds \in Seq(Kind) /\ kinds # <<>> /\ Head(kinds) = KindOf(m)
        /\ Tail(network) \in Seq(Range(Tail(network))) /\ Kinds(Tail(network)) = Tail(kinds)
        /\ Tail(kinds) \in Seq(Kind)
        /\ Range(kinds) = {KindOf(m)} \union Range(Tail(kinds))
        /\ Range(Tail(kinds)) \subseteq Range(kinds) /\ Range(kinds) \subseteq Kind
        /\ Range(loopbacks) = {}
        /\ InLockStep(Tail(kinds), m.at)
        /\ Distinct(Tail(kinds), {"share"}) /\ Distinct(Tail(kinds), {"nextRound"})
        /\ Distinct(Tail(kinds), {"reconst"})
        /\ \A k \in Range(Tail(kinds)) :
             k.body = m.body.type /\ k.body # "commit" => k.from # m.from \/ k.to # m.to
    BY RandomDue, RandomFields
  <2> QED BY <1>2, <2>1
<1>5. /\ R!NextRound(m.at, p) \in Seq(Range(R!NextRound(m.at, p)))
      /\ round \in Seq(Kind)
      /\ \A k \in Range(round) : k.at = 2 /\ k.from = p /\ k.to = p /\ k.body = "nextRound"
      /\ \E k \in Range(round) : k.to = p /\ k.body = "nextRound"
      /\ \A Types : Distinct(round, Types)
  <2>1. m.at \in Nat /\ m.at + 1 = 2
    BY <1>2
  <2> DEFINE k == [at |-> m.at + 1, from |-> p, to |-> p, body |-> "nextRound"]
  <2>2. /\ R!NextRound(m.at, p) \in Seq(Range(R!NextRound(m.at, p)))
        /\ round \in Seq(Kind) /\ Range(round) = {k} /\ \A Types : Distinct(round, Types)
    BY <1>2, <2>1, EndOfRoundProperties
  <2>3. k.at = 2 /\ k.from = p /\ k.to = p /\ k.body = "nextRound"
    BY <2>1
  <2> HIDE DEF k, round
  <2> QED BY <2>2, <2>3
<1>6. d \in R!Dealers <=> d \in commitsRecv[p]
  <2>1. 1 \in DOMAIN kinds /\ kinds[1] = KindOf(m)
    BY <1>4, HeadTailProperties, LenProperties
  <2>2. \A j \in 1..(1 - 1) : FALSE
    OBVIOUS
  <2> QED BY <1>2, <2>1, <2>2 DEF RandomInv, CommitsFirst
<1>7. ends => kinds' = Tail(kinds) \o round
  <2> SUFFICES ASSUME ends PROVE kinds' = Tail(kinds) \o round
    OBVIOUS
  <2>1. Kinds(Tail(network)) \in Seq(Kind)
    <3> QED BY <1>4
  <2>2. Kinds(Tail(network) \o R!NextRound(m.at, p)) = Kinds(Tail(network)) \o round
    BY <1>4, <1>5, <2>1, QueueOfConcatenation
  <2>3. kinds' = Kinds(Tail(network) \o R!NextRound(m.at, p))
    BY <1>3 DEF kinds
  <2> QED BY <1>4, <2>2, <2>3
<1>8. ~ends => kinds' = Tail(kinds)
  BY <1>3, <1>4 DEF kinds
<1>9. \A k \in Range(Tail(kinds)) : k.body = "nextRound" => k.from = k.to /\ scheduledReconst[k.to]
  BY <1>4 DEF RandomInv, RoundsEnd
<1> HIDE DEF round, p, d
<1>10. /\ kinds' \in Seq(Kind) /\ InLockStep(kinds', 1)
       /\ Distinct(kinds', {"share"}) /\ Distinct(kinds', {"nextRound"})
       /\ Distinct(kinds', {"reconst"})
       /\ Range(kinds') = IF ends THEN Range(Tail(kinds)) \union Range(round)
                                  ELSE Range(Tail(kinds))
       /\ network' \in Seq(Range(network'))
  <2>1. CASE ~ends
    BY <1>3, <1>4, <1>8, <2>1
  <2>2. CASE ends
    <3>1. \A k \in Range(round) : k.at = 1 + 1
      BY <1>5
    <3>2. \A k \in Range(Tail(kinds)), l \in Range(round) :
            k.body = l.body /\ l.body # "commit" => k.from # l.from
      BY <1>5, <1>9, <2>2
    <3>3. 1 \in Nat
      OBVIOUS
    <3>4. /\ Tail(kinds) \o round \in Seq(Kind) /\ InLockStep(Tail(kinds) \o round, 1)
          /\ Distinct(Tail(kinds) \o round, {"share"})
          /\ Distinct(Tail(kinds) \o round, {"nextRound"})
          /\ Distinct(Tail(kinds) \o round, {"reconst"})
          /\ Range(Tail(kinds) \o round) = Range(Tail(kinds)) \union Range(round)
      BY <1>4, <1>5, <3>1, <3>2, <3>3, RandomSent
    <3>5. network' \in Seq(Range(network'))
      <4> USE DEF round
      <4>1. network' = Tail(network) \o R!NextRound(m.at, p)
        BY <1>3, <2>2
      <4> QED BY <1>4, <1>5, <4>1, QueueOfConcatenation
    <3> QED BY <1>7, <2>2, <3>4, <3>5
  <2> HIDE DEF ends
  <2> QED BY <2>1, <2>2
<1>11. /\ numSharesRecv \in [R!Member -> Nat] /\ scheduledReconst \in [R!Member -> BOOLEAN]
       /\ scheduledReconst' \in [R!Member -> BOOLEAN]
       /\ scheduledReconst'[p] <=> scheduledReconst[p] \/ ends
       /\ \A q \in R!Member : q # p => /\ scheduledReconst'[q] = scheduledReconst[q]
                                       /\ numSharesRecv'[q] = numSharesRecv[q]
       /\ d \in commitsRecv[p] => numSharesRecv'[p] = numSharesRecv[p] + 1
  <2>1. numSharesRecv \in [R!Member -> Nat] /\ scheduledReconst \in [R!Member -> BOOLEAN]
    BY RandomFields
  <2> HIDE DEF ends
  <2>2. ends \in BOOLEAN
    BY DEF ends
  <2> QED BY <1>2, <1>3, <2>1, <2>2
<1>12. R!Dealers' = R!Dealers
  BY <1>3 DEF R!Dealers, R!Conduct
<1>13. /\ \A q \in R!Member : q # p => Counted(q)' = Counted(q)
       /\ d \in R!Dealers => d \notin Counted(p) /\ Counted(p)' = Counted(p) \union {d}
       /\ d \notin R!Dealers => Counted(p)' = Counted(p)
  <2>1. ASSUME NEW q \in R!Member
        PROVE  /\ Counted(q) = {r \in R!Dealers :
                    ~\E k \in Range(kinds) : k.body = "share" /\ k.from = r /\ k.to = q}
               /\ Counted(q)' = {r \in R!Dealers :
                    ~\E k \in Range(Tail(kinds)) : k.body = "share" /\ k.from = r /\ k.to = q}
    <3>1. \A r \in R!Dealers : stage[r] # "unregistered" /\ stage'[r] # "unregistered"
      BY <1>2, <1>3, MembersOfRandom
    <3>2. \A k : k.body = "share" => (k \in Range(kinds') <=> k \in Range(Tail(kinds)))
      <4> HIDE DEF ends
      <4> QED BY <1>5, <1>10
    <3>3. Counted(q)' = {r \in R!Dealers :
            ~\E k \in Range(kinds') : k.body = "share" /\ k.from = r /\ k.to = q}
      BY <1>12, <3>1 DEF Counted
    <3>4. \A r : (\E k \in Range(kinds') : k.body = "share" /\ k.from = r /\ k.to = q)
                  <=> \E k \in Range(Tail(kinds)) : k.body = "share" /\ k.from = r /\ k.to = q
      BY <3>2
    <3> QED BY <3>1, <3>3, <3>4 DEF Counted
  <2>2. \A q, r \in R!Member :
          (\E k \in Range(kinds) : k.body = "share" /\ k.from = r /\ k.to = q)
          <=> \/ r = d /\ q = p
              \/ \E k \in Range(Tail(kinds)) : k.body = "share" /\ k.from = r /\ k.to = q
    BY <1>2, <1>4 DEF p, d
  <2>3. ~\E k \in Range(Tail(kinds)) : k.body = "share" /\ k.from = d /\ k.to = p
    BY <1>4
  <2>4. p \in R!Member /\ d \in R!Member /\ R!Dealers \subseteq R!Member
    BY <1>2, MembersOfRandom DEF p, d
  <2>5. ASSUME NEW q \in R!Member, q # p
        PROVE  Counted(q)' = Counted(q)
    <3>1. \A r \in R!Dealers : r \in Counted(q)' <=> r \in Counted(q)
      BY <2>1, <2>2, <2>4, <2>5
    <3>2. Counted(q) \subseteq R!Dealers /\ Counted(q)' \subseteq R!Dealers
      BY <2>1
    <3> QED BY <3>1, <3>2
  <2>6. d \notin Counted(p) /\ \A r \in R!Dealers : r # d => (r \in Counted(p)' <=> r \in Counted(p))
    BY <2>1, <2>2, <2>4
  <2>7. d \in R!Dealers => d \in Counted(p)'
    BY <2>1, <2>3, <2>4
  <2>8. Counted(p) \subseteq R!Dealers /\ Counted(p)' \subseteq R!Dealers
    BY <2>1, <2>4
  <2> QED BY <2>5, <2>6, <2>7, <2>8
<1>14. \A q \in R!Member : IsFiniteSet(Counted(q)) /\ IsFiniteSet(Counted(q)')
                           /\ Cardinality(Counted(q)') \in 0..Size
  <2>1. ASSUME NEW T, T \subseteq R!Member
        PROVE  IsFiniteSet(T) /\ Cardinality(T) \in 0..Size
    BY <2>1, MembersOfRandom, FS_Subset, FS_CardinalityType
  <2>2. \A q \in R!Member : Counted(q) \subseteq R!Member /\ Counted(q)' \subseteq R!Member
    BY <1>12, MembersOfRandom DEF Counted
  <2> QED BY <2>1, <2>2
<1>15. ASSUME NEW q \in R!Member
       PROVE  /\ numSharesRecv'[q] = Cardinality(Counted(q)')
              /\ scheduledReconst'[q] <=> R!EnoughShares(numSharesRecv'[q])
  <2>1. /\ numSharesRecv[q] = Cardinality(Counted(q))
        /\ scheduledReconst[q] <=> R!EnoughShares(numSharesRecv[q])
    BY DEF RandomInv, SharesCounted
  <2>2. CASE q # p
    BY <1>11, <1>13, <2>1, <2>2
  <2>3. CASE q = p /\ d \in R!Dealers
    <3>1. Cardinality(Counted(p)') = Cardinality(Counted(p)) + 1
      BY <1>13, <1>14, <2>3, FS_AddElement
    <3>2. numSharesRecv'[p] = numSharesRecv[p] + 1 /\ numSharesRecv[p] \in Nat
      BY <1>6, <1>11, <2>3
    <3>3. scheduledReconst'[p] <=>
            scheduledReconst[p] \/ R!EnoughShares(numSharesRecv[p] + 1)
      BY <1>6, <1>11, <2>3
    <3>4. R!EnoughShares(numSharesRecv[p]) => R!EnoughShares(numSharesRecv[p] + 1)
      BY <3>2, EnoughSharesGrow
    <3> QED BY <2>1, <2>3, <3>1, <3>2, <3>3, <3>4
  <2>4. CASE q = p /\ d \notin R!Dealers
    BY <1>3, <1>6, <1>11, <1>13, <2>1, <2>4
  <2> QED BY <2>2, <2>3, <2>4
<1>16. R!TypeOK'
  <2>1. numSharesRecv' \in [R!Member -> 0..Size]
    <3>1. numSharesRecv' = [q \in R!Member |-> numSharesRecv'[q]]
      BY <1>3, <1>11
    <3>2. \A q \in R!Member : numSharesRecv'[q] \in 0..Size
      BY <1>14, <1>15
    <3> QED BY <3>1, <3>2
  <2> QED BY <1>3, <1>11, <2>1 DEF RandomInv, R!TypeOK
<1>17. RandomQueue'
  BY <1>2, <1>10 DEF RandomQueue
<1>18. RandomState'
  BY <1>3 DEF RandomInv, RandomState
<1>19. CommitsFirst(kinds, commitsRecv, R!Dealers)'
  <2>1. CommitsFirst(kinds, commitsRecv, R!Dealers)
    BY DEF RandomInv
  <2>2. /\ commitsRecv \in [R!Member -> SUBSET R!Member]
        /\ \A q, r \in R!Member : q \in commitsRecv[r] <=>
             \/ q \in commitsRecv[r]
             \/ Head(kinds).body = "commit" /\ q = Head(kinds).from /\ r = Head(kinds).to
    BY <1>2, <1>4, RandomFields
  <2>3. CommitsFirst(Tail(kinds), commitsRecv, R!Dealers)
    BY <1>4, <2>1, <2>2, CommitsFirstHandled
  <2>4. CASE ~ends
    BY <1>3, <1>8, <1>12, <2>3, <2>4
  <2>5. CASE ends
    <3>1. \A i \in DOMAIN round : round[i].body # "share"
      BY <1>5 DEF Range
    <3>2. CommitsFirst(Tail(kinds) \o round, commitsRecv, R!Dealers)
      BY <1>4, <1>5, <2>3, <3>1, CommitsFirstSent
    <3> QED BY <1>3, <1>7, <1>12, <2>5, <3>2
  <2> HIDE DEF ends
  <2> QED BY <2>4, <2>5
<1>20. MembersStartAtZero'
  BY <1>2, <1>3 DEF MembersStartAtZero
<1>21. DealingsInTime'
  <2>1. \A k \in Range(kinds') : k.body \in {"commit", "share"} => k \in Range(kinds)
    <3> HIDE DEF ends
    <3> QED BY <1>4, <1>5, <1>10
  <2> QED BY <1>3, <2>1 DEF RandomInv, DealingsInTime
<1>22. SharesCounted'
  BY <1>15 DEF SharesCounted
<1>23. RoundsEnd'
  <2>1. ASSUME NEW k \in Range(kinds'), k.body = "nextRound"
        PROVE  /\ k.from = k.to /\ k.at = 2
               /\ scheduledReconst'[k.to] /\ stage'[k.to] = "generating"
    <3>1. CASE k \in Range(Tail(kinds))
      <4>1. /\ k.from = k.to /\ k.at = 2
            /\ scheduledReconst[k.to] /\ stage[k.to] = "generating" /\ k.to \in R!Member
        BY <1>4, <2>1, <3>1, RandomFields DEF RandomInv, RoundsEnd
      <4> QED BY <1>3, <1>11, <4>1
    <3>2. CASE ends /\ k \in Range(round)
      <4>1. stage'[p] = "generating"
        BY <1>2, <1>3 DEF p
      <4> QED BY <1>5, <1>11, <3>2, <4>1
    <3> HIDE DEF ends
    <3> QED BY <1>10, <2>1, <3>1, <3>2
  <2>2. ASSUME NEW q \in R!Member, scheduledReconst'[q]
        PROVE  \E k \in Range(kinds') : k.body = "nextRound" /\ k.to = q
    <3>1. CASE scheduledReconst[q]
      <4>1. PICK k \in Range(kinds) : k.body = "nextRound" /\ k.to = q
        BY <1>2, <3>1 DEF RandomInv, RoundsEnd
      <4>2. k \in Range(Tail(kinds))
        BY <1>2, <1>4, <4>1
      <4> QED BY <1>10, <4>1, <4>2
    <3>2. CASE ~scheduledReconst[q]
      <4> HIDE DEF ends
      <4>1. q = p /\ ends
        BY <1>11, <2>2, <3>2
      <4> QED BY <1>5, <1>10, <4>1
    <3> QED BY <3>1, <3>2
  <2> QED BY <2>1, <2>2 DEF RoundsEnd
<1>24. MembersGoOn'
  BY <1>2, <1>3, <1>4 DEF MembersGoOn
<1>25. OpeningsInTime'
  <2>1. \A k \in Range(kinds') : k.body = "reconst" => k \in Range(kinds)
    <3> HIDE DEF ends
    <3> QED BY <1>4, <1>5, <1>10
  <2> QED BY <1>3, <2>1 DEF RandomInv, OpeningsInTime
<1> QED
  BY <1>16, <1>17, <1>18, <1>19, <1>20, <1>21, <1>22, <1>23, <1>24, <1>25 DEF RandomInv

\* What a member sends when it reconstructs.
LEMMA OpeningProperties ==
  ASSUME NEW now \in Nat, NEW p \in R!Member, NEW value,
         NEW letters, letters = R!Letters(now, p, R!Members, [type |-> "reconst", value |-> value])
  PROVE  /\ letters \in Seq(Range(letters))
         /\ Kinds(letters) \in Seq(Kind)
         /\ \A k \in Range(Kinds(letters)) : k.at = now + 1 /\ k.from = p /\ k.body = "reconst"
         /\ \A Types : Distinct(Kinds(letters), Types)
<1>1. Size \in Nat /\ R!Member = 1..Size
  BY MembersOfRandom DEF R!Member
<1>2. letters = [i \in 1..Size |-> [at |-> now + 1, from |-> p, to |-> i,
                                   body |-> [type |-> "reconst", value |-> value]]]
  BY <1>1 DEF R!Letters, R!Letter, R!Members
<1>3. /\ DOMAIN letters = 1..Size /\ letters = [i \in 1..Size |-> letters[i]]
      /\ \A i \in 1..Size :
           KindOf(letters[i]) = [at |-> now + 1, from |-> p, to |-> i, body |-> "reconst"]
  <2>1. DOMAIN letters = 1..Size /\ letters = [i \in 1..Size |-> letters[i]]
    BY <1>2
  <2>2. ASSUME NEW i \in 1..Size
        PROVE  KindOf(letters[i]) = [at |-> now + 1, from |-> p, to |-> i, body |-> "reconst"]
    <3>1. letters[i] = [at |-> now + 1, from |-> p, to |-> i,
                        body |-> [type |-> "reconst", value |-> value]]
      BY <1>2
    <3> QED BY <3>1 DEF KindOf
  <2> QED BY <2>1, <2>2
<1>4. Kinds(letters) =
        [i \in 1..Size |-> [at |-> now + 1, from |-> p, to |-> i, body |-> "reconst"]]
  BY <1>3 DEF Kinds
<1>5. \A i \in 1..Size : [at |-> now + 1, from |-> p, to |-> i, body |-> "reconst"] \in Kind
  BY <1>1 DEF Kind
<1>6. letters \in Seq(Range(letters))
  <2>1. \A i \in 1..Size : letters[i] \in Range(letters)
    BY <1>3 DEF Range
  <2>2. letters \in [1..Size -> Range(letters)]
    BY <1>3, <2>1, Zenon
  <2>3. \A T : [1..Size -> T] \subseteq Seq(T)
    BY <1>1
  <2> QED BY <2>2, <2>3, Zenon
<1>7. Kinds(letters) \in Seq(Kind) /\ DOMAIN Kinds(letters) = 1..Size
  BY <1>1, <1>4, <1>5
<1>8. \A i \in 1..Size : /\ Kinds(letters)[i].at = now + 1 /\ Kinds(letters)[i].from = p
                         /\ Kinds(letters)[i].to = i /\ Kinds(letters)[i].body = "reconst"
  <2> SUFFICES ASSUME NEW i \in 1..Size
               PROVE  /\ Kinds(letters)[i].at = now + 1 /\ Kinds(letters)[i].from = p
                      /\ Kinds(letters)[i].to = i /\ Kinds(letters)[i].body = "reconst"
    OBVIOUS
  <2>1. Kinds(letters)[i] = [at |-> now + 1, from |-> p, to |-> i, body |-> "reconst"]
    BY <1>4
  <2> QED BY <2>1
<1>9. ASSUME NEW k \in Range(Kinds(letters))
      PROVE  k.at = now + 1 /\ k.from = p /\ k.body = "reconst"
  <2>1. PICK i \in 1..Size : k = Kinds(letters)[i]
    BY <1>7 DEF Range
  <2> QED BY <1>8, <2>1
<1>10. ASSUME NEW Types
       PROVE  Distinct(Kinds(letters), Types)
  <2> SUFFICES ASSUME NEW i \in 1..Size, NEW j \in 1..Size,
                      Kinds(letters)[i].to = Kinds(letters)[j].to
               PROVE  i = j
    BY <1>7 DEF Distinct
  <2>1. Kinds(letters)[i].to = i /\ Kinds(letters)[j].to = j
    BY <1>8
  <2> QED BY <2>1
<1> QED BY <1>6, <1>7, <1>9, <1>10

LEMMA RandomStartReconstruction ==
  ASSUME RandomInv, R!StartReconstruction
  PROVE  RandomInv'
<1> DEFINE p == Head(loopbacks)
           letters == R!Letters(clock, p, R!Members,
                                [type |-> "reconst", value |-> combinedShare[p]])
           t == Kinds(letters)
           silent == R!Conduct(p) = "silent"
<1>1. /\ loopbacks # <<>> /\ loopbacks' = Tail(loopbacks)
      /\ stage' = [stage EXCEPT ![p] = "opening"]
      /\ silent => network' = network
      /\ ~silent => network' = network \o letters
      /\ UNCHANGED <<clock, conduct, polynomial, commitsRecv, combinedShare, numSharesRecv,
                     scheduledReconst, reconstRecv, opened>>
  BY DEF R!StartReconstruction, R!private
<1>2. /\ p \in R!Member /\ p \in Range(loopbacks)
      /\ loopbacks' \in Seq(R!Member) /\ Range(loopbacks) = {p} \union Range(loopbacks')
      /\ IsInjective(loopbacks') /\ p \notin Range(loopbacks')
  <2>1. loopbacks \in Seq(R!Member) /\ IsInjective(loopbacks)
    BY DEF RandomInv, RandomState
  <2> QED BY <1>1, <2>1, HeadAndTail, InjectiveTail
<1>3. /\ stage[p] = "generated" /\ clock = 2 /\ scheduledReconst[p]
  BY <1>2 DEF RandomInv, MembersGoOn
<1>4. /\ network \in Seq(Range(network)) /\ kinds \in Seq(Kind)
      /\ InLockStep(kinds, clock) /\ Distinct(kinds, {"share"})
      /\ Distinct(kinds, {"nextRound"}) /\ Distinct(kinds, {"reconst"})
      /\ clock \in Nat /\ clock \in 0..3
  BY RandomFields DEF RandomInv, RandomQueue
<1>5. /\ letters \in Seq(Range(letters)) /\ t \in Seq(Kind)
      /\ \A k \in Range(t) : k.at = clock + 1 /\ k.from = p /\ k.body = "reconst"
      /\ \A Types : Distinct(t, Types)
  <2> HIDE DEF p, letters
  <2>1. letters = R!Letters(clock, p, R!Members, [type |-> "reconst", value |-> combinedShare[p]])
    BY DEF letters
  <2> QED BY <1>2, <1>4, <2>1, OpeningProperties
<1>6. ~silent => kinds' = kinds \o t
  <2> SUFFICES ASSUME ~silent PROVE kinds' = kinds \o t
    OBVIOUS
  <2>1. Kinds(network) \in Seq(Kind)
    BY <1>4 DEF kinds
  <2>2. Kinds(network \o letters) = Kinds(network) \o t
    BY <1>4, <1>5, <2>1, QueueOfConcatenation
  <2> QED BY <1>1, <2>2 DEF kinds
<1>7. silent => kinds' = kinds
  BY <1>1 DEF kinds
<1>8. \A k \in Range(kinds) : k.body = "reconst" => k.from # p
  BY <1>3 DEF RandomInv, OpeningsInTime
<1>9. \A q \in R!Member : p \notin DOMAIN reconstRecv[q]
  BY <1>2, <1>3 DEF RandomInv, OpeningsInTime
<1> HIDE DEF t, p
<1>10. /\ kinds' \in Seq(Kind) /\ InLockStep(kinds', clock)
       /\ Distinct(kinds', {"share"}) /\ Distinct(kinds', {"nextRound"})
       /\ Distinct(kinds', {"reconst"})
       /\ Range(kinds') = IF silent THEN Range(kinds) ELSE Range(kinds) \union Range(t)
       /\ network' \in Seq(Range(network'))
  <2>1. CASE silent
    BY <1>1, <1>4, <1>7, <2>1
  <2>2. CASE ~silent
    <3>1. \A k \in Range(kinds), l \in Range(t) :
            k.body = l.body /\ l.body # "commit" => k.from # l.from
      BY <1>5, <1>8
    <3>2. /\ kinds \o t \in Seq(Kind) /\ InLockStep(kinds \o t, clock)
          /\ Distinct(kinds \o t, {"share"}) /\ Distinct(kinds \o t, {"nextRound"})
          /\ Distinct(kinds \o t, {"reconst"})
          /\ Range(kinds \o t) = Range(kinds) \union Range(t)
      BY <1>4, <1>5, <3>1, RandomSent
    <3>3. network' \in Seq(Range(network'))
      <4>1. Kinds(network) \in Seq(Kind) /\ Kinds(letters) \in Seq(Kind)
        BY <1>4, <1>5 DEF kinds, t
      <4>2. network' = network \o letters
        BY <1>1, <2>2
      <4> QED BY <1>4, <1>5, <4>1, <4>2, QueueOfConcatenation
    <3> QED BY <1>6, <2>2, <3>2, <3>3
  <2> HIDE DEF silent
  <2> QED BY <2>1, <2>2
<1> HIDE DEF silent, letters
<1>11. /\ stage \in [R!Member ->
                      {"unregistered", "generating", "generated", "opening", "completed"}]
       /\ stage' \in [R!Member ->
                        {"unregistered", "generating", "generated", "opening", "completed"}]
       /\ stage'[p] = "opening" /\ \A q \in R!Member : q # p => stage'[q] = stage[q]
  BY <1>1, <1>2, RandomFields
<1>12. R!Dealers' = R!Dealers
  BY <1>1 DEF R!Dealers, R!Conduct
<1>13. \A k : k \in Range(kinds') => k \in Range(kinds) \/ k \in Range(t)
  BY <1>10
<1>14. \A k : k \in Range(kinds) => k \in Range(kinds')
  BY <1>10
<1>15. R!TypeOK'
  BY <1>1, <1>11 DEF RandomInv, R!TypeOK
<1>16. RandomQueue' /\ RandomState'
  BY <1>1, <1>2, <1>4, <1>10 DEF RandomInv, RandomQueue, RandomState
<1>17. MembersStartAtZero'
  BY <1>1, <1>11 DEF RandomInv, MembersStartAtZero
<1>18. DealingsInTime'
  <2>1. \A q \in R!Member : stage[q] # "unregistered" => stage'[q] # "unregistered"
    BY <1>11
  <2>2. \A k \in Range(kinds') : k.body \in {"commit", "share"} =>
          k \in Range(kinds) /\ k.from \in R!Member
    BY <1>5, <1>13, RandomFields
  <2> QED BY <1>1, <2>1, <2>2 DEF RandomInv, DealingsInTime
<1>19. CommitsFirst(kinds, commitsRecv, R!Dealers)'
  <2>1. CommitsFirst(kinds, commitsRecv, R!Dealers)
    BY DEF RandomInv
  <2>2. CASE silent
    BY <1>1, <1>7, <1>12, <2>1, <2>2
  <2>3. CASE ~silent
    <3>1. \A i \in DOMAIN t : t[i].body # "share"
      BY <1>5 DEF Range
    <3>2. CommitsFirst(kinds \o t, commitsRecv, R!Dealers)
      BY <1>4, <1>5, <2>1, <3>1, CommitsFirstSent
    <3> QED BY <1>1, <1>6, <1>12, <2>3, <3>2
  <2> QED BY <2>2, <2>3
<1>20. SharesCounted'
  <2>1. \A q \in R!Dealers : stage'[q] # "unregistered" <=> stage[q] # "unregistered"
    BY <1>3, <1>11, MembersOfRandom
  <2>2. \A k : k.body = "share" => (k \in Range(kinds') <=> k \in Range(kinds))
    BY <1>5, <1>13, <1>14
  <2>3. ASSUME NEW q \in R!Member PROVE Counted(q)' = Counted(q)
    <3>1. \A r : (\E k \in Range(kinds') : k.body = "share" /\ k.from = r /\ k.to = q)
                  <=> \E k \in Range(kinds) : k.body = "share" /\ k.from = r /\ k.to = q
      BY <2>2
    <3> QED BY <1>12, <2>1, <3>1 DEF Counted
  <2>4. ASSUME NEW q \in R!Member
        PROVE  /\ numSharesRecv'[q] = Cardinality(Counted(q)')
               /\ scheduledReconst'[q] <=> R!EnoughShares(numSharesRecv'[q])
    BY <1>1, <2>3 DEF RandomInv, SharesCounted
  <2> QED BY <2>4 DEF SharesCounted
<1>21. RoundsEnd'
  <2>1. \A k \in Range(kinds') : k.body = "nextRound" => k \in Range(kinds) /\ k.to \in R!Member
    BY <1>5, <1>13, RandomFields
  <2>2. \A q \in R!Member : stage[q] = "generating" <=> stage'[q] = "generating"
    BY <1>3, <1>11
  <2> QED BY <1>1, <1>14, <2>1, <2>2 DEF RandomInv, RoundsEnd
<1>22. MembersGoOn'
  <2> SUFFICES ASSUME NEW q \in R!Member
               PROVE  /\ stage'[q] \in {"generated", "opening", "completed"} =>
                           scheduledReconst[q] /\ clock >= 2
                      /\ q \in Range(loopbacks') <=> stage'[q] = "generated"
                      /\ stage'[q] = "generated" => clock = 2
                      /\ stage'[q] = "completed" => DOMAIN reconstRecv[q] = R!Member
    BY <1>1 DEF MembersGoOn
  <2>1. CASE q = p
    BY <1>2, <1>3, <1>11, <2>1
  <2>2. CASE q # p
    BY <1>2, <1>11, <2>2 DEF RandomInv, MembersGoOn
  <2> QED BY <2>1, <2>2
<1>23. OpeningsInTime'
  <2>1. \A q \in R!Member : stage[q] \in {"opening", "completed"} =>
                              stage'[q] \in {"opening", "completed"}
    BY <1>11
  <2>2. ASSUME NEW k \in Range(kinds'), k.body = "reconst"
        PROVE  /\ k.at = 3 /\ stage'[k.from] \in {"opening", "completed"}
               /\ k.from \notin DOMAIN reconstRecv[k.to]
    <3>1. CASE k \in Range(kinds)
      BY <2>1, <2>2, <3>1, RandomFields DEF RandomInv, OpeningsInTime
    <3>2. CASE k \in Range(t)
      <4>1. k.to \in R!Member
        <5>1. k \in Kind
          BY <1>5, <3>2, RangeOfSeq
        <5> QED BY <5>1 DEF Kind
      <4> QED BY <1>3, <1>5, <1>9, <1>11, <3>2, <4>1
    <3> QED BY <1>13, <3>1, <3>2
  <2>3. ASSUME NEW q \in R!Member, NEW r \in R!Member, r \in DOMAIN reconstRecv[q]
        PROVE  stage'[r] \in {"opening", "completed"}
    BY <2>1, <2>3 DEF RandomInv, OpeningsInTime
  <2> QED BY <1>1, <2>2, <2>3 DEF OpeningsInTime
<1> QED
  BY <1>15, <1>16, <1>17, <1>18, <1>19, <1>20, <1>21, <1>22, <1>23 DEF RandomInv

LEMMA RandomHandleReconst ==
  ASSUME RandomInv, R!HandleReconst
  PROVE  RandomInv'
<1>1. PICK m \in R!Due :
        LET p == m.to
            shares == [i \in DOMAIN reconstRecv[p] \union {m.from} |->
                         IF i = m.from THEN m.body.value ELSE reconstRecv[p][i]]
            complete == DOMAIN shares = R!Member
        IN  /\ R!Handle(m, "reconst")
            /\ reconstRecv' = [reconstRecv EXCEPT ![p] = shares]
            /\ stage' = IF complete THEN [stage EXCEPT ![p] = "completed"] ELSE stage
            /\ network' = Tail(network)
            /\ UNCHANGED <<loopbacks, conduct, polynomial, commitsRecv, combinedShare,
                           numSharesRecv, scheduledReconst>>
  BY DEF R!HandleReconst
<1> DEFINE p == m.to
           d == m.from
           known == DOMAIN reconstRecv[p] \union {d}
<1>2. /\ KindOf(m).from = d /\ KindOf(m).to = p /\ KindOf(m).body = "reconst"
      /\ m.body.type = "reconst" /\ p \in R!Member /\ d \in R!Member
      /\ clock' = 3
      /\ \A q \in R!Member : stage[q] \notin {"unregistered", "generated"}
      /\ stage[d] \in {"opening", "completed"} /\ stage[p] = "opening"
      /\ R!Handle(m, "reconst") /\ network' = Tail(network)
  BY <1>1, RandomHandle
<1>3. RandomQueue' /\ kinds' = Tail(kinds)
  BY <1>2, RandomQueueHandled
<1>4. /\ kinds \in Seq(Kind) /\ kinds # <<>> /\ Head(kinds) = KindOf(m)
      /\ Range(kinds) = {KindOf(m)} \union Range(Tail(kinds))
      /\ Range(Tail(kinds)) \subseteq Range(kinds) /\ Range(Tail(kinds)) \subseteq Kind
      /\ Range(loopbacks) = {}
      /\ \A k \in Range(Tail(kinds)) :
           k.body = m.body.type /\ k.body # "commit" => k.from # d \/ k.to # p
  BY <1>2, RandomDue, RandomFields
<1>5. /\ UNCHANGED <<loopbacks, conduct, commitsRecv, numSharesRecv, scheduledReconst>>
      /\ known = R!Member => stage' = [stage EXCEPT ![p] = "completed"]
      /\ known # R!Member => stage' = stage
      /\ reconstRecv' = [q \in R!Member |-> reconstRecv'[q]]
      /\ DOMAIN reconstRecv'[p] = known
      /\ \A q \in R!Member : q # p => reconstRecv'[q] = reconstRecv[q]
  <2>1. reconstRecv = [q \in R!Member |-> reconstRecv[q]]
    BY DEF RandomInv, RandomState
  <2>2. PICK shares : /\ DOMAIN shares = known
                      /\ reconstRecv' = [reconstRecv EXCEPT ![p] = shares]
                      /\ stage' = IF known = R!Member THEN [stage EXCEPT ![p] = "completed"]
                                                      ELSE stage
    BY <1>1
  <2>3. UNCHANGED <<loopbacks, conduct, commitsRecv, numSharesRecv, scheduledReconst>>
    BY <1>1
  <2> HIDE DEF p, known
  <2> QED BY <1>2, <2>1, <2>2, <2>3 DEF p
<1> HIDE DEF p, d
<1>6. /\ stage \in [R!Member ->
                      {"unregistered", "generating", "generated", "opening", "completed"}]
      /\ stage' \in [R!Member ->
                       {"unregistered", "generating", "generated", "opening", "completed"}]
      /\ stage'[p] \in {"opening", "completed"}
      /\ stage'[p] = "completed" => known = R!Member
      /\ \A q \in R!Member : q # p => stage'[q] = stage[q]
  <2>1. p \in R!Member /\ stage[p] = "opening"
    BY <1>2 DEF p
  <2> HIDE DEF known
  <2> QED BY <1>5, <2>1, RandomFields
<1>7. p \in R!Member /\ d \in R!Member
  BY <1>2 DEF p, d
<1>8. \A q \in R!Member : /\ stage'[q] \notin {"unregistered", "generated"}
                          /\ stage'[q] = "generating" <=> stage[q] = "generating"
                          /\ stage[q] \in {"opening", "completed"} =>
                               stage'[q] \in {"opening", "completed"}
  BY <1>2, <1>6 DEF p
<1>9. R!TypeOK'
  <2>1. \A q \in R!Member : DOMAIN reconstRecv'[q] \subseteq R!Member
    BY <1>5, <1>7, RandomFields
  <2> QED BY <1>5, <1>6, <2>1 DEF RandomInv, R!TypeOK
<1>10. RandomState'
  BY <1>5 DEF RandomInv, RandomState
<1>11. R!Dealers' = R!Dealers
  BY <1>5 DEF R!Dealers, R!Conduct
<1>12. CommitsFirst(kinds, commitsRecv, R!Dealers)'
  <2>1. CommitsFirst(kinds, commitsRecv, R!Dealers)
    BY DEF RandomInv
  <2>2. /\ commitsRecv \in [R!Member -> SUBSET R!Member]
        /\ \A q, r \in R!Member : q \in commitsRecv[r] <=>
             \/ q \in commitsRecv[r]
             \/ Head(kinds).body = "commit" /\ q = Head(kinds).from /\ r = Head(kinds).to
    BY <1>2, <1>4, RandomFields
  <2>3. CommitsFirst(Tail(kinds), commitsRecv, R!Dealers)
    BY <1>4, <2>1, <2>2, CommitsFirstHandled
  <2> QED BY <1>3, <1>5, <1>11, <2>3
<1>13. MembersStartAtZero'
  BY <1>8 DEF MembersStartAtZero
<1>14. DealingsInTime'
  <2>1. \A k \in Range(kinds') : k.from \in R!Member /\ k \in Range(kinds)
    BY <1>3, <1>4, RandomFields
  <2> QED BY <1>5, <1>8, <2>1 DEF RandomInv, DealingsInTime
<1>15. SharesCounted'
  <2>1. ASSUME NEW q \in R!Member
        PROVE  Counted(q)' = Counted(q)
    <3>1. \A r \in R!Dealers : stage[r] # "unregistered" /\ stage'[r] # "unregistered"
      BY <1>2, <1>8, MembersOfRandom
    <3>2. \A k : k.body = "share" => (k \in Range(kinds') <=> k \in Range(kinds))
      BY <1>2, <1>3, <1>4
    <3>3. \A r : (\E k \in Range(kinds') : k.body = "share" /\ k.from = r /\ k.to = q)
                  <=> \E k \in Range(kinds) : k.body = "share" /\ k.from = r /\ k.to = q
      BY <3>2
    <3> QED BY <1>11, <3>1, <3>3 DEF Counted
  <2>2. ASSUME NEW q \in R!Member
        PROVE  /\ numSharesRecv'[q] = Cardinality(Counted(q)')
               /\ scheduledReconst'[q] <=> R!EnoughShares(numSharesRecv'[q])
    BY <1>5, <2>1 DEF RandomInv, SharesCounted
  <2> QED BY <2>2 DEF SharesCounted
<1>16. RoundsEnd'
  <2>1. \A k : k.body = "nextRound" => (k \in Range(kinds') <=> k \in Range(kinds))
    BY <1>2, <1>3, <1>4
  <2>2. \A k \in Range(kinds') : k.to \in R!Member
    BY <1>3, <1>4, RandomFields
  <2> QED BY <1>5, <1>8, <2>1, <2>2 DEF RandomInv, RoundsEnd
<1>17. MembersGoOn'
  <2> SUFFICES ASSUME NEW q \in R!Member
               PROVE  /\ stage'[q] \in {"generated", "opening", "completed"} =>
                           scheduledReconst[q] /\ clock' >= 2
                      /\ q \in Range(loopbacks') <=> stage'[q] = "generated"
                      /\ stage'[q] = "generated" => clock' = 2
                      /\ stage'[q] = "completed" => DOMAIN reconstRecv'[q] = R!Member
    BY <1>5 DEF MembersGoOn
  <2>1. q \notin Range(loopbacks') /\ clock' >= 2 /\ stage'[q] # "generated"
    BY <1>2, <1>4, <1>5, <1>8
  <2>2. stage'[q] \in {"opening", "completed"} => scheduledReconst[q]
    <3>1. stage'[q] \in {"opening", "completed"} => stage[q] \in {"opening", "completed"}
      BY <1>2, <1>6 DEF p
    <3> QED BY <3>1 DEF RandomInv, MembersGoOn
  <2>3. stage'[q] = "completed" => DOMAIN reconstRecv'[q] = R!Member
    <3>1. CASE q = p
      BY <1>5, <1>6, <3>1
    <3>2. CASE q # p
      BY <1>5, <1>6, <3>2 DEF RandomInv, MembersGoOn
    <3> QED BY <3>1, <3>2
  <2> QED BY <2>1, <2>2, <2>3
<1>18. OpeningsInTime'
  <2>1. ASSUME NEW k \in Range(Tail(kinds)), k.body = "reconst"
        PROVE  /\ k.at = 3 /\ stage'[k.from] \in {"opening", "completed"}
               /\ k.from \notin DOMAIN reconstRecv'[k.to]
    <3>1. /\ k.at = 3 /\ stage[k.from] \in {"opening", "completed"}
          /\ k.from \notin DOMAIN reconstRecv[k.to]
          /\ k.from \in R!Member /\ k.to \in R!Member
      BY <1>4, <2>1, RandomFields DEF RandomInv, OpeningsInTime
    <3>2. k.from # d \/ k.to # p
      BY <1>2, <1>4, <2>1
    <3> QED BY <1>5, <1>8, <3>1, <3>2
  <2>2. ASSUME NEW q \in R!Member, NEW r \in R!Member, r \in DOMAIN reconstRecv'[q]
        PROVE  stage'[r] \in {"opening", "completed"}
    <3>1. r \in DOMAIN reconstRecv[q] \/ r = d
      BY <1>5, <2>2
    <3>2. stage[r] \in {"opening", "completed"}
      BY <1>2, <3>1 DEF RandomInv, OpeningsInTime, d
    <3> QED BY <1>8, <3>2
  <2> QED BY <1>3, <2>1, <2>2 DEF OpeningsInTime
<1> QED
  BY <1>3, <1>9, <1>10, <1>12, <1>13, <1>14, <1>15, <1>16, <1>17, <1>18 DEF RandomInv

LEMMA RandomStep ==
  ASSUME RandomInv, R!Next
  PROVE  RandomInv'
BY RandomStart, RandomHandleCommit, RandomHandleShare, RandomHandleNextRound,
   RandomStartReconstruction, RandomHandleReconst DEF R!Next

LEMMA RandomMessagesFindProtocol ==
  ASSUME RandomInv
  PROVE  R!TypeOK /\ R!MessagesFindProtocol
BY RandomMessagesFind DEF RandomInv, R!MessagesFindProtocol

LEMMA RandomCountsDealers ==
  ASSUME RandomInv, NEW p \in R!Member, stage[p] \in {"generated", "opening", "completed"}
  PROVE  numSharesRecv[p] >= R!Cardinality(R!Dealers)
<1>1. clock >= 2 /\ clock \in Nat
  BY RandomFields DEF RandomInv, MembersGoOn
<1>2. \A k \in Range(kinds) : k.body # "share"
  <2>1. \A k \in Range(kinds) : k.at # 1
    BY <1>1, RandomFields
  <2> QED BY <2>1 DEF RandomInv, DealingsInTime
<1>3. \A q \in R!Member : stage[q] # "unregistered"
  BY <1>1 DEF RandomInv, MembersStartAtZero
<1>4. Counted(p) = R!Dealers
  BY <1>2, <1>3, MembersOfRandom DEF Counted
<1>5. numSharesRecv[p] = Cardinality(R!Dealers) /\ numSharesRecv[p] \in Nat
  BY <1>4, RandomFields DEF RandomInv, SharesCounted
<1>6. R!Cardinality(R!Dealers) = Cardinality(R!Dealers)
  BY DEF R!Cardinality, Cardinality, R!IsFiniteSet, IsFiniteSet
<1> QED BY <1>5, <1>6

LEMMA RandomLeave ==
  ASSUME RandomInv, R!Next, NEW p \in R!Member, stage[p] # "completed", stage'[p] = "completed"
  PROVE  clock' = 3
<1>1. ASSUME R!HandleReconst
      PROVE  clock' = 3
  <2>1. PICK m \in R!Due : R!Handle(m, "reconst")
    BY <1>1 DEF R!HandleReconst
  <2>2. clock' = m.at /\ m.at = 3
    BY <2>1, RandomHandle
  <2> QED BY <2>2
<1>2. stage \in [R!Member ->
                  {"unregistered", "generating", "generated", "opening", "completed"}]
  BY RandomFields
<1>3. ASSUME NEW q \in R!Member, R!Start(q) PROVE FALSE
  BY <1>2, <1>3 DEF R!Start
<1>4. ASSUME R!HandleShare PROVE FALSE
  BY <1>4 DEF R!HandleShare, R!EndRound
<1>5. ASSUME R!HandleNextRound PROVE FALSE
  BY <1>2, <1>5 DEF R!HandleNextRound
<1>6. ASSUME R!StartReconstruction PROVE FALSE
  BY <1>2, <1>6 DEF R!StartReconstruction
<1> QED BY <1>1, <1>3, <1>4, <1>5, <1>6 DEF R!Next, R!HandleCommit

-----------------------------------------------------------------------------
(***************************************************************************)
(* The protocols together.                                                 *)
(***************************************************************************)

StageInv ==
  /\ protocol \in {"barrier", "majority", "random"}
  /\ protocol = "barrier" => BarrierInv
  /\ protocol = "majority" => FilterInv
  /\ protocol = "majority" /\ PlainFaults => MajorityInv
  /\ protocol = "random" /\ PlainFaults => RandomInv

\* Who misbehaves and how is chosen at the start.
LEMMA FaultsStay ==
  ASSUME Next
  PROVE  PlainFaults' <=> PlainFaults
<1>1. ASSUME M!Next
      PROVE  forging' = forging
  BY <1>1 DEF M!Next
<1>2. ASSUME R!Next
      PROVE  conduct' = conduct
  <2>1. \A p : R!Start(p) => conduct' = conduct
    BY DEF R!Start, R!private
  <2>2. R!HandleCommit \/ R!HandleShare => conduct' = conduct
    BY DEF R!HandleCommit, R!HandleShare
  <2>3. R!HandleNextRound => conduct' = conduct
    BY DEF R!HandleNextRound, R!private
  <2>4. R!StartReconstruction => conduct' = conduct
    BY DEF R!StartReconstruction, R!private
  <2>5. R!HandleReconst => conduct' = conduct
    BY DEF R!HandleReconst
  <2> QED BY <1>2, <2>1, <2>2, <2>3, <2>4, <2>5 DEF R!Next
<1>3. forging' = forging /\ conduct' = conduct
  BY <1>1, <1>2 DEF Next, ofMajority, ofRandom
<1> QED BY <1>3 DEF PlainFaults

LEMMA StageInit ==
  ASSUME Init
  PROVE  StageInv
BY BarrierInit, FilterInit, MajorityInit, RandomInit DEF Init, StageInv

LEMMA StageStep ==
  ASSUME StageInv, Next
  PROVE  StageInv'
<1>1. protocol' = protocol /\ (PlainFaults' <=> PlainFaults)
  BY FaultsStay DEF Next
<1>2. CASE protocol = "barrier"
  BY <1>1, <1>2, BarrierStep DEF StageInv, Next
<1>3. CASE protocol = "majority"
  <2>1. FilterInv /\ M!Next
    BY <1>3 DEF StageInv, Next
  <2>2. FilterInv'
    BY <2>1, FilterStep
  <2>3. PlainFaults => MajorityInv'
    BY <1>3, <2>1, MajorityStep DEF StageInv
  <2> QED BY <1>1, <1>3, <2>2, <2>3 DEF StageInv
<1>4. CASE protocol = "random"
  BY <1>1, <1>4, RandomStep DEF StageInv, Next
<1> QED BY <1>1, <1>2, <1>3, <1>4 DEF StageInv

LEMMA StageStutter ==
  ASSUME StageInv, UNCHANGED vars
  PROVE  StageInv'
<1>1. /\ UNCHANGED <<clock, network, loopbacks, protocol, stage, nopCount, startAt, work, peersCompleted>>
      /\ UNCHANGED <<forging, senders, received, scheduledTally, result>>
  BY DEF vars, ofBarrier, ofMajority
<1>0. UNCHANGED <<conduct, polynomial, commitsRecv, numSharesRecv, scheduledReconst, reconstRecv>>
  BY DEF vars, ofRandom
<1>2. BarrierInv' <=> BarrierInv
  BY <1>1 DEF BarrierInv, S!TypeOK, S!Overlapping, BarrierQueues, StartsToCome, RoundsInTime,
     CompletionsInTime, Announcements, CountedPeers, AllCounted, HasArrived, ArrivalTime
<1>3. MajorityInv' <=> MajorityInv
  BY <1>1 DEF MajorityInv, M!TypeOK, MajorityQueues, StartsAtZero, ValuesInTime,
     NopRoundsInTime, MembersDone, TalliesInTime, ValuesOnTheWay, ValuesCounted, LeftAtTwo,
     ResultsAgreed
<1>4. RandomInv' <=> RandomInv
  <2>1. kinds' = kinds /\ R!Dealers' = R!Dealers /\ \A p : Counted(p)' = Counted(p)
    BY <1>0, <1>1 DEF kinds, R!Dealers, R!Conduct, Counted
  <2> QED BY <1>0, <1>1, <2>1
          DEF RandomInv, R!TypeOK, RandomQueue, RandomState, MembersStartAtZero, DealingsInTime,
              CommitsFirst, SharesCounted, RoundsEnd, MembersGoOn, OpeningsInTime
<1>5. FilterInv' <=> FilterInv
  BY <1>1 DEF FilterInv, ValuesFromMembers, OthersCounted, NothingWrong
<1>6. PlainFaults' <=> PlainFaults
  BY <1>0, <1>1 DEF PlainFaults
<1> QED BY <1>1, <1>2, <1>3, <1>4, <1>5, <1>6 DEF StageInv

LEMMA StageInvariant == FairSpec => []StageInv
<1>1. Init => StageInv
  BY StageInit
<1>2. StageInv /\ [Next]_vars => StageInv'
  BY StageStep, StageStutter
<1> QED BY <1>1, <1>2, PTL DEF FairSpec

\* Nobody leaves the barrier before the sub-protocols of everybody are completed, whatever
\* the number of parties, the ticks at which they start and the work they have.
THEOREM BarrierIsImplemented == FairSpec => ImplementsBarrier
<1>1. Init => B!Init
  <2> SUFFICES ASSUME Init PROVE B!Init
    OBVIOUS
  <2>1. protocol = "barrier" => S!Arrived = {} /\ S!Left = {}
    BY DEF Init, S!Init, S!Arrived, S!Left, M!Init, R!Init
  <2> QED BY <2>1 DEF B!Init
<1>2. StageInv /\ [Next]_vars => [B!Next]_(B!vars)
  <2> SUFFICES ASSUME StageInv, [Next]_vars
               PROVE  [B!Next]_(B!vars)
    OBVIOUS
  <2>1. CASE UNCHANGED vars
    <3>1. UNCHANGED <<protocol, stage, nopCount>>
      BY <2>1 DEF vars
    <3> QED BY <3>1 DEF B!vars, S!Arrived, S!Left
  <2>2. CASE Next
    <3>1. protocol' = protocol
      BY <2>2 DEF Next
    <3>2. CASE protocol # "barrier"
      BY <3>1, <3>2 DEF B!vars
    <3>3. CASE protocol = "barrier"
      <4>1. BarrierInv /\ S!Next
        BY <2>2, <3>3 DEF StageInv, Next
      <4> QED BY <3>1, <3>3, <4>1, BarrierImplements
              DEF B!vars, B!Next, B!Arrive, B!Leave
    <3> QED BY <3>2, <3>3
  <2> QED BY <2>1, <2>2
<1> QED BY <1>1, <1>2, StageInvariant, PTL DEF FairSpec, ImplementsBarrier, B!Spec

\* A receiver that leaves has the value that the correct members agreed on, if they are a
\* majority and no member sends the message with which a receiver ends its round, whatever
\* values the faulty ones send, up to two to a receiver, and in whatever order they come.
\* Even if faulty members send that message, so that it tallies before it has heard the
\* others, a receiver that leaves has the agreed value or none.
THEOREM MajorityAlwaysWins == FairSpec => []MajorityWins
<1>1. StageInv => MajorityWins
  <2> SUFFICES ASSUME StageInv, protocol = "majority"
               PROVE  M!NoWrongValue /\ (PlainFaults => M!MajorityWins)
    BY DEF MajorityWins
  <2>1. M!NoWrongValue
    BY DEF StageInv, FilterInv, NothingWrong, M!NoWrongValue
  <2>2. PlainFaults => M!MajorityWins
    BY DEF StageInv, MajorityInv, ResultsAgreed, M!MajorityWins
  <2> QED BY <2>1, <2>2
<1> QED BY <1>1, StageInvariant, PTL

\* A member that goes on from random generation has counted the shares of all correct
\* members, whatever the number of members, if the one that misbehaves does so towards all.
THEOREM HonestDealersAlwaysCounted == FairSpec => []HonestDealersCounted
<1>1. StageInv => HonestDealersCounted
  BY RandomCountsDealers DEF StageInv, HonestDealersCounted, R!HonestDealersCounted
<1> QED BY <1>1, StageInvariant, PTL

\* The assertion of Party.Receive holds for every message of the three protocols, whatever
\* the number of parties, who is faulty and how, and the order in which the parties start,
\* if no faulty member sends what parties send to themselves.
THEOREM MessagesAlwaysFindProtocol == FairSpec => []MessagesFindProtocol
<1>1. StageInv => MessagesFindProtocol
  <2> SUFFICES ASSUME StageInv, PlainFaults PROVE MessagesFindProtocol
    BY DEF MessagesFindProtocol
  <2>1. CASE protocol = "barrier"
    BY <2>1, BarrierMessagesFindProtocol DEF StageInv, MessagesFindProtocol
  <2>2. CASE protocol = "majority"
    BY <2>2, MajorityMessagesFindProtocol DEF StageInv, MessagesFindProtocol
  <2>3. CASE protocol = "random"
    BY <2>3, RandomMessagesFindProtocol DEF StageInv, MessagesFindProtocol
  <2> QED BY <2>1, <2>2, <2>3 DEF StageInv
<1> QED BY <1>1, StageInvariant, PTL

\* All parties leave a protocol in one tick, so that they are in lock step in what follows,
\* if no faulty member sends what parties send to themselves.
THEOREM AllLeaveTogether == FairSpec => LeaveTogether
<1> DEFINE Leave == PlainFaults =>
             \A p \in DOMAIN stage :
               stage[p] # "completed" /\ stage'[p] = "completed" => IsLeavingTick(clock')
<1>1. StageInv /\ [Next]_vars => [Leave]_vars
  <2> SUFFICES ASSUME StageInv, PlainFaults, Next, NEW p \in DOMAIN stage,
                      stage[p] # "completed", stage'[p] = "completed"
               PROVE  IsLeavingTick(clock')
    OBVIOUS
  <2>1. CASE protocol = "barrier"
    <3>1. BarrierInv /\ S!Next /\ p \in S!Party
      BY <2>1, BarrierFields DEF StageInv, Next
    <3> QED BY <2>1, <3>1, BarrierLeave DEF IsLeavingTick
  <2>2. CASE protocol = "majority"
    <3>1. MajorityInv /\ M!Next /\ p \in M!Party
      BY <2>2, MajorityFields DEF StageInv, Next
    <3> QED BY <2>2, <3>1, MajorityLeave DEF IsLeavingTick
  <2>3. CASE protocol = "random"
    <3>1. RandomInv /\ R!Next /\ p \in R!Member
      BY <2>3, RandomFields DEF StageInv, Next
    <3> QED BY <2>3, <3>1, RandomLeave DEF IsLeavingTick
  <2> QED BY <2>1, <2>2, <2>3 DEF StageInv
<1> QED BY <1>1, StageInvariant, PTL DEF FairSpec, LeaveTogether

=============================================================================
