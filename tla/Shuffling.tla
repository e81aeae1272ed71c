----------------------------- MODULE Shuffling -----------------------------
(***************************************************************************)
(* MultiPartyShufflingProtocol.cs and MultiPartySortingProtocol.cs: the    *)
(* stage machine that every party runs and the protocols it launches, each *)
(* of which is one stage long.                                             *)
(*                                                                         *)
(*   0  the trusted parties generate a shared random number,               *)
(*   1  reconstruct it                                                     *)
(*   2  and send it to the others, who take the majority;                  *)
(*   3  quorums are made of it, and every party shares its input with the  *)
(*      quorum of the first gate on its wire;                              *)
(*   4  the quorums evaluate the circuit, under a barrier;                 *)
(*   5  the quorum of the last gate on a wire reconstructs its output      *)
(*   6  and sends it to the others, who take the majority.                 *)
(*                                                                         *)
(* Shuffling sorts the inputs by random numbers, so a party shares two     *)
(* values; sorting shares one, and always has two quorums.                 *)
(*                                                                         *)
(* A party that is not trusted starts in stage 2, and what a party does in *)
(* stages 3 to 6 depends on its quorums, so parties meet again only if     *)
(* their protocols take the same number of ticks.                          *)
(*                                                                         *)
(* Values are left out: all parties are honest, and what is followed is    *)
(* who knows them.  How long the evaluation of a circuit takes is chosen   *)
(* for each quorum; its members end it in the same tick (GateEvaluation).  *)
(***************************************************************************)
EXTENDS LockStep, Integers, FiniteSets, SequencesExt

CONSTANTS
  Party,                 \* PartyIds; the wires are numbered by the positions in it
  TRUSTED_PARTY_COUNT,
  GateCount,             \* the gates of the network, with ranks 0 to GateCount - 1
  FirstGateForWire,      \* the rank of the first gate on a wire ...
  LastGateForWire,       \* ... and of the last
  QuorumLists,           \* what QuorumGenerator may return: sequences of sets
  Ends                   \* bound: the ticks in which quorums end their evaluation

ASSUME ShufflingAssumption ==
  /\ IsFiniteSet(Party) /\ Party = 0..(Cardinality(Party) - 1)
  /\ TRUSTED_PARTY_COUNT \in 1..(Cardinality(Party) - 1)
  /\ FirstGateForWire \in [Party -> 0..(GateCount - 1)]
  /\ LastGateForWire \in [Party -> 0..(GateCount - 1)]
  /\ \A qs \in QuorumLists : qs \in Seq(SUBSET Party) /\ UNION Range(qs) = Party   \* AreAllInQuorum
  /\ Ends \subseteq Nat

Wire == Party
RandomNumber == Cardinality(Party)     \* ProtocolRandom, beside the outputs of the wires
Item == Wire \union {RandomNumber}     \* what is reconstructed and sent to others

VARIABLES
  program,      \* which of the two protocols the parties run
  quorums,      \* EvalQuorums
  end,          \* the tick in which the evaluation of a quorum ends
  started,      \* how many parties NetSimulator.Run has started
  stage,        \* Stage; 7 when the protocol is completed
  live,         \* the protocols of a party that are registered, with their state
  known         \* ProtocolRandom and Result: the items a party knows

vars == <<clock, network, loopbacks, program, quorums, end, started, stage, live, known>>

-----------------------------------------------------------------------------
(***************************************************************************)
(* Who takes part in what.                                                 *)
(***************************************************************************)

\* Some of the parties, in the order of their numbers.
InOrder(S) ==
  [i \in 1..Cardinality(S) |-> CHOOSE p \in S : Cardinality({r \in S : r < p}) = i - 1]

RandGenQuorum == 0..(TRUSTED_PARTY_COUNT - 1)

\* GenerateGateQuorumAssignment: the gates go round the quorums.
QuorumOfGate(rank) == (rank % Len(quorums)) + 1

MyQuorums(p) == {q \in DOMAIN quorums : p \in quorums[q]}

InputQuorum(w) == quorums[QuorumOfGate(FirstGateForWire[w])]

\* The quorum that reconstructs an item and sends it to the others.
Holders(x) ==
  IF x = RandomNumber THEN RandGenQuorum ELSE quorums[QuorumOfGate(LastGateForWire[x])]

\* The protocols of a party.
RandGen == <<"random", 0>>
Reconstruction(x) == <<"reconstruct", x>>
Majority(x) == <<"majority", x>>
Nop(x) == <<"nop", x>>                       \* launched by Majority(x)
SortValueSharing(w) == <<"sortValue", w>>
SecretSharing(w) == <<"secret", w>>
Barrier == <<"barrier", 0>>
Evaluation(q) == <<"evaluation", q>>         \* launched by Barrier
Root == <<"root", 0>>                        \* launches the others

IsSharing(id) == id[1] \in {"sortValue", "secret"}

Parent(id) ==
  CASE id[1] = "nop" -> Majority(id[2])
    [] id[1] = "evaluation" -> Barrier
    [] OTHER -> Root

TypeOK ==
  /\ program \in {"shuffling", "sorting"}
  /\ quorums \in QuorumLists
  /\ end \in [DOMAIN quorums -> Ends]
  /\ stage \in [Party -> 0..7]
  /\ known \in [Party -> SUBSET Item]
  /\ \A p \in Party : \A id \in DOMAIN live[p] :
       /\ live[p][id].heard \subseteq Party
       /\ live[p][id].left \in Nat
       /\ Parent(id) \in DOMAIN live[p] \union {Root}

EVALUATION_QUORUM_COUNT == 2     \* of sorting, where it is a constant

Init ==
  /\ NetworkInit
  /\ quorums \in QuorumLists
  /\ program \in {"shuffling"} \union
       (IF Len(quorums) = EVALUATION_QUORUM_COUNT THEN {"sorting"} ELSE {})
  /\ end \in [DOMAIN quorums -> Ends]
  /\ started = 0
  /\ stage = [p \in Party |-> 0]
  /\ live = [p \in Party |-> <<>>]
  /\ known = [p \in Party |-> {}]

-----------------------------------------------------------------------------
(***************************************************************************)
(* Launching protocols.                                                    *)
(***************************************************************************)

\* A quorum evaluates the gates whose turn it is; with none it is done at once.
HasGates(q) == q <= GateCount

EvaluationsOf(p) == {Evaluation(q) : q \in {r \in MyQuorums(p) : HasGates(r)}}

NextRound(now, p, id) == Letter(now, p, p, [id |-> id, type |-> "nextRound"])

\* What the Start of a protocol sends, in order.
Sent(p, id, now) ==
  LET to(S) == Letters(now, p, InOrder(S), [id |-> id, type |-> "value"])
      self(child) == <<NextRound(now, p, child)>>
  IN  CASE id = RandGen -> to(RandGenQuorum)
        [] id[1] = "reconstruct" -> to(Holders(id[2]))
        [] id[1] = "majority" /\ id[2] \in known[p] ->
             to(Party \ Holders(id[2])) \o self(Nop(id[2]))
        [] IsSharing(id) /\ p = id[2] -> to(InputQuorum(p))
        [] id = Barrier ->
             FlattenSeq([q \in DOMAIN quorums |->
               IF Evaluation(q) \in EvaluationsOf(p) THEN self(Evaluation(q)) ELSE <<>>])
        [] OTHER -> <<>>

\* Mutant of AtOnce: whoever deals has nothing to wait for.
AtOnceForDealer(p, id) == IsSharing(id) /\ p = id[2]

\* A party deals its input to a quorum it is not in, and has nothing to wait for.
AtOnce(p, id) == IsSharing(id) /\ p \notin InputQuorum(id[2])

\* The protocols that the Start of a protocol launches.
Children(p, id) ==
  CASE id[1] = "majority" /\ id[2] \in known[p] -> {Nop(id[2])}
    [] id = Barrier -> EvaluationsOf(p)
    [] OTHER -> {}

\* Mutant of Rounds: those who send a value wait for one round only.
RoundsTooFew(id, now) ==
  CASE id[1] = "nop" -> 1
    [] id[1] = "evaluation" -> end[id[2]] - now
    [] OTHER -> 0

\* The rounds that a protocol spends sending to itself.
Rounds(id, now) ==
  CASE id[1] = "nop" -> 2
    [] id[1] = "evaluation" -> end[id[2]] - now
    [] OTHER -> 0

\* ExecuteSubProtocols of the root.
Launch(p, batch, now, before) ==
  LET waiting == {id \in ToSet(batch) : ~AtOnce(p, id)}
      new == waiting \union UNION {Children(p, id) : id \in waiting}
  IN  /\ live' = [live EXCEPT ![p] =
           [id \in new |-> [heard |-> {}, left |-> Rounds(id, now), scheduled |-> FALSE]]]
      /\ network' = network \o FlattenSeq([i \in DOMAIN batch |-> Sent(p, batch[i], now)])
      /\ loopbacks' = before \o
           (IF waiting = {} /\ batch # <<>> THEN <<[to |-> p, id |-> Root]>> ELSE <<>>) \o
           (IF Barrier \in waiting /\ EvaluationsOf(p) = {}
              THEN <<[to |-> p, id |-> Barrier]>> ELSE <<>>)

\* CheckCompleted for a protocol that is completed: the last one of a batch is reported.
Complete(p, id, others) ==
  LET left == [c \in DOMAIN live[p] \ {id} |-> live[p][c]]
      siblings == {c \in DOMAIN left : Parent(c) = Parent(id)}
  IN  /\ live' = [live EXCEPT ![p] = left]
      /\ loopbacks' = others \o
           IF siblings = {} THEN <<[to |-> p, id |-> Parent(id)]>> ELSE <<>>

-----------------------------------------------------------------------------
(***************************************************************************)
(* NetSimulator.Run starts the parties in turn.                            *)
(***************************************************************************)

Start ==
  LET p == started
  IN  /\ p \in Party
      /\ started' = started + 1
      /\ IF p \in RandGenQuorum
           THEN /\ Launch(p, <<RandGen>>, 0, <<>>)
                /\ UNCHANGED stage
           ELSE /\ Launch(p, <<Majority(RandomNumber)>>, 0, <<>>)
                /\ stage' = [stage EXCEPT ![p] = 2]
      /\ UNCHANGED <<clock, program, quorums, end, known>>

-----------------------------------------------------------------------------
(***************************************************************************)
(* The messages of the network.                                            *)
(***************************************************************************)

\* The messages of a type whose turn it is, for a protocol of one of the kinds.
Delivered(type, kinds) ==
  {m \in Due : /\ started = Cardinality(Party)
               /\ m.body.type = type
               /\ m.body.id[1] \in kinds
               /\ m.body.id \in DOMAIN live[m.to]}

Took(m) ==
  /\ clock' = m.at
  /\ UNCHANGED <<program, quorums, end, started, stage>>

\* Those the protocol has heard of, with the sender of m.
Heard(m) == live[m.to][m.body.id].heard \union {m.from}

\* RandGenProtocol waits for two thirds of the quorum, MajorityFilteringProtocol for two
\* thirds of those it has not heard yet.
Enough(m) ==
  LET n == Cardinality(Heard(m))
  IN  IF m.body.id = RandGen
        THEN 3 * n >= 2 * TRUSTED_PARTY_COUNT
        ELSE 3 * n >= 2 * (Cardinality(Holders(m.body.id[2])) - n)

\* Shares of the random number and values sent to others are collected.  When there are
\* enough, the protocol goes on in the next tick, so that all of this tick are let in.
Collect ==
  \E m \in Delivered("value", {"random", "majority"}) :
    LET id == m.body.id
        schedule == Enough(m) /\ ~live[m.to][id].scheduled
    IN  /\ Took(m)
        /\ live' = [live EXCEPT ![m.to][id].heard = Heard(m),
                                ![m.to][id].scheduled = @ \/ schedule]
        /\ network' = Tail(network) \o
             IF schedule THEN <<NextRound(m.at, m.to, id)>> ELSE <<>>
        /\ UNCHANGED <<loopbacks, known>>

\* Mutant of Decides: one vote more than the majority.
DecidesWithOneMore(votes, x) == 2 * votes > Cardinality(Holders(x)) + 2

\* majorityThreshold; all parties are honest, so the votes are for the same value.
Decides(votes, x) == 2 * votes > Cardinality(Holders(x))

\* The next tick has come: the majority decides, if there is one.
Tally ==
  \E m \in Delivered("nextRound", {"random", "majority"}) :
    LET x == m.body.id[2]
        votes == Cardinality(live[m.to][m.body.id].heard)
    IN  /\ Took(m)
        /\ Complete(m.to, m.body.id, <<>>)
        /\ known' = IF m.body.id # RandGen /\ Decides(votes, x)
                      THEN [known EXCEPT ![m.to] = @ \union {x}]
                      ELSE known
        /\ network' = Tail(network)

\* Mutant of Awaited: the barrier is one of the quorums of the party only.
AwaitedInQuorums(p, id) ==
  IF id = Barrier THEN UNION {quorums[q] : q \in MyQuorums(p)} ELSE Holders(id[2])

\* ReconstructionProtocol waits for all members of the quorum, SynchronizationProtocol for
\* all parties.
Awaited(p, id) == IF id = Barrier THEN Party ELSE Holders(id[2])

\* The shares and the ends of evaluations, counted by ReconstRecv and PeersCompleted.
Gather ==
  \E m \in Delivered("value", {"reconstruct", "barrier"}) :
    LET id == m.body.id
    IN  /\ Took(m)
        /\ network' = Tail(network)
        /\ IF Cardinality(Heard(m)) = Cardinality(Awaited(m.to, id))
             THEN /\ Complete(m.to, id, <<>>)
                  /\ known' = IF id = Barrier THEN known
                              ELSE [known EXCEPT ![m.to] = @ \union {id[2]}]
             ELSE /\ live' = [live EXCEPT ![m.to][id].heard = Heard(m)]
                  /\ UNCHANGED <<loopbacks, known>>

\* SharingProtocol is completed by the one share that it waits for.
ReceiveShare ==
  \E m \in Delivered("value", {"sortValue", "secret"}) :
    /\ Took(m)
    /\ Complete(m.to, m.body.id, <<>>)
    /\ network' = Tail(network)
    /\ UNCHANGED known

\* A round of a NopProtocol, or of the evaluation of a circuit.
PassRound ==
  \E m \in Delivered("nextRound", {"nop", "evaluation"}) :
    LET id == m.body.id
        left == live[m.to][id].left - 1
    IN  /\ Took(m)
        /\ IF left <= 0
             THEN /\ Complete(m.to, id, <<>>)
                  /\ network' = Tail(network)
             ELSE /\ live' = [live EXCEPT ![m.to][id].left = left]
                  /\ network' = Append(Tail(network), NextRound(m.at, m.to, id))
                  /\ UNCHANGED loopbacks
        /\ UNCHANGED known

-----------------------------------------------------------------------------
(***************************************************************************)
(* The completion of sub-protocols.                                        *)
(***************************************************************************)

Joined(id) ==
  /\ started = Cardinality(Party)
  /\ loopbacks # <<>>
  /\ Head(loopbacks).id = id
  /\ UNCHANGED <<clock, program, quorums, end, started>>

\* The evaluations of a party are completed: it tells everybody.
EvaluationsJoined ==
  /\ Joined(Barrier)
  /\ loopbacks' = Tail(loopbacks)
  /\ network' = network \o
       Letters(clock, Head(loopbacks).to, InOrder(Party), [id |-> Barrier, type |-> "value"])
  /\ UNCHANGED <<stage, live, known>>

\* A party that has sent its value has waited as long as the receivers.
NopJoined ==
  \E x \in Item :
    /\ Joined(Majority(x))
    /\ Complete(Head(loopbacks).to, Majority(x), Tail(loopbacks))
    /\ UNCHANGED <<network, stage, known>>

\* HandleMessage of the root in stage s, which launches a batch.
Advance(p, s, batch) ==
  /\ Joined(Root)
  /\ p = Head(loopbacks).to
  /\ stage[p] = s
  /\ stage' = [stage EXCEPT ![p] = s + 1]
  /\ Launch(p, batch, clock, Tail(loopbacks))
  /\ UNCHANGED known

ReconstructRandom(p) == Advance(p, 0, <<Reconstruction(RandomNumber)>>)

SendRandom(p) == Advance(p, 1, <<Majority(RandomNumber)>>)

\* For each wire the protocols that share what is on it: the secret, and the random number
\* that secrets are shuffled by.
SharingsOf(wires) ==
  FlattenSeq([i \in DOMAIN wires |->
    (IF program = "shuffling" THEN <<SortValueSharing(wires[i])>> ELSE <<>>)
      \o <<SecretSharing(wires[i])>>])

\* Mutant of InputsOf: only the wires that lead to a quorum of the party.
InputsOfQuorums(p) == SharingsOf(InOrder({w \in Wire : p \in InputQuorum(w)}))

\* SetupInputDistribution: a party deals the values of its own wire, and receives those of
\* the wires that lead to its quorums.
InputsOf(p) == SharingsOf(<<p>> \o InOrder({w \in Wire \ {p} : p \in InputQuorum(w)}))

DistributeInputs(p) ==
  /\ RandomNumber \in known[p]
  /\ Advance(p, 2, InputsOf(p))

EvaluateCircuit(p) == Advance(p, 3, <<Barrier>>)

\* SetupReconstruction: the outputs that the quorums of a party hold, one after the other.
OutputsOf(p) ==
  LET wires == InOrder({w \in Wire : p \in Holders(w)})
  IN  [i \in DOMAIN wires |-> Reconstruction(wires[i])]

ReconstructOutputs(p) == Advance(p, 4, OutputsOf(p))

\* SetupResultBroadcast: a party sends the outputs it knows and receives the others.
BroadcastResults(p) == Advance(p, 5, [i \in 1..Cardinality(Wire) |-> Majority(i - 1)])

CollectResults(p) ==
  /\ Joined(Root)
  /\ p = Head(loopbacks).to
  /\ stage[p] = 6
  /\ stage' = [stage EXCEPT ![p] = 7]
  /\ loopbacks' = Tail(loopbacks)
  /\ UNCHANGED <<network, live, known>>

Next ==
  \/ Start
  \/ Collect \/ Tally \/ Gather \/ ReceiveShare \/ PassRound
  \/ EvaluationsJoined \/ NopJoined
  \/ \E p \in Party :
       \/ ReconstructRandom(p) \/ SendRandom(p) \/ DistributeInputs(p)
       \/ EvaluateCircuit(p) \/ ReconstructOutputs(p) \/ BroadcastResults(p)
       \/ CollectResults(p)

Spec == Init /\ [][Next]_vars

\* The simulator runs until its queues are empty.
FairSpec == Spec /\ WF_vars(Next)

-----------------------------------------------------------------------------

\* The assertion of Party.Receive: whoever is written to has registered the protocol, so
\* nobody is a stage behind those who write to it, or has left before them.
MessagesFindProtocol ==
  started = Cardinality(Party) =>
    \A m \in Due : m.body.id \in DOMAIN live[m.to]

\* When a tick is over, the parties are in the same stage, apart from those that generate
\* the random number while the others wait for it, and those that have received all
\* inputs before the others.
InStep ==
  (\A i \in DOMAIN network : network[i].at > clock) /\ loopbacks = <<>> /\ started > 0 =>
    \A p, r \in Party :
      \/ stage[p] = stage[r]
      \/ {stage[p], stage[r]} \subseteq {0, 1, 2}
      \/ {stage[p], stage[r]} = {3, 4}

\* The barrier: nobody opens the outputs while a quorum still evaluates gates.
NoOutputBeforeTheEnd ==
  \A p, r \in Party :
    stage[p] = 5 => \A id \in DOMAIN live[r] : id[1] # "evaluation"

\* A value that is sent to a party gets there: whoever has left a stage knows what the
\* stage was for.
KnowsResults ==
  \A p \in Party :
    /\ stage[p] \in 3..7 => RandomNumber \in known[p]
    /\ stage[p] = 7 => Wire \subseteq known[p]

\* The protocol is completed at every party.
EverybodyCompletes == <>(\A p \in Party : stage[p] = 7)

=============================================================================
