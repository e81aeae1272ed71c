--------------------------- MODULE GateEvaluation ---------------------------
(***************************************************************************)
(* CircuitEvaluationProtocol.cs: the gates of a circuit are assigned to    *)
(* quorums.  Every member of a quorum runs a MultiQuorumGateEvaluation for *)
(* each gate of the quorum: it waits for the shares of the inputs, runs    *)
(* the protocol that evaluates the gate, and passes its output shares on,  *)
(* to itself with a loopback if it is a member of the next quorum as well, *)
(* and to the members of the next quorum with a resharing protocol if that *)
(* is another one.                                                         *)
(*                                                                         *)
(* The two protocols that the factory makes are abstracted to what the     *)
(* evaluation can see of them.  Evaluating a gate takes `Rounds` exchanges *)
(* in which every member sends to all; each is a sub-protocol of its own,  *)
(* whose identifier is the next number of the member's copy of the quorum. *)
(* In a resharing every member of the one quorum sends to every member of  *)
(* the other, who is finished one tick after having heard them all.        *)
(***************************************************************************)
EXTENDS LockStep, Integers, FiniteSets, SequencesExt

CONSTANTS
  Quorum,        \* the quorums, numbered
  Circuits,      \* the circuits: sequences of gates, in topological order
  Memberships,   \* the members of each quorum
  Rounds         \* bound: the exchanges that evaluate a gate

ASSUME CircuitAssumption ==
  /\ Quorum \subseteq Nat
  /\ Rounds \in Nat \ {0}

Port == {1, 2}

VARIABLES
  circuit,     \* each gate with the wires at its ports and its quorum
  members,     \* Members of each quorum
  started,     \* the parties whose Start has been called
  toStart,     \* what the call of Start that is running has left to start
  stage,       \* Stage of each gate evaluation of a party
  shares,      \* the ports whose InputShares have been received
  awaited,     \* the resharing protocols that a gate evaluation waits for
  exchange,    \* the exchange that a gate evaluation is in
  number,      \* WhichProtocol of a party's copy of a quorum
  resharing,   \* the resharing protocols of a party that are registered
  heard,       \* the parties that such a protocol has heard
  completed    \* the circuit evaluations of a party that are completed

instance == <<circuit, members>>
protocols == <<stage, shares, awaited, exchange, number, resharing, heard, completed>>
vars == <<clock, network, loopbacks, instance, started, toStart, protocols>>

Party == UNION {members[q] : q \in Quorum}
Gate == DOMAIN circuit
Wire == Gate \X Port       \* an input of a gate, and the wire that leads to it

QuorumOf(g) == circuit[g].quorum
Members(g) == members[QuorumOf(g)]

\* Where the input of a gate comes from: the port that was the last on the same wire,
\* or none if it is an input of the circuit.
Source(w) ==
  {v \in Wire :
     /\ v[1] < w[1]
     /\ circuit[v[1]].wires[v[2]] = circuit[w[1]].wires[w[2]]
     /\ \A g \in (v[1] + 1)..(w[1] - 1), i \in Port :
          circuit[g].wires[i] # circuit[w[1]].wires[w[2]]}

\* The inputs that the outputs of g lead to, in the order of its ports.
Targets(g) ==
  LET lead(i) == {w \in Wire : <<g, i>> \in Source(w)}
  IN  SetToSeq(lead(1)) \o SetToSeq(lead(2))

SourceQuorum(w) == QuorumOf((CHOOSE v \in Source(w) : TRUE)[1])

TypeOK ==
  /\ clock \in Nat
  /\ \A i \in DOMAIN network : network[i].at \in {clock, clock + 1}
  /\ stage \in [Party -> [Gate -> {"none", "receive", "evaluate", "send", "done"}]]
  /\ shares \in [Party -> [Gate -> SUBSET Port]]
  /\ awaited \in [Party -> [Gate -> SUBSET Wire]]
  /\ \A p \in Party, g \in Gate :
       /\ exchange[p][g].round \in 0..Rounds
       /\ exchange[p][g].heard \subseteq Members(g)
       /\ p \notin Members(g) => stage[p][g] = "none"
  /\ number \in [Party -> [Quorum -> Nat]]
  /\ resharing \in [Party -> SUBSET Wire]
  /\ heard \in [Party -> [Wire -> SUBSET Party]]
  /\ completed \in [Party -> SUBSET Quorum]

Init ==
  /\ NetworkInit
  /\ circuit \in Circuits
  /\ members \in Memberships
  /\ started = {}
  /\ toStart = <<>>
  /\ stage = [p \in Party |-> [g \in Gate |-> "none"]]
  /\ shares = [p \in Party |-> [g \in Gate |-> {}]]
  /\ awaited = [p \in Party |-> [g \in Gate |-> {}]]
  /\ exchange = [p \in Party |-> [g \in Gate |-> [id |-> 0, round |-> 0, heard |-> {}]]]
  /\ number = [p \in Party |-> [q \in Quorum |-> 0]]
  /\ resharing = [p \in Party |-> {}]
  /\ heard = [p \in Party |-> [w \in Wire |-> {}]]
  /\ completed = [p \in Party |-> {}]

-----------------------------------------------------------------------------
(***************************************************************************)
(* Steps that several handlers take.                                       *)
(***************************************************************************)

Loopback(p, type, about) == [to |-> p, type |-> type, about |-> about]

MembersInOrder(q) == SetToSortSeq(members[q], <)

\* Quorum.GetNextProtocolId, of p's copy of the quorum.
NextNumber(p, q) == number[p][q]

\* The next exchange of gate g: the sub-protocol takes the next number of the quorum and
\* sends to all members.  `gate` and `round` say what the sender uses the identifier for;
\* they are not in the message.
BeginRound(p, g, k, now, waiting) ==
  LET q == QuorumOf(g)
      n == NextNumber(p, q)
  IN  /\ number' = [number EXCEPT ![p][q] = @ + 1]
      /\ exchange' = [exchange EXCEPT ![p][g] = [id |-> n, round |-> k, heard |-> {}]]
      /\ network' = waiting \o Letters(now, p, MembersInOrder(q),
                       [type |-> "exchange", quorum |-> q, id |-> n, gate |-> g, round |-> k])

\* The shares of the ports have come: StartGateEvaluation if they are all.
ReceiveShares(p, g, ports, now) ==
  /\ shares' = [shares EXCEPT ![p][g] = @ \union ports]
  /\ IF shares'[p][g] = Port
       THEN /\ stage' = [stage EXCEPT ![p][g] = "evaluate"]
            /\ BeginRound(p, g, 1, now, network)
       ELSE /\ stage' = [stage EXCEPT ![p][g] = "receive"]
            /\ UNCHANGED <<number, exchange, network>>

\* The gates of the quorum of g that p has completed, if g becomes one of them.
LastOfQuorum(p, g) ==
  \A h \in Gate \ {g} : QuorumOf(h) = QuorumOf(g) => stage[p][h] = "done"

\* The gate evaluation is completed; the circuit evaluation of its quorum is told if it
\* was the last one.
Finished(p, g) ==
  IF LastOfQuorum(p, g) THEN <<Loopback(p, "circuit", QuorumOf(g))>> ELSE <<>>

-----------------------------------------------------------------------------
(***************************************************************************)
(* The start, at tick 0 in any order of the parties.                       *)
(***************************************************************************)

QuorumsOf(p) == {q \in Quorum : p \in members[q]}

\* The gates of one quorum after those of another, each in topological order.
GatesOf(p) ==
  FlattenSeq([i \in 1..Cardinality(QuorumsOf(p)) |->
    LET q == SetToSortSeq(QuorumsOf(p), <)[i]
    IN  SetToSortSeq({g \in Gate : QuorumOf(g) = q}, <)])

\* The circuit evaluations of p, one for each of its quorums; one that has no gate is
\* completed at once.
Start(p) ==
  /\ toStart = <<>> /\ loopbacks = <<>>
  /\ IsTime(0)
  /\ p \notin started
  /\ started' = started \union {p}
  /\ toStart' = [i \in DOMAIN GatesOf(p) |-> <<p, GatesOf(p)[i]>>]
  /\ completed' = [completed EXCEPT ![p] =
       {q \in QuorumsOf(p) : \A g \in Gate : QuorumOf(g) # q}]
  /\ UNCHANGED <<clock, network, loopbacks, instance, stage, shares, awaited, exchange,
                 number, resharing, heard>>

\* The inputs of g that p receives from a quorum it is not a member of.
ToReceive(p, g) ==
  {w \in {g} \X Port : Source(w) # {} /\ p \notin members[SourceQuorum(w)]}

\* MultiQuorumGateEvaluation.Start of the next gate.
StartGate ==
  /\ toStart # <<>>
  /\ toStart' = Tail(toStart)
  /\ LET p == Head(toStart)[1]
         g == Head(toStart)[2]
         inputs == {i \in Port : Source(<<g, i>>) = {}}
     IN  /\ ReceiveShares(p, g, inputs, 0)
         /\ awaited' = [awaited EXCEPT ![p][g] = ToReceive(p, g)]
         /\ resharing' = [resharing EXCEPT ![p] = @ \union ToReceive(p, g)]
  /\ UNCHANGED <<clock, loopbacks, instance, started, heard, completed>>

-----------------------------------------------------------------------------
(***************************************************************************)
(* The messages of the network.                                            *)
(***************************************************************************)

\* The message whose turn it is, once all calls of Start have returned.
Turn == IF started = Party /\ toStart = <<>> THEN Due ELSE {}

\* The exchange that is registered under a number, if identifiers had no quorum in them ...
ExchangingForAny(p, q, n) ==
  {g \in Gate : /\ stage[p][g] = "evaluate"
                /\ exchange[p][g].id = n
                /\ exchange[p][g].heard # Members(g)}

\* ... but they have: the one that is registered under a number of the quorum q.
Exchanging(p, q, n) ==
  {g \in Gate : /\ QuorumOf(g) = q
                /\ stage[p][g] = "evaluate"
                /\ exchange[p][g].id = n
                /\ exchange[p][g].heard # Members(g)}

\* A member has been heard; the exchange is completed when all have.
HandleExchange ==
  \E m \in Turn :
    /\ m.body.type = "exchange"
    /\ clock' = m.at
    /\ network' = Tail(network)
    /\ \E g \in Exchanging(m.to, m.body.quorum, m.body.id) :
         LET all == exchange[m.to][g].heard \union {m.from}
         IN  /\ exchange' = [exchange EXCEPT ![m.to][g].heard = all]
             /\ loopbacks' = IF all = Members(g) THEN <<Loopback(m.to, "exchanged", g)>>
                                                 ELSE <<>>
    /\ UNCHANGED <<instance, started, toStart, stage, shares, awaited, number,
                   resharing, heard, completed>>

\* A resharing that has heard every member of the other quorum waits for a tick.
HandleReshare ==
  \E m \in Turn :
    LET p == m.to
        w == m.body.wire
        all == heard[p][w] \union {m.from}
    IN  /\ m.body.type = "reshare"
        /\ w \in resharing[p]
        /\ clock' = m.at
        /\ heard' = [heard EXCEPT ![p][w] = all]
        /\ network' = IF all = members[SourceQuorum(w)]
             THEN Append(Tail(network), Letter(m.at, p, p, [type |-> "nextRound", wire |-> w]))
             ELSE Tail(network)
        /\ UNCHANGED <<loopbacks, instance, started, toStart, stage, shares, awaited, exchange,
                       number, resharing, completed>>

HandleNextRound ==
  \E m \in Turn :
    /\ m.body.type = "nextRound"
    /\ m.body.wire \in resharing[m.to]
    /\ clock' = m.at
    /\ network' = Tail(network)
    /\ loopbacks' = <<Loopback(m.to, "reshared", m.body.wire)>>
    /\ UNCHANGED <<instance, started, toStart, protocols>>

-----------------------------------------------------------------------------
(***************************************************************************)
(* The loopbacks.                                                          *)
(***************************************************************************)

Looped(type) ==
  /\ toStart = <<>>
  /\ loopbacks # <<>>
  /\ Head(loopbacks).type = type
  /\ UNCHANGED <<clock, instance, started, toStart>>

\* ... as there is after k exchanges of a gate.
AnotherRound(k) == k < Rounds

\* The protocol that evaluates a gate goes on to its next exchange, or is completed.
HandleExchanged ==
  LET p == Head(loopbacks).to
      g == Head(loopbacks).about
      k == exchange[p][g].round
  IN  /\ Looped("exchanged")
      /\ IF AnotherRound(k)
           THEN /\ BeginRound(p, g, k + 1, clock, network)
                /\ loopbacks' = Tail(loopbacks)
           ELSE /\ loopbacks' = Append(Tail(loopbacks), Loopback(p, "evaluated", g))
                /\ UNCHANGED <<number, exchange, network>>
      /\ UNCHANGED <<stage, shares, awaited, resharing, heard, completed>>

\* The outputs of g that another quorum waits for, and those that it keeps.
Reshared(g) == SelectSeq(Targets(g), LAMBDA w : QuorumOf(w[1]) # QuorumOf(g))
Kept(g) == SelectSeq(Targets(g), LAMBDA w : QuorumOf(w[1]) = QuorumOf(g))

\* The loopbacks with the shares of p for the inputs ws of other gates.
Passed(p, ws) == [i \in DOMAIN ws |-> Loopback(p, "share", ws[i])]

\* The outputs that p as a member of both quorums passes on to itself, once they have been
\* reshared.
Mine(p, g) == SelectSeq(Reshared(g), LAMBDA w : p \in Members(w[1]))

\* What p passes on to itself at once, with the shares yet to be reshared ...
PassedBeforeResharing(p, g) == Passed(p, Kept(g) \o Mine(p, g))

\* ... but those are passed on by HandleSent.
PassedAtOnce(p, g) == Passed(p, Kept(g))

\* The resharing protocols of p that are completed in their Start: p is no member of the
\* quorum that receives.
AtOnce(p, g) == SelectSeq(Reshared(g), LAMBDA w : p \notin Members(w[1]))

\* SendShareStage, when the gate has been evaluated.
HandleEvaluated ==
  LET p == Head(loopbacks).to
      g == Head(loopbacks).about
      sent == Reshared(g)
  IN  /\ Looped("evaluated")
      /\ network' = network \o FlattenSeq([i \in DOMAIN sent |->
           Letters(clock, p, MembersInOrder(QuorumOf(sent[i][1])),
                   [type |-> "reshare", wire |-> sent[i]])])
      /\ loopbacks' = Tail(loopbacks) \o PassedAtOnce(p, g)
           \o [i \in DOMAIN AtOnce(p, g) |-> Loopback(p, "reshared", AtOnce(p, g)[i])]
           \o IF sent = <<>> THEN Finished(p, g) ELSE <<>>
      /\ stage' = [stage EXCEPT ![p][g] = IF sent = <<>> THEN "done" ELSE "send"]
      /\ awaited' = [awaited EXCEPT ![p][g] = ToSet(sent)]
      /\ resharing' = [resharing EXCEPT ![p] = @ \union ToSet(sent)]
      /\ UNCHANGED <<shares, exchange, number, heard, completed>>

\* The gate evaluation that receives the shares of w, whoever p is ...
LauncherReceiving(p, w) == w[1]

\* ... and the gate evaluation of p that runs the resharing of w.
Launcher(p, w) ==
  IF p \in members[SourceQuorum(w)] THEN (CHOOSE v \in Source(w) : TRUE)[1] ELSE w[1]

\* A resharing is completed; its gate evaluation is told when it was the last one.
HandleReshared ==
  LET p == Head(loopbacks).to
      w == Head(loopbacks).about
      g == Launcher(p, w)
      left == awaited[p][g] \ {w}
  IN  /\ Looped("reshared")
      /\ resharing' = [resharing EXCEPT ![p] = @ \ {w}]
      /\ awaited' = [awaited EXCEPT ![p][g] = left]
      /\ loopbacks' = Tail(loopbacks)
           \o IF left = {} THEN <<Loopback(p, "subProtocols", g)>> ELSE <<>>
      /\ UNCHANGED <<network, stage, shares, exchange, number, heard, completed>>

\* The resharing protocols of g are completed, those of its inputs ...
HandleReceived ==
  LET p == Head(loopbacks).to
      g == Head(loopbacks).about
  IN  /\ Looped("subProtocols")
      /\ stage[p][g] = "receive"
      /\ ReceiveShares(p, g, {w[2] : w \in ToReceive(p, g)}, clock)
      /\ loopbacks' = Tail(loopbacks)
      /\ UNCHANGED <<awaited, resharing, heard, completed>>

\* ... or those of its outputs: the shares that p itself has received are passed on.
HandleSent ==
  LET p == Head(loopbacks).to
      g == Head(loopbacks).about
  IN  /\ Looped("subProtocols")
      /\ stage[p][g] = "send"
      /\ stage' = [stage EXCEPT ![p][g] = "done"]
      /\ loopbacks' = Tail(loopbacks) \o Passed(p, Mine(p, g)) \o Finished(p, g)
      /\ UNCHANGED <<network, shares, awaited, exchange, number, resharing, heard, completed>>

\* A share that p has passed on to itself.
HandleShare ==
  LET p == Head(loopbacks).to
      w == Head(loopbacks).about
  IN  /\ Looped("share")
      /\ stage[p][w[1]] = "receive"
      /\ ReceiveShares(p, w[1], {w[2]}, clock)
      /\ loopbacks' = Tail(loopbacks)
      /\ UNCHANGED <<awaited, resharing, heard, completed>>

\* The circuit evaluation of a quorum has the outputs of all its gates.
HandleCircuit ==
  LET p == Head(loopbacks).to
      q == Head(loopbacks).about
  IN  /\ Looped("circuit")
      /\ completed' = [completed EXCEPT ![p] = @ \union {q}]
      /\ loopbacks' = Tail(loopbacks)
      /\ UNCHANGED <<network, stage, shares, awaited, exchange, number, resharing, heard>>

Next ==
  \/ \E p \in Party : Start(p)
  \/ StartGate
  \/ HandleExchange
  \/ HandleReshare
  \/ HandleNextRound
  \/ HandleExchanged
  \/ HandleEvaluated
  \/ HandleReshared
  \/ HandleReceived
  \/ HandleSent
  \/ HandleShare
  \/ HandleCircuit

Spec == Init /\ [][Next]_vars

\* Every party starts, and the simulator runs until its queues are empty.
FairSpec == Spec /\ WF_vars(Next)

-----------------------------------------------------------------------------

\* The assertions of Party.Receive and of the handlers: a message whose turn it is finds
\* the protocol it is for, and a share the gate that waits for it and has not got it.
MessagesFindProtocol ==
  /\ \A m \in Turn :
       IF m.body.type = "exchange"
         THEN Exchanging(m.to, m.body.quorum, m.body.id) # {}
         ELSE m.body.wire \in resharing[m.to]
  /\ (loopbacks # <<>> /\ Head(loopbacks).type = "share") =>
       LET w == Head(loopbacks).about
       IN  /\ stage[Head(loopbacks).to][w[1]] = "receive"
           /\ w[2] \notin shares[Head(loopbacks).to][w[1]]

\* The members of a quorum take their identifiers from counters of their own; still an
\* identifier means the same exchange of the same gate to all of them, so that no message
\* is taken for one of another gate that is evaluated at the same time.
IdentifiersAgree ==
  \A i \in DOMAIN network :
    LET m == network[i]
    IN  m.body.type = "exchange" =>
          \A g \in Exchanging(m.to, m.body.quorum, m.body.id) :
            g = m.body.gate /\ exchange[m.to][g].round = m.body.round

\* The members of a quorum begin to evaluate a gate in the same tick.
InLockStep ==
  \A p \in Party, g \in Gate :
    /\ stage[p][g] = "evaluate"
    /\ clock > 0
    /\ \A i \in DOMAIN network : network[i].at > clock
    /\ loopbacks = <<>>
    => \A r \in Members(g) :
         stage[r][g] = "evaluate" /\ exchange[r][g].round = exchange[p][g].round

\* Every circuit evaluation is completed.
EverybodyCompletes == <>(\A p \in Party : completed[p] = QuorumsOf(p))

=============================================================================
