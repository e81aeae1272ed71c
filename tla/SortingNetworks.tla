--------------------------- MODULE SortingNetworks ---------------------------
(***************************************************************************)
(* Building networks, as SortingNetwork.cs and LPSorting.cs do: gates and  *)
(* networks are appended, permutation gates are collapsed, and at last the *)
(* gates are put in topological order, by which CircuitEvaluationProtocol  *)
(* numbers them.                                                           *)
(*                                                                         *)
(* A behaviour begins with a network of a factory, or with a few gates and *)
(* an empty part of it, to which gates are appended in any way.            *)
(***************************************************************************)
EXTENDS Circuits

CONSTANTS
  WireCount,      \* wires of a network that is built in any way
  PartWireCount,  \* and of the part that is appended to it
  Beginnings,     \* pairs: the gates, with their wires, that such a network begins with,
                  \* and a bound on the gates it may have
  Sizes,          \* numbers of wires for the factories: powers of two
  MaxOrdered      \* bound on the wires of a network whose gates are put in order

\* The gates that can be appended: three wires allow a permutation that is not its inverse.
Gates == {ComputationGate, SwapGate, MultiGroupInserterGate(3, 2, 1)}

\* Wires for n ports, all different.
WireLists(wireCount, n) == {w \in [1..n -> 0..(wireCount - 1)] : IsInjective(w)}

\* A gate and the wires it is appended to.
Steps(wireCount) == UNION {{gate} \X WireLists(wireCount, gate.count) : gate \in Gates}

\* The numbers of wires for which the factories are looked at.
Powers == {1, 2, 4, 8, 16, 32, 64, 128, 256, 512, 1024}

ASSUME SortingNetworksAssumption ==
  /\ WireCount \in Nat /\ PartWireCount \in Nat /\ 0 < PartWireCount /\ PartWireCount <= WireCount
  /\ \A b \in Beginnings : b[1] \in Seq(Steps(WireCount)) /\ b[2] \in Nat
  /\ MaxOrdered \in Nat
  /\ Sizes \subseteq Powers

VARIABLES
  network,   \* the network that is built
  part,      \* another one, to be appended
  steps,     \* the gates of both as they were appended: what the network should do
  made,      \* the factory that has made the network, and its arguments
  deque,     \* gateDeque, while topological ranks are assigned
  order,     \* sortList: the gates that have a rank
  ranking    \* AssignTopologicalRanks has begun

vars == <<network, part, steps, made, deque, order, ranking>>

-----------------------------------------------------------------------------
(***************************************************************************)
(* Factories.                                                              *)
(***************************************************************************)

\* Gates are appended one after the other.
AppendGates(net, list) ==
  FoldLeft(LAMBDA before, step : AppendGate(before, step[1], step[2]), net, list)

\* Appending a network to both halves of the wires.
AppendToHalves(net, lower, upper) ==
  AppendNetworkAt(AppendNetworkAt(net, lower, 0), upper, net.wireCount \div 2)

\* A round of comparisons of each wire with that in the other half.
ButterflyTournamentRound(n) ==
  AppendGates(EmptyNetwork(n),
    [i \in 1..(n \div 2) |-> <<ComputationGate, <<i - 1, i - 1 + n \div 2>>>>])

ButterflyTournament[n \in Powers] ==
  LET round == AppendNetworkAt(EmptyNetwork(n), ButterflyTournamentRound(n), 0)
  IN CASE n = 1 -> EmptyNetwork(n)
       [] n = 2 -> round
       [] OTHER -> AppendToHalves(round, ButterflyTournament[n \div 2],
                                         ButterflyTournament[n \div 2])

\* A swap follows each comparison if the order is inverted.
BitonicSplit(n, invertOrder) ==
  LET on(gate, i) == <<gate, <<i, i + n \div 2>>>>
  IN AppendGates(EmptyNetwork(n),
       IF invertOrder
         THEN [k \in 1..(2 * (n \div 2)) |->
                 on(IF k % 2 = 1 THEN ComputationGate ELSE SwapGate, (k - 1) \div 2)]
         ELSE [k \in 1..(n \div 2) |-> on(ComputationGate, k - 1)])

BitonicMerge(invertOrder) ==
  LET merge[n \in Powers] ==
        LET split == AppendNetworkAt(EmptyNetwork(n), BitonicSplit(n, invertOrder), 0)
        IN IF n > 2 THEN AppendToHalves(split, merge[n \div 2], merge[n \div 2]) ELSE split
  IN merge

BitonicSort[n \in Powers] ==
  [invertOrder \in BOOLEAN |->
     LET halves == IF n >= 4
                     THEN AppendToHalves(EmptyNetwork(n), BitonicSort[n \div 2][FALSE],
                                                          BitonicSort[n \div 2][TRUE])
                     ELSE EmptyNetwork(n)
     IN AppendNetworkAt(halves, BitonicMerge(invertOrder)[n], 0)]

BinaryTreeInsertion[n \in Powers] ==
  LET first == AppendGate(EmptyNetwork(n), ComputationGate, <<0, n \div 2>>)
  IN CASE n = 1 -> EmptyNetwork(n)
       [] n = 2 -> first
       [] OTHER -> AppendToHalves(first, BinaryTreeInsertion[n \div 2],
                                         BinaryTreeInsertion[n \div 2])

\* LPSortingNetwork: on up to 2^11 wires, where the method of the paper gains nothing, this
\* is bitonic sort.
LPSortingNetwork(n) == AppendNetworkAt(EmptyNetwork(n), BitonicSort[n][FALSE], 0)

Factory(call) ==
  LET n == call[2]
  IN CASE call[1] = "ButterflyTournament" -> ButterflyTournament[n]
       [] call[1] = "BitonicMerge" -> BitonicMerge(FALSE)[n]
       [] call[1] = "InvertedBitonicMerge" -> BitonicMerge(TRUE)[n]
       [] call[1] = "InvertedBitonicSort" -> BitonicSort[n][TRUE]
       [] call[1] = "BinaryTreeInsertion" -> BinaryTreeInsertion[n]
       [] OTHER -> LPSortingNetwork(n)

Factories == {"ButterflyTournament", "BitonicMerge", "InvertedBitonicMerge",
              "InvertedBitonicSort", "BinaryTreeInsertion", "LPSortingNetwork"}

\* The second part is the bound on the gates of the network.
MadeByHand == made[1] = "by hand"

-----------------------------------------------------------------------------
(***************************************************************************)
(* Behaviours.                                                             *)
(***************************************************************************)

Init ==
  /\ \/ \E b \in Beginnings :
          /\ made = <<"by hand", b[2]>>
          /\ network = AppendGates(EmptyNetwork(WireCount), b[1])
          /\ steps = [network |-> b[1], part |-> <<>>]
     \/ /\ steps = [network |-> <<>>, part |-> <<>>]
        /\ made \in Factories \X Sizes
        /\ network = Factory(made)
  /\ part = EmptyNetwork(PartWireCount)
  /\ deque = <<>>
  /\ order = <<>>
  /\ ranking = FALSE

Building == MadeByHand /\ ~ranking

AppendToNetwork ==
  /\ Building
  /\ network.size + part.size < made[2]
  /\ \E step \in Steps(network.wireCount) :
       /\ network' = AppendGate(network, step[1], step[2])
       /\ steps' = [steps EXCEPT !.network = Append(@, step)]
  /\ UNCHANGED <<part, made, deque, order, ranking>>

AppendToPart ==
  /\ Building
  /\ network.size + part.size < made[2]
  /\ \E step \in Steps(part.wireCount) :
       /\ part' = AppendGate(part, step[1], step[2])
       /\ steps' = [steps EXCEPT !.part = Append(@, step)]
  /\ UNCHANGED <<network, made, deque, order, ranking>>

OnWires(list, wires) ==
  [k \in DOMAIN list |-> <<list[k][1], [j \in DOMAIN list[k][2] |-> wires[list[k][2][j] + 1]]>>]

\* A clone of the part may be appended, and the part again later.
AppendPart ==
  /\ Building
  /\ part.size > 0
  /\ network.size + part.size <= made[2]
  /\ \E wires \in WireLists(network.wireCount, PartWireCount) :
       /\ network' = AppendNetwork(network, part, wires)
       /\ steps' = [steps EXCEPT !.network = @ \o OnWires(steps.part, wires)]
  /\ UNCHANGED <<part, made, deque, order, ranking>>

CollapsePermutationGates ==
  /\ ~ranking
  /\ PermutationGates(network.circuit) # {}
  /\ CanCollapse(network.circuit)
  /\ network' = Collapse(network)
  /\ UNCHANGED <<part, steps, made, deque, order, ranking>>

\* AssignTopologicalRanks begins with the gates of the open inputs.  The set does not promise
\* an order; its first member is passed over.
AssignTopologicalRanks ==
  LET c == network.circuit
      some == SetToSeq(c.inputAddrs)
  IN /\ ~ranking
     /\ c.inputAddrs # {} /\ Cardinality(c.inputAddrs) <= MaxOrdered
     /\ \E p \in {f \in [DOMAIN some -> DOMAIN some] : IsInjective(f)} :
          deque' = Tail([k \in DOMAIN some |-> some[p[k]][1]])
     /\ ranking' = TRUE
     /\ part' = EmptyNetwork(PartWireCount)      \* not used any more
     /\ steps' = [steps EXCEPT !.part = <<>>]
     /\ UNCHANGED <<network, made, order>>

HasRank(g) == \E k \in DOMAIN order : order[k] = g

Ranking == ranking /\ deque # <<>>
Current == Head(deque)

\* The gates at the other ends of the connected ports of a gate, by port.
Neighbours(g, counterparties) ==
  FlattenSeq([k \in 1..network.circuit.gates[g].count |->
    IF <<g, k - 1>> \in DOMAIN counterparties THEN <<counterparties[<<g, k - 1>>][1]>> ELSE <<>>])

Predecessors(g) == Neighbours(g, network.circuit.inputCounterparties)
Successors(g) == Neighbours(g, network.circuit.outputCounterparties)

\* The gates of a list that have no rank.
Unranked(list) ==
  FlattenSeq([k \in DOMAIN list |-> IF HasRank(list[k]) THEN <<>> ELSE <<list[k]>>])

\* Mutant of MissingPredecessors: the last of several ports is not looked at.
MissingButLast(g) ==
  LET ps == Predecessors(g)
  IN Unranked(IF Len(ps) > 1 THEN Front(ps) ELSE ps)

\* The predecessors that need a rank first.
MissingPredecessors(g) == Unranked(Predecessors(g))

SkipRanked ==
  /\ Ranking
  /\ HasRank(Current)
  /\ deque' = Tail(deque)
  /\ UNCHANGED <<network, part, steps, made, order, ranking>>

PredecessorsFirst ==
  /\ Ranking
  /\ ~HasRank(Current)
  /\ MissingPredecessors(Current) # <<>>
  /\ deque' = Reverse(MissingPredecessors(Current)) \o deque
  /\ UNCHANGED <<network, part, steps, made, order, ranking>>

AssignRank ==
  /\ Ranking
  /\ ~HasRank(Current)
  /\ MissingPredecessors(Current) = <<>>
  /\ order' = Append(order, Current)
  /\ deque' = Tail(deque) \o Successors(Current)
  /\ UNCHANGED <<network, part, steps, made, ranking>>

Next ==
  \/ AppendToNetwork
  \/ AppendToPart
  \/ AppendPart
  \/ CollapsePermutationGates
  \/ AssignTopologicalRanks
  \/ SkipRanked
  \/ PredecessorsFirst
  \/ AssignRank

Spec == Init /\ [][Next]_vars

-----------------------------------------------------------------------------
(***************************************************************************)
(* What a network does with bits; what sorts these sorts everything.       *)
(***************************************************************************)

Bits(n) == [0..(n - 1) -> {0, 1}]

\* What leaves a gate, of what comes in: the lesser value first.
Lesser(a, b) == IF a < b THEN a ELSE b
Applied(gate, in) ==
  IF gate.computes
    THEN [p \in 0..1 |-> IF p = 0 THEN Lesser(in[0], in[1]) ELSE in[0] + in[1] - Lesser(in[0], in[1])]
    ELSE [q \in PortsOf(gate) |-> in[CHOOSE p \in PortsOf(gate) : Permute(gate, p) = q]]

\* One gate after the other, on the wires it was appended to.
Straight(list, x) ==
  FoldLeft(LAMBDA y, step :
             LET gate == step[1]  wires == step[2]
                 out == Applied(gate, [p \in PortsOf(gate) |-> y[wires[p + 1]]])
             IN [w \in DOMAIN y |-> IF IsOn(wires, w) THEN out[PortOf(wires, w)] ELSE y[w]],
           x, list)

\* By connections: the values at output addresses, in the order in which gates were numbered.
\* (An input address that is neither connected nor the first of a wire gets nothing.)
Incoming(net, x, values, a) ==
  LET from == net.circuit.inputCounterparties
  IN IF a \in DOMAIN from
       THEN values[from[a]]
       ELSE IF \E w \in Wires(net) : net.first[w] = a
              THEN x[CHOOSE w \in Wires(net) : net.first[w] = a]
              ELSE 2

Values(net, x) ==
  FoldLeft(LAMBDA values, g :
             LET gate == net.circuit.gates[g]
                 out == Applied(gate, [p \in PortsOf(gate) |-> Incoming(net, x, values, <<g, p>>)])
             IN [a \in DOMAIN values \cup LocalAddrs(g, gate) |->
                   IF a[1] = g THEN out[a[2]] ELSE values[a]],
           EmptyFunction,
           SelectSeq([k \in 1..net.size |-> k], LAMBDA g : g \in DOMAIN net.circuit.gates))

Evaluated(net, x) ==
  LET values == Values(net, x)
  IN [w \in Wires(net) |-> IF net.last[w] = NoAddr THEN x[w] ELSE values[net.last[w]]]

Ascending(y) == \A v, w \in DOMAIN y : v < w => y[v] <= y[w]
Descending(y) == \A v, w \in DOMAIN y : v < w => y[v] >= y[w]
SameValues(x, y) ==
  Cardinality({w \in DOMAIN x : x[w] = 1}) = Cardinality({w \in DOMAIN y : y[w] = 1})

\* Up and then down, or a rotation of such: at most two changes around the circle.
Bitonic(x) ==
  Cardinality({w \in DOMAIN x : x[w] # x[(w + 1) % Cardinality(DOMAIN x)]}) <= 2

\* What a factory promises of its network for the inputs it is meant for.
Promised(call, x, y) ==
  LET n == call[2]
  IN /\ SameValues(x, y)
     /\ CASE call[1] = "ButterflyTournament" ->
               \A w \in DOMAIN y : y[0] <= y[w] /\ y[w] <= y[n - 1]
          [] call[1] = "BitonicMerge" -> Bitonic(x) => Ascending(y)
          [] call[1] = "InvertedBitonicMerge" -> Bitonic(x) => Descending(y)
          [] call[1] = "InvertedBitonicSort" -> Descending(y)
          [] call[1] = "BinaryTreeInsertion" ->
               (\A v, w \in 1..(n - 1) : v < w => x[v] <= x[w]) => Ascending(y)
          [] OTHER -> Ascending(y)

\* A network that was built by hand does what its gates do one after the other, on the wires
\* they were appended to, and the network of a factory sorts, merges or inserts, also after
\* its permutation gates have been collapsed.  (Putting gates in order does not change it.)
DoesWhatItShould ==
  ~ranking => \A x \in Bits(network.wireCount) :
    LET y == Evaluated(network, x)
    IN IF MadeByHand THEN y = Straight(steps.network, x) ELSE Promised(made, x, y)

\* The dictionaries of connections are each other's inverse, an address is open if and only
\* if it is not connected, open inputs are the first addresses of wires and open outputs the
\* last ones: the lookups and assertions of Circuit.cs succeed.
ConnectionsAgree ==
  LET c == network.circuit
      in == c.inputCounterparties  out == c.outputCounterparties
      all == UNION {LocalAddrs(g, c.gates[g]) : g \in DOMAIN c.gates}
  IN /\ \A a \in DOMAIN in : in[a] \in DOMAIN out /\ out[in[a]] = a
     /\ \A a \in DOMAIN out : out[a] \in DOMAIN in /\ in[out[a]] = a
     /\ c.inputAddrs = all \ DOMAIN in /\ DOMAIN in \subseteq all
     /\ c.outputAddrs = all \ DOMAIN out /\ DOMAIN out \subseteq all
     /\ c.inputAddrs = {network.first[w] : w \in Wires(network)} \ {NoAddr}
     /\ c.outputAddrs = {network.last[w] : w \in Wires(network)} \ {NoAddr}

\* When the ranks have been assigned every gate has one, and comes after those it gets its
\* inputs from.
OrderIsTopological ==
  ranking /\ deque = <<>> =>
    /\ IsInjective(order)
    /\ ToSet(order) = DOMAIN network.circuit.gates
    /\ \A j, k \in DOMAIN order : order[k] \in ToSet(Predecessors(order[j])) => k < j

=============================================================================
