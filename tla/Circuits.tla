------------------------------- MODULE Circuits -------------------------------
(***************************************************************************)
(* Circuits of gates, and the networks that are built of them on a number  *)
(* of wires: Circuit.cs and Gate.cs.  A gate that is appended to a network *)
(* takes the next number; what is appended to another network or cloned is *)
(* numbered again, so two networks have no gate in common, as JoinWith     *)
(* asserts.                                                                *)
(***************************************************************************)
EXTENDS Integers, Sequences, SequencesExt, FiniteSetsExt

-----------------------------------------------------------------------------
(***************************************************************************)
(* Gates.  Ports and wires are counted from 0.                             *)
(***************************************************************************)

ComputationGate == [computes |-> TRUE, count |-> 2]     \* COMPARE_AND_SWAP

PermutationGate(count, permutation) ==
  [computes |-> FALSE, count |-> count, permutation |-> permutation]

\* What comes in at a port leaves at this one.
Permute(gate, port) == gate.permutation[port]

PortsOf(gate) == 0..(gate.count - 1)

SwapGate == PermutationGate(2, [a \in 0..1 |-> 1 - a])

MultiGroupInserterGate(count, groupSize, numGroups) ==
  PermutationGate(count,
    [input \in 0..(count - 1) |->
       IF input < groupSize * numGroups
         THEN input + input \div groupSize + 1
         ELSE (input - groupSize * numGroups) * (groupSize + 1)])

-----------------------------------------------------------------------------
(***************************************************************************)
(* Circuits.  An address is a gate and a port; input and output addresses  *)
(* are apart by where they are kept.                                       *)
(***************************************************************************)

EmptyFunction == [a \in {} |-> a]

\* A dictionary without, and with, an entry.
Without(f, key) == [a \in DOMAIN f \ {key} |-> f[a]]
With(f, key, value) == [a \in DOMAIN f \cup {key} |-> IF a = key THEN value ELSE f[a]]

EmptyCircuit ==
  [gates |-> EmptyFunction, inputAddrs |-> {}, outputAddrs |-> {},
   outputCounterparties |-> EmptyFunction, inputCounterparties |-> EmptyFunction]

LocalAddrs(g, gate) == {<<g, port>> : port \in PortsOf(gate)}

\* What is left of an older connection of the one side is an open address of the other.
ReleaseFrom(c, from) ==
  IF from \in DOMAIN c.outputCounterparties
    THEN LET oldTo == c.outputCounterparties[from]
         IN [c EXCEPT !.inputCounterparties = Without(@, oldTo),
                      !.inputAddrs = @ \cup {oldTo}]
    ELSE c

\* Mutant of ReleaseTo: the old connection is forgotten at one end.
ReleaseToSilently(c, to) ==
  IF to \in DOMAIN c.inputCounterparties
    THEN [c EXCEPT !.outputAddrs = @ \cup {c.inputCounterparties[to]}]
    ELSE c

ReleaseTo(c, to) ==
  IF to \in DOMAIN c.inputCounterparties
    THEN LET oldFrom == c.inputCounterparties[to]
         IN [c EXCEPT !.outputCounterparties = Without(@, oldFrom),
                      !.outputAddrs = @ \cup {oldFrom}]
    ELSE c

Connect(c, from, to) ==
  [c EXCEPT !.outputCounterparties = With(@, from, to),
            !.outputAddrs = @ \ {from},
            !.inputCounterparties = With(@, to, from),
            !.inputAddrs = @ \ {to}]

AddConnection(c, connection) ==
  LET from == connection[1]  to == connection[2]
  IN Connect(ReleaseTo(ReleaseFrom(c, from), to), from, to)

\* The connections of a call are of different addresses, so their order makes no difference.
AddConnections(c, connections) == FoldSet(LAMBDA k, d : AddConnection(d, k), c, connections)

AddGate(c, g, gate, connections) ==
  AddConnections([c EXCEPT !.gates = With(@, g, gate),
                           !.inputAddrs = @ \cup LocalAddrs(g, gate),
                           !.outputAddrs = @ \cup LocalAddrs(g, gate)],
                 connections)

\* The dictionaries of both directions are filled from one.
Inverted(f) == [b \in {f[a] : a \in DOMAIN f} |-> CHOOSE a \in DOMAIN f : f[a] = b]
Joined(f, h) == [a \in DOMAIN f \cup DOMAIN h |-> IF a \in DOMAIN h THEN h[a] ELSE f[a]]

JoinWith(c, d, joins) ==
  AddConnections([gates |-> Joined(c.gates, d.gates),
                  inputAddrs |-> c.inputAddrs \cup d.inputAddrs,
                  outputAddrs |-> c.outputAddrs \cup d.outputAddrs,
                  inputCounterparties |-> Joined(c.inputCounterparties, d.inputCounterparties),
                  outputCounterparties |->
                    Joined(c.outputCounterparties, Inverted(d.inputCounterparties))],
                 joins)

\* The same circuit with other gates: offset is added to their numbers.
MovedAddr(a, offset) == <<a[1] + offset, a[2]>>
MovedAddrs(S, offset) == {MovedAddr(a, offset) : a \in S}

CloneCircuit(c, offset) ==
  LET inputs == [a \in MovedAddrs(DOMAIN c.inputCounterparties, offset) |->
                   MovedAddr(c.inputCounterparties[MovedAddr(a, -offset)], offset)]
  IN [gates |-> [g \in {h + offset : h \in DOMAIN c.gates} |-> c.gates[g - offset]],
      inputAddrs |-> MovedAddrs(c.inputAddrs, offset),
      outputAddrs |-> MovedAddrs(c.outputAddrs, offset),
      inputCounterparties |-> inputs,
      outputCounterparties |-> Inverted(inputs)]

RemoveGate(c, g) ==
  [c EXCEPT !.inputAddrs = @ \ LocalAddrs(g, c.gates[g]),
            !.outputAddrs = @ \ LocalAddrs(g, c.gates[g]),
            !.gates = Without(@, g)]

IsPermutationGate(c, g) == ~c.gates[g].computes

\* Port i of a permutation gate is bypassed.  It must be connected on both sides: the
\* lookups fail otherwise.
Bypass(c, g, i) ==
  AddConnection(c, <<c.inputCounterparties[<<g, i>>],
                     c.outputCounterparties[<<g, Permute(c.gates[g], i)>>]>>)

CollapseGate(c, g) ==
  RemoveGate(FoldLeft(LAMBDA d, k : Bypass(d, g, k - 1), c, [k \in 1..c.gates[g].count |-> k]),
             g)

PermutationGates(c) == {g \in DOMAIN c.gates : IsPermutationGate(c, g)}

\* No permutation gate is at the border of the circuit.
CanCollapse(c) ==
  \A g \in PermutationGates(c) :
    \A a \in LocalAddrs(g, c.gates[g]) :
      a \in DOMAIN c.inputCounterparties /\ a \in DOMAIN c.outputCounterparties

CollapseCircuit(c) == FoldSet(LAMBDA g, d : CollapseGate(d, g), c, PermutationGates(c))

-----------------------------------------------------------------------------
(***************************************************************************)
(* Networks (PermutationNetwork).  WireGateList is never read.             *)
(***************************************************************************)

NoAddr == <<>>      \* null

EmptyNetwork(wireCount) ==
  [wireCount |-> wireCount, circuit |-> EmptyCircuit, size |-> 0,
   first |-> [w \in 0..(wireCount - 1) |-> NoAddr],
   last |-> [w \in 0..(wireCount - 1) |-> NoAddr]]

Wires(net) == 0..(net.wireCount - 1)

\* Wires are given as a sequence: wires[i + 1] is for port or wire i.
IsOn(wires, w) == \E k \in DOMAIN wires : wires[k] = w
PortOf(wires, w) == (CHOOSE k \in DOMAIN wires : wires[k] = w) - 1

AppendGate(net, gate, wires) ==
  LET g == net.size + 1
      joins == {<<net.last[wires[k]], <<g, k - 1>>>> :
                  k \in {j \in DOMAIN wires : net.last[wires[j]] # NoAddr}}
  IN [net EXCEPT
        !.circuit = AddGate(@, g, gate, joins),
        !.size = g,
        !.last = [w \in Wires(net) |-> IF IsOn(wires, w) THEN <<g, PortOf(wires, w)>> ELSE @[w]],
        !.first = [w \in Wires(net) |-> IF IsOn(wires, w) /\ @[w] = NoAddr
                                          THEN <<g, PortOf(wires, w)>> ELSE @[w]]]

\* Clone, with the numbers that the gates get in the network they are appended to.  A network
\* that is appended without being cloned is not used again, which comes to the same.
MovedOrNone(addr, offset) == IF addr = NoAddr THEN NoAddr ELSE MovedAddr(addr, offset)

CloneNetwork(pn, offset) ==
  [pn EXCEPT !.circuit = CloneCircuit(@, offset),
             !.first = [w \in Wires(pn) |-> MovedOrNone(@[w], offset)],
             !.last = [w \in Wires(pn) |-> MovedOrNone(@[w], offset)]]

\* Mutant of LastAfter: a wire without a gate ends in nothing.
LastAfterAny(before, appended) == appended

\* The last address of a wire after a network has been appended, which may have no gate on
\* that wire.
LastAfter(before, appended) == IF appended # NoAddr THEN appended ELSE before

AppendNetwork(net, part, wires) ==
  LET pn == CloneNetwork(part, net.size)
      joins == {<<net.last[wires[k]], pn.first[k - 1]>> :
                  k \in {j \in DOMAIN wires : /\ net.last[wires[j]] # NoAddr
                                              /\ pn.first[j - 1] # NoAddr}}
  IN [net EXCEPT
        !.circuit = JoinWith(@, pn.circuit, joins),
        !.size = @ + pn.size,
        !.last = [w \in Wires(net) |->
                    IF IsOn(wires, w) THEN LastAfter(@[w], pn.last[PortOf(wires, w)]) ELSE @[w]],
        !.first = [w \in Wires(net) |->
                     IF IsOn(wires, w) /\ @[w] = NoAddr THEN pn.first[PortOf(wires, w)]
                                                        ELSE @[w]]]

\* On the wires from startWire on.
AppendNetworkAt(net, pn, startWire) ==
  AppendNetwork(net, pn, [k \in 1..pn.wireCount |-> startWire + k - 1])

\* Where the circuit can be collapsed no wire begins or ends at a permutation gate, and the
\* unwinding of the first and last addresses has nothing to do.
Collapse(net) == [net EXCEPT !.circuit = CollapseCircuit(@)]

=============================================================================
