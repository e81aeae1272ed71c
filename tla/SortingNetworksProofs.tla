----------------------- MODULE SortingNetworksProofs ------------------------
(***************************************************************************)
(* Whatever is appended to whatever wires, by hand or by a factory, and    *)
(* whenever permutation gates are collapsed, a network stays whole: its    *)
(* dictionaries are each other's inverse, its open addresses are the ends  *)
(* of its wires, and every connection leads to a gate of a higher number   *)
(* (IsNetwork).  ConnectionsAgree follows, and that there are no cycles,   *)
(* by which AssignTopologicalRanks gives every gate a rank.                *)
(*                                                                         *)
(* The operators of Circuits are described part by part first, then what   *)
(* they do to a circuit and its wires; the proofs about the steps of the   *)
(* specification use nothing else.                                         *)
(*                                                                         *)
(* In the end there is what sorts, a gate or a network, as it is checked:  *)
(* what is proved of the protocols of a gate in ComparisonProofs, and of   *)
(* networks here, holds of it.                                             *)
(***************************************************************************)
EXTENDS SortingMC, SequenceLemmas

-----------------------------------------------------------------------------
(***************************************************************************)
(* Circuits: adding a connection.                                          *)
(***************************************************************************)

\* Addresses are pairs of a gate and a port.
Addr == Int \X Int

\* All addresses of gates.
AllAddrs(gates) == UNION {LocalAddrs(g, gates[g]) : g \in DOMAIN gates}

\* A gate has two ports or more, and a permutation gate a permutation of them.
IsGate(gate) ==
  /\ gate.count \in Nat /\ gate.count >= 2
  /\ ~gate.computes =>
       /\ \A p \in PortsOf(gate) : Permute(gate, p) \in PortsOf(gate)
       /\ \A p, q \in PortsOf(gate) : Permute(gate, p) = Permute(gate, q) => p = q

\* Gates that are numbered up to n.
AreGates(gates, n) ==
  /\ gates = [g \in DOMAIN gates |-> gates[g]]
  /\ DOMAIN gates \subseteq 1..n
  /\ \A g \in DOMAIN gates : IsGate(gates[g])

\* The functions on a part of A, with values in A.
Partial(A) == UNION {[S -> A] : S \in SUBSET A}

\* A circuit by its parts.
CircuitOf(gates, ins, outs, out, in) ==
  [gates |-> gates, inputAddrs |-> ins, outputAddrs |-> outs,
   outputCounterparties |-> out, inputCounterparties |-> in]

\* The dictionaries are each other's inverse, and lead from gates to later ones.
AreInverse(out, in) ==
  /\ \A a \in DOMAIN in : in[a] \in DOMAIN out /\ out[in[a]] = a
  /\ \A a \in DOMAIN out : out[a] \in DOMAIN in /\ in[out[a]] = a
  /\ \A a \in DOMAIN in : in[a][1] < a[1]

\* A circuit of these gates: an address is open if and only if it is not connected.
IsCircuit(c, gates) ==
  LET A == AllAddrs(gates)
      out == c.outputCounterparties  in == c.inputCounterparties
  IN /\ c = CircuitOf(gates, A \ DOMAIN in, A \ DOMAIN out, out, in)
     /\ out \in Partial(A) /\ in \in Partial(A)
     /\ AreInverse(out, in)

\* An address belongs to a gate, and to one of its ports.
LEMMA AllAddrsProperties ==
  ASSUME NEW n, NEW gates, n \in Nat, AreGates(gates, n)
  PROVE  /\ AllAddrs(gates) \subseteq Addr
         /\ \A a \in AllAddrs(gates) : a[1] \in DOMAIN gates /\ a[1] \in 1..n
         /\ \A g \in DOMAIN gates : \A p : <<g, p>> \in AllAddrs(gates) <=> p \in PortsOf(gates[g])
BY DEF AllAddrs, Addr, LocalAddrs, PortsOf, AreGates, IsGate

\* Partial functions by what is known of them.
LEMMA PartialProperties ==
  ASSUME NEW A, NEW f
  PROVE  f \in Partial(A) <=>
           /\ f = [a \in DOMAIN f |-> f[a]]
           /\ DOMAIN f \subseteq A
           /\ \A a \in DOMAIN f : f[a] \in A
<1>1. ASSUME f \in Partial(A)
      PROVE  f = [a \in DOMAIN f |-> f[a]] /\ DOMAIN f \subseteq A /\ \A a \in DOMAIN f : f[a] \in A
  BY <1>1 DEF Partial
<1>2. ASSUME f = [a \in DOMAIN f |-> f[a]], DOMAIN f \subseteq A, \A a \in DOMAIN f : f[a] \in A
      PROVE  f \in Partial(A)
  <2>1. f \in [DOMAIN f -> A]
    BY <1>2
  <2> QED BY <2>1, <1>2 DEF Partial
<1> QED
  BY <1>1, <1>2

\* What a connection replaces.
OldTo(out, from) == IF from \in DOMAIN out THEN {out[from]} ELSE {}
OldFrom(in, to) == IF to \in DOMAIN in THEN {in[to]} ELSE {}

\* The dictionaries after a connection has been added.
ReplacedIn(in, out, from, to) ==
  [a \in (DOMAIN in \ OldTo(out, from)) \union {to} |-> IF a = to THEN from ELSE in[a]]
ReplacedOut(in, out, from, to) ==
  [a \in (DOMAIN out \ OldFrom(in, to)) \union {from} |-> IF a = from THEN to ELSE out[a]]

\* Changing one part of a circuit.
LEMMA CircuitParts ==
  ASSUME NEW gates, NEW ins, NEW outs, NEW out, NEW in
  PROVE  LET c == CircuitOf(gates, ins, outs, out, in)
         IN /\ c.gates = gates /\ c.inputAddrs = ins /\ c.outputAddrs = outs
            /\ c.outputCounterparties = out /\ c.inputCounterparties = in
BY DEF CircuitOf

\* Connect, ReleaseFrom, ReleaseTo and AddConnection part by part.
LEMMA ConnectIs ==
  ASSUME NEW gates, NEW ins, NEW outs, NEW out, NEW in, NEW from, NEW to
  PROVE  Connect(CircuitOf(gates, ins, outs, out, in), from, to) =
           CircuitOf(gates, ins \ {to}, outs \ {from}, With(out, from, to), With(in, to, from))
<1> DEFINE c == CircuitOf(gates, ins, outs, out, in)
<1>1. /\ c.gates = gates /\ c.inputAddrs = ins /\ c.outputAddrs = outs
      /\ c.outputCounterparties = out /\ c.inputCounterparties = in
  BY CircuitParts
<1>2. PICK x, y : x = With(out, from, to) /\ y = With(in, to, from)
  OBVIOUS
<1>3. PICK s, t : s = ins \ {to} /\ t = outs \ {from}
  OBVIOUS
<1>4. Connect(c, from, to) =
        [c EXCEPT !.outputCounterparties = x, !.outputAddrs = t,
                  !.inputCounterparties = y, !.inputAddrs = s]
  <2> HIDE DEF c
  <2> QED BY <1>1, <1>2, <1>3 DEF Connect
<1>5. [c EXCEPT !.outputCounterparties = x, !.outputAddrs = t,
                !.inputCounterparties = y, !.inputAddrs = s] =
        [[[[c EXCEPT !.outputCounterparties = x] EXCEPT !.outputAddrs = t]
              EXCEPT !.inputCounterparties = y] EXCEPT !.inputAddrs = s]
  <2> HIDE DEF c
  <2> QED OBVIOUS
<1>6. [[[[c EXCEPT !.outputCounterparties = x] EXCEPT !.outputAddrs = t]
              EXCEPT !.inputCounterparties = y] EXCEPT !.inputAddrs = s] = CircuitOf(gates, s, t, x, y)
  <2>1. [c EXCEPT !.outputCounterparties = x] = CircuitOf(gates, ins, outs, x, in)
    BY DEF CircuitOf
  <2>2. [CircuitOf(gates, ins, outs, x, in) EXCEPT !.outputAddrs = t]
          = CircuitOf(gates, ins, t, x, in)
    BY DEF CircuitOf
  <2>3. [CircuitOf(gates, ins, t, x, in) EXCEPT !.inputCounterparties = y]
          = CircuitOf(gates, ins, t, x, y)
    BY DEF CircuitOf
  <2>4. [CircuitOf(gates, ins, t, x, y) EXCEPT !.inputAddrs = s] = CircuitOf(gates, s, t, x, y)
    BY DEF CircuitOf
  <2> HIDE DEF c
  <2> QED BY <2>1, <2>2, <2>3, <2>4
<1> QED
  BY <1>2, <1>3, <1>4, <1>5, <1>6

\* What ReleaseFrom does to each part: the other end of the old connection is open again.
LEMMA ReleaseFromIs ==
  ASSUME NEW gates, NEW ins, NEW outs, NEW out, NEW in, NEW from
  PROVE  ReleaseFrom(CircuitOf(gates, ins, outs, out, in), from) =
           CircuitOf(gates, ins \union OldTo(out, from), outs, out,
                     IF from \in DOMAIN out THEN Without(in, out[from]) ELSE in)
<1> DEFINE c == CircuitOf(gates, ins, outs, out, in)
<1>1. /\ c.gates = gates /\ c.inputAddrs = ins /\ c.outputAddrs = outs
      /\ c.outputCounterparties = out /\ c.inputCounterparties = in
  BY CircuitParts
<1>2. CASE from \in DOMAIN out
  <2>1. PICK y : y = Without(in, out[from])
    OBVIOUS
  <2>2. PICK s : s = ins \union {out[from]}
    OBVIOUS
  <2>3. ReleaseFrom(c, from) = [c EXCEPT !.inputCounterparties = y, !.inputAddrs = s]
    <3> HIDE DEF c
    <3> QED BY <1>1, <1>2, <2>1, <2>2 DEF ReleaseFrom
  <2>4. [c EXCEPT !.inputCounterparties = y, !.inputAddrs = s] =
          [[c EXCEPT !.inputCounterparties = y] EXCEPT !.inputAddrs = s]
    <3> HIDE DEF c
    <3> QED OBVIOUS
  <2>5. [[c EXCEPT !.inputCounterparties = y] EXCEPT !.inputAddrs = s]
          = CircuitOf(gates, s, outs, out, y)
    <3>1. [c EXCEPT !.inputCounterparties = y] = CircuitOf(gates, ins, outs, out, y)
      BY DEF CircuitOf
    <3>2. [CircuitOf(gates, ins, outs, out, y) EXCEPT !.inputAddrs = s]
            = CircuitOf(gates, s, outs, out, y)
      BY DEF CircuitOf
    <3> HIDE DEF c
    <3> QED BY <3>1, <3>2
  <2> QED BY <1>2, <2>1, <2>2, <2>3, <2>4, <2>5 DEF OldTo
<1>3. CASE from \notin DOMAIN out
  <2>1. ReleaseFrom(c, from) = c
    <3> HIDE DEF c
    <3> QED BY <1>1, <1>3 DEF ReleaseFrom
  <2>2. ins \union OldTo(out, from) = ins
    BY <1>3 DEF OldTo
  <2> QED BY <2>1, <2>2, <1>3
<1> QED
  BY <1>2, <1>3

\* The same for ReleaseTo.
LEMMA ReleaseToIs ==
  ASSUME NEW gates, NEW ins, NEW outs, NEW out, NEW in, NEW to
  PROVE  ReleaseTo(CircuitOf(gates, ins, outs, out, in), to) =
           CircuitOf(gates, ins, outs \union OldFrom(in, to),
                     IF to \in DOMAIN in THEN Without(out, in[to]) ELSE out, in)
<1> DEFINE c == CircuitOf(gates, ins, outs, out, in)
<1>1. /\ c.gates = gates /\ c.inputAddrs = ins /\ c.outputAddrs = outs
      /\ c.outputCounterparties = out /\ c.inputCounterparties = in
  BY CircuitParts
<1>2. CASE to \in DOMAIN in
  <2>1. PICK y : y = Without(out, in[to])
    OBVIOUS
  <2>2. PICK s : s = outs \union {in[to]}
    OBVIOUS
  <2>3. ReleaseTo(c, to) = [c EXCEPT !.outputCounterparties = y, !.outputAddrs = s]
    <3> HIDE DEF c
    <3> QED BY <1>1, <1>2, <2>1, <2>2 DEF ReleaseTo
  <2>4. [c EXCEPT !.outputCounterparties = y, !.outputAddrs = s] =
          [[c EXCEPT !.outputCounterparties = y] EXCEPT !.outputAddrs = s]
    <3> HIDE DEF c
    <3> QED OBVIOUS
  <2>5. [[c EXCEPT !.outputCounterparties = y] EXCEPT !.outputAddrs = s]
          = CircuitOf(gates, ins, s, y, in)
    <3>1. [c EXCEPT !.outputCounterparties = y] = CircuitOf(gates, ins, outs, y, in)
      BY DEF CircuitOf
    <3>2. [CircuitOf(gates, ins, outs, y, in) EXCEPT !.outputAddrs = s]
            = CircuitOf(gates, ins, s, y, in)
      BY DEF CircuitOf
    <3> HIDE DEF c
    <3> QED BY <3>1, <3>2
  <2> QED BY <1>2, <2>1, <2>2, <2>3, <2>4, <2>5 DEF OldFrom
<1>3. CASE to \notin DOMAIN in
  <2>1. ReleaseTo(c, to) = c
    <3> HIDE DEF c
    <3> QED BY <1>1, <1>3 DEF ReleaseTo
  <2>2. outs \union OldFrom(in, to) = outs
    BY <1>3 DEF OldFrom
  <2> QED BY <2>1, <2>2, <1>3
<1> QED
  BY <1>2, <1>3

\* AddConnection replaces the connections of both its addresses.
LEMMA AddConnectionIs ==
  ASSUME NEW gates, NEW ins, NEW outs, NEW out, NEW in, NEW from, NEW to,
         AreInverse(out, in)
  PROVE  AddConnection(CircuitOf(gates, ins, outs, out, in), <<from, to>>) =
           CircuitOf(gates, (ins \union OldTo(out, from)) \ {to},
                     (outs \union OldFrom(in, to)) \ {from},
                     ReplacedOut(in, out, from, to), ReplacedIn(in, out, from, to))
<1>1. PICK c : c = CircuitOf(gates, ins, outs, out, in)
  OBVIOUS
<1>2. PICK in1 : in1 = IF from \in DOMAIN out THEN Without(in, out[from]) ELSE in
  OBVIOUS
<1>3. PICK out1 : out1 = IF to \in DOMAIN in1 THEN Without(out, in1[to]) ELSE out
  OBVIOUS
<1>4. PICK d : d = CircuitOf(gates, ins \union OldTo(out, from), outs, out, in1)
  OBVIOUS
<1>5. PICK e : e = CircuitOf(gates, ins \union OldTo(out, from),
                              outs \union OldFrom(in1, to), out1, in1)
  OBVIOUS
<1>6. ReleaseFrom(c, from) = d
  BY <1>1, <1>2, <1>4, ReleaseFromIs
<1>7. ReleaseTo(d, to) = e
  <2>1. PICK released : released = ins \union OldTo(out, from)
    OBVIOUS
  <2>2. ReleaseTo(CircuitOf(gates, released, outs, out, in1), to)
          = CircuitOf(gates, released, outs \union OldFrom(in1, to), out1, in1)
    <3>1. ReleaseTo(CircuitOf(gates, released, outs, out, in1), to)
            = CircuitOf(gates, released, outs \union OldFrom(in1, to),
                        IF to \in DOMAIN in1 THEN Without(out, in1[to]) ELSE out, in1)
      BY ReleaseToIs, Z3
    <3> QED BY <1>3, <3>1
  <2>3. d = CircuitOf(gates, released, outs, out, in1)
    BY <1>4, <2>1
  <2>4. e = CircuitOf(gates, released, outs \union OldFrom(in1, to), out1, in1)
    BY <1>5, <2>1
  <2> QED BY <2>2, <2>3, <2>4
<1>8. Connect(e, from, to) =
        CircuitOf(gates, (ins \union OldTo(out, from)) \ {to},
                  (outs \union OldFrom(in1, to)) \ {from}, With(out1, from, to), With(in1, to, from))
  BY <1>5, ConnectIs
<1>9. With(in1, to, from) = ReplacedIn(in, out, from, to)
  BY <1>2 DEF With, Without, ReplacedIn, OldTo, AreInverse
<1>10. (outs \union OldFrom(in1, to)) \ {from} = (outs \union OldFrom(in, to)) \ {from}
  BY <1>2 DEF OldFrom, Without, AreInverse
<1>11. With(out1, from, to) = ReplacedOut(in, out, from, to)
  BY <1>2, <1>3 DEF With, Without, ReplacedOut, OldFrom, AreInverse
<1>12. AddConnection(c, <<from, to>>) = Connect(e, from, to)
  BY <1>6, <1>7 DEF AddConnection
<1> QED
  BY <1>1, <1>8, <1>9, <1>10, <1>11, <1>12

\* A connection to a later gate, also of addresses that are connected, leaves a circuit.
LEMMA AddConnectionProperties ==
  ASSUME NEW n \in Nat, NEW gates, AreGates(gates, n), NEW c, IsCircuit(c, gates),
         NEW from \in AllAddrs(gates), NEW to \in AllAddrs(gates), from[1] < to[1]
  PROVE  LET out == c.outputCounterparties  in == c.inputCounterparties
             d == AddConnection(c, <<from, to>>)
         IN /\ IsCircuit(d, gates)
            /\ d.inputCounterparties = ReplacedIn(in, out, from, to)
            /\ d.outputCounterparties = ReplacedOut(in, out, from, to)
<1> DEFINE A == AllAddrs(gates)
           out == c.outputCounterparties
           in == c.inputCounterparties
           d == AddConnection(c, <<from, to>>)
           newIn == ReplacedIn(in, out, from, to)
           newOut == ReplacedOut(in, out, from, to)
<1>1. /\ c = CircuitOf(gates, A \ DOMAIN in, A \ DOMAIN out, out, in)
      /\ out \in Partial(A) /\ in \in Partial(A)
      /\ AreInverse(out, in)
  BY DEF IsCircuit
<1>2. c.inputAddrs = A \ DOMAIN in /\ c.outputAddrs = A \ DOMAIN out
  BY <1>1 DEF CircuitOf
<1>3. d = CircuitOf(gates, (c.inputAddrs \union OldTo(out, from)) \ {to},
                        (c.outputAddrs \union OldFrom(in, to)) \ {from}, newOut, newIn)
  <2>1. PICK ins, outs : ins = A \ DOMAIN in /\ outs = A \ DOMAIN out
    OBVIOUS
  <2>2. PICK i, o : i = in /\ o = out
    OBVIOUS
  <2>3. AddConnection(CircuitOf(gates, ins, outs, o, i), <<from, to>>) =
           CircuitOf(gates, (ins \union OldTo(o, from)) \ {to},
                     (outs \union OldFrom(i, to)) \ {from},
                     ReplacedOut(i, o, from, to), ReplacedIn(i, o, from, to))
    BY <1>1, <2>2, AddConnectionIs
  <2> QED BY <2>1, <2>2, <2>3, <1>1, <1>2
<1>4. /\ DOMAIN in \subseteq A /\ DOMAIN out \subseteq A
      /\ \A a \in DOMAIN in : in[a] \in A
      /\ \A a \in DOMAIN out : out[a] \in A
  BY <1>1, PartialProperties
<1>5. newIn \in Partial(A) /\ newOut \in Partial(A)
  <2>1. newIn = [a \in DOMAIN newIn |-> newIn[a]] /\ newOut = [a \in DOMAIN newOut |-> newOut[a]]
    BY DEF ReplacedIn, ReplacedOut
  <2>2. /\ DOMAIN newIn \subseteq A /\ \A a \in DOMAIN newIn : newIn[a] \in A
        /\ DOMAIN newOut \subseteq A /\ \A a \in DOMAIN newOut : newOut[a] \in A
    BY <1>4 DEF ReplacedIn, ReplacedOut
  <2> QED BY <2>1, <2>2, PartialProperties
<1>6. /\ (c.inputAddrs \union OldTo(out, from)) \ {to} = A \ DOMAIN newIn
      /\ (c.outputAddrs \union OldFrom(in, to)) \ {from} = A \ DOMAIN newOut
  BY <1>2, <1>4 DEF ReplacedIn, ReplacedOut, OldTo, OldFrom
<1>7. AreInverse(newOut, newIn)
  <2>1. /\ \A a \in DOMAIN in : in[a] \in DOMAIN out /\ out[in[a]] = a /\ in[a][1] < a[1]
        /\ \A a \in DOMAIN out : out[a] \in DOMAIN in /\ in[out[a]] = a
    BY <1>1 DEF AreInverse
  <2>2. \A a \in DOMAIN newIn : newIn[a] \in DOMAIN newOut /\ newOut[newIn[a]] = a
    BY <2>1 DEF ReplacedIn, ReplacedOut, OldTo, OldFrom
  <2>3. \A a \in DOMAIN newOut : newOut[a] \in DOMAIN newIn /\ newIn[newOut[a]] = a
    BY <2>1 DEF ReplacedIn, ReplacedOut, OldTo, OldFrom
  <2>4. \A a \in DOMAIN newIn : newIn[a][1] < a[1]
    BY <2>1 DEF ReplacedIn, OldTo
  <2> QED BY <2>2, <2>3, <2>4 DEF AreInverse
<1>8. d.inputCounterparties = newIn /\ d.outputCounterparties = newOut
  BY <1>3 DEF CircuitOf
<1>9. IsCircuit(d, gates)
  <2> HIDE DEF newIn, newOut, d, in, out
  <2>1. d = CircuitOf(gates, A \ DOMAIN newIn, A \ DOMAIN newOut, newOut, newIn)
    BY <1>3, <1>6
  <2> QED BY <2>1, <1>5, <1>7, <1>8 DEF IsCircuit
<1> QED
  BY <1>8, <1>9

\* What is known of the parts of a circuit.
LEMMA IsCircuitFields ==
  ASSUME NEW gates, NEW c, IsCircuit(c, gates)
  PROVE  LET A == AllAddrs(gates)
             out == c.outputCounterparties  in == c.inputCounterparties
         IN /\ c.gates = gates
            /\ c.inputAddrs = A \ DOMAIN in /\ c.outputAddrs = A \ DOMAIN out
            /\ DOMAIN in \subseteq A /\ DOMAIN out \subseteq A
            /\ \A a \in DOMAIN in : in[a] \in A /\ in[a] \in DOMAIN out /\ out[in[a]] = a /\ in[a][1] < a[1]
            /\ \A a \in DOMAIN out : out[a] \in A /\ out[a] \in DOMAIN in /\ in[out[a]] = a
            /\ out \in Partial(A) /\ in \in Partial(A)
<1> DEFINE A == AllAddrs(gates)
           out == c.outputCounterparties
           in == c.inputCounterparties
<1>1. /\ c = CircuitOf(gates, A \ DOMAIN in, A \ DOMAIN out, out, in)
      /\ out \in Partial(A) /\ in \in Partial(A)
      /\ AreInverse(out, in)
  BY DEF IsCircuit
<1>2. c.gates = gates /\ c.inputAddrs = A \ DOMAIN in /\ c.outputAddrs = A \ DOMAIN out
  BY <1>1 DEF CircuitOf
<1>3. /\ DOMAIN in \subseteq A /\ DOMAIN out \subseteq A
      /\ \A a \in DOMAIN in : in[a] \in A
      /\ \A a \in DOMAIN out : out[a] \in A
  BY <1>1, PartialProperties
<1> HIDE DEF in, out, A
<1>4. /\ \A a \in DOMAIN in : in[a] \in A /\ in[a] \in DOMAIN out /\ out[in[a]] = a /\ in[a][1] < a[1]
      /\ \A a \in DOMAIN out : out[a] \in A /\ out[a] \in DOMAIN in /\ in[out[a]] = a
  BY <1>1, <1>3 DEF AreInverse
<1> QED
  BY <1>1, <1>2, <1>3, <1>4 DEF in, out, A

\* All circuits of these gates, so that a circuit is an element of a set.
CircuitsOf(gates) ==
  LET A == AllAddrs(gates)
  IN {CircuitOf(gates, A \ DOMAIN p[2], A \ DOMAIN p[1], p[1], p[2]) : p \in Partial(A) \X Partial(A)}

\* Every circuit of these gates is in that set.
LEMMA CircuitsAreASet ==
  ASSUME NEW gates, NEW c, IsCircuit(c, gates)
  PROVE  c \in CircuitsOf(gates)
<1> DEFINE A == AllAddrs(gates)
<1>1. PICK p \in Partial(A) \X Partial(A) : p = <<c.outputCounterparties, c.inputCounterparties>>
  BY DEF IsCircuit
<1>2. c = CircuitOf(gates, A \ DOMAIN p[2], A \ DOMAIN p[1], p[1], p[2])
  BY <1>1 DEF IsCircuit
<1> QED
  BY <1>2 DEF CircuitsOf

\* Connections of open outputs to open inputs of later gates, each of its own.
AreJoins(c, joins) ==
  /\ IsFiniteSet(joins)
  /\ \A j \in joins : /\ j = <<j[1], j[2]>>
                      /\ j[1] \in c.outputAddrs /\ j[2] \in c.inputAddrs
                      /\ j[1][1] < j[2][1]
  /\ \A j, k \in joins : j[1] = k[1] \/ j[2] = k[2] => j = k

\* What is connected, of the one side or the other.
Sides(joins, side) == {j[side] : j \in joins}

\* The circuit, with some of its open addresses connected.
IsJoined(d, c, gates, joins) ==
  /\ IsCircuit(d, gates)
  /\ d.inputAddrs = c.inputAddrs \ Sides(joins, 2)
  /\ d.outputAddrs = c.outputAddrs \ Sides(joins, 1)

\* One connection more of those of a call.
LEMMA JoinOne ==
  ASSUME NEW n \in Nat, NEW gates, AreGates(gates, n), NEW c, IsCircuit(c, gates),
         NEW joins, AreJoins(c, joins), NEW s \in SUBSET joins, NEW j \in s,
         NEW d, IsJoined(d, c, gates, s \ {j})
  PROVE  IsJoined(AddConnection(d, j), c, gates, s)
<1>1. PICK from, to : j = <<from, to>>
  BY DEF AreJoins
<1>2. from \in c.outputAddrs /\ to \in c.inputAddrs /\ from[1] < to[1]
  BY <1>1 DEF AreJoins
<1>3. from \in d.outputAddrs /\ to \in d.inputAddrs
  BY <1>1, <1>2 DEF AreJoins, IsJoined, Sides
<1>4. PICK out, in : out = d.outputCounterparties /\ in = d.inputCounterparties
  OBVIOUS
<1>5. IsCircuit(d, gates)
  BY DEF IsJoined
<1>6. /\ from \in AllAddrs(gates) /\ from \notin DOMAIN out
      /\ to \in AllAddrs(gates) /\ to \notin DOMAIN in
      /\ d.inputAddrs = AllAddrs(gates) \ DOMAIN in
      /\ d.outputAddrs = AllAddrs(gates) \ DOMAIN out
  BY <1>3, <1>4, <1>5, IsCircuitFields
<1>7. PICK e : e = AddConnection(d, <<from, to>>)
  OBVIOUS
<1>8. /\ IsCircuit(e, gates)
      /\ e.inputCounterparties = ReplacedIn(in, out, from, to)
      /\ e.outputCounterparties = ReplacedOut(in, out, from, to)
  BY <1>2, <1>4, <1>5, <1>6, <1>7, AddConnectionProperties
<1>9. /\ e.inputAddrs = AllAddrs(gates) \ DOMAIN e.inputCounterparties
      /\ e.outputAddrs = AllAddrs(gates) \ DOMAIN e.outputCounterparties
  BY <1>8, IsCircuitFields
<1>10. /\ DOMAIN e.inputCounterparties = DOMAIN in \union {to}
       /\ DOMAIN e.outputCounterparties = DOMAIN out \union {from}
  BY <1>6, <1>8 DEF ReplacedIn, ReplacedOut, OldTo, OldFrom
<1>11. e.inputAddrs = d.inputAddrs \ {to} /\ e.outputAddrs = d.outputAddrs \ {from}
  BY <1>6, <1>9, <1>10
<1>12. Sides(s, 2) = Sides(s \ {j}, 2) \union {to} /\ Sides(s, 1) = Sides(s \ {j}, 1) \union {from}
  BY <1>1 DEF Sides
<1> QED
  BY <1>1, <1>7, <1>8, <1>11, <1>12 DEF IsJoined

\* All connections of a call: the circuit is one, without those open addresses.
LEMMA AddConnectionsProperties ==
  ASSUME NEW n \in Nat, NEW gates, AreGates(gates, n), NEW c, IsCircuit(c, gates),
         NEW joins, AreJoins(c, joins)
  PROVE  IsJoined(AddConnections(c, joins), c, gates, joins)
<1> DEFINE pick == [s \in SUBSET joins |-> CHOOSE j \in s : TRUE]
           Allowed == [s \in SUBSET joins |-> {d \in CircuitsOf(gates) : IsJoined(d, c, gates, s)}]
           V == UNION {Allowed[s] : s \in SUBSET joins}
           step == [s \in SUBSET joins |-> [d \in V |-> AddConnection(d, pick[s])]]
           Def(f) == f = [s \in SUBSET joins |->
                            IF s = {} THEN c
                            ELSE AddConnection(f[s \ {CHOOSE j \in s : TRUE}], CHOOSE j \in s : TRUE)]
           fold == CHOOSE f : Def(f)
<1>1. AddConnections(c, joins) = fold[joins]
  BY DEF AddConnections, FoldSet, MapThenFoldSet
<1>2. IsFiniteSet(joins) /\ \A s \in SUBSET joins : s # {} => pick[s] \in s
  BY DEF AreJoins
<1>3. \A d, s : IsJoined(d, c, gates, s) => d \in CircuitsOf(gates)
  BY CircuitsAreASet DEF IsJoined
<1>4. c \in Allowed[{}]
  <2>1. IsJoined(c, c, gates, {})
    BY DEF IsJoined, Sides
  <2> QED BY <2>1, <1>3
<1>5. ASSUME NEW s \in SUBSET joins, s # {}, NEW d \in Allowed[s \ {pick[s]}]
      PROVE  AddConnection(d, pick[s]) \in Allowed[s]
  <2>1. pick[s] \in s
    BY <1>2, <1>5
  <2>2. IsJoined(d, c, gates, s \ {pick[s]})
    BY <1>5
  <2> HIDE DEF pick
  <2>3. IsJoined(AddConnection(d, pick[s]), c, gates, s)
    BY <2>1, <2>2, JoinOne
  <2> QED BY <2>3, <1>3
<1>6. PICK f : Def(f)
  <2>1. ASSUME NEW s \in SUBSET joins, s # {}, NEW d \in Allowed[s \ {pick[s]}]
        PROVE  step[s][d] = AddConnection(d, pick[s]) /\ step[s][d] \in Allowed[s]
    <3>1. d \in V
      BY <2>1
    <3>2. step[s][d] = AddConnection(d, pick[s])
      BY <3>1
    <3> HIDE DEF step, Allowed, pick, V
    <3> QED BY <3>2, <2>1, <1>5
  <2>2. PICK f : /\ IsFold(f, joins, c, step, pick)
                 /\ \A s \in SUBSET joins : f[s] \in Allowed[s]
    <3> HIDE DEF step, Allowed, pick
    <3>1. \A s \in SUBSET joins : s # {} =>
            \A x \in Allowed[s \ {pick[s]}] : step[s][x] \in Allowed[s]
      BY <2>1
    <3> QED BY <1>2, <1>4, <3>1, FoldInto, Zenon
  <2>3. ASSUME NEW s \in SUBSET joins, s # {}
        PROVE  step[s][f[s \ {pick[s]}]] = AddConnection(f[s \ {pick[s]}], pick[s])
    <3>1. f[s \ {pick[s]}] \in Allowed[s \ {pick[s]}]
      BY <2>2
    <3> HIDE DEF step, Allowed, pick
    <3> QED BY <3>1, <2>1, <2>3
  <2>4. f = [s \in SUBSET joins |-> IF s = {} THEN c ELSE AddConnection(f[s \ {pick[s]}], pick[s])]
    <3> HIDE DEF step, Allowed, pick
    <3> QED BY <2>2, <2>3 DEF IsFold
  <2>5. Def(f)
    <3> HIDE DEF step, Allowed
    <3> QED BY <2>4
  <2> QED BY <2>5
<1>7. Def(fold)
  <2> HIDE DEF Def
  <2> QED BY <1>6
<1>8. /\ fold[{}] = c
      /\ \A s \in SUBSET joins : s # {} => fold[s] = AddConnection(fold[s \ {pick[s]}], pick[s])
  <2> HIDE DEF fold
  <2> QED BY <1>7
<1>9. fold[joins] \in Allowed[joins]
  <2> HIDE DEF fold, Allowed, pick
  <2>1. fold[{}] \in Allowed[{}]
    BY <1>4, <1>8
  <2>2. \A s \in SUBSET joins :
          s # {} /\ fold[s \ {pick[s]}] \in Allowed[s \ {pick[s]}] => fold[s] \in Allowed[s]
    BY <1>5, <1>8
  <2> QED BY <2>1, <2>2, <1>2, FoldStays
<1> QED
  BY <1>1, <1>9

-----------------------------------------------------------------------------
(***************************************************************************)
(* Wires.                                                                  *)
(***************************************************************************)

\* The addresses at which the wires begin, or end, are the open ones, each of one wire.
AreEnds(f, open, n) ==
  /\ f = [w \in 0..(n - 1) |-> f[w]]
  /\ \A w \in 0..(n - 1) : f[w] # NoAddr => f[w] \in open
  /\ \A a \in open : a # NoAddr /\ \E w \in 0..(n - 1) : f[w] = a
  /\ \A v, w \in 0..(n - 1) : f[v] = f[w] /\ f[v] # NoAddr => v = w

\* The wires of a network with these open addresses.
IsWired(ins, outs, first, last, n) ==
  /\ AreEnds(first, ins, n)
  /\ AreEnds(last, outs, n)
  /\ \A w \in 0..(n - 1) : first[w] = NoAddr <=> last[w] = NoAddr

\* Wires that are all different: the port of a wire is where it is in the list.
LEMMA PortOfProperties ==
  ASSUME NEW n \in Nat, NEW m \in Nat, NEW wires \in [1..m -> 0..(n - 1)], IsInjective(wires)
  PROVE  /\ \A k \in 1..m : IsOn(wires, wires[k]) /\ PortOf(wires, wires[k]) = k - 1
         /\ \A w : IsOn(wires, w) =>
              /\ PortOf(wires, w) \in 0..(m - 1)
              /\ PortOf(wires, w) + 1 \in 1..m
              /\ wires[PortOf(wires, w) + 1] = w
<1>1. ASSUME NEW k \in 1..m
      PROVE  IsOn(wires, wires[k]) /\ PortOf(wires, wires[k]) = k - 1
  <2>1. PICK j \in DOMAIN wires : j = CHOOSE i \in DOMAIN wires : wires[i] = wires[k]
    OBVIOUS
  <2>2. wires[j] = wires[k]
    BY <2>1
  <2>3. j = k
    BY <2>2 DEF IsInjective
  <2> QED BY <2>1, <2>3 DEF IsOn, PortOf
<1>2. ASSUME NEW w, IsOn(wires, w)
      PROVE  /\ PortOf(wires, w) \in 0..(m - 1)
             /\ PortOf(wires, w) + 1 \in 1..m
             /\ wires[PortOf(wires, w) + 1] = w
  <2>1. PICK j \in 1..m : j = CHOOSE i \in DOMAIN wires : wires[i] = w
    BY <1>2 DEF IsOn
  <2>2. wires[j] = w
    BY <2>1, <1>2 DEF IsOn
  <2>3. PortOf(wires, w) = j - 1
    BY <2>1 DEF PortOf
  <2> QED BY <2>2, <2>3
<1> QED
  BY <1>1, <1>2

\* The connections that are made when something with wires first2 is appended, and where the
\* wires begin and end after that.
JoinsOf(last, first2, wires) ==
  {<<last[wires[k]], first2[k - 1]>> :
     k \in {j \in DOMAIN wires : last[wires[j]] # NoAddr /\ first2[j - 1] # NoAddr}}

FirstOf(first, first2, wires, n) ==
  [w \in 0..(n - 1) |-> IF IsOn(wires, w) /\ first[w] = NoAddr
                          THEN first2[PortOf(wires, w)] ELSE first[w]]

LastOf(last, last2, wires, n) ==
  [w \in 0..(n - 1) |-> IF IsOn(wires, w) THEN LastAfter(last[w], last2[PortOf(wires, w)]) ELSE last[w]]

\* Wires after something has been appended to some of them.
LEMMA AppendedIsWired ==
  ASSUME NEW n \in Nat, NEW m \in Nat, NEW wires \in [1..m -> 0..(n - 1)], IsInjective(wires),
         NEW ins, NEW outs, NEW first, NEW last, IsWired(ins, outs, first, last, n),
         NEW ins2, NEW outs2, NEW first2, NEW last2, IsWired(ins2, outs2, first2, last2, m),
         ins \intersect ins2 = {}, outs \intersect outs2 = {}
  PROVE  LET joins == JoinsOf(last, first2, wires)
         IN /\ IsFiniteSet(joins)
            /\ \A j \in joins : j = <<j[1], j[2]>> /\ j[1] \in outs /\ j[2] \in ins2
            /\ \A j, k \in joins : j[1] = k[1] \/ j[2] = k[2] => j = k
            /\ IsWired((ins \union ins2) \ Sides(joins, 2), (outs \union outs2) \ Sides(joins, 1),
                       FirstOf(first, first2, wires, n), LastOf(last, last2, wires, n), n)
<1> DEFINE joins == JoinsOf(last, first2, wires)
           K == {j \in 1..m : last[wires[j]] # NoAddr /\ first2[j - 1] # NoAddr}
           p(w) == PortOf(wires, w)
           W == 0..(n - 1)
           in == (ins \union ins2) \ Sides(joins, 2)
           out == (outs \union outs2) \ Sides(joins, 1)
           fst == FirstOf(first, first2, wires, n)
           lst == LastOf(last, last2, wires, n)
<1>1. DOMAIN wires = 1..m /\ \A k \in 1..m : wires[k] \in W /\ k - 1 \in 0..(m - 1)
  OBVIOUS
<1>2. /\ \A k \in 1..m : IsOn(wires, wires[k]) /\ p(wires[k]) = k - 1
      /\ \A w : IsOn(wires, w) => p(w) \in 0..(m - 1) /\ p(w) + 1 \in 1..m /\ wires[p(w) + 1] = w
  BY PortOfProperties
<1>3. joins = {<<last[wires[k]], first2[k - 1]>> : k \in K}
  BY <1>1 DEF JoinsOf
<1>4. /\ \A w \in W : first[w] # NoAddr => first[w] \in ins
      /\ \A a \in ins : a # NoAddr /\ \E w \in W : first[w] = a
      /\ \A v, w \in W : first[v] = first[w] /\ first[v] # NoAddr => v = w
      /\ \A w \in W : last[w] # NoAddr => last[w] \in outs
      /\ \A a \in outs : a # NoAddr /\ \E w \in W : last[w] = a
      /\ \A v, w \in W : last[v] = last[w] /\ last[v] # NoAddr => v = w
      /\ \A w \in W : first[w] = NoAddr <=> last[w] = NoAddr
  BY DEF IsWired, AreEnds
<1>5. /\ \A w \in 0..(m - 1) : first2[w] # NoAddr => first2[w] \in ins2
      /\ \A a \in ins2 : a # NoAddr /\ \E w \in 0..(m - 1) : first2[w] = a
      /\ \A v, w \in 0..(m - 1) : first2[v] = first2[w] /\ first2[v] # NoAddr => v = w
      /\ \A w \in 0..(m - 1) : last2[w] # NoAddr => last2[w] \in outs2
      /\ \A a \in outs2 : a # NoAddr /\ \E w \in 0..(m - 1) : last2[w] = a
      /\ \A v, w \in 0..(m - 1) : last2[v] = last2[w] /\ last2[v] # NoAddr => v = w
      /\ \A w \in 0..(m - 1) : first2[w] = NoAddr <=> last2[w] = NoAddr
  BY DEF IsWired, AreEnds
<1>6. IsFiniteSet(joins)
  <2>1. IsFiniteSet(K)
    BY FS_Interval, FS_Subset
  <2>2. PICK f : f = [k \in K |-> <<last[wires[k]], first2[k - 1]>>]
    OBVIOUS
  <2>3. f \in Surjection(K, joins)
    BY <1>3, <2>2 DEF Surjection
  <2> HIDE DEF joins, K
  <2> QED BY <2>1, <2>3, FS_Surjection
<1>7. \A j \in joins : \E k \in K : j = <<last[wires[k]], first2[k - 1]>>
  BY <1>3
<1>8. \A k \in K : k \in 1..m /\ last[wires[k]] \in outs /\ first2[k - 1] \in ins2
  BY <1>1, <1>4, <1>5
<1>9. \A k, l \in K : last[wires[k]] = last[wires[l]] \/ first2[k - 1] = first2[l - 1] => k = l
  <2>1. ASSUME NEW k \in K, NEW l \in K, last[wires[k]] = last[wires[l]]
        PROVE  k = l
    <3>1. wires[k] = wires[l]
      BY <2>1, <1>1, <1>4
    <3> QED BY <3>1, <1>1 DEF IsInjective
  <2>2. ASSUME NEW k \in K, NEW l \in K, first2[k - 1] = first2[l - 1]
        PROVE  k = l
    <3>1. k - 1 = l - 1
      BY <2>2, <1>1, <1>5
    <3> QED BY <3>1
  <2> QED BY <2>1, <2>2
<1>10. /\ \A a : a \in Sides(joins, 2) <=> \E k \in K : a = first2[k - 1]
       /\ \A a : a \in Sides(joins, 1) <=> \E k \in K : a = last[wires[k]]
  <2>1. \A k \in K : <<last[wires[k]], first2[k - 1]>> \in joins
    BY <1>3
  <2> HIDE DEF joins, K
  <2>2. ASSUME NEW k \in K
        PROVE  last[wires[k]] \in Sides(joins, 1) /\ first2[k - 1] \in Sides(joins, 2)
    <3>1. PICK j \in joins : j = <<last[wires[k]], first2[k - 1]>>
      BY <2>1
    <3>2. j[1] = last[wires[k]] /\ j[2] = first2[k - 1]
      BY <3>1
    <3> QED BY <3>2 DEF Sides
  <2>3. ASSUME NEW j \in joins
        PROVE  \E k \in K : j[1] = last[wires[k]] /\ j[2] = first2[k - 1]
    BY <1>7
  <2> QED BY <2>2, <2>3 DEF Sides
<1>11. /\ \A j \in joins : j = <<j[1], j[2]>> /\ j[1] \in outs /\ j[2] \in ins2
       /\ \A j, k \in joins : j[1] = k[1] \/ j[2] = k[2] => j = k
  <2>1. ASSUME NEW j \in joins
        PROVE  j = <<j[1], j[2]>> /\ j[1] \in outs /\ j[2] \in ins2
    BY <1>7, <1>8
  <2>2. ASSUME NEW j \in joins, NEW k \in joins, j[1] = k[1] \/ j[2] = k[2]
        PROVE  j = k
    <3>1. PICK i \in K : j = <<last[wires[i]], first2[i - 1]>>
      BY <1>7
    <3>2. PICK l \in K : k = <<last[wires[l]], first2[l - 1]>>
      BY <1>7
    <3>3. i = l
      <4> HIDE DEF K, joins
      <4> QED BY <2>2, <3>1, <3>2, <1>9
    <3> QED BY <3>1, <3>2, <3>3
  <2> QED BY <2>1, <2>2
<1> HIDE DEF joins, p
\* An address of the first part that is joined ends at the wire of a port.
<1>12. \A w \in W : /\ fst[w] = IF IsOn(wires, w) /\ first[w] = NoAddr THEN first2[p(w)] ELSE first[w]
                    /\ lst[w] = IF IsOn(wires, w) THEN LastAfter(last[w], last2[p(w)]) ELSE last[w]
  BY DEF FirstOf, LastOf, p
<1>13. \A w \in W : lst[w] = IF IsOn(wires, w) /\ last2[p(w)] # NoAddr THEN last2[p(w)] ELSE last[w]
  BY <1>12 DEF LastAfter
<1>14. fst = [w \in W |-> fst[w]] /\ lst = [w \in W |-> lst[w]]
  BY DEF FirstOf, LastOf
<1> HIDE DEF fst, lst
<1>15. AreEnds(fst, in, n)
  <2>1. ASSUME NEW w \in W, fst[w] # NoAddr
        PROVE  fst[w] \in in
    <3>1. CASE IsOn(wires, w) /\ first[w] = NoAddr
      <4>1. fst[w] = first2[p(w)] /\ p(w) \in 0..(m - 1) /\ fst[w] \in ins2
        BY <3>1, <2>1, <1>2, <1>5, <1>12
      <4>2. ASSUME NEW k \in K, first2[p(w)] = first2[k - 1]
            PROVE  FALSE
        <5>1. k - 1 = p(w)
          BY <4>1, <4>2, <2>1, <1>1, <1>5
        <5>2. wires[k] = w
          BY <5>1, <3>1, <1>2
        <5> QED BY <5>2, <3>1, <1>4
      <4> QED BY <4>1, <4>2, <1>10
    <3>2. CASE ~(IsOn(wires, w) /\ first[w] = NoAddr)
      <4>1. fst[w] = first[w] /\ fst[w] \in ins
        BY <3>2, <2>1, <1>4, <1>12
      <4> QED BY <4>1, <1>8, <1>10
    <3> QED BY <3>1, <3>2
  <2>2. ASSUME NEW a \in in
        PROVE  a # NoAddr /\ \E w \in W : fst[w] = a
    <3>1. CASE a \in ins
      BY <3>1, <1>4, <1>12
    <3>2. CASE a \in ins2
      <4>1. PICK q \in 0..(m - 1) : first2[q] = a
        BY <3>2, <1>5
      <4>2. a # NoAddr /\ q + 1 \in 1..m /\ (q + 1) - 1 = q
        BY <3>2, <1>5
      <4>3. q + 1 \notin K
        BY <4>1, <4>2, <1>10
      <4>4. last[wires[q + 1]] = NoAddr
        BY <4>1, <4>2, <4>3
      <4>5. IsOn(wires, wires[q + 1]) /\ p(wires[q + 1]) = q /\ wires[q + 1] \in W
        BY <4>2, <1>1, <1>2
      <4>6. first[wires[q + 1]] = NoAddr
        BY <4>4, <4>5, <1>4
      <4> QED BY <4>1, <4>2, <4>5, <4>6, <1>12
    <3> QED BY <3>1, <3>2
  <2>3. ASSUME NEW v \in W, NEW w \in W, fst[v] = fst[w], fst[v] # NoAddr
        PROVE  v = w
    <3>1. CASE IsOn(wires, v) /\ first[v] = NoAddr /\ IsOn(wires, w) /\ first[w] = NoAddr
      <4>1. fst[v] = first2[p(v)] /\ fst[w] = first2[p(w)]
        BY <3>1, <1>12
      <4>2. p(v) \in 0..(m - 1) /\ p(w) \in 0..(m - 1)
        BY <3>1, <1>2
      <4>3. p(v) = p(w)
        <5>1. first2[p(v)] = first2[p(w)] /\ first2[p(v)] # NoAddr
          BY <4>1, <2>3
        <5>2. \A x, y \in 0..(m - 1) : first2[x] = first2[y] /\ first2[x] # NoAddr => x = y
          BY <1>5
        <5> QED BY <4>2, <5>1, <5>2, Zenon
      <4> QED BY <4>3, <3>1, <1>2
    <3>2. CASE ~(IsOn(wires, v) /\ first[v] = NoAddr) /\ ~(IsOn(wires, w) /\ first[w] = NoAddr)
      BY <3>2, <2>3, <1>4, <1>12
    <3>3. ASSUME NEW x \in W, NEW y \in W, fst[x] = fst[y], fst[x] # NoAddr,
                 IsOn(wires, x) /\ first[x] = NoAddr, ~(IsOn(wires, y) /\ first[y] = NoAddr)
          PROVE  FALSE
      <4>1. fst[x] = first2[p(x)] /\ p(x) \in 0..(m - 1)
        BY <3>3, <1>2, <1>12
      <4>2. fst[x] \in ins2
        BY <4>1, <3>3, <1>5
      <4>3. fst[y] = first[y] /\ fst[y] # NoAddr
        BY <3>3, <1>12
      <4>4. fst[y] \in ins
        BY <4>3, <1>4
      <4> QED BY <4>2, <4>4, <3>3
    <3> QED BY <3>1, <3>2, <3>3, <2>3
  <2> QED BY <2>1, <2>2, <2>3, <1>14 DEF AreEnds
<1>16. AreEnds(lst, out, n)
  <2>1. ASSUME NEW w \in W, lst[w] # NoAddr
        PROVE  lst[w] \in out
    <3>1. CASE IsOn(wires, w) /\ last2[p(w)] # NoAddr
      <4>1. lst[w] = last2[p(w)] /\ lst[w] \in outs2
        BY <3>1, <1>2, <1>5, <1>13
      <4> QED BY <4>1, <1>8, <1>10
    <3>2. CASE ~(IsOn(wires, w) /\ last2[p(w)] # NoAddr)
      <4>1. lst[w] = last[w] /\ lst[w] \in outs
        BY <3>2, <2>1, <1>4, <1>13
      <4>2. ASSUME NEW k \in K, last[w] = last[wires[k]]
            PROVE  FALSE
        <5>1. wires[k] = w
          BY <4>1, <4>2, <2>1, <1>1, <1>4
        <5>2. p(w) = k - 1 /\ IsOn(wires, w) /\ k - 1 \in 0..(m - 1)
          BY <5>1, <1>1, <1>2
        <5>3. last2[p(w)] # NoAddr
          BY <5>2, <1>5
        <5> QED BY <5>2, <5>3, <3>2
      <4> QED BY <4>1, <4>2, <1>10
    <3> QED BY <3>1, <3>2
  <2>2. ASSUME NEW a \in out
        PROVE  a # NoAddr /\ \E w \in W : lst[w] = a
    <3>1. CASE a \in outs
      <4>1. PICK w \in W : last[w] = a
        BY <3>1, <1>4
      <4>2. a # NoAddr
        BY <3>1, <1>4
      <4>3. ASSUME IsOn(wires, w) /\ last2[p(w)] # NoAddr
            PROVE  FALSE
        <5>1. p(w) \in 0..(m - 1) /\ p(w) + 1 \in 1..m /\ wires[p(w) + 1] = w /\ (p(w) + 1) - 1 = p(w)
          BY <4>3, <1>2
        <5>2. p(w) + 1 \in K
          BY <5>1, <4>1, <4>2, <4>3, <1>5
        <5>3. a \in Sides(joins, 1)
          BY <5>1, <5>2, <4>1, <1>10
        <5> QED BY <5>3
      <4> QED BY <4>1, <4>2, <4>3, <1>13
    <3>2. CASE a \in outs2
      <4>1. PICK q \in 0..(m - 1) : last2[q] = a
        BY <3>2, <1>5
      <4>2. a # NoAddr /\ q + 1 \in 1..m /\ (q + 1) - 1 = q
        BY <3>2, <1>5
      <4>3. IsOn(wires, wires[q + 1]) /\ p(wires[q + 1]) = q /\ wires[q + 1] \in W
        BY <4>2, <1>1, <1>2
      <4> QED BY <4>1, <4>2, <4>3, <1>13
    <3> QED BY <3>1, <3>2
  <2>3. ASSUME NEW v \in W, NEW w \in W, lst[v] = lst[w], lst[v] # NoAddr
        PROVE  v = w
    <3>1. CASE IsOn(wires, v) /\ last2[p(v)] # NoAddr /\ IsOn(wires, w) /\ last2[p(w)] # NoAddr
      <4>1. lst[v] = last2[p(v)] /\ lst[w] = last2[p(w)]
        BY <3>1, <1>13
      <4>2. p(v) \in 0..(m - 1) /\ p(w) \in 0..(m - 1)
        BY <3>1, <1>2
      <4>3. p(v) = p(w)
        <5>1. last2[p(v)] = last2[p(w)] /\ last2[p(v)] # NoAddr
          BY <4>1, <2>3
        <5>2. \A x, y \in 0..(m - 1) : last2[x] = last2[y] /\ last2[x] # NoAddr => x = y
          BY <1>5
        <5> QED BY <4>2, <5>1, <5>2, Zenon
      <4> QED BY <4>3, <3>1, <1>2
    <3>2. CASE ~(IsOn(wires, v) /\ last2[p(v)] # NoAddr) /\ ~(IsOn(wires, w) /\ last2[p(w)] # NoAddr)
      BY <3>2, <2>3, <1>4, <1>13
    <3>3. ASSUME NEW x \in W, NEW y \in W, lst[x] = lst[y], lst[x] # NoAddr,
                 IsOn(wires, x) /\ last2[p(x)] # NoAddr, ~(IsOn(wires, y) /\ last2[p(y)] # NoAddr)
          PROVE  FALSE
      <4>1. lst[x] = last2[p(x)] /\ p(x) \in 0..(m - 1)
        BY <3>3, <1>2, <1>13
      <4>2. lst[x] \in outs2
        BY <4>1, <3>3, <1>5
      <4>3. lst[y] = last[y] /\ lst[y] # NoAddr
        BY <3>3, <1>13
      <4>4. lst[y] \in outs
        BY <4>3, <1>4
      <4> QED BY <4>2, <4>4, <3>3
    <3> QED BY <3>1, <3>2, <3>3, <2>3
  <2> QED BY <2>1, <2>2, <2>3, <1>14 DEF AreEnds
<1>17. ASSUME NEW w \in W
       PROVE  fst[w] = NoAddr <=> lst[w] = NoAddr
  <2>1. CASE IsOn(wires, w)
    <3>1. p(w) \in 0..(m - 1)
      BY <2>1, <1>2
    <3>2. first2[p(w)] = NoAddr <=> last2[p(w)] = NoAddr
      BY <3>1, <1>5
    <3>3. first[w] = NoAddr <=> last[w] = NoAddr
      BY <1>4
    <3> QED BY <2>1, <3>2, <3>3, <1>12, <1>13
  <2>2. CASE ~IsOn(wires, w)
    BY <2>2, <1>4, <1>12, <1>13
  <2> QED BY <2>1, <2>2
<1>18. IsWired(in, out, fst, lst, n)
  BY <1>15, <1>16, <1>17 DEF IsWired
<1> QED
  BY <1>6, <1>11, <1>18 DEF fst, lst, joins

-----------------------------------------------------------------------------
(***************************************************************************)
(* Networks: appending a gate.                                             *)
(***************************************************************************)

\* A network by its parts.
NetworkOf(n, c, size, first, last) ==
  [wireCount |-> n, circuit |-> c, size |-> size, first |-> first, last |-> last]

\* A network of n wires: a circuit whose open addresses are the ends of its wires.  This is what
\* holds in all states, of the network and of the part.
IsNetwork(net, n) ==
  /\ n \in Nat /\ net.size \in Nat
  /\ net = NetworkOf(n, net.circuit, net.size, net.first, net.last)
  /\ AreGates(net.circuit.gates, net.size)
  /\ IsCircuit(net.circuit, net.circuit.gates)
  /\ IsWired(net.circuit.inputAddrs, net.circuit.outputAddrs, net.first, net.last, n)

\* The parts of a network.
LEMMA NetworkParts ==
  ASSUME NEW n, NEW c, NEW size, NEW first, NEW last
  PROVE  LET net == NetworkOf(n, c, size, first, last)
         IN /\ net.wireCount = n /\ net.circuit = c /\ net.size = size
            /\ net.first = first /\ net.last = last
BY DEF NetworkOf

\* All parts but the number of wires change.
Updated(net, c, size, last, first) ==
  [net EXCEPT !.circuit = c, !.size = size, !.last = last, !.first = first]

\* A network with other parts.
LEMMA NetworkUpdates ==
  ASSUME NEW n, NEW c, NEW size, NEW first, NEW last,
         NEW c2, NEW size2, NEW first2, NEW last2
  PROVE  Updated(NetworkOf(n, c, size, first, last), c2, size2, last2, first2)
           = NetworkOf(n, c2, size2, first2, last2)
<1>1. PICK net : net = NetworkOf(n, c, size, first, last)
  OBVIOUS
<1>2. Updated(net, c2, size2, last2, first2) =
        [[[[net EXCEPT !.circuit = c2] EXCEPT !.size = size2] EXCEPT !.last = last2] EXCEPT !.first = first2]
  BY DEF Updated
<1>3. [net EXCEPT !.circuit = c2] = NetworkOf(n, c2, size, first, last)
  BY <1>1 DEF NetworkOf
<1>4. [NetworkOf(n, c2, size, first, last) EXCEPT !.size = size2] = NetworkOf(n, c2, size2, first, last)
  BY DEF NetworkOf
<1>5. [NetworkOf(n, c2, size2, first, last) EXCEPT !.last = last2] = NetworkOf(n, c2, size2, first, last2)
  BY DEF NetworkOf
<1>6. [NetworkOf(n, c2, size2, first, last2) EXCEPT !.first = first2] = NetworkOf(n, c2, size2, first2, last2)
  BY DEF NetworkOf
<1> QED
  BY <1>1, <1>2, <1>3, <1>4, <1>5, <1>6

\* A gate with the next number has addresses that no other gate has.
LEMMA AddedGate ==
  ASSUME NEW n \in Nat, NEW gates, AreGates(gates, n), NEW gate, IsGate(gate)
  PROVE  /\ AreGates(With(gates, n + 1, gate), n + 1)
         /\ AllAddrs(With(gates, n + 1, gate)) = AllAddrs(gates) \union LocalAddrs(n + 1, gate)
         /\ AllAddrs(gates) \intersect LocalAddrs(n + 1, gate) = {}
<1>1. PICK g : g = n + 1
  OBVIOUS
<1>2. /\ g \in Nat /\ g \notin DOMAIN gates /\ DOMAIN gates \subseteq 1..g /\ g \in 1..g
      /\ \A h \in DOMAIN gates : IsGate(gates[h])
  BY <1>1 DEF AreGates
<1>3. PICK more : more = With(gates, g, gate)
  OBVIOUS
<1>4. /\ more = [h \in DOMAIN more |-> more[h]]
      /\ DOMAIN more = DOMAIN gates \union {g} /\ more[g] = gate
      /\ \A h \in DOMAIN gates : more[h] = gates[h]
  BY <1>2, <1>3 DEF With
<1>5. AreGates(more, g)
  BY <1>2, <1>4 DEF AreGates
<1>6. AllAddrs(more) = AllAddrs(gates) \union LocalAddrs(g, gate)
  BY <1>2, <1>4 DEF AllAddrs
<1>7. AllAddrs(gates) \intersect LocalAddrs(g, gate) = {}
  BY <1>2 DEF AllAddrs, LocalAddrs
<1> QED
  BY <1>1, <1>3, <1>5, <1>6, <1>7

\* The circuit with another gate that is not connected yet.
LEMMA UnconnectedGate ==
  ASSUME NEW n \in Nat, NEW gates, AreGates(gates, n), NEW gate, IsGate(gate),
         NEW c, IsCircuit(c, gates)
  PROVE  LET L == LocalAddrs(n + 1, gate)
         IN IsCircuit(CircuitOf(With(gates, n + 1, gate), c.inputAddrs \union L, c.outputAddrs \union L,
                                c.outputCounterparties, c.inputCounterparties),
                      With(gates, n + 1, gate))
<1> DEFINE A == AllAddrs(gates)
           L == LocalAddrs(n + 1, gate)
<1>1. PICK more : more = With(gates, n + 1, gate)
  OBVIOUS
<1>2. AllAddrs(more) = A \union L /\ A \intersect L = {}
  BY <1>1, AddedGate
<1>3. PICK out, in : out = c.outputCounterparties /\ in = c.inputCounterparties
  OBVIOUS
<1>4. /\ c.inputAddrs = A \ DOMAIN in /\ c.outputAddrs = A \ DOMAIN out
      /\ DOMAIN in \subseteq A /\ DOMAIN out \subseteq A
      /\ \A a \in DOMAIN in : in[a] \in A
      /\ \A a \in DOMAIN out : out[a] \in A
      /\ out \in Partial(A) /\ in \in Partial(A)
  BY <1>3, IsCircuitFields
<1>5. AreInverse(out, in)
  BY <1>3 DEF IsCircuit
<1> HIDE DEF A, L
<1>6. c.inputAddrs \union L = (A \union L) \ DOMAIN in /\ c.outputAddrs \union L = (A \union L) \ DOMAIN out
  BY <1>2, <1>4
<1>7. out \in Partial(A \union L) /\ in \in Partial(A \union L)
  BY <1>4, PartialProperties
<1>8. PICK d : d = CircuitOf(more, c.inputAddrs \union L, c.outputAddrs \union L, out, in)
  OBVIOUS
<1>9. d.outputCounterparties = out /\ d.inputCounterparties = in
  BY <1>8, CircuitParts
<1>10. IsCircuit(d, more)
  BY <1>2, <1>5, <1>6, <1>7, <1>8, <1>9 DEF IsCircuit
<1> QED
  BY <1>1, <1>3, <1>8, <1>10 DEF L

\* The same, as AddGate makes it.
GateAdded(c, gates, g, gate) ==
  CircuitOf(With(gates, g, gate), c.inputAddrs \union LocalAddrs(g, gate),
            c.outputAddrs \union LocalAddrs(g, gate),
            c.outputCounterparties, c.inputCounterparties)

\* AddGate connects the circuit with the new gate.
LEMMA AddGateIs ==
  ASSUME NEW c, NEW gates, IsCircuit(c, gates), NEW g, NEW gate, NEW joins
  PROVE  AddGate(c, g, gate, joins) = AddConnections(GateAdded(c, gates, g, gate), joins)
<1>1. PICK ins, outs, out, in : c = CircuitOf(gates, ins, outs, out, in)
  BY Zenon DEF IsCircuit
<1>2. /\ c.gates = gates /\ c.inputAddrs = ins /\ c.outputAddrs = outs
      /\ c.outputCounterparties = out /\ c.inputCounterparties = in
  BY <1>1, CircuitParts
<1>3. PICK L : L = LocalAddrs(g, gate)
  OBVIOUS
<1>4. PICK more, i, o : more = With(gates, g, gate) /\ i = ins \union L /\ o = outs \union L
  OBVIOUS
<1>5. AddGate(c, g, gate, joins) =
        AddConnections([c EXCEPT !.gates = more, !.inputAddrs = i, !.outputAddrs = o], joins)
  BY <1>2, <1>3, <1>4 DEF AddGate
<1>6. [c EXCEPT !.gates = more, !.inputAddrs = i, !.outputAddrs = o] =
        [[[c EXCEPT !.gates = more] EXCEPT !.inputAddrs = i] EXCEPT !.outputAddrs = o]
  OBVIOUS
<1>7. [c EXCEPT !.gates = more] = CircuitOf(more, ins, outs, out, in)
  BY <1>1 DEF CircuitOf
<1>8. [CircuitOf(more, ins, outs, out, in) EXCEPT !.inputAddrs = i]
        = CircuitOf(more, i, outs, out, in)
  BY DEF CircuitOf
<1>9. [CircuitOf(more, i, outs, out, in) EXCEPT !.outputAddrs = o] = CircuitOf(more, i, o, out, in)
  BY DEF CircuitOf
<1>10. AddGate(c, g, gate, joins) = AddConnections(CircuitOf(more, i, o, out, in), joins)
  BY <1>5, <1>6, <1>7, <1>8, <1>9
<1>11. GateAdded(c, gates, g, gate) = CircuitOf(more, i, o, out, in)
  BY <1>2, <1>3, <1>4 DEF GateAdded
<1> QED
  BY <1>10, <1>11

\* A network stays one if another one is appended to some of its wires.
LEMMA AppendedIsNetwork ==
  ASSUME NEW n \in Nat, NEW m \in Nat, NEW wires \in [1..m -> 0..(n - 1)], IsInjective(wires),
         NEW ins, NEW outs, NEW first, NEW last, IsWired(ins, outs, first, last, n),
         NEW ins2, NEW outs2, NEW first2, NEW last2, IsWired(ins2, outs2, first2, last2, m),
         ins \intersect ins2 = {}, outs \intersect outs2 = {},
         NEW size \in Nat, NEW gates, AreGates(gates, size), NEW base, IsCircuit(base, gates),
         base.inputAddrs = ins \union ins2, base.outputAddrs = outs \union outs2,
         \A a \in outs : \A b \in ins2 : a[1] < b[1],
         NEW joins, joins = JoinsOf(last, first2, wires)
  PROVE  IsNetwork(NetworkOf(n, AddConnections(base, joins), size,
                             FirstOf(first, first2, wires, n), LastOf(last, last2, wires, n)), n)
<1>1. PICK fst, lst : fst = FirstOf(first, first2, wires, n) /\ lst = LastOf(last, last2, wires, n)
  OBVIOUS
<1>2. /\ IsFiniteSet(joins)
      /\ \A j \in joins : j = <<j[1], j[2]>> /\ j[1] \in outs /\ j[2] \in ins2
      /\ \A j, k \in joins : j[1] = k[1] \/ j[2] = k[2] => j = k
      /\ IsWired((ins \union ins2) \ Sides(joins, 2), (outs \union outs2) \ Sides(joins, 1),
                 fst, lst, n)
  <2>1. LET found == JoinsOf(last, first2, wires)
        IN /\ IsFiniteSet(found)
           /\ \A j \in found : j = <<j[1], j[2]>> /\ j[1] \in outs /\ j[2] \in ins2
           /\ \A j, k \in found : j[1] = k[1] \/ j[2] = k[2] => j = k
           /\ IsWired((ins \union ins2) \ Sides(found, 2), (outs \union outs2) \ Sides(found, 1),
                      FirstOf(first, first2, wires, n), LastOf(last, last2, wires, n), n)
    BY AppendedIsWired, Zenon
  <2> QED BY <1>1, <2>1, Zenon
<1>3. AreJoins(base, joins)
  BY <1>2 DEF AreJoins
<1>4. PICK d : d = AddConnections(base, joins)
  OBVIOUS
<1>5. IsJoined(d, base, gates, joins)
  BY <1>3, <1>4, AddConnectionsProperties
<1>6. /\ IsCircuit(d, gates)
      /\ d.inputAddrs = (ins \union ins2) \ Sides(joins, 2)
      /\ d.outputAddrs = (outs \union outs2) \ Sides(joins, 1)
  BY <1>5 DEF IsJoined
<1>7. d.gates = gates
  BY <1>6, IsCircuitFields
<1>8. IsWired(d.inputAddrs, d.outputAddrs, fst, lst, n)
  BY <1>2, <1>6
<1>9. PICK app : app = NetworkOf(n, d, size, fst, lst)
  OBVIOUS
<1>10. app.circuit = d /\ app.size = size /\ app.first = fst /\ app.last = lst /\ app.circuit.gates = gates
  BY <1>7, <1>9, NetworkParts
<1>11. IsNetwork(app, n)
  BY <1>6, <1>8, <1>9, <1>10 DEF IsNetwork
<1> QED
  BY <1>1, <1>4, <1>9, <1>11

\* SortingNetwork.AppendGate leaves a network.
LEMMA AppendGateProperties ==
  ASSUME NEW n, NEW net, IsNetwork(net, n), NEW gate, IsGate(gate),
         NEW wires \in WireLists(n, gate.count)
  PROVE  IsNetwork(AppendGate(net, gate, wires), n)
<1>1. PICK c, size, first, last : net = NetworkOf(n, c, size, first, last)
  BY Zenon DEF IsNetwork
<1>2. /\ net.wireCount = n /\ net.circuit = c /\ net.size = size
      /\ net.first = first /\ net.last = last
  BY <1>1, NetworkParts
<1>3. PICK gates : gates = c.gates
  OBVIOUS
<1>4. /\ n \in Nat /\ size \in Nat
      /\ AreGates(gates, size) /\ IsCircuit(c, gates)
      /\ IsWired(c.inputAddrs, c.outputAddrs, first, last, n)
  BY <1>2, <1>3 DEF IsNetwork
<1>5. PICK g, m : g = size + 1 /\ m = gate.count
  OBVIOUS
<1>6. m \in Nat /\ g \in Nat /\ wires \in [1..m -> 0..(n - 1)] /\ IsInjective(wires)
  BY <1>4, <1>5 DEF WireLists, IsGate
<1>7. PICK L : L = LocalAddrs(g, gate)
  OBVIOUS
<1>8. PICK ports : ports = [p \in 0..(m - 1) |-> <<g, p>>]
  OBVIOUS
<1>9. \A p \in 0..(m - 1) : ports[p] = <<g, p>> /\ ports[p] # NoAddr
  BY <1>8 DEF NoAddr
<1>10. IsWired(L, L, ports, ports, m)
  <2>1. \A a : a \in L <=> \E p \in 0..(m - 1) : a = <<g, p>>
    BY <1>5, <1>7 DEF LocalAddrs, PortsOf
  <2>2. AreEnds(ports, L, m)
    <3>1. ports = [p \in 0..(m - 1) |-> ports[p]]
      BY <1>8
    <3>2. \A v, w \in 0..(m - 1) : ports[v] = ports[w] => v = w
      BY <1>9
    <3>3. /\ \A w \in 0..(m - 1) : ports[w] \in L
          /\ \A a \in L : a # NoAddr /\ \E w \in 0..(m - 1) : ports[w] = a
      BY <1>9, <2>1
    <3> QED BY <3>1, <3>2, <3>3 DEF AreEnds
  <2> QED BY <2>2 DEF IsWired
<1>11. PICK more : more = With(gates, g, gate)
  OBVIOUS
<1>12. AreGates(more, g) /\ AllAddrs(gates) \intersect L = {}
  BY <1>4, <1>5, <1>7, <1>11, AddedGate
<1>13. PICK base : base = CircuitOf(more, c.inputAddrs \union L, c.outputAddrs \union L,
                                    c.outputCounterparties, c.inputCounterparties)
  OBVIOUS
<1>14. IsCircuit(base, more)
  BY <1>4, <1>5, <1>7, <1>11, <1>13, UnconnectedGate
<1>15. base.inputAddrs = c.inputAddrs \union L /\ base.outputAddrs = c.outputAddrs \union L
  BY <1>13 DEF CircuitOf
<1>16. c.inputAddrs \subseteq AllAddrs(gates) /\ c.outputAddrs \subseteq AllAddrs(gates)
  BY <1>4, IsCircuitFields
<1>17. c.inputAddrs \intersect L = {} /\ c.outputAddrs \intersect L = {}
  BY <1>12, <1>16
<1>18. \A a \in c.outputAddrs : \A b \in L : a[1] < b[1]
  <2>1. \A a \in c.outputAddrs : a[1] \in 1..size
    BY <1>4, <1>16, AllAddrsProperties
  <2>2. \A b \in L : b[1] = g
    BY <1>7 DEF LocalAddrs
  <2> QED BY <2>1, <2>2, <1>4, <1>5
<1>19. PICK joins : joins = JoinsOf(last, ports, wires)
  OBVIOUS
<1>20. IsNetwork(NetworkOf(n, AddConnections(base, joins), g,
                           FirstOf(first, ports, wires, n), LastOf(last, ports, wires, n)), n)
  BY <1>4, <1>6, <1>10, <1>12, <1>14, <1>15, <1>17, <1>18, <1>19, AppendedIsNetwork
<1>21. \A w : IsOn(wires, w) => PortOf(wires, w) \in 0..(m - 1)
  BY <1>4, <1>6, PortOfProperties
<1>22. PICK fst, lst : fst = FirstOf(first, ports, wires, n) /\ lst = LastOf(last, ports, wires, n)
  OBVIOUS
<1>23. PICK js, ls, fs :
         /\ js = {<<net.last[wires[k]], <<g, k - 1>>>> :
                   k \in {j \in DOMAIN wires : net.last[wires[j]] # NoAddr}}
         /\ ls = [w \in Wires(net) |-> IF IsOn(wires, w) THEN <<g, PortOf(wires, w)>> ELSE net.last[w]]
         /\ fs = [w \in Wires(net) |-> IF IsOn(wires, w) /\ net.first[w] = NoAddr
                                         THEN <<g, PortOf(wires, w)>> ELSE net.first[w]]
  OBVIOUS
<1>24. js = joins
  <2>1. \A k \in DOMAIN wires : ports[k - 1] = <<g, k - 1>> /\ ports[k - 1] # NoAddr
    BY <1>6, <1>9
  <2> QED BY <2>1, <1>2, <1>19, <1>23 DEF JoinsOf
<1>25. ls = lst
  <2>1. ASSUME NEW w, IsOn(wires, w)
        PROVE  LastAfter(last[w], ports[PortOf(wires, w)]) = <<g, PortOf(wires, w)>>
    BY <2>1, <1>9, <1>21 DEF LastAfter
  <2> QED BY <2>1, <1>2, <1>22, <1>23 DEF LastOf, Wires
<1>26. fs = fst
  <2>1. ASSUME NEW w, IsOn(wires, w)
        PROVE  ports[PortOf(wires, w)] = <<g, PortOf(wires, w)>>
    BY <2>1, <1>9, <1>21
  <2> QED BY <2>1, <1>2, <1>22, <1>23 DEF FirstOf, Wires
<1>27. PICK d : d = AddConnections(base, joins)
  OBVIOUS
<1>28. AddGate(c, g, gate, joins) = d
  <2>1. IsCircuit(c, gates)
    BY <1>4
  <2>2. AddGate(c, g, gate, joins) = AddConnections(GateAdded(c, gates, g, gate), joins)
    BY <2>1, AddGateIs, SMT
  <2>3. GateAdded(c, gates, g, gate) = base
    BY <1>7, <1>11, <1>13 DEF GateAdded
  <2> QED BY <2>2, <2>3, <1>27
<1>29. AppendGate(net, gate, wires) = Updated(net, d, g, lst, fst)
  <2>1. g = net.size + 1
    BY <1>2, <1>5
  <2>2. AppendGate(net, gate, wires) =
          [net EXCEPT !.circuit = AddGate(net.circuit, g, gate, js), !.size = g, !.last = ls, !.first = fs]
    BY <2>1, <1>23 DEF AppendGate
  <2> QED BY <2>2, <1>2, <1>24, <1>25, <1>26, <1>28 DEF Updated
<1>30. Updated(net, d, g, lst, fst) = NetworkOf(n, d, g, fst, lst)
  BY <1>1, NetworkUpdates
<1> QED
  BY <1>20, <1>22, <1>27, <1>29, <1>30

-----------------------------------------------------------------------------
(***************************************************************************)
(* Clones, and appending a network.                                        *)
(***************************************************************************)

\* The gates of a clone.
MovedGates(gates, offset) == [g \in {h + offset : h \in DOMAIN gates} |-> gates[g - offset]]

\* Addresses with other numbers of gates are as different as before.
LEMMA MovedAddrProperties ==
  ASSUME NEW k \in Int
  PROVE  /\ \A a \in Addr : /\ MovedAddr(a, k) \in Addr
                            /\ MovedAddr(a, k)[1] = a[1] + k
                            /\ MovedAddr(MovedAddr(a, k), -k) = a
         /\ \A a, b \in Addr : MovedAddr(a, k) = MovedAddr(b, k) => a = b
<1>1. ASSUME NEW a \in Addr
      PROVE  /\ MovedAddr(a, k) \in Addr
             /\ MovedAddr(a, k)[1] = a[1] + k
             /\ MovedAddr(MovedAddr(a, k), -k) = a
  <2>1. PICK g \in Int, p \in Int : a = <<g, p>>
    BY DEF Addr
  <2>2. MovedAddr(a, k) = <<g + k, p>>
    BY <2>1 DEF MovedAddr
  <2>3. MovedAddr(<<g + k, p>>, -k) = <<g + k + (-k), p>>
    BY DEF MovedAddr
  <2>4. g + k + (-k) = g
    OBVIOUS
  <2> QED BY <2>1, <2>2, <2>3, <2>4 DEF Addr
<1>2. ASSUME NEW a \in Addr, NEW b \in Addr, MovedAddr(a, k) = MovedAddr(b, k)
      PROVE  a = b
  BY <1>1, <1>2
<1> QED
  BY <1>1, <1>2

\* A clone that is numbered from k has its gates after the first k.
LEMMA MovedGatesProperties ==
  ASSUME NEW k \in Nat, NEW n \in Nat, NEW gates, AreGates(gates, n)
  PROVE  LET moved == MovedGates(gates, k)
         IN /\ AreGates(moved, k + n)
            /\ \A g \in DOMAIN moved : g > k
            /\ AllAddrs(moved) = MovedAddrs(AllAddrs(gates), k)
<1>1. PICK moved : moved = MovedGates(gates, k)
  OBVIOUS
<1>2. /\ DOMAIN gates \subseteq 1..n
      /\ \A g \in DOMAIN gates : IsGate(gates[g])
  BY DEF AreGates
<1>3. /\ moved = [g \in DOMAIN moved |-> moved[g]]
      /\ \A g : g \in DOMAIN moved <=> \E h \in DOMAIN gates : g = h + k
  BY <1>1 DEF MovedGates
<1>4. ASSUME NEW h \in DOMAIN gates
      PROVE  /\ h + k \in DOMAIN moved /\ moved[h + k] = gates[h]
             /\ h + k \in 1..(k + n) /\ h + k > k
  <2>1. h \in 1..n /\ (h + k) - k = h
    BY <1>2
  <2>2. h + k \in DOMAIN moved
    BY <1>3
  <2>3. moved[h + k] = gates[(h + k) - k]
    BY <2>2, <1>1 DEF MovedGates
  <2> QED BY <2>1, <2>2, <2>3
<1>5. AreGates(moved, k + n)
  <2>1. \A g \in DOMAIN moved : g \in 1..(k + n) /\ IsGate(moved[g])
    BY <1>2, <1>3, <1>4
  <2> QED BY <2>1, <1>3 DEF AreGates
<1>6. AllAddrs(moved) = MovedAddrs(AllAddrs(gates), k)
  <2>1. \A h \in DOMAIN gates : \A p : MovedAddr(<<h, p>>, k) = <<h + k, p>>
    BY DEF MovedAddr
  <2>2. ASSUME NEW a \in AllAddrs(moved)
        PROVE  a \in MovedAddrs(AllAddrs(gates), k)
    <3>1. PICK g \in DOMAIN moved : a \in LocalAddrs(g, moved[g])
      BY DEF AllAddrs
    <3>2. PICK h \in DOMAIN gates : g = h + k
      BY <1>3
    <3>3. PICK p \in PortsOf(gates[h]) : a = <<h + k, p>>
      BY <3>1, <3>2, <1>4 DEF LocalAddrs
    <3>4. <<h, p>> \in AllAddrs(gates)
      BY DEF AllAddrs, LocalAddrs
    <3> QED BY <3>3, <3>4, <2>1 DEF MovedAddrs
  <2>3. ASSUME NEW a \in AllAddrs(gates)
        PROVE  MovedAddr(a, k) \in AllAddrs(moved)
    <3>1. PICK h \in DOMAIN gates : a \in LocalAddrs(h, gates[h])
      BY DEF AllAddrs
    <3>2. PICK p \in PortsOf(gates[h]) : a = <<h, p>>
      BY <3>1 DEF LocalAddrs
    <3>3. <<h + k, p>> \in LocalAddrs(h + k, moved[h + k])
      BY <1>4 DEF LocalAddrs
    <3>4. <<h + k, p>> \in AllAddrs(moved)
      BY <3>3, <1>4 DEF AllAddrs
    <3> QED BY <3>2, <3>4, <2>1
  <2> QED BY <2>2, <2>3 DEF MovedAddrs
<1>7. \A g \in DOMAIN moved : g > k
  BY <1>3, <1>4
<1> QED
  BY <1>1, <1>5, <1>6, <1>7

\* A clone is a circuit like the one it is made of.
LEMMA CloneProperties ==
  ASSUME NEW k \in Nat, NEW n \in Nat, NEW gates, AreGates(gates, n), NEW c, IsCircuit(c, gates)
  PROVE  LET d == CloneCircuit(c, k)
         IN /\ IsCircuit(d, MovedGates(gates, k))
            /\ d.outputCounterparties = Inverted(d.inputCounterparties)
            /\ d.inputAddrs = MovedAddrs(c.inputAddrs, k)
            /\ d.outputAddrs = MovedAddrs(c.outputAddrs, k)
<1>1. PICK A, in, out : A = AllAddrs(gates) /\ in = c.inputCounterparties /\ out = c.outputCounterparties
  OBVIOUS
<1>2. /\ c.gates = gates
      /\ c.inputAddrs = A \ DOMAIN in /\ c.outputAddrs = A \ DOMAIN out
      /\ DOMAIN in \subseteq A /\ DOMAIN out \subseteq A
      /\ \A a \in DOMAIN in : in[a] \in A /\ in[a] \in DOMAIN out /\ out[in[a]] = a /\ in[a][1] < a[1]
      /\ \A a \in DOMAIN out : out[a] \in A /\ out[a] \in DOMAIN in /\ in[out[a]] = a
  BY <1>1, IsCircuitFields
<1>3. A \subseteq Addr
  BY <1>1, AllAddrsProperties
<1>4. /\ \A a \in A : MovedAddr(a, k)[1] = a[1] + k /\ MovedAddr(MovedAddr(a, k), -k) = a
      /\ \A a, b \in A : MovedAddr(a, k) = MovedAddr(b, k) => a = b
  BY <1>3, MovedAddrProperties
<1>5. PICK moved, B : moved = MovedGates(gates, k) /\ B = MovedAddrs(A, k)
  OBVIOUS
<1>6. AllAddrs(moved) = B
  BY <1>1, <1>5, MovedGatesProperties
<1>7. PICK i : i = [a \in MovedAddrs(DOMAIN in, k) |-> MovedAddr(in[MovedAddr(a, -k)], k)]
  OBVIOUS
<1>8. PICK o : o = Inverted(i)
  OBVIOUS
<1>9. /\ i = [a \in DOMAIN i |-> i[a]]
      /\ \A a : a \in DOMAIN i <=> \E b \in DOMAIN in : a = MovedAddr(b, k)
      /\ \A b \in DOMAIN in : i[MovedAddr(b, k)] = MovedAddr(in[b], k)
  <2>1. \A a : a \in DOMAIN i <=> \E b \in DOMAIN in : a = MovedAddr(b, k)
    BY <1>7 DEF MovedAddrs
  <2>2. ASSUME NEW b \in DOMAIN in
        PROVE  i[MovedAddr(b, k)] = MovedAddr(in[b], k)
    <3>1. MovedAddr(b, k) \in MovedAddrs(DOMAIN in, k)
      BY DEF MovedAddrs
    <3>2. MovedAddr(MovedAddr(b, k), -k) = b
      BY <1>2, <1>4
    <3> QED BY <3>1, <3>2, <1>7
  <2> QED BY <2>1, <2>2, <1>7
<1>10. /\ o = [a \in DOMAIN o |-> o[a]]
       /\ \A a : a \in DOMAIN o <=> \E b \in DOMAIN out : a = MovedAddr(b, k)
       /\ \A b \in DOMAIN out : o[MovedAddr(b, k)] = MovedAddr(out[b], k)
  <2>1. /\ o = [a \in DOMAIN o |-> o[a]]
        /\ \A a : a \in DOMAIN o <=> \E b \in DOMAIN i : a = i[b]
        /\ \A a \in DOMAIN o : o[a] = CHOOSE b \in DOMAIN i : i[b] = a
    BY <1>8 DEF Inverted
  <2>2. \A a : a \in DOMAIN o <=> \E b \in DOMAIN in : a = MovedAddr(in[b], k)
    BY <2>1, <1>9
  <2>3. \A a : a \in DOMAIN o <=> \E b \in DOMAIN out : a = MovedAddr(b, k)
    BY <2>2, <1>2
  <2>4. ASSUME NEW b \in DOMAIN out
        PROVE  o[MovedAddr(b, k)] = MovedAddr(out[b], k)
    <3>1. PICK a : a = MovedAddr(b, k)
      OBVIOUS
    <3>2. PICK x : x = CHOOSE y \in DOMAIN i : i[y] = a
      OBVIOUS
    <3>3. o[a] = x
      BY <3>1, <3>2, <2>1, <2>3
    <3>4. MovedAddr(out[b], k) \in DOMAIN i /\ i[MovedAddr(out[b], k)] = a
      BY <3>1, <1>2, <1>9
    <3>5. x \in DOMAIN i /\ i[x] = a
      BY <3>2, <3>4
    <3>6. PICK y \in DOMAIN in : x = MovedAddr(y, k)
      BY <3>5, <1>9
    <3>7. MovedAddr(in[y], k) = MovedAddr(b, k)
      BY <3>1, <3>5, <3>6, <1>9
    <3>8. in[y] = b
      BY <3>7, <1>2, <1>4
    <3> QED BY <3>1, <3>3, <3>6, <3>8, <1>2
  <2> QED BY <2>1, <2>3, <2>4
<1>11. PICK s, t : s = MovedAddrs(c.inputAddrs, k) /\ t = MovedAddrs(c.outputAddrs, k)
  OBVIOUS
<1>12. s = B \ DOMAIN i /\ t = B \ DOMAIN o
  <2>1. /\ \A a : a \in s <=> \E b \in A : b \notin DOMAIN in /\ a = MovedAddr(b, k)
        /\ \A a : a \in t <=> \E b \in A : b \notin DOMAIN out /\ a = MovedAddr(b, k)
        /\ \A a : a \in B <=> \E b \in A : a = MovedAddr(b, k)
    BY <1>2, <1>5, <1>11 DEF MovedAddrs
  <2>2. s = B \ DOMAIN i
    BY <2>1, <1>2, <1>4, <1>9
  <2>3. t = B \ DOMAIN o
    BY <2>1, <1>2, <1>4, <1>10
  <2> QED BY <2>2, <2>3
<1>13. PICK d : d = CircuitOf(moved, s, t, o, i)
  OBVIOUS
<1>14. CloneCircuit(c, k) = d
  <2>1. CloneCircuit(c, k) =
          [gates |-> moved, inputAddrs |-> s, outputAddrs |-> t,
           inputCounterparties |-> i, outputCounterparties |-> o]
    BY <1>1, <1>2, <1>5, <1>7, <1>8, <1>11 DEF CloneCircuit, MovedGates
  <2> QED BY <2>1, <1>13 DEF CircuitOf
<1>15. /\ d.gates = moved /\ d.inputAddrs = s /\ d.outputAddrs = t
       /\ d.outputCounterparties = o /\ d.inputCounterparties = i
  BY <1>13, CircuitParts
<1>16. i \in Partial(B) /\ o \in Partial(B)
  <2>1. \A a \in A : MovedAddr(a, k) \in B
    BY <1>5 DEF MovedAddrs
  <2>2. DOMAIN i \subseteq B /\ \A a \in DOMAIN i : i[a] \in B
    BY <2>1, <1>2, <1>9
  <2>3. DOMAIN o \subseteq B /\ \A a \in DOMAIN o : o[a] \in B
    BY <2>1, <1>2, <1>10
  <2> QED BY <2>2, <2>3, <1>9, <1>10, PartialProperties
<1>17. AreInverse(o, i)
  <2>1. \A a \in DOMAIN i : i[a] \in DOMAIN o /\ o[i[a]] = a
    BY <1>2, <1>9, <1>10
  <2>2. \A a \in DOMAIN o : o[a] \in DOMAIN i /\ i[o[a]] = a
    BY <1>2, <1>9, <1>10
  <2>3. ASSUME NEW a \in DOMAIN i
        PROVE  i[a][1] < a[1]
    <3>1. PICK b \in DOMAIN in : a = MovedAddr(b, k)
      BY <1>9
    <3>2. i[a] = MovedAddr(in[b], k) /\ in[b] \in A /\ b \in A /\ in[b][1] < b[1]
      BY <3>1, <1>2, <1>9
    <3>3. i[a][1] = in[b][1] + k /\ a[1] = b[1] + k
      BY <3>1, <3>2, <1>4
    <3>4. in[b][1] \in Int /\ b[1] \in Int
      BY <3>2, <1>3 DEF Addr
    <3> QED BY <3>2, <3>3, <3>4
  <2> QED BY <2>1, <2>2, <2>3 DEF AreInverse
<1>18. IsCircuit(d, moved)
  BY <1>6, <1>12, <1>13, <1>15, <1>16, <1>17 DEF IsCircuit
<1> QED
  BY <1>5, <1>8, <1>11, <1>14, <1>15, <1>18

\* Two circuits that have no gate in common, beside each other.
Beside(c, d) ==
  CircuitOf(Joined(c.gates, d.gates), c.inputAddrs \union d.inputAddrs, c.outputAddrs \union d.outputAddrs,
            Joined(c.outputCounterparties, d.outputCounterparties),
            Joined(c.inputCounterparties, d.inputCounterparties))

\* They make a circuit in which the gates of the second come later.
LEMMA BesideProperties ==
  ASSUME NEW k \in Nat, NEW n \in Nat, NEW gates, AreGates(gates, k), NEW more, AreGates(more, k + n),
         \A g \in DOMAIN more : g > k,
         NEW c, IsCircuit(c, gates), NEW d, IsCircuit(d, more)
  PROVE  /\ AreGates(Joined(gates, more), k + n)
         /\ IsCircuit(Beside(c, d), Joined(gates, more))
         /\ \A a \in AllAddrs(gates) : \A b \in AllAddrs(more) : a[1] < b[1]
<1>1. PICK all : all = Joined(gates, more)
  OBVIOUS
<1>2. /\ DOMAIN gates \subseteq 1..k /\ \A g \in DOMAIN gates : IsGate(gates[g])
      /\ DOMAIN more \subseteq 1..(k + n) /\ \A g \in DOMAIN more : IsGate(more[g])
  BY DEF AreGates
<1>3. DOMAIN gates \intersect DOMAIN more = {}
  BY <1>2
<1>4. /\ all = [a \in DOMAIN all |-> all[a]]
      /\ DOMAIN all = DOMAIN gates \union DOMAIN more
      /\ \A a \in DOMAIN gates : all[a] = gates[a]
      /\ \A a \in DOMAIN more : all[a] = more[a]
  BY <1>1, <1>3 DEF Joined
<1>5. AreGates(all, k + n)
  <2>1. DOMAIN all \subseteq 1..(k + n)
    BY <1>2, <1>4
  <2> QED BY <2>1, <1>2, <1>4 DEF AreGates
<1>6. PICK A, B : A = AllAddrs(gates) /\ B = AllAddrs(more)
  OBVIOUS
<1>7. AllAddrs(all) = A \union B
  BY <1>4, <1>6 DEF AllAddrs
<1>8. \A a \in A : \A b \in B : a[1] < b[1]
  <2>1. \A a \in A : a[1] \in DOMAIN gates
    BY <1>6, AllAddrsProperties
  <2>2. k + n \in Nat
    OBVIOUS
  <2>3. \A b \in B : b[1] \in DOMAIN more
    BY <1>6, <2>2, AllAddrsProperties
  <2> QED BY <2>1, <2>3, <1>2
<1>9. A \intersect B = {}
  <2>1. A \subseteq Addr
    BY <1>6, AllAddrsProperties
  <2>2. \A a \in A : a[1] \in Int
    BY <2>1 DEF Addr
  <2> QED BY <2>2, <1>8
<1>10. PICK in1, out1, in2, out2 :
         /\ in1 = c.inputCounterparties /\ out1 = c.outputCounterparties
         /\ in2 = d.inputCounterparties /\ out2 = d.outputCounterparties
  OBVIOUS
<1>11. /\ c.gates = gates
       /\ c.inputAddrs = A \ DOMAIN in1 /\ c.outputAddrs = A \ DOMAIN out1
       /\ DOMAIN in1 \subseteq A /\ DOMAIN out1 \subseteq A
       /\ \A a \in DOMAIN in1 : in1[a] \in A /\ in1[a] \in DOMAIN out1 /\ out1[in1[a]] = a /\ in1[a][1] < a[1]
       /\ \A a \in DOMAIN out1 : out1[a] \in A /\ out1[a] \in DOMAIN in1 /\ in1[out1[a]] = a
  BY <1>6, <1>10, IsCircuitFields
<1>12. /\ d.gates = more
       /\ d.inputAddrs = B \ DOMAIN in2 /\ d.outputAddrs = B \ DOMAIN out2
       /\ DOMAIN in2 \subseteq B /\ DOMAIN out2 \subseteq B
       /\ \A a \in DOMAIN in2 : in2[a] \in B /\ in2[a] \in DOMAIN out2 /\ out2[in2[a]] = a /\ in2[a][1] < a[1]
       /\ \A a \in DOMAIN out2 : out2[a] \in B /\ out2[a] \in DOMAIN in2 /\ in2[out2[a]] = a
  BY <1>6, <1>10, IsCircuitFields
<1>13. PICK in, out : in = Joined(in1, in2) /\ out = Joined(out1, out2)
  OBVIOUS
<1>14. DOMAIN in1 \intersect DOMAIN in2 = {} /\ DOMAIN out1 \intersect DOMAIN out2 = {}
  BY <1>9, <1>11, <1>12
<1>15. /\ in = [a \in DOMAIN in |-> in[a]]
       /\ DOMAIN in = DOMAIN in1 \union DOMAIN in2
       /\ \A a \in DOMAIN in1 : in[a] = in1[a]
       /\ \A a \in DOMAIN in2 : in[a] = in2[a]
  BY <1>13, <1>14 DEF Joined
<1>16. /\ out = [a \in DOMAIN out |-> out[a]]
       /\ DOMAIN out = DOMAIN out1 \union DOMAIN out2
       /\ \A a \in DOMAIN out1 : out[a] = out1[a]
       /\ \A a \in DOMAIN out2 : out[a] = out2[a]
  BY <1>13, <1>14 DEF Joined
<1>17. PICK s, t : s = c.inputAddrs \union d.inputAddrs /\ t = c.outputAddrs \union d.outputAddrs
  OBVIOUS
<1>18. s = (A \union B) \ DOMAIN in /\ t = (A \union B) \ DOMAIN out
  <2>1. s = (A \union B) \ DOMAIN in
    BY <1>9, <1>11, <1>12, <1>15, <1>17
  <2>2. t = (A \union B) \ DOMAIN out
    BY <1>9, <1>11, <1>12, <1>16, <1>17
  <2> QED BY <2>1, <2>2
<1>19. in \in Partial(A \union B) /\ out \in Partial(A \union B)
  <2>1. DOMAIN in \subseteq A \union B /\ \A a \in DOMAIN in : in[a] \in A \union B
    BY <1>11, <1>12, <1>15
  <2>2. DOMAIN out \subseteq A \union B /\ \A a \in DOMAIN out : out[a] \in A \union B
    BY <1>11, <1>12, <1>16
  <2> QED BY <2>1, <2>2, <1>15, <1>16, PartialProperties
<1>20. AreInverse(out, in)
  BY <1>11, <1>12, <1>15, <1>16 DEF AreInverse
<1>21. PICK e : e = CircuitOf(all, s, t, out, in)
  OBVIOUS
<1>22. e.inputCounterparties = in /\ e.outputCounterparties = out
  BY <1>21, CircuitParts
<1>23. IsCircuit(e, all)
  BY <1>7, <1>18, <1>19, <1>20, <1>21, <1>22 DEF IsCircuit
<1>24. Beside(c, d) = e
  BY <1>1, <1>10, <1>11, <1>12, <1>13, <1>17, <1>21 DEF Beside
<1> QED
  BY <1>1, <1>5, <1>6, <1>8, <1>23, <1>24

\* JoinWith connects two circuits beside each other.
LEMMA JoinWithIs ==
  ASSUME NEW c, NEW d, d.outputCounterparties = Inverted(d.inputCounterparties), NEW joins
  PROVE  JoinWith(c, d, joins) = AddConnections(Beside(c, d), joins)
<1>1. PICK gates, s, t, out, in :
        /\ gates = Joined(c.gates, d.gates)
        /\ s = c.inputAddrs \union d.inputAddrs
        /\ t = c.outputAddrs \union d.outputAddrs
        /\ out = Joined(c.outputCounterparties, d.outputCounterparties)
        /\ in = Joined(c.inputCounterparties, d.inputCounterparties)
  OBVIOUS
<1>2. JoinWith(c, d, joins) =
        AddConnections([gates |-> gates, inputAddrs |-> s, outputAddrs |-> t,
                        inputCounterparties |-> in, outputCounterparties |-> out], joins)
  BY <1>1 DEF JoinWith
<1>3. [gates |-> gates, inputAddrs |-> s, outputAddrs |-> t,
       inputCounterparties |-> in, outputCounterparties |-> out] = CircuitOf(gates, s, t, out, in)
  BY DEF CircuitOf
<1>4. Beside(c, d) = CircuitOf(gates, s, t, out, in)
  BY <1>1 DEF Beside
<1> QED
  BY <1>2, <1>3, <1>4

\* The ends of the wires of a clone.
MovedEnds(f, m, offset) == [w \in 0..(m - 1) |-> MovedOrNone(f[w], offset)]

\* The wires of a clone begin and end at its open addresses.
LEMMA MovedIsWired ==
  ASSUME NEW k \in Int, NEW m \in Nat, NEW S \in SUBSET Addr, NEW T \in SUBSET Addr,
         NEW first, NEW last, IsWired(S, T, first, last, m)
  PROVE  IsWired(MovedAddrs(S, k), MovedAddrs(T, k), MovedEnds(first, m, k), MovedEnds(last, m, k), m)
<1>1. \A a : MovedAddr(a, k) # NoAddr
  BY DEF MovedAddr, NoAddr
<1>2. ASSUME NEW open \in SUBSET Addr, NEW f, AreEnds(f, open, m)
      PROVE  /\ AreEnds(MovedEnds(f, m, k), MovedAddrs(open, k), m)
             /\ \A w \in 0..(m - 1) : MovedEnds(f, m, k)[w] = NoAddr <=> f[w] = NoAddr
  <2>1. PICK h : h = MovedEnds(f, m, k)
    OBVIOUS
  <2>2. /\ h = [w \in 0..(m - 1) |-> h[w]]
        /\ \A w \in 0..(m - 1) : h[w] = MovedOrNone(f[w], k)
    BY <2>1 DEF MovedEnds
  <2>3. /\ \A w \in 0..(m - 1) : f[w] = NoAddr => h[w] = NoAddr
        /\ \A w \in 0..(m - 1) : f[w] # NoAddr => h[w] = MovedAddr(f[w], k) /\ h[w] # NoAddr
    BY <2>2, <1>1 DEF MovedOrNone
  <2>4. /\ \A w \in 0..(m - 1) : f[w] # NoAddr => f[w] \in open
        /\ \A a \in open : a # NoAddr /\ \E w \in 0..(m - 1) : f[w] = a
        /\ \A v, w \in 0..(m - 1) : f[v] = f[w] /\ f[v] # NoAddr => v = w
    BY <1>2 DEF AreEnds
  <2>5. \A w \in 0..(m - 1) : h[w] # NoAddr => h[w] \in MovedAddrs(open, k)
    BY <2>3, <2>4 DEF MovedAddrs
  <2>6. \A a \in MovedAddrs(open, k) : a # NoAddr /\ \E w \in 0..(m - 1) : h[w] = a
    BY <2>3, <2>4, <1>1 DEF MovedAddrs
  <2>7. ASSUME NEW v \in 0..(m - 1), NEW w \in 0..(m - 1), h[v] = h[w], h[v] # NoAddr
        PROVE  v = w
    <3>1. f[v] # NoAddr /\ f[w] # NoAddr /\ MovedAddr(f[v], k) = MovedAddr(f[w], k)
      BY <2>3, <2>7
    <3>2. f[v] \in Addr /\ f[w] \in Addr
      BY <3>1, <2>4
    <3>3. f[v] = f[w]
      BY <3>1, <3>2, MovedAddrProperties
    <3> QED BY <3>1, <3>3, <2>4
  <2>8. AreEnds(h, MovedAddrs(open, k), m)
    BY <2>2, <2>5, <2>6, <2>7 DEF AreEnds
  <2> QED BY <2>1, <2>3, <2>8
<1>3. /\ AreEnds(first, S, m) /\ AreEnds(last, T, m)
      /\ \A w \in 0..(m - 1) : first[w] = NoAddr <=> last[w] = NoAddr
  BY DEF IsWired
<1>4. /\ AreEnds(MovedEnds(first, m, k), MovedAddrs(S, k), m)
      /\ \A w \in 0..(m - 1) : MovedEnds(first, m, k)[w] = NoAddr <=> first[w] = NoAddr
  BY <1>2, <1>3
<1>5. /\ AreEnds(MovedEnds(last, m, k), MovedAddrs(T, k), m)
      /\ \A w \in 0..(m - 1) : MovedEnds(last, m, k)[w] = NoAddr <=> last[w] = NoAddr
  BY <1>2, <1>3
<1> QED
  BY <1>3, <1>4, <1>5 DEF IsWired

\* SortingNetwork.AppendNetwork leaves a network, also if its part is appended again later.
LEMMA AppendNetworkProperties ==
  ASSUME NEW n, NEW net, IsNetwork(net, n), NEW m, NEW pn, IsNetwork(pn, m),
         NEW wires \in WireLists(n, m)
  PROVE  IsNetwork(AppendNetwork(net, pn, wires), n)
<1>1. PICK c, size, first, last : net = NetworkOf(n, c, size, first, last)
  BY Zenon DEF IsNetwork
<1>2. /\ net.wireCount = n /\ net.circuit = c /\ net.size = size
      /\ net.first = first /\ net.last = last
  BY <1>1, NetworkParts
<1>3. PICK gates : gates = c.gates
  OBVIOUS
<1>4. /\ n \in Nat /\ size \in Nat
      /\ AreGates(gates, size) /\ IsCircuit(c, gates)
      /\ IsWired(c.inputAddrs, c.outputAddrs, first, last, n)
  BY <1>2, <1>3 DEF IsNetwork
<1>5. PICK d, size2, first2, last2 : pn = NetworkOf(m, d, size2, first2, last2)
  BY Zenon DEF IsNetwork
<1>6. /\ pn.wireCount = m /\ pn.circuit = d /\ pn.size = size2
      /\ pn.first = first2 /\ pn.last = last2
  BY <1>5, NetworkParts
<1>7. PICK gates2 : gates2 = d.gates
  OBVIOUS
<1>8. /\ m \in Nat /\ size2 \in Nat
      /\ AreGates(gates2, size2) /\ IsCircuit(d, gates2)
      /\ IsWired(d.inputAddrs, d.outputAddrs, first2, last2, m)
  BY <1>6, <1>7 DEF IsNetwork
<1>9. wires \in [1..m -> 0..(n - 1)] /\ IsInjective(wires)
  BY DEF WireLists
<1>10. PICK e, moved : e = CloneCircuit(d, size) /\ moved = MovedGates(gates2, size)
  OBVIOUS
<1>11. /\ IsCircuit(e, moved)
       /\ e.outputCounterparties = Inverted(e.inputCounterparties)
       /\ e.inputAddrs = MovedAddrs(d.inputAddrs, size)
       /\ e.outputAddrs = MovedAddrs(d.outputAddrs, size)
  BY <1>4, <1>8, <1>10, CloneProperties
<1>12. /\ AreGates(moved, size + size2)
       /\ \A g \in DOMAIN moved : g > size
  BY <1>4, <1>8, <1>10, MovedGatesProperties
<1>13. PICK all : all = Joined(gates, moved)
  OBVIOUS
<1>14. PICK base : base = Beside(c, e)
  OBVIOUS
<1>15. /\ AreGates(all, size + size2) /\ IsCircuit(base, all)
       /\ \A a \in AllAddrs(gates) : \A b \in AllAddrs(moved) : a[1] < b[1]
  BY <1>4, <1>8, <1>11, <1>12, <1>13, <1>14, BesideProperties
<1>16. PICK first3, last3 : first3 = MovedEnds(first2, m, size) /\ last3 = MovedEnds(last2, m, size)
  OBVIOUS
<1>17. IsWired(e.inputAddrs, e.outputAddrs, first3, last3, m)
  <2>1. AllAddrs(gates2) \subseteq Addr
    BY <1>8, AllAddrsProperties
  <2>2. d.inputAddrs \subseteq AllAddrs(gates2) /\ d.outputAddrs \subseteq AllAddrs(gates2)
    BY <1>8, IsCircuitFields
  <2>3. d.inputAddrs \subseteq Addr /\ d.outputAddrs \subseteq Addr
    BY <2>1, <2>2
  <2> QED BY <2>3, <1>4, <1>8, <1>11, <1>16, MovedIsWired
<1>18. /\ c.inputAddrs \subseteq AllAddrs(gates) /\ c.outputAddrs \subseteq AllAddrs(gates)
       /\ e.inputAddrs \subseteq AllAddrs(moved) /\ e.outputAddrs \subseteq AllAddrs(moved)
  <2>1. c.inputAddrs \subseteq AllAddrs(gates) /\ c.outputAddrs \subseteq AllAddrs(gates)
    BY <1>4, IsCircuitFields
  <2>2. e.inputAddrs \subseteq AllAddrs(moved) /\ e.outputAddrs \subseteq AllAddrs(moved)
    BY <1>11, IsCircuitFields
  <2> QED BY <2>1, <2>2
<1>19. AllAddrs(gates) \intersect AllAddrs(moved) = {}
  <2>1. \A a \in AllAddrs(gates) : a[1] \in 1..size
    BY <1>4, AllAddrsProperties
  <2> QED BY <2>1, <1>15
<1>20. /\ c.inputAddrs \intersect e.inputAddrs = {} /\ c.outputAddrs \intersect e.outputAddrs = {}
       /\ \A a \in c.outputAddrs : \A b \in e.inputAddrs : a[1] < b[1]
  BY <1>15, <1>18, <1>19
<1>21. /\ base.inputAddrs = c.inputAddrs \union e.inputAddrs
       /\ base.outputAddrs = c.outputAddrs \union e.outputAddrs
  BY <1>14, CircuitParts DEF Beside
<1>22. PICK joins : joins = JoinsOf(last, first3, wires)
  OBVIOUS
<1>23. PICK fst, lst : fst = FirstOf(first, first3, wires, n) /\ lst = LastOf(last, last3, wires, n)
  OBVIOUS
<1>24. PICK f, total : f = AddConnections(base, joins) /\ total = size + size2
  OBVIOUS
<1>25. IsNetwork(NetworkOf(n, f, total, fst, lst), n)
  <2>1. total \in Nat
    BY <1>4, <1>8, <1>24
  <2> QED BY <2>1, <1>4, <1>8, <1>9, <1>15, <1>17, <1>20, <1>21, <1>22, <1>23, <1>24, AppendedIsNetwork
<1>26. PICK clone : clone = CloneNetwork(pn, size)
  OBVIOUS
<1>27. clone = NetworkOf(m, e, size2, first3, last3)
  <2>1. PICK fs, ls : /\ fs = [w \in Wires(pn) |-> MovedOrNone(pn.first[w], size)]
                      /\ ls = [w \in Wires(pn) |-> MovedOrNone(pn.last[w], size)]
    OBVIOUS
  <2>2. fs = first3 /\ ls = last3
    BY <2>1, <1>6, <1>16 DEF Wires, MovedEnds
  <2>3. clone = [pn EXCEPT !.circuit = CloneCircuit(pn.circuit, size), !.first = fs, !.last = ls]
    BY <1>26, <2>1 DEF CloneNetwork
  <2>4. clone = [[[pn EXCEPT !.circuit = e] EXCEPT !.first = first3] EXCEPT !.last = last3]
    BY <2>2, <2>3, <1>6, <1>10
  <2>5. [pn EXCEPT !.circuit = e] = NetworkOf(m, e, size2, first2, last2)
    BY <1>5 DEF NetworkOf
  <2>6. [NetworkOf(m, e, size2, first2, last2) EXCEPT !.first = first3]
          = NetworkOf(m, e, size2, first3, last2)
    BY DEF NetworkOf
  <2>7. [NetworkOf(m, e, size2, first3, last2) EXCEPT !.last = last3] = NetworkOf(m, e, size2, first3, last3)
    BY DEF NetworkOf
  <2> QED BY <2>4, <2>5, <2>6, <2>7
<1>28. /\ clone.wireCount = m /\ clone.circuit = e /\ clone.size = size2
       /\ clone.first = first3 /\ clone.last = last3
  BY <1>27, NetworkParts
<1>29. PICK js, ls, fs :
         /\ js = {<<net.last[wires[k]], clone.first[k - 1]>> :
                   k \in {j \in DOMAIN wires : /\ net.last[wires[j]] # NoAddr
                                               /\ clone.first[j - 1] # NoAddr}}
         /\ ls = [w \in Wires(net) |-> IF IsOn(wires, w)
                                         THEN LastAfter(net.last[w], clone.last[PortOf(wires, w)])
                                         ELSE net.last[w]]
         /\ fs = [w \in Wires(net) |-> IF IsOn(wires, w) /\ net.first[w] = NoAddr
                                         THEN clone.first[PortOf(wires, w)] ELSE net.first[w]]
  OBVIOUS
<1>30. js = joins
  BY <1>2, <1>22, <1>28, <1>29 DEF JoinsOf
<1>31. ls = lst
  BY <1>2, <1>23, <1>28, <1>29 DEF LastOf, Wires
<1>32. fs = fst
  BY <1>2, <1>23, <1>28, <1>29 DEF FirstOf, Wires
<1>33. AppendNetwork(net, pn, wires) = Updated(net, f, total, lst, fst)
  <2>1. AppendNetwork(net, pn, wires) =
          [net EXCEPT !.circuit = JoinWith(net.circuit, clone.circuit, js), !.size = net.size + clone.size,
                      !.last = ls, !.first = fs]
    BY <1>2, <1>26, <1>29 DEF AppendNetwork
  <2>2. JoinWith(c, e, joins) = f
    BY <1>11, <1>14, <1>24, JoinWithIs
  <2> QED BY <2>1, <2>2, <1>2, <1>24, <1>28, <1>30, <1>31, <1>32 DEF Updated
<1>34. Updated(net, f, total, lst, fst) = NetworkOf(n, f, total, fst, lst)
  BY <1>1, NetworkUpdates
<1> QED
  BY <1>25, <1>33, <1>34

\* The same for wires one after the other.
LEMMA AppendNetworkAtProperties ==
  ASSUME NEW n, NEW net, IsNetwork(net, n), NEW m, NEW pn, IsNetwork(pn, m),
         NEW s \in Nat, s + m <= n
  PROVE  IsNetwork(AppendNetworkAt(net, pn, s), n)
<1>1. n \in Nat /\ m \in Nat
  BY DEF IsNetwork
<1>2. pn.wireCount = m
  <2>1. pn = NetworkOf(m, pn.circuit, pn.size, pn.first, pn.last)
    BY DEF IsNetwork
  <2> QED BY <2>1, NetworkParts
<1>3. PICK wires : wires = [k \in 1..m |-> s + k - 1]
  OBVIOUS
<1>4. wires \in WireLists(n, m)
  <2>1. \A k \in 1..m : s + k - 1 \in 0..(n - 1)
    BY <1>1
  <2>2. \A j, k \in 1..m : s + j - 1 = s + k - 1 => j = k
    BY <1>1
  <2>3. wires \in [1..m -> 0..(n - 1)]
    BY <2>1, <1>3
  <2>4. IsInjective(wires)
    BY <2>2, <1>3 DEF IsInjective
  <2> QED BY <2>3, <2>4 DEF WireLists
<1>5. AppendNetworkAt(net, pn, s) = AppendNetwork(net, pn, wires)
  BY <1>2, <1>3 DEF AppendNetworkAt
<1> QED
  BY <1>4, <1>5, AppendNetworkProperties

\* A network without gates is one.
LEMMA EmptyNetworkProperties ==
  ASSUME NEW n \in Nat
  PROVE  IsNetwork(EmptyNetwork(n), n) /\ EmptyNetwork(n).wireCount = n
<1>1. PICK f : f = EmptyFunction
  OBVIOUS
<1>2. DOMAIN f = {} /\ f = [a \in DOMAIN f |-> f[a]]
  BY <1>1 DEF EmptyFunction
<1>3. PICK c : c = EmptyCircuit
  OBVIOUS
<1>4. c = CircuitOf(f, {}, {}, f, f)
  BY <1>1, <1>3 DEF EmptyCircuit, CircuitOf
<1>5. /\ c.gates = f /\ c.inputAddrs = {} /\ c.outputAddrs = {}
      /\ c.outputCounterparties = f /\ c.inputCounterparties = f
  BY <1>4, CircuitParts
<1>6. AreGates(f, 0)
  BY <1>2 DEF AreGates
<1>7. AllAddrs(f) = {}
  BY <1>2 DEF AllAddrs
<1>8. IsCircuit(c, f)
  <2>1. f \in Partial({})
    BY <1>2, PartialProperties
  <2>2. AreInverse(f, f)
    BY <1>2 DEF AreInverse
  <2>3. {} \ DOMAIN f = {}
    OBVIOUS
  <2> QED BY <2>1, <2>2, <2>3, <1>4, <1>5, <1>7 DEF IsCircuit
<1>9. PICK none : none = [w \in 0..(n - 1) |-> NoAddr]
  OBVIOUS
<1>10. IsWired({}, {}, none, none, n)
  BY <1>9 DEF IsWired, AreEnds
<1>11. PICK net : net = NetworkOf(n, c, 0, none, none)
  OBVIOUS
<1>12. net.circuit = c /\ net.size = 0 /\ net.first = none /\ net.last = none /\ net.wireCount = n
  BY <1>11, NetworkParts
<1>13. IsNetwork(net, n)
  BY <1>5, <1>6, <1>8, <1>10, <1>11, <1>12 DEF IsNetwork
<1>14. EmptyNetwork(n) = net
  BY <1>3, <1>9, <1>11 DEF EmptyNetwork, NetworkOf
<1> QED
  BY <1>12, <1>13, <1>14

-----------------------------------------------------------------------------
(***************************************************************************)
(* Gates one after the other, and the factories.                           *)
(***************************************************************************)

\* The last position of a set of them, the order in which FoldLeft goes.
LEMMA MaxPosition ==
  ASSUME NEW n \in Nat, NEW T, T \subseteq 1..n, T # {}
  PROVE  Max(T) \in T
<1>1. PICK k \in T : \A j \in T : j <= k
  BY LastPosition
<1>2. \A j \in T : k >= j
  BY <1>1
<1> QED
  BY <1>2 DEF Max

\* So positions can be picked from the last to the first.
LEMMA PositionsArePicked ==
  ASSUME NEW n \in Nat, NEW pick, pick = [s \in SUBSET (1..n) |-> Max(s)]
  PROVE  IsFiniteSet(1..n) /\ \A s \in SUBSET (1..n) : s # {} => pick[s] \in s /\ pick[s] = Max(s)
<1>1. IsFiniteSet(1..n)
  BY FS_Interval
<1>2. ASSUME NEW s \in SUBSET (1..n), s # {}
      PROVE  pick[s] \in s /\ pick[s] = Max(s)
  <2>1. Max(s) \in s
    BY <1>2, MaxPosition
  <2> QED BY <2>1
<1> QED
  BY <1>1, <1>2

\* Half of a power of two is one.
LEMMA PowersProperties ==
  ASSUME NEW n \in Powers
  PROVE  /\ n \in Nat /\ n >= 1 /\ n <= 1024
         /\ n \div 2 \in Nat /\ n \div 2 < n
         /\ n > 1 => /\ n \div 2 \in Powers /\ n \div 2 >= 1 /\ (n \div 2) + (n \div 2) = n
BY DEF Powers

\* What can be appended: gates, on wires that are all different.
LEMMA StepsAreGates ==
  ASSUME NEW n, NEW step \in Steps(n)
  PROVE  IsGate(step[1]) /\ step[2] \in WireLists(n, step[1].count)
<1>1. PICK gate \in Gates : step \in {gate} \X WireLists(n, gate.count)
  BY DEF Steps
<1>2. step[1] = gate /\ step[2] \in WireLists(n, gate.count)
  BY <1>1
<1>3. IsGate(ComputationGate)
  BY DEF ComputationGate, IsGate
<1>4. IsGate(SwapGate)
  BY DEF SwapGate, PermutationGate, IsGate, PortsOf, Permute
<1>5. IsGate(MultiGroupInserterGate(3, 2, 1))
  <2>1. PICK p : p = [input \in 0..2 |-> IF input < 2 THEN input + input \div 2 + 1 ELSE (input - 2) * 3]
    OBVIOUS
  <2>2. PICK g : g = PermutationGate(3, p)
    OBVIOUS
  <2>3. MultiGroupInserterGate(3, 2, 1) = g
    BY <2>1, <2>2 DEF MultiGroupInserterGate
  <2>4. p[0] = 1 /\ p[1] = 2 /\ p[2] = 0
    BY <2>1
  <2>5. g.count = 3 /\ g.permutation = p
    BY <2>2 DEF PermutationGate
  <2>6. PortsOf(g) = {0, 1, 2}
    BY <2>5 DEF PortsOf
  <2>7. Permute(g, 0) = 1 /\ Permute(g, 1) = 2 /\ Permute(g, 2) = 0
    BY <2>4, <2>5 DEF Permute
  <2>8. IsGate(g)
    <3>1. \A q \in PortsOf(g) : Permute(g, q) \in PortsOf(g)
      BY <2>6, <2>7
    <3>2. \A q, r \in PortsOf(g) : Permute(g, q) = Permute(g, r) => q = r
      BY <2>6, <2>7
    <3> QED BY <3>1, <3>2, <2>5 DEF IsGate
  <2> QED BY <2>3, <2>8
<1>6. IsGate(gate)
  BY <1>3, <1>4, <1>5 DEF Gates
<1> QED
  BY <1>2, <1>6

\* Gates that are appended one after the other leave a network.
LEMMA AppendGatesProperties ==
  ASSUME NEW n, NEW net, IsNetwork(net, n), NEW len \in Nat, NEW list, DOMAIN list = 1..len,
         \A k \in 1..len : list[k] \in Steps(n)
  PROVE  IsNetwork(AppendGates(net, list), n)
<1> DEFINE D == 1..len
           Def(f) == f = [s \in SUBSET D |->
                            IF s = {} THEN net
                            ELSE AppendGate(f[s \ {Max(s)}], list[Max(s)][1], list[Max(s)][2])]
           fold == CHOOSE f : Def(f)
<1>1. AppendGates(net, list) = fold[D]
  <2>1. DOMAIN list = D
    OBVIOUS
  <2> QED BY <2>1 DEF AppendGates, FoldLeft, MapThenFoldSet
<1>2. PICK pick : pick = [s \in SUBSET D |-> Max(s)]
  OBVIOUS
<1>3. IsFiniteSet(D) /\ \A s \in SUBSET D : s # {} => pick[s] \in s /\ pick[s] = Max(s)
  BY <1>2, PositionsArePicked
<1>4. /\ Cardinality(D) \in Nat
      /\ \A s \in SUBSET D : Cardinality(s) \in 0..Cardinality(D)
      /\ \A s \in SUBSET D : s # {} => /\ s \ {pick[s]} \in SUBSET D
                                       /\ Cardinality(s \ {pick[s]}) < Cardinality(s)
  <2>1. PICK rank : rank = [s \in SUBSET D |-> Cardinality(s)]
    OBVIOUS
  <2>2. rank \in [SUBSET D -> 0..Cardinality(D)]
    BY <1>3, <2>1, FoldRanks
  <2>3. \A s \in SUBSET D : Cardinality(s) \in 0..Cardinality(D)
    BY <2>1, <2>2
  <2> QED BY <1>3, <2>3, FoldRanks
<1> HIDE DEF D
<1>5. PICK f : Def(f)
  <2> DEFINE Value(f, s) == IF s = {} THEN net
                            ELSE AppendGate(f[s \ {pick[s]}], list[pick[s]][1], list[pick[s]][2])
             T == {k \in Nat : \E f : \A s \in SUBSET D : Cardinality(s) <= k => f[s] = Value(f, s)}
  <2>1. 0 \in T
    <3>1. PICK f : f = [s \in SUBSET D |-> net]
      OBVIOUS
    <3>2. ASSUME NEW s \in SUBSET D, Cardinality(s) <= 0
          PROVE  f[s] = Value(f, s)
      <4>1. s = {}
        <5>1. Cardinality(s) \in Nat
          BY <1>4
        <5>2. s # {} => Cardinality(s \ {pick[s]}) < Cardinality(s) /\ Cardinality(s \ {pick[s]}) \in Nat
          BY <1>4
        <5> QED BY <5>1, <5>2, <3>2
      <4> QED BY <4>1, <3>1
    <3> HIDE DEF Value
    <3> QED BY <3>2
  <2>2. ASSUME NEW k \in Nat, k \in T
        PROVE  k + 1 \in T
    <3>1. PICK f : \A s \in SUBSET D : Cardinality(s) <= k => f[s] = Value(f, s)
      <4> HIDE DEF Value
      <4> QED BY <2>2
    <3>2. PICK h : h = [s \in SUBSET D |-> IF Cardinality(s) <= k THEN f[s] ELSE Value(f, s)]
      OBVIOUS
    <3>3. ASSUME NEW s \in SUBSET D, Cardinality(s) <= k + 1
          PROVE  h[s] = Value(h, s)
      <4>1. h[s] = Value(f, s)
        <5> HIDE DEF Value
        <5> QED BY <3>1, <3>2
      <4>2. CASE s = {}
        BY <4>1, <4>2
      <4>3. CASE s # {}
        <5>1. s \ {pick[s]} \in SUBSET D /\ Cardinality(s \ {pick[s]}) <= k
          <6>1. Cardinality(s) \in Int /\ Cardinality(s \ {pick[s]}) \in Int
            BY <1>4, <4>3
          <6> QED BY <6>1, <1>4, <3>3, <4>3
        <5>2. h[s \ {pick[s]}] = f[s \ {pick[s]}]
          <6> HIDE DEF Value
          <6> QED BY <5>1, <3>2
        <5> QED BY <4>1, <5>2
      <4> QED BY <4>2, <4>3
    <3> HIDE DEF Value
    <3> QED BY <3>3
  <2>3. Cardinality(D) \in T
    <3>1. Nat \subseteq T
      <4> HIDE DEF T
      <4> QED BY <2>1, <2>2, SetInduction
    <3> HIDE DEF T
    <3> QED BY <3>1, <1>4
  <2>4. PICK f : \A s \in SUBSET D : f[s] = Value(f, s)
    <3>1. PICK f : \A s \in SUBSET D : Cardinality(s) <= Cardinality(D) => f[s] = Value(f, s)
      <4> HIDE DEF Value
      <4> QED BY <2>3
    <3>2. \A s \in SUBSET D : Cardinality(s) <= Cardinality(D)
      BY <1>4
    <3> HIDE DEF Value
    <3> QED BY <3>1, <3>2
  <2>5. PICK h : h = [s \in SUBSET D |-> f[s]]
    OBVIOUS
  <2>6. ASSUME NEW s \in SUBSET D
        PROVE  h[s] = IF s = {} THEN net
                      ELSE AppendGate(h[s \ {Max(s)}], list[Max(s)][1], list[Max(s)][2])
    BY <1>3, <1>4, <2>4, <2>5
  <2>7. h = [s \in SUBSET D |-> IF s = {} THEN net
                      ELSE AppendGate(h[s \ {Max(s)}], list[Max(s)][1], list[Max(s)][2])]
    BY <2>5, <2>6
  <2>8. Def(h)
    BY <2>7
  <2> HIDE DEF Def
  <2> QED BY <2>8
<1>6. Def(fold)
  <2> HIDE DEF Def
  <2> QED BY <1>5
<1>7. /\ fold[{}] = net
      /\ \A s \in SUBSET D : s # {} =>
           fold[s] = AppendGate(fold[s \ {pick[s]}], list[pick[s]][1], list[pick[s]][2])
  <2> HIDE DEF fold
  <2>1. fold = [s \in SUBSET D |-> IF s = {} THEN net
                  ELSE AppendGate(fold[s \ {Max(s)}], list[Max(s)][1], list[Max(s)][2])]
    BY <1>6
  <2> HIDE DEF Def
  <2> QED BY <2>1, <1>3
<1>8. PICK Allowed : Allowed = [s \in SUBSET D |-> {x \in {fold[s]} : IsNetwork(x, n)}]
  OBVIOUS
<1>9. fold[D] \in Allowed[D]
  <2> HIDE DEF fold
  <2>1. fold[{}] \in Allowed[{}]
    BY <1>7, <1>8
  <2>2. ASSUME NEW s \in SUBSET D, s # {}, fold[s \ {pick[s]}] \in Allowed[s \ {pick[s]}]
        PROVE  fold[s] \in Allowed[s]
    <3>1. pick[s] \in D /\ s \ {pick[s]} \in SUBSET D
      BY <1>3, <2>2
    <3>2. IsNetwork(fold[s \ {pick[s]}], n)
      BY <2>2, <3>1, <1>8
    <3>3. list[pick[s]] \in Steps(n)
      BY <3>1 DEF D
    <3>4. IsGate(list[pick[s]][1]) /\ list[pick[s]][2] \in WireLists(n, list[pick[s]][1].count)
      BY <3>3, StepsAreGates
    <3>5. IsNetwork(fold[s], n)
      <4>1. PICK before, gate, wires :
              before = fold[s \ {pick[s]}] /\ gate = list[pick[s]][1] /\ wires = list[pick[s]][2]
        OBVIOUS
      <4>2. IsNetwork(before, n) /\ IsGate(gate) /\ wires \in WireLists(n, gate.count)
        BY <3>2, <3>4, <4>1
      <4>3. IsNetwork(AppendGate(before, gate, wires), n)
        BY <4>2, AppendGateProperties
      <4>4. fold[s] = AppendGate(before, gate, wires)
        BY <4>1, <1>7, <2>2
      <4> QED BY <4>3, <4>4
    <3> QED BY <3>5, <1>8
  <2> QED BY <2>1, <2>2, <1>3, FoldStays
<1>10. IsNetwork(fold[D], n)
  <2> HIDE DEF fold
  <2> QED BY <1>8, <1>9
<1> QED
  BY <1>1, <1>10

\* The number of wires is a part of the network.
LEMMA WireCountOf ==
  ASSUME NEW n, NEW net, IsNetwork(net, n)
  PROVE  n \in Nat /\ net.wireCount = n
<1>1. net = NetworkOf(n, net.circuit, net.size, net.first, net.last)
  BY DEF IsNetwork
<1> QED
  BY <1>1, NetworkParts DEF IsNetwork

\* Networks appended to both halves of the wires.
LEMMA AppendToHalvesProperties ==
  ASSUME NEW h \in Nat, NEW n, n = h + h, NEW net, IsNetwork(net, n),
         NEW lower, IsNetwork(lower, h), NEW upper, IsNetwork(upper, h)
  PROVE  IsNetwork(AppendToHalves(net, lower, upper), n)
<1>1. net.wireCount \div 2 = h
  BY WireCountOf
<1>2. PICK one : one = AppendNetworkAt(net, lower, 0)
  OBVIOUS
<1>3. IsNetwork(one, n)
  <2>1. 0 \in Nat /\ 0 + h <= n
    OBVIOUS
  <2> QED BY <2>1, <1>2, AppendNetworkAtProperties
<1>4. IsNetwork(AppendNetworkAt(one, upper, h), n)
  <2>1. h \in Nat /\ h + h <= n
    OBVIOUS
  <2> QED BY <2>1, <1>3, AppendNetworkAtProperties
<1> QED
  BY <1>1, <1>2, <1>4 DEF AppendToHalves

\* A gate of two ports can be appended to any two wires.
LEMMA PairIsAStep ==
  ASSUME NEW n \in Nat, NEW gate \in {ComputationGate, SwapGate},
         NEW a \in 0..(n - 1), NEW b \in 0..(n - 1), a # b
  PROVE  <<gate, <<a, b>>>> \in Steps(n)
<1>1. gate \in Gates /\ gate.count = 2
  BY DEF Gates, ComputationGate, SwapGate, PermutationGate
<1>2. PICK wires : wires = <<a, b>>
  OBVIOUS
<1>3. wires \in WireLists(n, 2)
  <2>1. wires \in [1..2 -> 0..(n - 1)] /\ wires[1] = a /\ wires[2] = b
    BY <1>2
  <2>2. IsInjective(wires)
    BY <2>1 DEF IsInjective
  <2> QED BY <2>1, <2>2 DEF WireLists
<1>4. <<gate, wires>> \in {gate} \X WireLists(n, gate.count)
  BY <1>1, <1>3
<1> QED
  BY <1>1, <1>2, <1>4 DEF Steps

\* Each round of comparisons and each factory of LPSorting.cs makes a network.
LEMMA RoundProperties ==
  ASSUME NEW n \in Powers
  PROVE  IsNetwork(ButterflyTournamentRound(n), n)
<1>1. PICK h : h = n \div 2
  OBVIOUS
<1>2. n \in Nat /\ h \in Nat /\ h < n /\ (h >= 1 => h + h = n)
  BY <1>1, PowersProperties DEF Powers
<1>3. PICK list : list = [i \in 1..h |-> <<ComputationGate, <<i - 1, i - 1 + h>>>>]
  OBVIOUS
<1>4. ASSUME NEW i \in 1..h
      PROVE  list[i] \in Steps(n)
  <2>1. i - 1 \in 0..(n - 1) /\ i - 1 + h \in 0..(n - 1) /\ i - 1 # i - 1 + h
    BY <1>2
  <2>2. <<ComputationGate, <<i - 1, i - 1 + h>>>> \in Steps(n)
    BY <2>1, <1>2, PairIsAStep
  <2> QED BY <2>2, <1>3
<1>5. DOMAIN list = 1..h
  BY <1>3
<1>6. IsNetwork(AppendGates(EmptyNetwork(n), list), n)
  BY <1>2, <1>4, <1>5, AppendGatesProperties, EmptyNetworkProperties
<1> QED
  BY <1>1, <1>3, <1>6 DEF ButterflyTournamentRound

\* A bitonic split is a network, with or without swaps.
LEMMA SplitProperties ==
  ASSUME NEW n \in Powers, NEW invertOrder \in BOOLEAN
  PROVE  IsNetwork(BitonicSplit(n, invertOrder), n)
<1>1. PICK h : h = n \div 2
  OBVIOUS
<1>2. n \in Nat /\ h \in Nat /\ h < n /\ (h >= 1 => h + h = n)
  BY <1>1, PowersProperties DEF Powers
<1>3. PICK list : list = IF invertOrder
         THEN [k \in 1..(2 * h) |->
                 <<IF k % 2 = 1 THEN ComputationGate ELSE SwapGate, <<(k - 1) \div 2, (k - 1) \div 2 + h>>>>]
         ELSE [k \in 1..h |-> <<ComputationGate, <<k - 1, k - 1 + h>>>>]
  OBVIOUS
<1>4. PICK len \in Nat : DOMAIN list = 1..len /\ \A k \in 1..len : list[k] \in Steps(n)
  <2>1. CASE invertOrder
    <3>1. list = [k \in 1..(2 * h) |->
                 <<IF k % 2 = 1 THEN ComputationGate ELSE SwapGate, <<(k - 1) \div 2, (k - 1) \div 2 + h>>>>]
      BY <2>1, <1>3
    <3>2. 2 * h \in Nat /\ DOMAIN list = 1..(2 * h)
      BY <3>1, <1>2
    <3>3. ASSUME NEW k \in 1..(2 * h)
          PROVE  list[k] \in Steps(n)
      <4>1. PICK i : i = (k - 1) \div 2
        OBVIOUS
      <4>2. i \in 0..(n - 1) /\ i + h \in 0..(n - 1) /\ i # i + h
        BY <4>1, <1>2
      <4>3. PICK gate \in {ComputationGate, SwapGate} : gate = IF k % 2 = 1 THEN ComputationGate ELSE SwapGate
        OBVIOUS
      <4>4. <<gate, <<i, i + h>>>> \in Steps(n)
        BY <4>2, <1>2, PairIsAStep
      <4> QED BY <4>1, <4>3, <4>4, <3>1
    <3> QED BY <3>2, <3>3
  <2>2. CASE ~invertOrder
    <3>1. list = [k \in 1..h |-> <<ComputationGate, <<k - 1, k - 1 + h>>>>]
      BY <2>2, <1>3
    <3>2. ASSUME NEW k \in 1..h
          PROVE  list[k] \in Steps(n)
      <4>1. k - 1 \in 0..(n - 1) /\ k - 1 + h \in 0..(n - 1) /\ k - 1 # k - 1 + h
        BY <1>2
      <4>2. <<ComputationGate, <<k - 1, k - 1 + h>>>> \in Steps(n)
        BY <4>1, <1>2, PairIsAStep
      <4> QED BY <4>2, <3>1
    <3> QED BY <3>1, <3>2, <1>2
  <2> QED BY <2>1, <2>2
<1>5. IsNetwork(AppendGates(EmptyNetwork(n), list), n)
  BY <1>2, <1>4, AppendGatesProperties, EmptyNetworkProperties
<1>6. BitonicSplit(n, invertOrder) = AppendGates(EmptyNetwork(n), list)
  BY <1>1, <1>3 DEF BitonicSplit
<1> QED
  BY <1>5, <1>6

\* ButterflyTournament makes a network for each power of two.
LEMMA ButterflyTournamentProperties ==
  \A n \in Powers : IsNetwork(ButterflyTournament[n], n)
<1> DEFINE Body(n, x) ==
             LET round == AppendNetworkAt(EmptyNetwork(n), ButterflyTournamentRound(n), 0)
             IN CASE n = 1 -> EmptyNetwork(n)
                  [] n = 2 -> round
                  [] OTHER -> AppendToHalves(round, x, x)
           Def(f) == f = [n \in Powers |-> Body(n, f[n \div 2])]
           made0 == CHOOSE f : Def(f)
<1>1. ButterflyTournament = made0
  BY DEF ButterflyTournament
<1>2. ASSUME NEW n \in Powers, NEW x, n > 1 => IsNetwork(x, n \div 2)
      PROVE  IsNetwork(Body(n, x), n)
  <2>1. n \in Nat /\ n >= 1
    BY PowersProperties
  <2>2. PICK round : round = AppendNetworkAt(EmptyNetwork(n), ButterflyTournamentRound(n), 0)
    OBVIOUS
  <2>3. IsNetwork(round, n)
    <3>1. 0 \in Nat /\ 0 + n <= n
      BY <2>1
    <3> QED BY <3>1, <2>1, <2>2, EmptyNetworkProperties, RoundProperties, AppendNetworkAtProperties
  <2>4. CASE n > 2
    <3>1. PICK h : h = n \div 2
      OBVIOUS
    <3>2. h \in Nat /\ n = h + h /\ IsNetwork(x, h)
      BY <2>4, <3>1, <1>2, PowersProperties
    <3>3. IsNetwork(AppendToHalves(round, x, x), n)
      BY <3>2, <2>3, <2>4, AppendToHalvesProperties
    <3> QED BY <3>3, <2>2, <2>4
  <2>5. CASE n = 1
    BY <2>5, <2>1, EmptyNetworkProperties
  <2>6. CASE n = 2
    BY <2>6, <2>2, <2>3
  <2> QED BY <2>1, <2>4, <2>5, <2>6
<1>3. \A n \in Powers : \A x, y : n = 1 => Body(n, x) = Body(n, y)
  OBVIOUS
<1>4. \A n \in Powers : /\ n \in Nat /\ n >= 1 /\ n <= 1024
                        /\ n \div 2 < n /\ n \div 2 \in Nat
                        /\ n > 1 => n \div 2 \in Powers
  BY PowersProperties
<1> HIDE DEF Body
<1>5. PICK f : Def(f)
  <2> DEFINE T == {k \in Nat : \E f : \A n \in Powers : n <= k => f[n] = Body(n, f[n \div 2])}
  <2>1. 0 \in T
    BY <1>4
  <2>2. ASSUME NEW k \in Nat, k \in T
        PROVE  k + 1 \in T
    <3>1. PICK f : \A n \in Powers : n <= k => f[n] = Body(n, f[n \div 2])
      BY <2>2
    <3>2. PICK h : h = [n \in Powers |-> Body(n, f[n \div 2])]
      OBVIOUS
    <3>3. ASSUME NEW n \in Powers, n <= k + 1
          PROVE  h[n] = Body(n, h[n \div 2])
      <4>1. CASE n = 1
        BY <4>1, <3>2, <1>3
      <4>2. CASE n # 1
        <5>1. n \div 2 \in Powers /\ n \div 2 <= k
          BY <4>2, <3>3, <1>4
        <5>2. h[n \div 2] = f[n \div 2]
          BY <5>1, <3>1, <3>2
        <5> QED BY <5>2, <3>2
      <4> QED BY <4>1, <4>2
    <3> QED BY <3>3
  <2>3. 1024 \in T
    <3>1. Nat \subseteq T
      <4> HIDE DEF T
      <4> QED BY <2>1, <2>2, SetInduction
    <3> HIDE DEF T
    <3> QED BY <3>1
  <2>4. PICK f : \A n \in Powers : f[n] = Body(n, f[n \div 2])
    BY <2>3, <1>4
  <2>5. PICK h : h = [n \in Powers |-> Body(n, f[n \div 2])]
    OBVIOUS
  <2>6. ASSUME NEW n \in Powers
        PROVE  h[n] = Body(n, h[n \div 2])
    <3>1. CASE n = 1
      BY <3>1, <2>5, <1>3
    <3>2. CASE n # 1
      <4>1. n \div 2 \in Powers
        BY <3>2, <1>4
      <4>2. h[n \div 2] = f[n \div 2]
        BY <4>1, <2>4, <2>5
      <4> QED BY <4>2, <2>5
    <3> QED BY <3>1, <3>2
  <2>7. Def(h)
    BY <2>5, <2>6
  <2> HIDE DEF Def
  <2> QED BY <2>7
<1>6. Def(made0)
  <2> HIDE DEF Def
  <2> QED BY <1>5
<1>7. \A n \in Powers : made0[n] = Body(n, made0[n \div 2])
  <2> HIDE DEF made0
  <2> QED BY <1>6
<1> HIDE DEF made0
<1>8. \A n \in Powers : IsNetwork(made0[n], n)
  <2> DEFINE T == {k \in Nat : \A n \in Powers : n = k => IsNetwork(made0[n], n)}
  <2>1. ASSUME NEW k \in Nat, \A j \in 0..(k - 1) : j \in T
        PROVE  k \in T
    <3>1. ASSUME NEW n \in Powers, n = k
          PROVE  IsNetwork(made0[n], n)
      <4>1. PICK x : x = made0[n \div 2]
        OBVIOUS
      <4>2. n > 1 => IsNetwork(x, n \div 2)
        <5>1. n > 1 => n \div 2 \in 0..(k - 1) /\ n \div 2 \in Powers
          BY <3>1, <1>4
        <5> QED BY <5>1, <4>1, <2>1
      <4>3. IsNetwork(Body(n, x), n)
        BY <4>2, <1>2
      <4> QED BY <4>1, <4>3, <1>7
    <3> QED BY <3>1
  <2>2. Nat \subseteq T
    <3> HIDE DEF T
    <3> QED BY <2>1, StrongInduction
  <2> QED BY <2>2, <1>4
<1> QED
  BY <1>1, <1>8

\* BinaryTreeInsertion makes a network.
LEMMA BinaryTreeInsertionProperties ==
  \A n \in Powers : IsNetwork(BinaryTreeInsertion[n], n)
<1> DEFINE Body(n, x) ==
             LET first == AppendGate(EmptyNetwork(n), ComputationGate, <<0, n \div 2>>)
             IN CASE n = 1 -> EmptyNetwork(n)
                  [] n = 2 -> first
                  [] OTHER -> AppendToHalves(first, x, x)
           Def(f) == f = [n \in Powers |-> Body(n, f[n \div 2])]
           made0 == CHOOSE f : Def(f)
<1>1. BinaryTreeInsertion = made0
  BY DEF BinaryTreeInsertion
<1>2. ASSUME NEW n \in Powers, NEW x, n > 1 => IsNetwork(x, n \div 2)
      PROVE  IsNetwork(Body(n, x), n)
  <2>1. n \in Nat /\ n >= 1
    BY PowersProperties
  <2>2. PICK first : first = AppendGate(EmptyNetwork(n), ComputationGate, <<0, n \div 2>>)
    OBVIOUS
  <2>3. n > 1 => IsNetwork(first, n)
    <3>1. ASSUME n > 1
          PROVE  <<ComputationGate, <<0, n \div 2>>>> \in Steps(n)
      <4>1. 0 \in 0..(n - 1) /\ n \div 2 \in 0..(n - 1) /\ 0 # n \div 2
        BY <3>1, <2>1, PowersProperties
      <4> QED BY <4>1, <2>1, PairIsAStep
    <3>2. PICK wires : wires = <<0, n \div 2>>
      OBVIOUS
    <3>3. n > 1 => IsGate(ComputationGate) /\ wires \in WireLists(n, ComputationGate.count)
      <4>1. PICK step : step = <<ComputationGate, wires>>
        OBVIOUS
      <4>2. n > 1 => step \in Steps(n)
        BY <3>1, <3>2, <4>1
      <4>3. step[1] = ComputationGate /\ step[2] = wires
        BY <4>1
      <4> QED BY <4>2, <4>3, StepsAreGates
    <3> QED BY <3>2, <3>3, <2>1, <2>2, EmptyNetworkProperties, AppendGateProperties
  <2>4. CASE n > 2
    <3>1. PICK h : h = n \div 2
      OBVIOUS
    <3>2. h \in Nat /\ n = h + h /\ IsNetwork(x, h)
      BY <2>4, <3>1, <1>2, PowersProperties
    <3>3. IsNetwork(AppendToHalves(first, x, x), n)
      BY <3>2, <2>3, <2>4, AppendToHalvesProperties
    <3> QED BY <3>3, <2>2, <2>4
  <2>5. CASE n = 1
    BY <2>5, <2>1, EmptyNetworkProperties
  <2>6. CASE n = 2
    BY <2>6, <2>2, <2>3
  <2> QED BY <2>1, <2>4, <2>5, <2>6
<1>3. \A n \in Powers : \A x, y : n = 1 => Body(n, x) = Body(n, y)
  OBVIOUS
<1>4. \A n \in Powers : /\ n \in Nat /\ n >= 1 /\ n <= 1024
                        /\ n \div 2 < n /\ n \div 2 \in Nat
                        /\ n > 1 => n \div 2 \in Powers
  BY PowersProperties
<1> HIDE DEF Body
<1>5. PICK f : Def(f)
  <2> DEFINE T == {k \in Nat : \E f : \A n \in Powers : n <= k => f[n] = Body(n, f[n \div 2])}
  <2>1. 0 \in T
    BY <1>4
  <2>2. ASSUME NEW k \in Nat, k \in T
        PROVE  k + 1 \in T
    <3>1. PICK f : \A n \in Powers : n <= k => f[n] = Body(n, f[n \div 2])
      BY <2>2
    <3>2. PICK h : h = [n \in Powers |-> Body(n, f[n \div 2])]
      OBVIOUS
    <3>3. ASSUME NEW n \in Powers, n <= k + 1
          PROVE  h[n] = Body(n, h[n \div 2])
      <4>1. CASE n = 1
        BY <4>1, <3>2, <1>3
      <4>2. CASE n # 1
        <5>1. n \div 2 \in Powers /\ n \div 2 <= k
          BY <4>2, <3>3, <1>4
        <5>2. h[n \div 2] = f[n \div 2]
          BY <5>1, <3>1, <3>2
        <5> QED BY <5>2, <3>2
      <4> QED BY <4>1, <4>2
    <3> QED BY <3>3
  <2>3. 1024 \in T
    <3>1. Nat \subseteq T
      <4> HIDE DEF T
      <4> QED BY <2>1, <2>2, SetInduction
    <3> HIDE DEF T
    <3> QED BY <3>1
  <2>4. PICK f : \A n \in Powers : f[n] = Body(n, f[n \div 2])
    BY <2>3, <1>4
  <2>5. PICK h : h = [n \in Powers |-> Body(n, f[n \div 2])]
    OBVIOUS
  <2>6. ASSUME NEW n \in Powers
        PROVE  h[n] = Body(n, h[n \div 2])
    <3>1. CASE n = 1
      BY <3>1, <2>5, <1>3
    <3>2. CASE n # 1
      <4>1. n \div 2 \in Powers
        BY <3>2, <1>4
      <4>2. h[n \div 2] = f[n \div 2]
        BY <4>1, <2>4, <2>5
      <4> QED BY <4>2, <2>5
    <3> QED BY <3>1, <3>2
  <2>7. Def(h)
    BY <2>5, <2>6
  <2> HIDE DEF Def
  <2> QED BY <2>7
<1>6. Def(made0)
  <2> HIDE DEF Def
  <2> QED BY <1>5
<1>7. \A n \in Powers : made0[n] = Body(n, made0[n \div 2])
  <2> HIDE DEF made0
  <2> QED BY <1>6
<1> HIDE DEF made0
<1>8. \A n \in Powers : IsNetwork(made0[n], n)
  <2> DEFINE T == {k \in Nat : \A n \in Powers : n = k => IsNetwork(made0[n], n)}
  <2>1. ASSUME NEW k \in Nat, \A j \in 0..(k - 1) : j \in T
        PROVE  k \in T
    <3>1. ASSUME NEW n \in Powers, n = k
          PROVE  IsNetwork(made0[n], n)
      <4>1. PICK x : x = made0[n \div 2]
        OBVIOUS
      <4>2. n > 1 => IsNetwork(x, n \div 2)
        <5>1. n > 1 => n \div 2 \in 0..(k - 1) /\ n \div 2 \in Powers
          BY <3>1, <1>4
        <5> QED BY <5>1, <4>1, <2>1
      <4>3. IsNetwork(Body(n, x), n)
        BY <4>2, <1>2
      <4> QED BY <4>1, <4>3, <1>7
    <3> QED BY <3>1
  <2>2. Nat \subseteq T
    <3> HIDE DEF T
    <3> QED BY <2>1, StrongInduction
  <2> QED BY <2>2, <1>4
<1> QED
  BY <1>1, <1>8

\* BitonicMerge makes a network.
LEMMA BitonicMergeProperties ==
  ASSUME NEW invertOrder \in BOOLEAN
  PROVE  \A n \in Powers : IsNetwork(BitonicMerge(invertOrder)[n], n)
<1> DEFINE Body(n, x) ==
             LET split == AppendNetworkAt(EmptyNetwork(n), BitonicSplit(n, invertOrder), 0)
             IN IF n > 2 THEN AppendToHalves(split, x, x) ELSE split
           Def(f) == f = [n \in Powers |-> Body(n, f[n \div 2])]
           made0 == CHOOSE f : Def(f)
<1>1. BitonicMerge(invertOrder) = made0
  BY DEF BitonicMerge
<1>2. ASSUME NEW n \in Powers, NEW x, n > 1 => IsNetwork(x, n \div 2)
      PROVE  IsNetwork(Body(n, x), n)
  <2>1. n \in Nat /\ n >= 1
    BY PowersProperties
  <2>2. PICK split : split = AppendNetworkAt(EmptyNetwork(n), BitonicSplit(n, invertOrder), 0)
    OBVIOUS
  <2>3. IsNetwork(split, n)
    <3>1. 0 \in Nat /\ 0 + n <= n
      BY <2>1
    <3> QED BY <3>1, <2>1, <2>2, EmptyNetworkProperties, SplitProperties, AppendNetworkAtProperties
  <2>4. CASE n > 2
    <3>1. PICK h : h = n \div 2
      OBVIOUS
    <3>2. h \in Nat /\ n = h + h /\ IsNetwork(x, h)
      BY <2>4, <3>1, <1>2, PowersProperties
    <3>3. IsNetwork(AppendToHalves(split, x, x), n)
      BY <3>2, <2>3, <2>4, AppendToHalvesProperties
    <3> QED BY <3>3, <2>2, <2>4
  <2>5. CASE ~(n > 2)
    BY <2>5, <2>2, <2>3
  <2> QED BY <2>4, <2>5
<1>3. \A n \in Powers : \A x, y : n = 1 => Body(n, x) = Body(n, y)
  OBVIOUS
<1>4. \A n \in Powers : /\ n \in Nat /\ n >= 1 /\ n <= 1024
                        /\ n \div 2 < n /\ n \div 2 \in Nat
                        /\ n > 1 => n \div 2 \in Powers
  BY PowersProperties
<1> HIDE DEF Body
<1>5. PICK f : Def(f)
  <2> DEFINE T == {k \in Nat : \E f : \A n \in Powers : n <= k => f[n] = Body(n, f[n \div 2])}
  <2>1. 0 \in T
    BY <1>4
  <2>2. ASSUME NEW k \in Nat, k \in T
        PROVE  k + 1 \in T
    <3>1. PICK f : \A n \in Powers : n <= k => f[n] = Body(n, f[n \div 2])
      BY <2>2
    <3>2. PICK h : h = [n \in Powers |-> Body(n, f[n \div 2])]
      OBVIOUS
    <3>3. ASSUME NEW n \in Powers, n <= k + 1
          PROVE  h[n] = Body(n, h[n \div 2])
      <4>1. CASE n = 1
        BY <4>1, <3>2, <1>3
      <4>2. CASE n # 1
        <5>1. n \div 2 \in Powers /\ n \div 2 <= k
          BY <4>2, <3>3, <1>4
        <5>2. h[n \div 2] = f[n \div 2]
          BY <5>1, <3>1, <3>2
        <5> QED BY <5>2, <3>2
      <4> QED BY <4>1, <4>2
    <3> QED BY <3>3
  <2>3. 1024 \in T
    <3>1. Nat \subseteq T
      <4> HIDE DEF T
      <4> QED BY <2>1, <2>2, SetInduction
    <3> HIDE DEF T
    <3> QED BY <3>1
  <2>4. PICK f : \A n \in Powers : f[n] = Body(n, f[n \div 2])
    BY <2>3, <1>4
  <2>5. PICK h : h = [n \in Powers |-> Body(n, f[n \div 2])]
    OBVIOUS
  <2>6. ASSUME NEW n \in Powers
        PROVE  h[n] = Body(n, h[n \div 2])
    <3>1. CASE n = 1
      BY <3>1, <2>5, <1>3
    <3>2. CASE n # 1
      <4>1. n \div 2 \in Powers
        BY <3>2, <1>4
      <4>2. h[n \div 2] = f[n \div 2]
        BY <4>1, <2>4, <2>5
      <4> QED BY <4>2, <2>5
    <3> QED BY <3>1, <3>2
  <2>7. Def(h)
    BY <2>5, <2>6
  <2> HIDE DEF Def
  <2> QED BY <2>7
<1>6. Def(made0)
  <2> HIDE DEF Def
  <2> QED BY <1>5
<1>7. \A n \in Powers : made0[n] = Body(n, made0[n \div 2])
  <2> HIDE DEF made0
  <2> QED BY <1>6
<1> HIDE DEF made0
<1>8. \A n \in Powers : IsNetwork(made0[n], n)
  <2> DEFINE T == {k \in Nat : \A n \in Powers : n = k => IsNetwork(made0[n], n)}
  <2>1. ASSUME NEW k \in Nat, \A j \in 0..(k - 1) : j \in T
        PROVE  k \in T
    <3>1. ASSUME NEW n \in Powers, n = k
          PROVE  IsNetwork(made0[n], n)
      <4>1. PICK x : x = made0[n \div 2]
        OBVIOUS
      <4>2. n > 1 => IsNetwork(x, n \div 2)
        <5>1. n > 1 => n \div 2 \in 0..(k - 1) /\ n \div 2 \in Powers
          BY <3>1, <1>4
        <5> QED BY <5>1, <4>1, <2>1
      <4>3. IsNetwork(Body(n, x), n)
        BY <4>2, <1>2
      <4> QED BY <4>1, <4>3, <1>7
    <3> QED BY <3>1
  <2>2. Nat \subseteq T
    <3> HIDE DEF T
    <3> QED BY <2>1, StrongInduction
  <2> QED BY <2>2, <1>4
<1> QED
  BY <1>1, <1>8

\* BitonicSort makes a network.
LEMMA BitonicSortProperties ==
  \A n \in Powers : \A order0 \in BOOLEAN : IsNetwork(BitonicSort[n][order0], n)
<1> DEFINE Body(n, x) ==
             [invertOrder \in BOOLEAN |->
                LET halves == IF n >= 4
                                THEN AppendToHalves(EmptyNetwork(n), x[FALSE], x[TRUE])
                                ELSE EmptyNetwork(n)
                IN AppendNetworkAt(halves, BitonicMerge(invertOrder)[n], 0)]
           Def(f) == f = [n \in Powers |-> Body(n, f[n \div 2])]
           made0 == CHOOSE f : Def(f)
<1>1. BitonicSort = made0
  BY DEF BitonicSort
<1>2. ASSUME NEW n \in Powers, NEW x, n > 1 => \A order0 \in BOOLEAN : IsNetwork(x[order0], n \div 2)
      PROVE  \A order0 \in BOOLEAN : IsNetwork(Body(n, x)[order0], n)
  <2>1. n \in Nat /\ n >= 1
    BY PowersProperties
  <2>2. PICK halves : halves = IF n >= 4 THEN AppendToHalves(EmptyNetwork(n), x[FALSE], x[TRUE])
                                         ELSE EmptyNetwork(n)
    OBVIOUS
  <2>3. IsNetwork(halves, n)
    <3>1. CASE n >= 4
      <4>1. PICK h : h = n \div 2
        OBVIOUS
      <4>2. n > 1 /\ h \in Nat /\ n = h + h
        BY <2>1, <3>1, <4>1, PowersProperties
      <4>3. \A order0 \in BOOLEAN : IsNetwork(x[order0], h)
        BY <4>1, <4>2, <1>2
      <4>4. IsNetwork(x[FALSE], h) /\ IsNetwork(x[TRUE], h)
        BY <4>3
      <4>5. IsNetwork(AppendToHalves(EmptyNetwork(n), x[FALSE], x[TRUE]), n)
        BY <4>2, <4>4, <2>1, EmptyNetworkProperties, AppendToHalvesProperties
      <4> QED BY <4>5, <3>1, <2>2
    <3>2. CASE ~(n >= 4)
      BY <3>2, <2>1, <2>2, EmptyNetworkProperties
    <3> QED BY <3>1, <3>2
  <2>4. ASSUME NEW order0 \in BOOLEAN
        PROVE  IsNetwork(Body(n, x)[order0], n)
    <3>1. IsNetwork(BitonicMerge(order0)[n], n)
      BY BitonicMergeProperties
    <3>2. 0 \in Nat /\ 0 + n <= n
      BY <2>1
    <3>3. IsNetwork(AppendNetworkAt(halves, BitonicMerge(order0)[n], 0), n)
      BY <3>1, <3>2, <2>3, AppendNetworkAtProperties
    <3>4. Body(n, x)[order0] = AppendNetworkAt(halves, BitonicMerge(order0)[n], 0)
      BY <2>2
    <3> QED BY <3>3, <3>4
  <2> QED BY <2>4
<1>3. \A n \in Powers : \A x, y : n = 1 => Body(n, x) = Body(n, y)
  OBVIOUS
<1>4. \A n \in Powers : /\ n \in Nat /\ n >= 1 /\ n <= 1024
                        /\ n \div 2 < n /\ n \div 2 \in Nat
                        /\ n > 1 => n \div 2 \in Powers
  BY PowersProperties
<1> HIDE DEF Body
<1>5. PICK f : Def(f)
  <2> DEFINE T == {k \in Nat : \E f : \A n \in Powers : n <= k => f[n] = Body(n, f[n \div 2])}
  <2>1. 0 \in T
    BY <1>4
  <2>2. ASSUME NEW k \in Nat, k \in T
        PROVE  k + 1 \in T
    <3>1. PICK f : \A n \in Powers : n <= k => f[n] = Body(n, f[n \div 2])
      BY <2>2
    <3>2. PICK h : h = [n \in Powers |-> Body(n, f[n \div 2])]
      OBVIOUS
    <3>3. ASSUME NEW n \in Powers, n <= k + 1
          PROVE  h[n] = Body(n, h[n \div 2])
      <4>1. CASE n = 1
        BY <4>1, <3>2, <1>3
      <4>2. CASE n # 1
        <5>1. n \div 2 \in Powers /\ n \div 2 <= k
          BY <4>2, <3>3, <1>4
        <5>2. h[n \div 2] = f[n \div 2]
          BY <5>1, <3>1, <3>2
        <5> QED BY <5>2, <3>2
      <4> QED BY <4>1, <4>2
    <3> QED BY <3>3
  <2>3. 1024 \in T
    <3>1. Nat \subseteq T
      <4> HIDE DEF T
      <4> QED BY <2>1, <2>2, SetInduction
    <3> HIDE DEF T
    <3> QED BY <3>1
  <2>4. PICK f : \A n \in Powers : f[n] = Body(n, f[n \div 2])
    BY <2>3, <1>4
  <2>5. PICK h : h = [n \in Powers |-> Body(n, f[n \div 2])]
    OBVIOUS
  <2>6. ASSUME NEW n \in Powers
        PROVE  h[n] = Body(n, h[n \div 2])
    <3>1. CASE n = 1
      BY <3>1, <2>5, <1>3
    <3>2. CASE n # 1
      <4>1. n \div 2 \in Powers
        BY <3>2, <1>4
      <4>2. h[n \div 2] = f[n \div 2]
        BY <4>1, <2>4, <2>5
      <4> QED BY <4>2, <2>5
    <3> QED BY <3>1, <3>2
  <2>7. Def(h)
    BY <2>5, <2>6
  <2> HIDE DEF Def
  <2> QED BY <2>7
<1>6. Def(made0)
  <2> HIDE DEF Def
  <2> QED BY <1>5
<1>7. \A n \in Powers : made0[n] = Body(n, made0[n \div 2])
  <2> HIDE DEF made0
  <2> QED BY <1>6
<1> HIDE DEF made0
<1>8. \A n \in Powers : \A order0 \in BOOLEAN : IsNetwork(made0[n][order0], n)
  <2> DEFINE T == {k \in Nat : \A n \in Powers :
                      n = k => \A order0 \in BOOLEAN : IsNetwork(made0[n][order0], n)}
  <2>1. ASSUME NEW k \in Nat, \A j \in 0..(k - 1) : j \in T
        PROVE  k \in T
    <3>1. ASSUME NEW n \in Powers, n = k
          PROVE  \A order0 \in BOOLEAN : IsNetwork(made0[n][order0], n)
      <4>1. PICK x : x = made0[n \div 2]
        OBVIOUS
      <4>2. n > 1 => \A order0 \in BOOLEAN : IsNetwork(x[order0], n \div 2)
        <5>1. n > 1 => n \div 2 \in 0..(k - 1) /\ n \div 2 \in Powers
          BY <3>1, <1>4
        <5> QED BY <5>1, <4>1, <2>1
      <4>3. \A order0 \in BOOLEAN : IsNetwork(Body(n, x)[order0], n)
        BY <4>2, <1>2
      <4> QED BY <4>1, <4>3, <1>7
    <3> QED BY <3>1
  <2>2. Nat \subseteq T
    <3> HIDE DEF T
    <3> QED BY <2>1, StrongInduction
  <2> QED BY <2>2, <1>4
<1> QED
  BY <1>1, <1>8

-----------------------------------------------------------------------------
(***************************************************************************)
(* Collapsing permutation gates.                                           *)
(***************************************************************************)

\* So does each factory by its name.
LEMMA FactoryProperties ==
  ASSUME NEW name \in Factories, NEW n \in Powers
  PROVE  IsNetwork(Factory(<<name, n>>), n)
<1>1. /\ IsNetwork(ButterflyTournament[n], n)
      /\ IsNetwork(BinaryTreeInsertion[n], n)
      /\ IsNetwork(BitonicMerge(FALSE)[n], n)
      /\ IsNetwork(BitonicMerge(TRUE)[n], n)
      /\ IsNetwork(BitonicSort[n][TRUE], n)
      /\ IsNetwork(BitonicSort[n][FALSE], n)
  <2>1. FALSE \in BOOLEAN /\ TRUE \in BOOLEAN
    OBVIOUS
  <2>2. IsNetwork(BitonicMerge(FALSE)[n], n) /\ IsNetwork(BitonicMerge(TRUE)[n], n)
    BY <2>1, BitonicMergeProperties
  <2>3. IsNetwork(BitonicSort[n][TRUE], n) /\ IsNetwork(BitonicSort[n][FALSE], n)
    BY <2>1, BitonicSortProperties
  <2> QED BY <2>2, <2>3, ButterflyTournamentProperties, BinaryTreeInsertionProperties
<1>2. IsNetwork(LPSortingNetwork(n), n)
  <2>1. n \in Nat
    BY PowersProperties
  <2>2. 0 \in Nat /\ 0 + n <= n
    BY <2>1
  <2> QED BY <2>1, <2>2, <1>1, EmptyNetworkProperties, AppendNetworkAtProperties DEF LPSortingNetwork
<1>3. PICK call : call = <<name, n>>
  OBVIOUS
<1>4. call[1] = name /\ call[2] = n
  BY <1>3
<1> QED
  BY <1>1, <1>2, <1>3, <1>4 DEF Factory

\* A gate that is a permutation permutes its ports.
LEMMA PermutedPorts ==
  ASSUME NEW gate, IsGate(gate), ~gate.computes
  PROVE  {Permute(gate, p) : p \in PortsOf(gate)} = PortsOf(gate)
<1>1. PICK f : f = [p \in PortsOf(gate) |-> Permute(gate, p)]
  OBVIOUS
<1>2. f \in Injection(PortsOf(gate), PortsOf(gate))
  <2>1. f \in [PortsOf(gate) -> PortsOf(gate)]
    BY <1>1 DEF IsGate
  <2>2. IsInjective(f)
    BY <1>1 DEF IsGate, IsInjective
  <2> QED BY <2>1, <2>2 DEF Injection
<1>3. IsFiniteSet(PortsOf(gate))
  BY FS_Interval DEF PortsOf, IsGate
<1>4. f \in Surjection(PortsOf(gate), PortsOf(gate))
  BY <1>2, <1>3, FS_Injection
<1> QED
  BY <1>1, <1>4 DEF Surjection

\* The ports k - 1 of gate g have been bypassed for all k of s.
IsBypassed(d, c, gates, g, s) ==
  /\ IsCircuit(d, gates)
  /\ DOMAIN d.inputCounterparties = DOMAIN c.inputCounterparties \ {<<g, k - 1>> : k \in s}
  /\ DOMAIN d.outputCounterparties =
       DOMAIN c.outputCounterparties \ {<<g, Permute(gates[g], k - 1)>> : k \in s}

\* One port more of a permutation gate is bypassed: whatever the permutation, and also if the gate
\* is connected to another permutation gate, both ends were connected.
LEMMA BypassProperties ==
  ASSUME NEW n \in Nat, NEW gates, AreGates(gates, n), NEW c, IsCircuit(c, gates),
         NEW g \in DOMAIN gates, ~gates[g].computes,
         LocalAddrs(g, gates[g]) \subseteq DOMAIN c.inputCounterparties,
         LocalAddrs(g, gates[g]) \subseteq DOMAIN c.outputCounterparties,
         NEW s \in SUBSET (1..gates[g].count), NEW k \in s,
         NEW d, IsBypassed(d, c, gates, g, s \ {k})
  PROVE  IsBypassed(Bypass(d, g, k - 1), c, gates, g, s)
<1>1. PICK gate, p, q : gate = gates[g] /\ p = k - 1 /\ q = Permute(gate, k - 1)
  OBVIOUS
<1>2. IsGate(gate) /\ ~gate.computes /\ gate.count \in Nat
  BY <1>1 DEF AreGates, IsGate
<1>3. \A j \in s : j \in 1..gate.count /\ j - 1 \in PortsOf(gate)
  BY <1>1, <1>2 DEF PortsOf
<1>4. p \in PortsOf(gate) /\ q \in PortsOf(gate)
  BY <1>1, <1>2, <1>3 DEF IsGate
<1>5. PICK in, out : in = d.inputCounterparties /\ out = d.outputCounterparties
  OBVIOUS
<1>6. PICK a, b : a = <<g, p>> /\ b = <<g, q>>
  OBVIOUS
<1>7. a \in DOMAIN in
  <2>1. a \in LocalAddrs(g, gate)
    BY <1>4, <1>6 DEF LocalAddrs
  <2>2. \A j \in s \ {k} : j - 1 # p
    BY <1>1, <1>3
  <2>3. \A j \in s \ {k} : <<g, j - 1>> # a
    BY <2>2, <1>6
  <2> QED BY <2>1, <2>3, <1>1, <1>5 DEF IsBypassed
<1>8. b \in DOMAIN out
  <2>1. b \in LocalAddrs(g, gate)
    BY <1>4, <1>6 DEF LocalAddrs
  <2>2. \A j \in s \ {k} : Permute(gate, j - 1) # q
    <3>1. ASSUME NEW j \in s \ {k}, Permute(gate, j - 1) = q
          PROVE  FALSE
      <4>1. j - 1 = k - 1
        BY <3>1, <1>1, <1>2, <1>3 DEF IsGate
      <4> QED BY <4>1, <3>1, <1>3
    <3> QED BY <3>1
  <2>3. \A j \in s \ {k} : <<g, Permute(gates[g], j - 1)>> # b
    BY <2>2, <1>1, <1>6
  <2> QED BY <2>1, <2>3, <1>1, <1>5 DEF IsBypassed
<1>9. IsCircuit(d, gates)
  BY DEF IsBypassed
<1>10. /\ DOMAIN in \subseteq AllAddrs(gates) /\ DOMAIN out \subseteq AllAddrs(gates)
       /\ \A x \in DOMAIN in : /\ in[x] \in AllAddrs(gates) /\ in[x] \in DOMAIN out
                               /\ out[in[x]] = x /\ in[x][1] < x[1]
       /\ \A x \in DOMAIN out : out[x] \in AllAddrs(gates) /\ out[x] \in DOMAIN in /\ in[out[x]] = x
  BY <1>5, <1>9, IsCircuitFields
<1>11. PICK from, to : from = in[a] /\ to = out[b]
  OBVIOUS
<1>12. /\ from \in AllAddrs(gates) /\ from \in DOMAIN out /\ out[from] = a /\ from[1] < g
       /\ to \in AllAddrs(gates) /\ to \in DOMAIN in /\ in[to] = b /\ g < to[1]
  <2>1. a[1] = g /\ b[1] = g
    BY <1>6
  <2> QED BY <2>1, <1>7, <1>8, <1>10, <1>11
<1>13. from[1] < to[1]
  <2>1. from[1] \in 1..n /\ to[1] \in 1..n
    BY <1>12, AllAddrsProperties
  <2>2. g \in 1..n
    BY DEF AreGates
  <2> QED BY <2>1, <2>2, <1>12
<1>14. PICK e : e = AddConnection(d, <<from, to>>)
  OBVIOUS
<1>15. /\ IsCircuit(e, gates)
       /\ e.inputCounterparties = ReplacedIn(in, out, from, to)
       /\ e.outputCounterparties = ReplacedOut(in, out, from, to)
  BY <1>5, <1>9, <1>12, <1>13, <1>14, AddConnectionProperties
<1>16. to # a /\ from # b
  <2>1. a[1] = g /\ b[1] = g /\ g \in Int
    BY <1>6 DEF AreGates
  <2> QED BY <2>1, <1>12
<1>17. /\ DOMAIN e.inputCounterparties = DOMAIN in \ {a}
       /\ DOMAIN e.outputCounterparties = DOMAIN out \ {b}
  BY <1>12, <1>15, <1>16 DEF ReplacedIn, ReplacedOut, OldTo, OldFrom
<1>18. Bypass(d, g, k - 1) = e
  <2>1. d.gates = gates
    BY <1>9, IsCircuitFields
  <2> QED BY <2>1, <1>1, <1>5, <1>6, <1>11, <1>14 DEF Bypass
<1>19. /\ {<<g, j - 1>> : j \in s} = {<<g, j - 1>> : j \in s \ {k}} \union {a}
       /\ {<<g, Permute(gates[g], j - 1)>> : j \in s}
            = {<<g, Permute(gates[g], j - 1)>> : j \in s \ {k}} \union {b}
  BY <1>1, <1>6
<1>20. IsBypassed(e, c, gates, g, s)
  BY <1>5, <1>15, <1>17, <1>19 DEF IsBypassed
<1> QED
  BY <1>18, <1>20

\* After all ports have been bypassed the gate is connected on neither side.
LEMMA AllBypassed ==
  ASSUME NEW n \in Nat, NEW gates, AreGates(gates, n), NEW c, IsCircuit(c, gates),
         NEW g \in DOMAIN gates, ~gates[g].computes,
         LocalAddrs(g, gates[g]) \subseteq DOMAIN c.inputCounterparties,
         LocalAddrs(g, gates[g]) \subseteq DOMAIN c.outputCounterparties
  PROVE  IsBypassed(FoldLeft(LAMBDA d, k : Bypass(d, g, k - 1), c, [k \in 1..c.gates[g].count |-> k]),
                    c, gates, g, 1..gates[g].count)
<1>1. PICK count : count = gates[g].count
  OBVIOUS
<1>2. count \in Nat /\ c.gates = gates
  BY <1>1, IsCircuitFields DEF AreGates, IsGate
<1> DEFINE D == 1..count
           list == [k \in D |-> k]
           Def(f) == f = [s \in SUBSET D |->
                            IF s = {} THEN c ELSE Bypass(f[s \ {Max(s)}], g, list[Max(s)] - 1)]
           fold == CHOOSE f : Def(f)
           pick == [s \in SUBSET D |-> Max(s)]
           Allowed == [s \in SUBSET D |-> {d \in CircuitsOf(gates) : IsBypassed(d, c, gates, g, s)}]
           V == UNION {Allowed[s] : s \in SUBSET D}
           step == [s \in SUBSET D |-> [d \in V |-> Bypass(d, g, pick[s] - 1)]]
<1>3. FoldLeft(LAMBDA d, k : Bypass(d, g, k - 1), c, list) = fold[D]
  <2>1. DOMAIN list = D
    OBVIOUS
  <2> HIDE DEF list, D
  <2> QED BY <2>1 DEF FoldLeft, MapThenFoldSet
<1>4. IsFiniteSet(D) /\ \A s \in SUBSET D : s # {} => pick[s] \in s /\ pick[s] = Max(s)
  <2>1. PICK p : p = pick
    OBVIOUS
  <2>2. p = [s \in SUBSET (1..count) |-> Max(s)]
    BY <2>1
  <2> HIDE DEF pick
  <2> QED BY <1>2, <2>1, <2>2, PositionsArePicked
<1>5. \A d, s : IsBypassed(d, c, gates, g, s) => d \in CircuitsOf(gates)
  BY CircuitsAreASet DEF IsBypassed
<1>6. c \in Allowed[{}]
  <2>1. IsBypassed(c, c, gates, g, {})
    BY DEF IsBypassed
  <2> QED BY <2>1, <1>5
<1>7. ASSUME NEW s \in SUBSET D, s # {}, NEW d \in Allowed[s \ {pick[s]}]
      PROVE  Bypass(d, g, pick[s] - 1) \in Allowed[s]
  <2>1. pick[s] \in s
    BY <1>4, <1>7
  <2>2. IsBypassed(d, c, gates, g, s \ {pick[s]})
    BY <1>7
  <2> HIDE DEF pick
  <2>3. s \in SUBSET (1..gates[g].count)
    BY <1>1
  <2>4. IsBypassed(Bypass(d, g, pick[s] - 1), c, gates, g, s)
    BY <2>1, <2>2, <2>3, BypassProperties
  <2> QED BY <2>4, <1>5
<1>8. \A s \in SUBSET D : s # {} => list[Max(s)] = pick[s] /\ Max(s) = pick[s]
  <2>1. \A s \in SUBSET D : s # {} => pick[s] \in D
    BY <1>4
  <2> QED BY <2>1, <1>4
<1>9. PICK f : Def(f)
  <2>1. ASSUME NEW s \in SUBSET D, s # {}, NEW d \in Allowed[s \ {pick[s]}]
        PROVE  step[s][d] = Bypass(d, g, pick[s] - 1) /\ step[s][d] \in Allowed[s]
    <3>1. d \in V
      BY <2>1
    <3>2. step[s][d] = Bypass(d, g, pick[s] - 1)
      BY <3>1
    <3> HIDE DEF step, Allowed, pick, V
    <3> QED BY <3>2, <2>1, <1>7
  <2>2. PICK f : /\ IsFold(f, D, c, step, pick)
                 /\ \A s \in SUBSET D : f[s] \in Allowed[s]
    <3> HIDE DEF step, Allowed, pick, D
    <3>1. \A s \in SUBSET D : s # {} =>
            \A x \in Allowed[s \ {pick[s]}] : step[s][x] \in Allowed[s]
      BY <2>1
    <3>2. IsFiniteSet(D) /\ \A s \in SUBSET D : s # {} => pick[s] \in s
      BY <1>4
    <3> QED BY <1>6, <3>1, <3>2, FoldInto, Zenon
  <2>3. ASSUME NEW s \in SUBSET D, s # {}
        PROVE  step[s][f[s \ {pick[s]}]] = Bypass(f[s \ {Max(s)}], g, list[Max(s)] - 1)
    <3>1. f[s \ {pick[s]}] \in Allowed[s \ {pick[s]}]
      BY <2>2
    <3>2. list[Max(s)] = pick[s] /\ Max(s) = pick[s]
      BY <1>8, <2>3
    <3> HIDE DEF step, Allowed, pick, list, D
    <3> QED BY <3>1, <3>2, <2>1, <2>3
  <2>4. f = [s \in SUBSET D |-> IF s = {} THEN c ELSE Bypass(f[s \ {Max(s)}], g, list[Max(s)] - 1)]
    <3> HIDE DEF step, Allowed, pick, list, D
    <3> QED BY <2>2, <2>3 DEF IsFold
  <2> HIDE DEF step, Allowed, pick, list, D
  <2> QED BY <2>4
<1>10. Def(fold)
  <2> HIDE DEF Def
  <2> QED BY <1>9
<1>11. /\ fold[{}] = c
       /\ \A s \in SUBSET D : s # {} => fold[s] = Bypass(fold[s \ {pick[s]}], g, pick[s] - 1)
  <2> HIDE DEF fold, pick, list, D
  <2> QED BY <1>8, <1>10
<1>12. fold[D] \in Allowed[D]
  <2> HIDE DEF fold, Allowed, pick, list, D
  <2>1. fold[{}] \in Allowed[{}]
    BY <1>6, <1>11
  <2>2. \A s \in SUBSET D :
          s # {} /\ fold[s \ {pick[s]}] \in Allowed[s \ {pick[s]}] => fold[s] \in Allowed[s]
    BY <1>7, <1>11
  <2> QED BY <2>1, <2>2, <1>4, FoldStays
<1>13. IsBypassed(fold[D], c, gates, g, D)
  <2> HIDE DEF fold
  <2> QED BY <1>12
<1> QED
  BY <1>1, <1>2, <1>3, <1>13

\* The gates but those of s.
Rest(gates, s) == [h \in DOMAIN gates \ s |-> gates[h]]

\* They are gates, with their addresses.
LEMMA RestProperties ==
  ASSUME NEW n \in Nat, NEW gates, AreGates(gates, n), NEW s
  PROVE  /\ AreGates(Rest(gates, s), n)
         /\ DOMAIN Rest(gates, s) = DOMAIN gates \ s
         /\ \A h \in DOMAIN gates \ s : Rest(gates, s)[h] = gates[h]
         /\ \A a : a \in AllAddrs(Rest(gates, s)) <=> a \in AllAddrs(gates) /\ a[1] \notin s
<1>1. PICK rest : rest = Rest(gates, s)
  OBVIOUS
<1>2. /\ rest = [h \in DOMAIN rest |-> rest[h]]
      /\ DOMAIN rest = DOMAIN gates \ s
      /\ \A h \in DOMAIN gates \ s : rest[h] = gates[h]
  BY <1>1 DEF Rest
<1>3. AreGates(rest, n)
  BY <1>2 DEF AreGates
<1>4. \A a : a \in AllAddrs(rest) <=> a \in AllAddrs(gates) /\ a[1] \notin s
  BY <1>2 DEF AllAddrs, LocalAddrs
<1> QED
  BY <1>1, <1>2, <1>3, <1>4

\* RemoveGate part by part.
LEMMA RemoveGateIs ==
  ASSUME NEW gates, NEW ins, NEW outs, NEW out, NEW in, NEW g
  PROVE  RemoveGate(CircuitOf(gates, ins, outs, out, in), g) =
           CircuitOf(Without(gates, g), ins \ LocalAddrs(g, gates[g]), outs \ LocalAddrs(g, gates[g]),
                     out, in)
<1>1. PICK c : c = CircuitOf(gates, ins, outs, out, in)
  OBVIOUS
<1>2. /\ c.gates = gates /\ c.inputAddrs = ins /\ c.outputAddrs = outs
      /\ c.outputCounterparties = out /\ c.inputCounterparties = in
  BY <1>1, CircuitParts
<1>3. PICK rest, s, t : /\ rest = Without(gates, g)
                        /\ s = ins \ LocalAddrs(g, gates[g]) /\ t = outs \ LocalAddrs(g, gates[g])
  OBVIOUS
<1>4. RemoveGate(c, g) = [c EXCEPT !.inputAddrs = s, !.outputAddrs = t, !.gates = rest]
  BY <1>2, <1>3 DEF RemoveGate
<1>5. [c EXCEPT !.inputAddrs = s, !.outputAddrs = t, !.gates = rest] =
        [[[c EXCEPT !.inputAddrs = s] EXCEPT !.outputAddrs = t] EXCEPT !.gates = rest]
  OBVIOUS
<1>6. [c EXCEPT !.inputAddrs = s] = CircuitOf(gates, s, outs, out, in)
  BY <1>1 DEF CircuitOf
<1>7. [CircuitOf(gates, s, outs, out, in) EXCEPT !.outputAddrs = t] = CircuitOf(gates, s, t, out, in)
  BY DEF CircuitOf
<1>8. [CircuitOf(gates, s, t, out, in) EXCEPT !.gates = rest] = CircuitOf(rest, s, t, out, in)
  BY DEF CircuitOf
<1> QED
  BY <1>1, <1>3, <1>4, <1>5, <1>6, <1>7, <1>8

\* The same open addresses, without gate g.
LEMMA CollapseGateProperties ==
  ASSUME NEW n \in Nat, NEW gates, AreGates(gates, n), NEW c, IsCircuit(c, gates),
         NEW g \in DOMAIN gates, ~gates[g].computes,
         LocalAddrs(g, gates[g]) \intersect c.inputAddrs = {},
         LocalAddrs(g, gates[g]) \intersect c.outputAddrs = {}
  PROVE  LET d == CollapseGate(c, g)
         IN /\ IsCircuit(d, Without(gates, g))
            /\ d.inputAddrs = c.inputAddrs /\ d.outputAddrs = c.outputAddrs
<1>1. PICK L, A, in, out : /\ L = LocalAddrs(g, gates[g]) /\ A = AllAddrs(gates)
                           /\ in = c.inputCounterparties /\ out = c.outputCounterparties
  OBVIOUS
<1>2. L \subseteq A
  BY <1>1 DEF AllAddrs
<1>3. /\ c.gates = gates
      /\ c.inputAddrs = A \ DOMAIN in /\ c.outputAddrs = A \ DOMAIN out
      /\ DOMAIN in \subseteq A /\ DOMAIN out \subseteq A
  BY <1>1, IsCircuitFields
<1>4. L \subseteq DOMAIN in /\ L \subseteq DOMAIN out
  BY <1>1, <1>2, <1>3
<1>5. PICK e : e = FoldLeft(LAMBDA d, k : Bypass(d, g, k - 1), c, [k \in 1..c.gates[g].count |-> k])
  OBVIOUS
<1>6. IsBypassed(e, c, gates, g, 1..gates[g].count)
  BY <1>1, <1>4, <1>5, AllBypassed
<1>7. PICK in2, out2 : in2 = e.inputCounterparties /\ out2 = e.outputCounterparties
  OBVIOUS
<1>8. DOMAIN in2 = DOMAIN in \ L /\ DOMAIN out2 = DOMAIN out \ L
  <2>1. PICK gate : gate = gates[g]
    OBVIOUS
  <2>2. IsGate(gate) /\ ~gate.computes /\ gate.count \in Nat
    BY <2>1 DEF AreGates, IsGate
  <2>3. \A p : p \in PortsOf(gate) <=> \E k \in 1..gate.count : p = k - 1
    <3>1. ASSUME NEW p \in PortsOf(gate)
          PROVE  \E k \in 1..gate.count : p = k - 1
      <4>1. p + 1 \in 1..gate.count /\ p = (p + 1) - 1
        BY <2>2 DEF PortsOf
      <4> QED BY <4>1
    <3>2. \A k \in 1..gate.count : k - 1 \in PortsOf(gate)
      BY <2>2 DEF PortsOf
    <3> QED BY <3>1, <3>2
  <2>4. L = {<<g, k - 1>> : k \in 1..gate.count}
    BY <2>1, <2>3, <1>1 DEF LocalAddrs
  <2>5. L = {<<g, Permute(gate, k - 1)>> : k \in 1..gate.count}
    <3>1. {Permute(gate, p) : p \in PortsOf(gate)} = PortsOf(gate)
      BY <2>2, PermutedPorts
    <3>2. \A q : q \in PortsOf(gate) <=> \E k \in 1..gate.count : q = Permute(gate, k - 1)
      <4>1. \A q : q \in PortsOf(gate) <=> \E p \in PortsOf(gate) : q = Permute(gate, p)
        BY <3>1
      <4> QED BY <4>1, <2>3
    <3> QED BY <3>2, <2>1, <1>1 DEF LocalAddrs
  <2> QED BY <2>1, <2>4, <2>5, <1>1, <1>6, <1>7 DEF IsBypassed
<1>9. IsCircuit(e, gates)
  BY <1>6 DEF IsBypassed
<1>10. /\ e.inputAddrs = A \ DOMAIN in2 /\ e.outputAddrs = A \ DOMAIN out2
       /\ DOMAIN in2 \subseteq A /\ DOMAIN out2 \subseteq A
       /\ \A a \in DOMAIN in2 : in2[a] \in A /\ in2[a] \in DOMAIN out2
       /\ \A a \in DOMAIN out2 : out2[a] \in A /\ out2[a] \in DOMAIN in2
       /\ in2 \in Partial(A) /\ out2 \in Partial(A)
  BY <1>1, <1>7, <1>9, IsCircuitFields
<1>11. PICK rest, s, t : rest = Without(gates, g) /\ s = e.inputAddrs \ L /\ t = e.outputAddrs \ L
  OBVIOUS
<1>12. AllAddrs(rest) = A \ L
  <2>1. rest = Rest(gates, {g})
    BY <1>11 DEF Without, Rest
  <2>2. \A a : a \in AllAddrs(rest) <=> a \in A /\ a[1] # g
    <3>1. PICK x : x = {g}
      OBVIOUS
    <3>2. \A a : a \in AllAddrs(Rest(gates, x)) <=> a \in AllAddrs(gates) /\ a[1] \notin x
      BY RestProperties
    <3> QED BY <3>1, <3>2, <2>1, <1>1
  <2>3. \A a \in A : a \in L <=> a[1] = g
    <3>1. \A a \in A : a[1] = g => a \in L
      BY <1>1 DEF AllAddrs, LocalAddrs
    <3> QED BY <3>1, <1>1 DEF LocalAddrs
  <2> QED BY <2>2, <2>3
<1>13. s = (A \ L) \ DOMAIN in2 /\ t = (A \ L) \ DOMAIN out2
  BY <1>10, <1>11
<1>14. s = c.inputAddrs /\ t = c.outputAddrs
  BY <1>3, <1>4, <1>8, <1>13
<1>15. in2 \in Partial(A \ L) /\ out2 \in Partial(A \ L)
  <2>1. in2 = [a \in DOMAIN in2 |-> in2[a]] /\ out2 = [a \in DOMAIN out2 |-> out2[a]]
    BY <1>10, PartialProperties
  <2>2. DOMAIN in2 \subseteq A \ L /\ DOMAIN out2 \subseteq A \ L
    BY <1>8, <1>10
  <2>3. \A a \in DOMAIN in2 : in2[a] \in A \ L
    BY <2>2, <1>10
  <2>4. \A a \in DOMAIN out2 : out2[a] \in A \ L
    BY <2>2, <1>10
  <2> QED BY <2>1, <2>2, <2>3, <2>4, PartialProperties
<1>16. AreInverse(out2, in2)
  BY <1>7, <1>9 DEF IsCircuit
<1>17. PICK d : d = CircuitOf(rest, s, t, out2, in2)
  OBVIOUS
<1>18. /\ d.inputAddrs = s /\ d.outputAddrs = t
       /\ d.inputCounterparties = in2 /\ d.outputCounterparties = out2
  BY <1>17, CircuitParts
<1>19. IsCircuit(d, rest)
  BY <1>12, <1>13, <1>15, <1>16, <1>17, <1>18 DEF IsCircuit
<1>20. CollapseGate(c, g) = d
  <2>1. PICK ins, outs : ins = e.inputAddrs /\ outs = e.outputAddrs
    OBVIOUS
  <2>2. e = CircuitOf(gates, ins, outs, out2, in2)
    BY <2>1, <1>1, <1>7, <1>9, <1>10 DEF IsCircuit
  <2>3. RemoveGate(e, g) = CircuitOf(rest, s, t, out2, in2)
    BY <2>1, <2>2, <1>1, <1>11, RemoveGateIs
  <2>4. CollapseGate(c, g) = RemoveGate(e, g)
    BY <1>5 DEF CollapseGate
  <2> QED BY <2>3, <2>4, <1>17
<1> QED
  BY <1>11, <1>14, <1>18, <1>19, <1>20

\* The gates of s have been collapsed.
IsCollapsed(d, c, gates, s) ==
  /\ IsCircuit(d, Rest(gates, s))
  /\ d.inputAddrs = c.inputAddrs /\ d.outputAddrs = c.outputAddrs

\* One permutation gate more is collapsed.
LEMMA CollapseOne ==
  ASSUME NEW n \in Nat, NEW gates, AreGates(gates, n), NEW c, IsCircuit(c, gates), CanCollapse(c),
         NEW s \in SUBSET PermutationGates(c), NEW g \in s,
         NEW d, IsCollapsed(d, c, gates, s \ {g})
  PROVE  IsCollapsed(CollapseGate(d, g), c, gates, s)
<1>1. PICK rest : rest = Rest(gates, s \ {g})
  OBVIOUS
<1>2. c.gates = gates
  BY IsCircuitFields
<1>3. g \in DOMAIN gates /\ ~gates[g].computes /\ g \in PermutationGates(c)
  BY <1>2 DEF PermutationGates, IsPermutationGate
<1>4. /\ AreGates(rest, n) /\ DOMAIN rest = DOMAIN gates \ (s \ {g})
      /\ \A h \in DOMAIN rest : rest[h] = gates[h]
  <2>1. PICK t : t = s \ {g}
    OBVIOUS
  <2>2. /\ AreGates(Rest(gates, t), n) /\ DOMAIN Rest(gates, t) = DOMAIN gates \ t
        /\ \A h \in DOMAIN gates \ t : Rest(gates, t)[h] = gates[h]
    BY RestProperties
  <2> QED BY <2>1, <2>2, <1>1
<1>5. g \in DOMAIN rest /\ rest[g] = gates[g]
  BY <1>3, <1>4
<1>6. IsCircuit(d, rest) /\ d.inputAddrs = c.inputAddrs /\ d.outputAddrs = c.outputAddrs
  BY <1>1 DEF IsCollapsed
<1>7. /\ LocalAddrs(g, gates[g]) \intersect c.inputAddrs = {}
      /\ LocalAddrs(g, gates[g]) \intersect c.outputAddrs = {}
  <2>1. \A a \in LocalAddrs(g, gates[g]) :
          a \in DOMAIN c.inputCounterparties /\ a \in DOMAIN c.outputCounterparties
    BY <1>2, <1>3 DEF CanCollapse
  <2>2. /\ c.inputAddrs = AllAddrs(gates) \ DOMAIN c.inputCounterparties
        /\ c.outputAddrs = AllAddrs(gates) \ DOMAIN c.outputCounterparties
    BY IsCircuitFields
  <2> QED BY <2>1, <2>2
<1>8. PICK e : e = CollapseGate(d, g)
  OBVIOUS
<1>9. IsCircuit(e, Without(rest, g)) /\ e.inputAddrs = d.inputAddrs /\ e.outputAddrs = d.outputAddrs
  BY <1>3, <1>4, <1>5, <1>6, <1>7, <1>8, CollapseGateProperties
<1>10. Without(rest, g) = Rest(gates, s)
  BY <1>1 DEF Without, Rest
<1> QED
  BY <1>6, <1>8, <1>9, <1>10 DEF IsCollapsed

\* All permutation gates are collapsed, in the order of CollapseCircuit.
LEMMA CollapseCircuitProperties ==
  ASSUME NEW n \in Nat, NEW gates, AreGates(gates, n), NEW c, IsCircuit(c, gates), CanCollapse(c)
  PROVE  IsCollapsed(CollapseCircuit(c), c, gates, PermutationGates(c))
<1>1. PICK S : S = PermutationGates(c)
  OBVIOUS
<1> DEFINE pick == [s \in SUBSET S |-> CHOOSE g \in s : TRUE]
           Allowed == [s \in SUBSET S |-> {d \in CircuitsOf(Rest(gates, s)) : IsCollapsed(d, c, gates, s)}]
           V == UNION {Allowed[s] : s \in SUBSET S}
           step == [s \in SUBSET S |-> [d \in V |-> CollapseGate(d, pick[s])]]
           Def(f) == f = [s \in SUBSET S |->
                            IF s = {} THEN c
                            ELSE CollapseGate(f[s \ {CHOOSE g \in s : TRUE}], CHOOSE g \in s : TRUE)]
           fold == CHOOSE f : Def(f)
<1>2. CollapseCircuit(c) = fold[S]
  BY <1>1 DEF CollapseCircuit, FoldSet, MapThenFoldSet
<1>3. IsFiniteSet(S) /\ \A s \in SUBSET S : s # {} => pick[s] \in s
  <2>1. S \subseteq 1..n
    BY <1>1, IsCircuitFields DEF PermutationGates, AreGates
  <2>2. IsFiniteSet(1..n) /\ S \in SUBSET (1..n)
    BY <2>1, FS_Interval
  <2>3. IsFiniteSet(S)
    BY <2>2, FS_Subset, Zenon
  <2> QED BY <2>3
<1>4. \A d, s : IsCollapsed(d, c, gates, s) => d \in CircuitsOf(Rest(gates, s))
  BY CircuitsAreASet DEF IsCollapsed
<1>5. c \in Allowed[{}]
  <2>1. Rest(gates, {}) = gates
    BY DEF Rest, AreGates
  <2>2. IsCollapsed(c, c, gates, {})
    BY <2>1 DEF IsCollapsed
  <2> QED BY <2>2, <1>4
<1>6. ASSUME NEW s \in SUBSET S, s # {}, NEW d \in Allowed[s \ {pick[s]}]
      PROVE  CollapseGate(d, pick[s]) \in Allowed[s]
  <2>1. pick[s] \in s
    BY <1>3, <1>6
  <2>2. IsCollapsed(d, c, gates, s \ {pick[s]})
    BY <1>6
  <2> HIDE DEF pick
  <2>3. IsCollapsed(CollapseGate(d, pick[s]), c, gates, s)
    BY <2>1, <2>2, <1>1, CollapseOne
  <2> QED BY <2>3, <1>4
<1>7. PICK f : Def(f)
  <2>1. ASSUME NEW s \in SUBSET S, s # {}, NEW d \in Allowed[s \ {pick[s]}]
        PROVE  step[s][d] = CollapseGate(d, pick[s]) /\ step[s][d] \in Allowed[s]
    <3>1. d \in V
      BY <2>1
    <3>2. step[s][d] = CollapseGate(d, pick[s])
      BY <3>1
    <3> HIDE DEF step, Allowed, pick, V
    <3> QED BY <3>2, <2>1, <1>6
  <2>2. PICK f : /\ IsFold(f, S, c, step, pick)
                 /\ \A s \in SUBSET S : f[s] \in Allowed[s]
    <3> HIDE DEF step, Allowed, pick
    <3>1. \A s \in SUBSET S : s # {} =>
            \A x \in Allowed[s \ {pick[s]}] : step[s][x] \in Allowed[s]
      BY <2>1
    <3> QED BY <1>3, <1>5, <3>1, FoldInto, Zenon
  <2>3. ASSUME NEW s \in SUBSET S, s # {}
        PROVE  step[s][f[s \ {pick[s]}]] = CollapseGate(f[s \ {pick[s]}], pick[s])
    <3>1. f[s \ {pick[s]}] \in Allowed[s \ {pick[s]}]
      BY <2>2
    <3> HIDE DEF step, Allowed, pick
    <3> QED BY <3>1, <2>1, <2>3
  <2>4. f = [s \in SUBSET S |-> IF s = {} THEN c ELSE CollapseGate(f[s \ {pick[s]}], pick[s])]
    <3> HIDE DEF step, Allowed, pick
    <3> QED BY <2>2, <2>3 DEF IsFold
  <2>5. Def(f)
    <3> HIDE DEF step, Allowed
    <3> QED BY <2>4
  <2> QED BY <2>5
<1>8. Def(fold)
  <2> HIDE DEF Def
  <2> QED BY <1>7
<1>9. /\ fold[{}] = c
      /\ \A s \in SUBSET S : s # {} => fold[s] = CollapseGate(fold[s \ {pick[s]}], pick[s])
  <2> HIDE DEF fold
  <2> QED BY <1>8
<1>10. fold[S] \in Allowed[S]
  <2> HIDE DEF fold, Allowed, pick
  <2>1. fold[{}] \in Allowed[{}]
    BY <1>5, <1>9
  <2>2. \A s \in SUBSET S :
          s # {} /\ fold[s \ {pick[s]}] \in Allowed[s \ {pick[s]}] => fold[s] \in Allowed[s]
    BY <1>6, <1>9
  <2> QED BY <2>1, <2>2, <1>3, FoldStays
<1> QED
  BY <1>1, <1>2, <1>10

\* SortingNetwork.CollapsePermutationGates leaves a network.
LEMMA CollapseProperties ==
  ASSUME NEW n, NEW net, IsNetwork(net, n), CanCollapse(net.circuit)
  PROVE  IsNetwork(Collapse(net), n)
<1>1. PICK c, size, first, last : net = NetworkOf(n, c, size, first, last)
  BY Zenon DEF IsNetwork
<1>2. /\ net.wireCount = n /\ net.circuit = c /\ net.size = size
      /\ net.first = first /\ net.last = last
  BY <1>1, NetworkParts
<1>3. PICK gates : gates = c.gates
  OBVIOUS
<1>4. /\ n \in Nat /\ size \in Nat
      /\ AreGates(gates, size) /\ IsCircuit(c, gates)
      /\ IsWired(c.inputAddrs, c.outputAddrs, first, last, n)
  BY <1>2, <1>3 DEF IsNetwork
<1>5. PICK d, rest : d = CollapseCircuit(c) /\ rest = Rest(gates, PermutationGates(c))
  OBVIOUS
<1>6. IsCircuit(d, rest) /\ d.inputAddrs = c.inputAddrs /\ d.outputAddrs = c.outputAddrs
  BY <1>2, <1>4, <1>5, CollapseCircuitProperties DEF IsCollapsed
<1>7. AreGates(rest, size)
  BY <1>4, <1>5, RestProperties
<1>8. d.gates = rest
  BY <1>6, IsCircuitFields
<1>9. PICK new : new = NetworkOf(n, d, size, first, last)
  OBVIOUS
<1>10. new.circuit = d /\ new.size = size /\ new.first = first /\ new.last = last
  BY <1>9, NetworkParts
<1>11. IsNetwork(new, n)
  BY <1>4, <1>6, <1>7, <1>8, <1>9, <1>10 DEF IsNetwork
<1>12. Collapse(net) = new
  BY <1>1, <1>2, <1>5, <1>9 DEF Collapse, NetworkOf
<1> QED
  BY <1>11, <1>12

-----------------------------------------------------------------------------
(***************************************************************************)
(* Networks stay whole.                                                    *)
(***************************************************************************)

\* Both networks are whole.
AreNetworks == IsNetwork(network, network.wireCount) /\ IsNetwork(part, PartWireCount)

\* A gate is appended to a network of n wires.
LEMMA StepsOfNetwork ==
  ASSUME NEW n, NEW net, IsNetwork(net, n), NEW step \in Steps(n)
  PROVE  IsNetwork(AppendGate(net, step[1], step[2]), n)
<1>1. PICK gate, wires : gate = step[1] /\ wires = step[2]
  OBVIOUS
<1>2. IsGate(gate) /\ wires \in WireLists(n, gate.count)
  BY <1>1, StepsAreGates
<1>3. IsNetwork(AppendGate(net, gate, wires), n)
  BY <1>2, AppendGateProperties
<1> QED
  BY <1>1, <1>3

\* The beginnings and the factories make networks,
LEMMA AreNetworksInit == Init => AreNetworks
<1> SUFFICES ASSUME Init
             PROVE  AreNetworks
  OBVIOUS
<1>1. IsNetwork(part, PartWireCount)
  BY SortingNetworksAssumption, EmptyNetworkProperties DEF Init
<1>2. \E n : IsNetwork(network, n)
  <2>1. CASE \E b \in Beginnings : network = AppendGates(EmptyNetwork(WireCount), b[1])
    <3>1. PICK b \in Beginnings : network = AppendGates(EmptyNetwork(WireCount), b[1])
      BY <2>1
    <3>2. PICK list \in Seq(Steps(WireCount)) : list = b[1]
      BY SortingNetworksAssumption
    <3>3. /\ Len(list) \in Nat /\ DOMAIN list = 1..Len(list)
          /\ \A k \in 1..Len(list) : list[k] \in Steps(WireCount)
      BY LenProperties, ElementOfSeq
    <3>4. PICK net : net = EmptyNetwork(WireCount)
      OBVIOUS
    <3>5. IsNetwork(net, WireCount)
      BY <3>4, SortingNetworksAssumption, EmptyNetworkProperties
    <3>6. IsNetwork(AppendGates(net, list), WireCount)
      BY <3>3, <3>5, AppendGatesProperties
    <3> QED BY <3>1, <3>2, <3>4, <3>6
  <2>2. CASE made \in Factories \X Sizes /\ network = Factory(made)
    <3>1. PICK name \in Factories, n \in Sizes : made = <<name, n>>
      BY <2>2
    <3>2. n \in Powers
      BY SortingNetworksAssumption
    <3>3. IsNetwork(Factory(<<name, n>>), n)
      BY <3>2, FactoryProperties
    <3> QED BY <3>1, <3>3, <2>2
  <2> QED BY <2>1, <2>2 DEF Init
<1>3. IsNetwork(network, network.wireCount)
  BY <1>2, WireCountOf
<1> QED
  BY <1>1, <1>3 DEF AreNetworks

\* and every operation leaves them so.
LEMMA AreNetworksStep == AreNetworks /\ [Next]_vars => AreNetworks'
<1> SUFFICES ASSUME AreNetworks, [Next]_vars
             PROVE  AreNetworks'
  OBVIOUS
<1>1. PICK n : n = network.wireCount
  OBVIOUS
<1>2. IsNetwork(network, n) /\ IsNetwork(part, PartWireCount) /\ part.wireCount = PartWireCount
  BY <1>1, WireCountOf DEF AreNetworks
<1>3. ASSUME IsNetwork(network', n)
      PROVE  IsNetwork(network', network'.wireCount)
  BY <1>3, WireCountOf
<1>4. CASE AppendToNetwork
  <2>1. PICK step \in Steps(n) : network' = AppendGate(network, step[1], step[2])
    BY <1>1, <1>4 DEF AppendToNetwork
  <2>2. IsNetwork(network', n)
    BY <2>1, <1>2, StepsOfNetwork
  <2>3. part' = part
    BY <1>4 DEF AppendToNetwork
  <2> QED BY <2>2, <2>3, <1>2, <1>3 DEF AreNetworks
<1>5. CASE AppendToPart
  <2>1. PICK step \in Steps(PartWireCount) : part' = AppendGate(part, step[1], step[2])
    BY <1>2, <1>5 DEF AppendToPart
  <2>2. IsNetwork(part', PartWireCount)
    BY <2>1, <1>2, StepsOfNetwork
  <2>3. network' = network
    BY <1>5 DEF AppendToPart
  <2> QED BY <2>2, <2>3, <1>2, <1>3 DEF AreNetworks
<1>6. CASE AppendPart
  <2>1. PICK wires \in WireLists(n, PartWireCount) : network' = AppendNetwork(network, part, wires)
    BY <1>1, <1>6 DEF AppendPart
  <2>2. IsNetwork(network', n)
    BY <2>1, <1>2, AppendNetworkProperties
  <2>3. part' = part
    BY <1>6 DEF AppendPart
  <2> QED BY <2>2, <2>3, <1>2, <1>3 DEF AreNetworks
<1>7. CASE CollapsePermutationGates
  <2>1. IsNetwork(network', n)
    BY <1>2, <1>7, CollapseProperties DEF CollapsePermutationGates
  <2>2. part' = part
    BY <1>7 DEF CollapsePermutationGates
  <2> QED BY <2>1, <2>2, <1>2, <1>3 DEF AreNetworks
<1>8. CASE AssignTopologicalRanks
  <2>1. network' = network /\ part' = EmptyNetwork(PartWireCount)
    BY <1>8 DEF AssignTopologicalRanks
  <2>2. IsNetwork(part', PartWireCount)
    BY <2>1, SortingNetworksAssumption, EmptyNetworkProperties
  <2> QED BY <2>1, <2>2, <1>2, <1>3 DEF AreNetworks
<1>9. CASE SkipRanked \/ PredecessorsFirst \/ AssignRank \/ UNCHANGED vars
  <2>1. network' = network /\ part' = part
    BY <1>9 DEF SkipRanked, PredecessorsFirst, AssignRank, vars
  <2> QED BY <2>1, <1>2, <1>3 DEF AreNetworks
<1> QED
  BY <1>4, <1>5, <1>6, <1>7, <1>8, <1>9 DEF Next

\* The network and the part of it are whole in all states, whatever is appended to whatever wires
\* and whenever permutation gates are collapsed.  (The lookups and assertions of Circuit.cs.)
THEOREM NetworksStayWhole == Spec => []AreNetworks
<1>1. Init => AreNetworks
  BY AreNetworksInit
<1>2. AreNetworks /\ [Next]_vars => AreNetworks'
  BY AreNetworksStep
<1> QED
  BY <1>1, <1>2, PTL DEF Spec

\* The ends of wires are a set.
LEMMA EndsAreOpen ==
  ASSUME NEW f, NEW open, NEW n, AreEnds(f, open, n)
  PROVE  open = {f[w] : w \in 0..(n - 1)} \ {NoAddr}
<1>1. /\ \A w \in 0..(n - 1) : f[w] # NoAddr => f[w] \in open
      /\ \A a \in open : a # NoAddr /\ \E w \in 0..(n - 1) : f[w] = a
  BY DEF AreEnds
<1> QED
  BY <1>1

\* Whole networks have all that ConnectionsAgree asks of them.
LEMMA WholeNetworksAgree == AreNetworks => ConnectionsAgree
<1> SUFFICES ASSUME AreNetworks
             PROVE  ConnectionsAgree
  OBVIOUS
<1>1. PICK n, c, gates : n = network.wireCount /\ c = network.circuit /\ gates = c.gates
  OBVIOUS
<1>2. /\ AreGates(gates, network.size) /\ IsCircuit(c, gates)
      /\ IsWired(c.inputAddrs, c.outputAddrs, network.first, network.last, n)
  BY <1>1 DEF AreNetworks, IsNetwork
<1>3. PICK in, out, all : in = c.inputCounterparties /\ out = c.outputCounterparties /\ all = AllAddrs(gates)
  OBVIOUS
<1>4. /\ c.inputAddrs = all \ DOMAIN in /\ c.outputAddrs = all \ DOMAIN out
      /\ DOMAIN in \subseteq all /\ DOMAIN out \subseteq all
      /\ \A a \in DOMAIN in : in[a] \in DOMAIN out /\ out[in[a]] = a
      /\ \A a \in DOMAIN out : out[a] \in DOMAIN in /\ in[out[a]] = a
  BY <1>2, <1>3, IsCircuitFields
<1>5. c.inputAddrs = {network.first[w] : w \in Wires(network)} \ {NoAddr}
  BY <1>1, <1>2, EndsAreOpen DEF IsWired, Wires
<1>6. c.outputAddrs = {network.last[w] : w \in Wires(network)} \ {NoAddr}
  BY <1>1, <1>2, EndsAreOpen DEF IsWired, Wires
<1>7. all = UNION {LocalAddrs(g, c.gates[g]) : g \in DOMAIN c.gates}
  BY <1>1, <1>3 DEF AllAddrs
<1> QED
  BY <1>1, <1>3, <1>4, <1>5, <1>6, <1>7 DEF ConnectionsAgree

\* The dictionaries of Circuit.cs are always each other's inverse, and an address is open if and
\* only if it is not connected and a wire begins or ends there.
THEOREM ConnectionsAlwaysAgree == Spec => []ConnectionsAgree
<1>1. AreNetworks => ConnectionsAgree
  BY WholeNetworksAgree
<1> QED
  BY <1>1, NetworksStayWhole, PTL

-----------------------------------------------------------------------------
(***************************************************************************)
(* Putting the gates in order.                                             *)
(***************************************************************************)

\* The gates of a network by their numbers.
GatesOf(net) == DOMAIN net.circuit.gates

\* The gates that a function on addresses leads to from those of a gate.
Reached(f, g) == {f[a][1] : a \in {b \in DOMAIN f : b[1] = g}}

\* The gates that a gate gets its inputs from, and those its outputs go to.
Before(net, g) == Reached(net.circuit.inputCounterparties, g)
After(net, g) == Reached(net.circuit.outputCounterparties, g)

\* Gates that have a rank come after those before them, and no gate is forgotten: those after
\* one that has a rank, and those after none, have one or are in the queue.
IsOrdering(net, queue, list) ==
  /\ queue \in Seq(GatesOf(net)) /\ list \in Seq(GatesOf(net)) /\ IsInjective(list)
  /\ \A j \in DOMAIN list : \A g \in Before(net, list[j]) : \E k \in DOMAIN list : k < j /\ list[k] = g
  /\ \A g \in Range(list) : After(net, g) \subseteq Range(list) \union Range(queue)
  /\ \A g \in GatesOf(net) : Before(net, g) = {} => g \in Range(list) \union Range(queue)

\* The same of the state, and there is nothing to be ranked before ranking begins.
NoneIsForgotten ==
  IF ranking THEN IsOrdering(network, deque, order) ELSE deque = <<>> /\ order = <<>>

\* A gate comes after those before it by its number: there are no cycles.
LEMMA BeforeAndAfter ==
  ASSUME NEW n, NEW net, IsNetwork(net, n)
  PROVE  /\ GatesOf(net) \subseteq Nat
         /\ \A g \in GatesOf(net) :
              /\ Before(net, g) \subseteq GatesOf(net) /\ After(net, g) \subseteq GatesOf(net)
              /\ \A h \in Before(net, g) : h < g /\ g \in After(net, h)
         /\ \A h \in GatesOf(net) : \A g \in After(net, h) : h \in Before(net, g)
<1>1. PICK gates, size, c : gates = net.circuit.gates /\ size = net.size /\ c = net.circuit
  OBVIOUS
<1>2. size \in Nat /\ AreGates(gates, size) /\ IsCircuit(c, gates)
  BY <1>1 DEF IsNetwork
<1>3. PICK in, out, all : in = c.inputCounterparties /\ out = c.outputCounterparties /\ all = AllAddrs(gates)
  OBVIOUS
<1>4. /\ DOMAIN in \subseteq all /\ DOMAIN out \subseteq all
      /\ \A a \in DOMAIN in : in[a] \in all /\ in[a] \in DOMAIN out /\ out[in[a]] = a /\ in[a][1] < a[1]
      /\ \A a \in DOMAIN out : out[a] \in all /\ out[a] \in DOMAIN in /\ in[out[a]] = a
  BY <1>2, <1>3, IsCircuitFields
<1>5. \A a \in all : a[1] \in DOMAIN gates
  BY <1>2, <1>3, AllAddrsProperties
<1>6. DOMAIN gates \subseteq Nat
  BY <1>2 DEF AreGates
<1>7. /\ GatesOf(net) = DOMAIN gates
      /\ \A g : Before(net, g) = Reached(in, g) /\ After(net, g) = Reached(out, g)
  BY <1>1, <1>3 DEF GatesOf, Before, After
<1>8. \A g, h : h \in Reached(in, g) <=> \E a \in DOMAIN in : a[1] = g /\ in[a][1] = h
  BY DEF Reached
<1>9. \A g, h : h \in Reached(out, g) <=> \E a \in DOMAIN out : a[1] = g /\ out[a][1] = h
  BY DEF Reached
<1>10. \A g, h : h \in Reached(in, g) => h \in DOMAIN gates /\ h < g /\ g \in Reached(out, h)
  BY <1>4, <1>5, <1>8, <1>9
<1>11. \A g, h : g \in Reached(out, h) => g \in DOMAIN gates /\ h \in Reached(in, g)
  BY <1>4, <1>5, <1>8, <1>9
<1> QED
  BY <1>6, <1>7, <1>10, <1>11

\* The gates at the other ends of the connected ports.
LEMMA NeighboursProperties ==
  ASSUME NEW n, NEW gates, n \in Nat, AreGates(gates, n), gates = network.circuit.gates,
         NEW f, DOMAIN f \subseteq AllAddrs(gates), \A a \in DOMAIN f : f[a] \in AllAddrs(gates),
         NEW g \in DOMAIN gates
  PROVE  /\ Neighbours(g, f) \in Seq(DOMAIN gates)
         /\ Range(Neighbours(g, f)) = Reached(f, g)
<1> DEFINE m == gates[g].count
           part1(k) == IF <<g, k - 1>> \in DOMAIN f THEN <<f[<<g, k - 1>>][1]>> ELSE <<>>
           seqs == [k \in 1..m |-> part1(k)]
           G == DOMAIN gates
<1>1. m \in Nat /\ \A p : <<g, p>> \in AllAddrs(gates) <=> p \in 0..(m - 1)
  BY AllAddrsProperties DEF AreGates, IsGate, PortsOf
<1>2. \A a \in DOMAIN f : f[a][1] \in G
  BY AllAddrsProperties
<1>3. ASSUME NEW k \in 1..m
      PROVE  part1(k) \in Seq(G)
  <2>1. CASE <<g, k - 1>> \in DOMAIN f
    <3>1. PICK h \in G : h = f[<<g, k - 1>>][1]
      BY <2>1, <1>2
    <3>2. part1(k) = <<h>>
      BY <2>1, <3>1
    <3>3. <<h>> \in Seq(G)
      <4> HIDE DEF G
      <4> QED OBVIOUS
    <3> QED BY <3>2, <3>3
  <2>2. CASE <<g, k - 1>> \notin DOMAIN f
    <3>1. part1(k) = <<>>
      BY <2>2
    <3>2. <<>> \in Seq(G)
      OBVIOUS
    <3> QED BY <3>1, <3>2
  <2> QED BY <2>1, <2>2
<1>4. seqs \in Seq(Seq(G)) /\ DOMAIN seqs = 1..m
  <2> HIDE DEF part1, m, G
  <2>1. seqs \in [1..m -> Seq(G)]
    BY <1>3
  <2> QED BY <1>1, <2>1, IsASeq
<1>5. Neighbours(g, f) = FlattenSeq(seqs)
  BY DEF Neighbours
<1>6. /\ FlattenSeq(seqs) \in Seq(G)
      /\ Range(FlattenSeq(seqs)) = UNION {Range(seqs[i]) : i \in DOMAIN seqs}
  <2> HIDE DEF seqs, G
  <2> QED BY <1>4, FlattenSeqProperties
<1>7. ASSUME NEW k \in 1..m, NEW h
      PROVE  h \in Range(part1(k)) <=> <<g, k - 1>> \in DOMAIN f /\ h = f[<<g, k - 1>>][1]
  <2>1. CASE <<g, k - 1>> \in DOMAIN f
    <3>1. PICK e : e = f[<<g, k - 1>>][1]
      OBVIOUS
    <3>2. part1(k) = <<e>>
      BY <2>1, <3>1
    <3>3. Range(<<e>>) = {e}
      BY DEF Range
    <3> QED BY <2>1, <3>1, <3>2, <3>3
  <2>2. CASE <<g, k - 1>> \notin DOMAIN f
    <3>1. part1(k) = <<>>
      BY <2>2
    <3>2. Range(<<>>) = {}
      BY DEF Range
    <3> QED BY <2>2, <3>1, <3>2
  <2> QED BY <2>1, <2>2
<1>8. \A h : h \in Range(FlattenSeq(seqs)) <=>
               \E k \in 1..m : <<g, k - 1>> \in DOMAIN f /\ h = f[<<g, k - 1>>][1]
  <2>1. \A k \in 1..m : seqs[k] = part1(k)
    OBVIOUS
  <2>2. DOMAIN seqs = 1..m
    BY <1>4
  <2>3. ASSUME NEW h
        PROVE  h \in Range(FlattenSeq(seqs)) <=>
                 \E k \in 1..m : <<g, k - 1>> \in DOMAIN f /\ h = f[<<g, k - 1>>][1]
    <3>1. h \in Range(FlattenSeq(seqs)) <=> \E k \in 1..m : h \in Range(seqs[k])
      <4> HIDE DEF seqs, m
      <4> QED BY <1>6, <2>2
    <3>2. \A k \in 1..m : h \in Range(seqs[k]) <=> <<g, k - 1>> \in DOMAIN f /\ h = f[<<g, k - 1>>][1]
      <4> HIDE DEF seqs, part1, m
      <4> QED BY <1>7, <2>1
    <3> QED BY <3>1, <3>2
  <2> QED BY <2>3
<1>9. \A h : h \in Reached(f, g) <=>
               \E k \in 1..m : <<g, k - 1>> \in DOMAIN f /\ h = f[<<g, k - 1>>][1]
  <2>1. ASSUME NEW a \in DOMAIN f, a[1] = g
        PROVE  \E k \in 1..m : a = <<g, k - 1>>
    <3>1. a = <<g, a[2]>>
      BY <2>1, AllAddrsProperties DEF Addr
    <3>2. a[2] \in 0..(m - 1)
      BY <1>1, <3>1
    <3>3. a[2] + 1 \in 1..m /\ (a[2] + 1) - 1 = a[2]
      BY <1>1, <3>2
    <3> QED BY <3>1, <3>3
  <2>2. \A k \in 1..m : <<g, k - 1>>[1] = g
    OBVIOUS
  <2> HIDE DEF m
  <2> QED BY <2>1, <2>2 DEF Reached
<1>10. Range(FlattenSeq(seqs)) = Reached(f, g)
  BY <1>8, <1>9
<1> QED
  BY <1>5, <1>6, <1>10

\* Predecessors and Successors are the gates before and after a gate.
LEMMA NeighboursOfNetwork ==
  ASSUME NEW n, IsNetwork(network, n), NEW g \in GatesOf(network)
  PROVE  /\ Predecessors(g) \in Seq(GatesOf(network)) /\ Range(Predecessors(g)) = Before(network, g)
         /\ Successors(g) \in Seq(GatesOf(network)) /\ Range(Successors(g)) = After(network, g)
<1>1. PICK gates, size, c : gates = network.circuit.gates /\ size = network.size /\ c = network.circuit
  OBVIOUS
<1>2. size \in Nat /\ AreGates(gates, size) /\ IsCircuit(c, gates)
  BY <1>1 DEF IsNetwork
<1>3. PICK in, out, all : in = c.inputCounterparties /\ out = c.outputCounterparties /\ all = AllAddrs(gates)
  OBVIOUS
<1>4. /\ DOMAIN in \subseteq all /\ DOMAIN out \subseteq all
      /\ \A a \in DOMAIN in : in[a] \in all
      /\ \A a \in DOMAIN out : out[a] \in all
  BY <1>2, <1>3, IsCircuitFields
<1>5. g \in DOMAIN gates /\ GatesOf(network) = DOMAIN gates
  BY <1>1 DEF GatesOf
<1>6. /\ Neighbours(g, in) \in Seq(DOMAIN gates) /\ Range(Neighbours(g, in)) = Reached(in, g)
  BY <1>1, <1>2, <1>3, <1>4, <1>5, NeighboursProperties
<1>7. /\ Neighbours(g, out) \in Seq(DOMAIN gates) /\ Range(Neighbours(g, out)) = Reached(out, g)
  BY <1>1, <1>2, <1>3, <1>4, <1>5, NeighboursProperties
<1> QED
  BY <1>1, <1>3, <1>5, <1>6, <1>7 DEF Predecessors, Successors, Before, After

\* Unranked keeps the gates of a list that have no rank.
LEMMA UnrankedProperties ==
  ASSUME NEW G, NEW list \in Seq(G), order \in Seq(G)
  PROVE  Unranked(list) \in Seq(G) /\ Range(Unranked(list)) = Range(list) \ Range(order)
<1> DEFINE one(k) == IF HasRank(list[k]) THEN <<>> ELSE <<list[k]>>
           seqs == [k \in DOMAIN list |-> one(k)]
<1>1. Len(list) \in Nat /\ DOMAIN list = 1..Len(list) /\ \A k \in 1..Len(list) : list[k] \in G
  BY LenProperties, ElementOfSeq
<1>2. \A g : HasRank(g) <=> g \in Range(order)
  BY DEF HasRank, Range
<1>3. ASSUME NEW k \in DOMAIN list
      PROVE  one(k) \in Seq(G) /\ \A h : h \in Range(one(k)) <=> h = list[k] /\ h \notin Range(order)
  <2>1. CASE HasRank(list[k])
    <3>1. one(k) = <<>>
      BY <2>1
    <3>2. Range(<<>>) = {} /\ <<>> \in Seq(G)
      BY DEF Range
    <3> QED BY <2>1, <1>2, <3>1, <3>2
  <2>2. CASE ~HasRank(list[k])
    <3>1. PICK e \in G : e = list[k]
      BY <1>1
    <3>2. one(k) = <<e>>
      BY <2>2, <3>1
    <3>3. Range(<<e>>) = {e} /\ <<e>> \in Seq(G)
      BY DEF Range
    <3> QED BY <2>2, <1>2, <3>1, <3>2, <3>3
  <2> QED BY <2>1, <2>2
<1>4. seqs \in Seq(Seq(G)) /\ DOMAIN seqs = DOMAIN list
  <2> HIDE DEF one
  <2>1. seqs \in [1..Len(list) -> Seq(G)]
    BY <1>1, <1>3
  <2> QED BY <1>1, <2>1, IsASeq
<1>5. Unranked(list) = FlattenSeq(seqs)
  BY DEF Unranked
<1>6. /\ FlattenSeq(seqs) \in Seq(G)
      /\ Range(FlattenSeq(seqs)) = UNION {Range(seqs[i]) : i \in DOMAIN seqs}
  <2> HIDE DEF seqs
  <2> QED BY <1>4, FlattenSeqProperties
<1>7. \A h : h \in Range(FlattenSeq(seqs)) <=> \E k \in DOMAIN list : h = list[k] /\ h \notin Range(order)
  <2>1. \A k \in DOMAIN list : seqs[k] = one(k)
    OBVIOUS
  <2> HIDE DEF seqs, one
  <2> QED BY <1>3, <1>4, <1>6, <2>1
<1>8. \A h : h \in Range(list) <=> \E k \in DOMAIN list : h = list[k]
  BY DEF Range
<1>9. Range(FlattenSeq(seqs)) = Range(list) \ Range(order)
  BY <1>7, <1>8
<1> QED
  BY <1>5, <1>6, <1>9

\* Ranking begins: the gates without a predecessor have two open inputs or more, of which only one
\* is passed over.
LEMMA OrderingBegins ==
  ASSUME NEW n, NEW net, IsNetwork(net, n),
         NEW ins, ins = net.circuit.inputAddrs, ins # {},
         NEW some, some = SetToSeq(ins),
         NEW p \in [DOMAIN some -> DOMAIN some], IsInjective(p)
  PROVE  IsOrdering(net, Tail([k \in DOMAIN some |-> some[p[k]][1]]), <<>>)
<1>1. PICK gates, size, c : gates = net.circuit.gates /\ size = net.size /\ c = net.circuit
  OBVIOUS
<1>2. /\ n \in Nat /\ size \in Nat /\ AreGates(gates, size) /\ IsCircuit(c, gates)
      /\ AreEnds(net.first, ins, n)
  BY <1>1 DEF IsNetwork, IsWired
<1>3. PICK in : in = c.inputCounterparties
  OBVIOUS
<1>4. ins = AllAddrs(gates) \ DOMAIN in
  BY <1>1, <1>2, <1>3, IsCircuitFields
<1>5. GatesOf(net) = DOMAIN gates /\ \A g : Before(net, g) = Reached(in, g)
  BY <1>1, <1>3 DEF GatesOf, Before
<1>6. IsFiniteSet(ins)
  <2>1. PICK first : first = net.first
    OBVIOUS
  <2>2. PICK W : W = 0..(n - 1)
    OBVIOUS
  <2>3. IsFiniteSet(W)
    BY <1>2, <2>2, FS_Interval
  <2>4. PICK S, f : S = {first[w] : w \in W} /\ f = [w \in W |-> first[w]]
    OBVIOUS
  <2>5. f \in Surjection(W, S)
    BY <2>4 DEF Surjection
  <2>6. IsFiniteSet(S)
    BY <2>3, <2>5, FS_Surjection
  <2>7. ins \in SUBSET S
    BY <1>2, <2>1, <2>2, <2>4 DEF AreEnds
  <2> QED BY <2>6, <2>7, FS_Subset, Zenon
<1>7. PICK m \in Nat : /\ some \in [1..m -> ins] /\ Range(some) = ins
                       /\ IsFiniteSet(1..m)
  <2>1. IsFiniteSet(1..Cardinality(ins))
    BY <1>6, FS_CardinalityType, FS_Interval
  <2> QED BY <1>6, <2>1, SetToSeqProperties
<1>8. DOMAIN some = 1..m /\ p \in [1..m -> 1..m]
  BY <1>7
<1>9. \A i \in 1..m : \E k \in 1..m : p[k] = i
  <2>1. p \in Injection(1..m, 1..m)
    BY <1>8 DEF Injection
  <2>2. p \in Surjection(1..m, 1..m)
    BY <1>7, <2>1, FS_Injection
  <2> QED BY <2>2 DEF Surjection
<1>10. PICK heads : heads = [k \in 1..m |-> some[p[k]][1]]
  OBVIOUS
<1>11. \A a \in ins : a \in AllAddrs(gates) /\ a[1] \in DOMAIN gates
  BY <1>2, <1>4, AllAddrsProperties
<1>12. heads \in Seq(DOMAIN gates) /\ Len(heads) = m /\ heads # <<>>
  <2>1. heads \in [1..m -> DOMAIN gates]
    BY <1>7, <1>8, <1>10, <1>11
  <2>2. heads \in Seq(DOMAIN gates)
    BY <2>1, IsASeq
  <2>3. DOMAIN heads = 1..m
    BY <2>1
  <2>4. Len(heads) = m
    BY <2>2, <2>3, LenProperties
  <2>5. m # 0
    BY <1>7 DEF Range
  <2> QED BY <2>2, <2>4, <2>5
<1>13. /\ Tail(heads) \in Seq(DOMAIN gates) /\ DOMAIN Tail(heads) = 1..(m - 1)
       /\ \A i \in 1..(m - 1) : Tail(heads)[i] = heads[i + 1]
  BY <1>12, HeadTailProperties, LenProperties
<1>14. ASSUME NEW g \in DOMAIN gates, Reached(in, g) = {}
       PROVE  g \in Range(Tail(heads))
  <2>1. gates[g].count \in Nat /\ gates[g].count >= 2
    BY <1>2 DEF AreGates, IsGate
  <2>2. <<g, 0>> \in AllAddrs(gates) /\ <<g, 1>> \in AllAddrs(gates)
    BY <1>2, <2>1, AllAddrsProperties DEF PortsOf
  <2>3. <<g, 0>> \in ins /\ <<g, 1>> \in ins
    <3>1. \A a \in DOMAIN in : a[1] # g
      BY <1>14 DEF Reached
    <3>2. <<g, 0>>[1] = g /\ <<g, 1>>[1] = g
      OBVIOUS
    <3> QED BY <1>4, <2>2, <3>1, <3>2
  <2>4. PICK i \in 1..m, j \in 1..m : some[i] = <<g, 0>> /\ some[j] = <<g, 1>>
    <3>1. \A a \in ins : \E k \in 1..m : some[k] = a
      BY <1>7, <1>8 DEF Range
    <3> QED BY <2>3, <3>1
  <2>5. PICK k, l \in 1..m : p[k] = i /\ p[l] = j
    BY <1>9
  <2>6. k # l
    <3>1. <<g, 0>> # <<g, 1>>
      OBVIOUS
    <3> QED BY <2>4, <2>5, <3>1
  <2>7. heads[k] = g /\ heads[l] = g
    BY <1>10, <2>4, <2>5
  <2>8. PICK e \in 1..m : e # 1 /\ heads[e] = g
    BY <2>6, <2>7
  <2>9. e - 1 \in 1..(m - 1) /\ Tail(heads)[e - 1] = g
    BY <1>13, <2>8
  <2> QED BY <1>13, <2>9 DEF Range
<1>15. IsOrdering(net, Tail(heads), <<>>)
  <2>1. /\ <<>> \in Seq(DOMAIN gates) /\ IsInjective(<<>>)
        /\ DOMAIN <<>> = {} /\ Range(<<>>) = {}
    BY DEF IsInjective, Range
  <2> QED BY <1>5, <1>13, <1>14, <2>1 DEF IsOrdering
<1> QED
  BY <1>8, <1>10, <1>15

\* A gate that has a rank is skipped.
LEMMA OrderingSkips ==
  ASSUME NEW net, NEW queue, NEW list, IsOrdering(net, queue, list),
         queue # <<>>, Head(queue) \in Range(list)
  PROVE  IsOrdering(net, Tail(queue), list)
<1>1. queue \in Seq(GatesOf(net))
  BY DEF IsOrdering
<1>2. Tail(queue) \in Seq(GatesOf(net)) /\ Range(queue) = {Head(queue)} \union Range(Tail(queue))
  BY <1>1, HeadAndTail
<1>3. Range(list) \union Range(queue) = Range(list) \union Range(Tail(queue))
  BY <1>2
<1> QED
  BY <1>2, <1>3 DEF IsOrdering

\* Gates that are put before the others are not forgotten either.
LEMMA OrderingWaits ==
  ASSUME NEW net, NEW queue, NEW list, IsOrdering(net, queue, list), NEW more \in Seq(GatesOf(net))
  PROVE  IsOrdering(net, more \o queue, list)
<1>1. queue \in Seq(GatesOf(net))
  BY DEF IsOrdering
<1>2. more \o queue \in Seq(GatesOf(net)) /\ Range(more \o queue) = Range(more) \union Range(queue)
  BY <1>1, RangeOfConcatenation
<1>3. Range(queue) \subseteq Range(more \o queue)
  BY <1>2
<1> QED
  BY <1>2, <1>3 DEF IsOrdering

\* A gate gets a rank after all those before it, and those after it are put at the end.
LEMMA OrderingGrows ==
  ASSUME NEW net, NEW queue, NEW list, IsOrdering(net, queue, list),
         queue # <<>>, NEW g, g = Head(queue), g \notin Range(list),
         Before(net, g) \subseteq Range(list),
         NEW more \in Seq(GatesOf(net)), Range(more) = After(net, g)
  PROVE  IsOrdering(net, Tail(queue) \o more, Append(list, g))
<1>1. /\ queue \in Seq(GatesOf(net)) /\ list \in Seq(GatesOf(net)) /\ IsInjective(list)
      /\ \A j \in DOMAIN list : \A h \in Before(net, list[j]) : \E k \in DOMAIN list : k < j /\ list[k] = h
      /\ \A h \in Range(list) : After(net, h) \subseteq Range(list) \union Range(queue)
      /\ \A h \in GatesOf(net) : Before(net, h) = {} => h \in Range(list) \union Range(queue)
  BY DEF IsOrdering
<1>2. /\ Tail(queue) \in Seq(GatesOf(net)) /\ g \in GatesOf(net)
      /\ Range(queue) = {g} \union Range(Tail(queue))
  BY <1>1, HeadAndTail
<1>3. PICK rest : rest = Tail(queue) \o more
  OBVIOUS
<1>4. rest \in Seq(GatesOf(net)) /\ Range(rest) = Range(Tail(queue)) \union After(net, g)
  <2>1. PICK M, tail : M = GatesOf(net) /\ tail = Tail(queue)
    OBVIOUS
  <2>2. tail \in Seq(M) /\ more \in Seq(M)
    BY <1>2, <2>1
  <2>3. tail \o more \in Seq(M) /\ Range(tail \o more) = Range(tail) \union Range(more)
    BY <2>2, RangeOfConcatenation
  <2> QED BY <1>3, <2>1, <2>3
<1>5. PICK longer : longer = Append(list, g)
  OBVIOUS
<1>6. IsInjective(longer) /\ Range(longer) = Range(list) \union {g}
  BY <1>1, <1>2, <1>5, InjectiveAppend
<1>7. /\ Len(list) \in Nat /\ DOMAIN list = 1..Len(list) /\ DOMAIN longer = 1..(Len(list) + 1)
      /\ \A i \in 1..Len(list) : longer[i] = list[i]
      /\ longer[Len(list) + 1] = g /\ longer \in Seq(GatesOf(net))
  BY <1>1, <1>2, <1>5, AppendProperties, LenProperties
<1>8. ASSUME NEW j \in DOMAIN longer, NEW h \in Before(net, longer[j])
      PROVE  \E k \in DOMAIN longer : k < j /\ longer[k] = h
  <2>1. CASE j \in 1..Len(list)
    <3>1. PICK k \in DOMAIN list : k < j /\ list[k] = h
      BY <1>1, <1>7, <1>8, <2>1
    <3> QED BY <1>7, <3>1
  <2>2. CASE j = Len(list) + 1
    <3>1. PICK k \in DOMAIN list : list[k] = h
      BY <1>7, <1>8, <2>2 DEF Range
    <3> QED BY <1>7, <2>2, <3>1
  <2> QED BY <1>7, <2>1, <2>2
<1>9. \A h \in Range(longer) : After(net, h) \subseteq Range(longer) \union Range(rest)
  BY <1>1, <1>2, <1>4, <1>6
<1>10. \A h \in GatesOf(net) : Before(net, h) = {} => h \in Range(longer) \union Range(rest)
  BY <1>1, <1>2, <1>4, <1>6
<1>11. IsOrdering(net, rest, longer)
  BY <1>4, <1>6, <1>7, <1>8, <1>9, <1>10 DEF IsOrdering
<1> QED
  BY <1>3, <1>5, <1>11

\* When the queue is empty all gates have a rank: the first without one would come after gates that
\* all have one, and one of these would have put it into the queue.
LEMMA OrderingEnds ==
  ASSUME NEW n, NEW net, IsNetwork(net, n), NEW list, IsOrdering(net, <<>>, list)
  PROVE  Range(list) = GatesOf(net)
<1>1. Range(list) \subseteq GatesOf(net)
  <2>1. list \in Seq(GatesOf(net))
    BY DEF IsOrdering
  <2> QED BY <2>1, ElementOfSeq, LenProperties DEF Range
<1>2. Range(<<>>) = {}
  BY DEF Range
<1>3. /\ \A g \in Range(list) : After(net, g) \subseteq Range(list)
      /\ \A g \in GatesOf(net) : Before(net, g) = {} => g \in Range(list)
  BY <1>2 DEF IsOrdering
<1> DEFINE T == GatesOf(net) \ Range(list)
<1>4. SUFFICES ASSUME T # {} PROVE FALSE
  BY <1>1
<1>5. T \subseteq Nat
  BY BeforeAndAfter
<1>6. PICK g \in T : \A h \in T : g <= h
  <2> HIDE DEF T
  <2> QED BY <1>4, <1>5, LeastElement
<1>7. PICK h \in Before(net, g) : TRUE
  BY <1>3, <1>6
<1>8. h \in GatesOf(net) /\ h < g /\ g \in After(net, h) /\ g \in Nat /\ h \in Nat
  BY <1>5, <1>6, <1>7, BeforeAndAfter
<1>9. h \notin T
  BY <1>6, <1>8
<1> QED
  BY <1>3, <1>6, <1>8, <1>9

\* No gate is forgotten in the beginning,
LEMMA OrderingInit == Init => NoneIsForgotten
BY DEF Init, NoneIsForgotten

\* nor by any step of AssignTopologicalRanks.
LEMMA OrderingStep == AreNetworks /\ NoneIsForgotten /\ [Next]_vars => NoneIsForgotten'
<1> SUFFICES ASSUME AreNetworks, NoneIsForgotten, [Next]_vars
             PROVE  NoneIsForgotten'
  OBVIOUS
<1>1. PICK n : IsNetwork(network, n)
  BY DEF AreNetworks
<1>2. CASE AppendToNetwork \/ AppendToPart \/ AppendPart \/ CollapsePermutationGates
  <2>1. ~ranking /\ ~ranking' /\ deque' = deque /\ order' = order
    <3>1. CASE AppendToNetwork
      BY <3>1 DEF AppendToNetwork, Building
    <3>2. CASE AppendToPart
      BY <3>2 DEF AppendToPart, Building
    <3>3. CASE AppendPart
      BY <3>3 DEF AppendPart, Building
    <3>4. CASE CollapsePermutationGates
      BY <3>4 DEF CollapsePermutationGates
    <3> QED BY <1>2, <3>1, <3>2, <3>3, <3>4
  <2> QED BY <2>1 DEF NoneIsForgotten
<1>3. CASE AssignTopologicalRanks
  <2>1. PICK ins, some : ins = network.circuit.inputAddrs /\ some = SetToSeq(ins)
    OBVIOUS
  <2>2. /\ ~ranking /\ ins # {} /\ ranking' = TRUE /\ network' = network /\ order' = order
        /\ \E p \in {f \in [DOMAIN some -> DOMAIN some] : IsInjective(f)} :
             deque' = Tail([k \in DOMAIN some |-> some[p[k]][1]])
    BY <1>3, <2>1 DEF AssignTopologicalRanks
  <2>3. IsOrdering(network, deque', <<>>)
    BY <1>1, <2>1, <2>2, OrderingBegins
  <2>4. order' = <<>>
    BY <2>2 DEF NoneIsForgotten
  <2> QED BY <2>2, <2>3, <2>4 DEF NoneIsForgotten
<1>4. CASE ranking /\ (SkipRanked \/ PredecessorsFirst \/ AssignRank)
  <2> DEFINE G == GatesOf(network)
  <2>1. IsOrdering(network, deque, order) /\ deque \in Seq(G) /\ order \in Seq(G)
    BY <1>4 DEF NoneIsForgotten, IsOrdering
  <2>2. deque # <<>> /\ network' = network /\ ranking' = ranking
    BY <1>4 DEF SkipRanked, PredecessorsFirst, AssignRank, Ranking
  <2>3. PICK g : g = Current
    OBVIOUS
  <2>4. g = Head(deque) /\ g \in G
    BY <2>1, <2>2, <2>3, HeadAndTail DEF Current
  <2>5. \A h : HasRank(h) <=> h \in Range(order)
    BY DEF HasRank, Range
  <2>6. /\ Predecessors(g) \in Seq(G) /\ Range(Predecessors(g)) = Before(network, g)
        /\ Successors(g) \in Seq(G) /\ Range(Successors(g)) = After(network, g)
    BY <1>1, <2>4, NeighboursOfNetwork
  <2>7. /\ MissingPredecessors(g) \in Seq(G)
        /\ Range(MissingPredecessors(g)) = Before(network, g) \ Range(order)
    BY <2>1, <2>6, UnrankedProperties DEF MissingPredecessors
  <2>8. ASSUME IsOrdering(network, deque', order')
        PROVE  NoneIsForgotten'
    BY <1>4, <2>2, <2>8 DEF NoneIsForgotten
  <2>9. CASE SkipRanked
    <3>1. g \in Range(order) /\ deque' = Tail(deque) /\ order' = order
      BY <2>3, <2>5, <2>9 DEF SkipRanked
    <3>2. IsOrdering(network, Tail(deque), order)
      BY <2>1, <2>2, <2>4, <3>1, OrderingSkips
    <3> QED BY <2>8, <3>1, <3>2
  <2>10. CASE PredecessorsFirst
    <3>1. PICK more : more = Reverse(MissingPredecessors(g))
      OBVIOUS
    <3>2. deque' = more \o deque /\ order' = order
      BY <2>3, <2>10, <3>1 DEF PredecessorsFirst
    <3>3. more \in Seq(G)
      <4> HIDE DEF G
      <4> QED BY <2>7, <3>1, ReversedIsASequence
    <3>4. IsOrdering(network, more \o deque, order)
      BY <2>1, <3>3, OrderingWaits
    <3> QED BY <2>8, <3>2, <3>4
  <2>11. CASE AssignRank
    <3>1. PICK more : more = Successors(g)
      OBVIOUS
    <3>2. /\ g \notin Range(order) /\ MissingPredecessors(g) = <<>>
          /\ order' = Append(order, g) /\ deque' = Tail(deque) \o more
      BY <2>3, <2>5, <2>11, <3>1 DEF AssignRank
    <3>3. Before(network, g) \subseteq Range(order)
      <4>1. Range(<<>>) = {}
        BY DEF Range
      <4> QED BY <2>7, <3>2, <4>1
    <3>4. IsOrdering(network, Tail(deque) \o more, Append(order, g))
      BY <2>1, <2>2, <2>4, <2>6, <3>1, <3>2, <3>3, OrderingGrows
    <3> QED BY <2>8, <3>2, <3>4
  <2> QED BY <1>4, <2>9, <2>10, <2>11
<1>5. CASE UNCHANGED vars
  BY <1>5 DEF vars, NoneIsForgotten
<1>6. SkipRanked \/ PredecessorsFirst \/ AssignRank => ranking
  BY DEF SkipRanked, PredecessorsFirst, AssignRank, Ranking
<1> QED
  BY <1>2, <1>3, <1>4, <1>5, <1>6 DEF Next

\* When the queue is empty the order is topological.
LEMMA OrderingIsTopological == AreNetworks /\ NoneIsForgotten => OrderIsTopological
<1> SUFFICES ASSUME AreNetworks, NoneIsForgotten, ranking, deque = <<>>
             PROVE  /\ IsInjective(order)
                    /\ ToSet(order) = DOMAIN network.circuit.gates
                    /\ \A j, k \in DOMAIN order : order[k] \in ToSet(Predecessors(order[j])) => k < j
  BY DEF OrderIsTopological
<1>1. PICK n : IsNetwork(network, n)
  BY DEF AreNetworks
<1>2. /\ IsOrdering(network, <<>>, order) /\ order \in Seq(GatesOf(network)) /\ IsInjective(order)
      /\ \A j \in DOMAIN order : \A g \in Before(network, order[j]) :
           \E k \in DOMAIN order : k < j /\ order[k] = g
  BY DEF NoneIsForgotten, IsOrdering
<1>3. \A s : ToSet(s) = Range(s)
  BY DEF ToSet, Range
<1>4. ToSet(order) = DOMAIN network.circuit.gates
  BY <1>1, <1>2, <1>3, OrderingEnds DEF GatesOf
<1>5. ASSUME NEW j \in DOMAIN order, NEW k \in DOMAIN order, order[k] \in ToSet(Predecessors(order[j]))
      PROVE  k < j
  <2>1. PICK g \in GatesOf(network) : g = order[j]
    BY <1>2, ElementOfSeq, LenProperties
  <2>2. Range(Predecessors(g)) = Before(network, g)
    BY <1>1, NeighboursOfNetwork
  <2>3. order[k] \in Before(network, order[j])
    BY <1>3, <1>5, <2>1, <2>2
  <2>4. PICK l \in DOMAIN order : l < j /\ order[l] = order[k]
    BY <1>2, <2>3
  <2>5. l = k
    BY <1>2, <2>4 DEF IsInjective
  <2> QED BY <2>4, <2>5
<1> QED
  BY <1>2, <1>4, <1>5

\* AssignTopologicalRanks gives every gate a rank, once, after those it gets its inputs from, in
\* whatever order the open inputs are gone through.
THEOREM OrderIsAlwaysTopological == Spec => []OrderIsTopological
<1>1. Init => AreNetworks /\ NoneIsForgotten
  BY AreNetworksInit, OrderingInit
<1>2. AreNetworks /\ NoneIsForgotten /\ [Next]_vars => AreNetworks' /\ NoneIsForgotten'
  BY AreNetworksStep, OrderingStep
<1>3. AreNetworks /\ NoneIsForgotten => OrderIsTopological
  BY OrderingIsTopological
<1> QED
  BY <1>1, <1>2, <1>3, PTL DEF Spec

-----------------------------------------------------------------------------
(***************************************************************************)
(* What sorts.                                                             *)
(***************************************************************************)

\* What is proved of a gate.
GP == INSTANCE ComparisonProofs

\* The proofs are about the protocols that the model runs: they begin with the same calls,
LEMMA SameInit == Gate!Init <=> GP!Init
BY DEF Gate!Init, GP!Init, Gate!Share, GP!Share, Gate!SecretShare, GP!SecretShare,
       Gate!CreateConstantShare, GP!CreateConstantShare, Gate!ShareAdditiveInverse,
       GP!ShareAdditiveInverse, Gate!Larger, GP!Larger, Gate!Call, GP!Call, Gate!Add,
       GP!Add, Gate!Multiply, GP!Multiply, Gate!LessThan, GP!LessThan, Gate!Launched,
       GP!Launched, Gate!Frame, GP!Frame, Gate!BitLength, GP!BitLength, Gate!PowerOfTwo,
       GP!PowerOfTwo, Gate!RandomBitGen, GP!RandomBitGen, Gate!RandGen, GP!RandGen,
       Gate!RandomBitwiseGen, GP!RandomBitwiseGen, Gate!BitwiseOperation,
       GP!BitwiseOperation

\* take the same steps,
LEMMA SameNext == Gate!Next <=> GP!Next
BY DEF Gate!Next, GP!Next, Gate!Share, GP!Share, Gate!CreateConstantShare,
       GP!CreateConstantShare, Gate!SecretShare, GP!SecretShare,
       Gate!ShareAdditiveInverse, GP!ShareAdditiveInverse, Gate!Larger, GP!Larger,
       Gate!Sum, GP!Sum, Gate!Product, GP!Product, Gate!Composition, GP!Composition,
       Gate!PowerOfTwo, GP!PowerOfTwo, Gate!BitLength, GP!BitLength,
       Gate!BitDecomposition, GP!BitDecomposition, Gate!MultipInverse, GP!MultipInverse,
       Gate!SmallerRoot, GP!SmallerRoot, Gate!RandomBit, GP!RandomBit, Gate!Call, GP!Call,
       Gate!Add, GP!Add, Gate!Multiply, GP!Multiply, Gate!Reconstruct, GP!Reconstruct,
       Gate!Compose, GP!Compose, Gate!Or, GP!Or, Gate!Xor, GP!Xor, Gate!RandGen,
       GP!RandGen, Gate!RandomBitGen, GP!RandomBitGen, Gate!RandomBitwiseGen,
       GP!RandomBitwiseGen, Gate!BitwiseLessThan, GP!BitwiseLessThan,
       Gate!LeastSignificantBit, GP!LeastSignificantBit, Gate!LessThanHalfPrime,
       GP!LessThanHalfPrime, Gate!LessThan, GP!LessThan, Gate!ConditionalSwap,
       GP!ConditionalSwap, Gate!BitwiseOperation, GP!BitwiseOperation,
       Gate!PrefixOperation, GP!PrefixOperation, Gate!Loopback, GP!Loopback, Gate!IsLeaf,
       GP!IsLeaf, Gate!LeafResult, GP!LeafResult, Gate!Launched, GP!Launched, Gate!Frame,
       GP!Frame, Gate!Top, GP!Top, Gate!Args, GP!Args, Gate!Fields, GP!Fields,
       Gate!Results, GP!Results, Gate!Answered, GP!Answered, Gate!Handling, GP!Handling,
       Gate!ExecuteIn, GP!ExecuteIn, Gate!Execute, GP!Execute, Gate!Complete, GP!Complete,
       Gate!Launching, GP!Launching, Gate!RunLeaf, GP!RunLeaf, Gate!GenerateRandom,
       GP!GenerateRandom, Gate!StartProtocol, GP!StartProtocol, Gate!HandleCompareAndSwap,
       GP!HandleCompareAndSwap, Gate!HandleTaggedCompareAndSwap,
       GP!HandleTaggedCompareAndSwap, Gate!HandleConditionalSwap,
       GP!HandleConditionalSwap, Gate!HandleLessThan, GP!HandleLessThan,
       Gate!HandleLessThanHalfPrime, GP!HandleLessThanHalfPrime,
       Gate!HandleLeastSignificantBit, GP!HandleLeastSignificantBit, Gate!IsBelow,
       GP!IsBelow, Gate!HandleRandomBitwiseGen, GP!HandleRandomBitwiseGen,
       Gate!HandleRandomBitGen, GP!HandleRandomBitGen, Gate!SubtractionStep,
       GP!SubtractionStep, Gate!HandleBitwiseLessThan, GP!HandleBitwiseLessThan,
       Gate!HandleBitwiseOperation, GP!HandleBitwiseOperation, Gate!HandlePrefixOperation,
       GP!HandlePrefixOperation, Gate!HandleSharedBitXor, GP!HandleSharedBitXor,
       Gate!Uncounted, GP!Uncounted, Gate!HandleSharedBitOr, GP!HandleSharedBitOr,
       Gate!Last, GP!Last, Gate!Front, GP!Front, Gate!Reverse, GP!Reverse

\* and mean the same by in order, bits and reduced.
LEMMA SameProperties ==
  /\ Gate!PutInOrder <=> GP!PutInOrder
  /\ Gate!BitsAreBits <=> GP!BitsAreBits
  /\ Gate!SharesAreReduced <=> GP!SharesAreReduced
<1>1. Gate!PutInOrder <=> GP!PutInOrder
  BY DEF Gate!PutInOrder, GP!PutInOrder, Gate!Output, GP!Output, Gate!Input, GP!Input,
         Gate!Value, GP!Value, Gate!Untagged, GP!Untagged
<1>2. Gate!BitsAreBits <=> GP!BitsAreBits
  BY DEF Gate!BitsAreBits, GP!BitsAreBits, Gate!AreBits, GP!AreBits, Gate!Value, GP!Value,
         Gate!Top, GP!Top, Gate!Args, GP!Args
<1>3. Gate!SharesAreReduced <=> GP!SharesAreReduced
  BY DEF Gate!SharesAreReduced, GP!SharesAreReduced, Gate!Top, GP!Top
<1> QED
  BY <1>1, <1>2, <1>3

\* The contracts of all protocols are kept while a gate runs, and networks are whole and in
\* order; what is not examined does nothing.
SortingInv ==
  /\ examined \in {"gate", "network"}
  /\ IF examined = "gate" THEN GP!GateInv ELSE NoGate
  /\ AreNetworks
  /\ NoneIsForgotten

\* A gate or a network begins so,
LEMMA SortingInit == EitherInit => SortingInv
<1>1. ASSUME Gate!Init PROVE GP!GateInv
  <2>1. \A p \in Primes : GP!IsPrime(p)
    BY FieldsAssumption DEF Gate!PrimesAssumption, GP!IsPrime
  <2> QED BY <1>1, <2>1, SameInit, GP!InitIs
<1>2. ASSUME NoNetwork PROVE AreNetworks /\ NoneIsForgotten
  <2>1. IsNetwork(network, WireCount) /\ IsNetwork(part, PartWireCount)
    BY <1>2, SortingNetworksAssumption, EmptyNetworkProperties DEF NoNetwork
  <2>2. network.wireCount = WireCount
    BY <1>2 DEF NoNetwork, EmptyNetwork
  <2> QED BY <1>2, <2>1, <2>2 DEF AreNetworks, NoneIsForgotten, NoNetwork
<1> QED
  BY <1>1, <1>2, AreNetworksInit, OrderingInit DEF EitherInit, SortingInv

\* and every step of the one leaves the other alone.
LEMMA SortingStep ==
  SortingInv /\ [EitherNext]_<<examined, vars, gateVars>> => SortingInv'
<1> SUFFICES ASSUME SortingInv, [EitherNext]_<<examined, vars, gateVars>>
             PROVE  SortingInv'
  OBVIOUS
<1>1. examined' = examined
  BY DEF EitherNext
<1>2. \/ examined = "gate" /\ [GP!Next]_gateVars /\ UNCHANGED vars
      \/ examined = "network" /\ UNCHANGED gateVars /\ [Next]_vars
  BY SameNext DEF EitherNext, SortingInv
<1>3. CASE examined = "gate" /\ [GP!Next]_gateVars /\ UNCHANGED vars
  <2>1. GP!GateInv'
    <3>1. [GP!Next]_(GP!vars)
      BY <1>3 DEF gateVars, GP!vars
    <3> QED BY <1>3, <3>1, GP!GateStays DEF SortingInv
  <2>2. AreNetworks' /\ NoneIsForgotten'
    BY <1>3, AreNetworksStep, OrderingStep DEF SortingInv
  <2> QED BY <1>1, <1>3, <2>1, <2>2 DEF SortingInv
<1>4. CASE examined = "network" /\ UNCHANGED gateVars /\ [Next]_vars
  <2>1. NoGate'
    BY <1>4 DEF SortingInv, NoGate, gateVars
  <2>2. AreNetworks' /\ NoneIsForgotten'
    BY <1>4, AreNetworksStep, OrderingStep DEF SortingInv
  <2> QED BY <1>1, <1>4, <2>1, <2>2 DEF SortingInv
<1> QED
  BY <1>2, <1>3, <1>4

\* The properties follow; without a gate there is nothing to say.
LEMMA SortingInvGives ==
  SortingInv => /\ PutInOrder /\ BitsAreBits /\ SharesAreReduced
                /\ ConnectionsAgree /\ OrderIsTopological
<1> SUFFICES ASSUME SortingInv
             PROVE  /\ PutInOrder /\ BitsAreBits /\ SharesAreReduced
                    /\ ConnectionsAgree /\ OrderIsTopological
  OBVIOUS
<1>1. GP!PutInOrder /\ GP!BitsAreBits /\ GP!SharesAreReduced
  <2>1. CASE examined = "gate"
    BY <2>1, GP!PutInOrderHolds, GP!BitsAreBitsHolds, GP!SharesAreReducedHolds DEF SortingInv
  <2>2. CASE examined # "gate"
    <3>1. stack = <<>> /\ outcome = <<>>
      BY <2>2 DEF SortingInv, NoGate
    <3> QED BY <3>1 DEF GP!PutInOrder, GP!BitsAreBits, GP!SharesAreReduced
  <2> QED BY <2>1, <2>2
<1>2. ConnectionsAgree /\ OrderIsTopological
  BY WholeNetworksAgree, OrderingIsTopological DEF SortingInv
<1> QED
  BY <1>1, <1>2, SameProperties DEF PutInOrder, BitsAreBits, SharesAreReduced

\* All of it holds of what is checked: what comes out of CompareAndSwapProtocol and
\* TaggedCompareAndSwapProtocol are their inputs, the lesser first, in every field.
THEOREM SortingIsSafe == EitherSpec => []SortingInv
<1> QED
  BY SortingInit, SortingStep, PTL DEF EitherSpec

\* A gate puts any two values of any prime field in order, and their tags with them, whatever
\* random numbers are drawn.
THEOREM AlwaysPutInOrder == EitherSpec => []PutInOrder
<1> QED
  BY SortingIsSafe, SortingInvGives, PTL

\* The formulas for bits are never given anything but bits, nor numbers of different lengths.
THEOREM BitsAreAlwaysBits == EitherSpec => []BitsAreBits
<1> QED
  BY SortingIsSafe, SortingInvGives, PTL

\* No product is added, multiplied or opened before its degree is reduced.
THEOREM SharesAreAlwaysReduced == EitherSpec => []SharesAreReduced
<1> QED
  BY SortingIsSafe, SortingInvGives, PTL

\* Networks are whole and in order in what is checked, too.
THEOREM NetworksOfSorting == EitherSpec => [](ConnectionsAgree /\ OrderIsTopological)
<1> QED
  BY SortingIsSafe, SortingInvGives, PTL
=============================================================================
