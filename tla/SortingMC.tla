------------------------------ MODULE SortingMC ------------------------------
(***************************************************************************)
(* What sorts: in a behaviour either the protocols of one gate run, or a   *)
(* network of gates is built and put in order.                             *)
(*                                                                         *)
(* The gate gets every pair of values in the fields of 3, 5 and 7          *)
(* elements, where one, three and one of the 4, 8 and 8 random numbers of  *)
(* the length of the prime are not below it.                               *)
(*                                                                         *)
(* The networks have up to three gates on three wires, built in every way  *)
(* from gates and parts; two gates, or a part with two, after a            *)
(* permutation of three wires that can be collapsed then; and there is     *)
(* what the factories make for up to 8 wires.                              *)
(***************************************************************************)
EXTENDS SortingNetworks

CONSTANT Primes

VARIABLES examined, prime, inputs, stack, outcome

gateVars == <<prime, inputs, stack, outcome>>

Gate == INSTANCE CompareAndSwap

ASSUME FieldsAssumption == Gate!PrimesAssumption

MCWireCount == 3
MCPartWireCount == 3
MCBeginnings ==
  {<<<<>>, 3>>,
   <<<<<<ComputationGate, <<0, 1>>>>, <<ComputationGate, <<1, 2>>>>,
       <<MultiGroupInserterGate(3, 2, 1), <<0, 1, 2>>>>>>, 5>>}
MCSizes == {1, 2, 4, 8}
MCMaxOrdered == 4
MCPrimes == {3, 5, 7}

-----------------------------------------------------------------------------

NoGate == prime = 0 /\ inputs = <<>> /\ stack = <<>> /\ outcome = <<>>
NoNetwork ==
  /\ network = EmptyNetwork(WireCount) /\ part = EmptyNetwork(PartWireCount)
  /\ steps = [network |-> <<>>, part |-> <<>>] /\ made = <<"by hand", 0>>
  /\ deque = <<>> /\ order = <<>> /\ ranking = FALSE

EitherInit ==
  \/ examined = "gate" /\ Gate!Init /\ NoNetwork
  \/ examined = "network" /\ Init /\ NoGate

EitherNext ==
  /\ \/ examined = "gate" /\ Gate!Next /\ UNCHANGED vars
     \/ examined = "network" /\ Next /\ UNCHANGED gateVars
  /\ UNCHANGED examined

EitherSpec == EitherInit /\ [][EitherNext]_<<examined, vars, gateVars>>

\* A gate puts its inputs in order, with their tags: what comes out are the inputs, and the
\* lesser value comes first.
PutInOrder == Gate!PutInOrder

\* The protocols for bits, whose formulas hold for 0 and 1 only, are given bits, and as many
\* of the one number as of the other.
BitsAreBits == Gate!BitsAreBits

\* The shares of a product have twice the degree, of which a quorum cannot open or multiply
\* any more; and a share is used as public only if all members have the same.
SharesAreReduced == Gate!SharesAreReduced
=============================================================================
