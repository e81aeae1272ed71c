------------------------ MODULE ProtocolIdentifiers ------------------------
(***************************************************************************)
(* ProtocolIdentifier.cs and Quorum.cs: the 64-bit identifiers under which *)
(* a party registers its protocols.  Some are made of what the protocol is *)
(* for (a gate, an output), some of a number that the party's copy of a    *)
(* quorum counts; all share one dictionary (Party.RegisterProtocol).       *)
(*                                                                         *)
(* An identifier is the pair of its 32-bit words.  The high word holds a   *)
(* prefix in its top byte, above a field of 24 bits.  A protocol is        *)
(* described by the kind of its identifier and the arguments it is made    *)
(* of; those that are not used are 0.  The names of this module differ     *)
(* from those of Party, so that both can be extended.                      *)
(***************************************************************************)
EXTENDS Integers, FiniteSets

CONSTANTS
  FieldSize,      \* 2^24, the unit of the prefix in the high word
  ShortSize,      \* 2^16, the range of a ushort
  Quorum,         \* QuorumNumber: the quorums
  Gate,           \* the topological ranks of gates
  Port,           \* the input ports of a gate
  Wire,           \* the outputs of the circuit
  MaxProtocols,   \* bound: how many protocols a quorum may number
  MaxTwo,         \* bound: and how many a pair of quorums
  MaxRegistered   \* bound: how many protocols are registered at a time

\* Within the bounds no counter wraps and no field overflows.  (A number of a quorum may
\* have 32 bits, but the integers of TLC have fewer.)
ASSUME IdentifiersAssumption ==
  /\ FieldSize \in Nat /\ ShortSize \in Nat
  /\ 0 < ShortSize /\ ShortSize < FieldSize
  /\ Quorum \subseteq 0..(ShortSize - 1)
  /\ Gate \subseteq 0..(FieldSize - 1)
  /\ Port \subseteq Nat
  /\ Wire \subseteq Nat
  /\ MaxProtocols \in Nat
  /\ MaxTwo \in 0..ShortSize
  /\ MaxRegistered \in Nat

VARIABLES
  inUse,           \* the protocols in RegisteredProtocols
  evaluating,      \* has the party gone on from sharing inputs to evaluating gates?
  whichProtocol,   \* WhichProtocol of the party's copy of a quorum
  twoQuorum        \* TwoQuorumProtocolIds of a copy, 0 where there is no entry

identifierVars == <<inUse, evaluating, whichProtocol, twoQuorum>>

-----------------------------------------------------------------------------
(***************************************************************************)
(* ProtocolIdGenerator.                                                    *)
(***************************************************************************)

\* GenericIdentifier: the root, the majority of the random number, the barrier.
Generic == [kind : {"generic"}, a : {0}, b : {0}, n : 0..2]

\* QuorumProtocolIdentifier, with the number of the quorum and of the protocol.
OfQuorum == [kind : {"quorum"}, a : Quorum, b : {0}, n : Nat]

\* TwoQuorumProtocolIdentifier, with the greater number of a quorum first.
OfTwoQuorums == {p \in [kind : {"two"}, a : Quorum, b : Quorum, n : 0..(ShortSize - 1)] : p.a > p.b}

\* GateInputSharingIdentifier: the two values on a wire are shared with the quorum of a
\* gate; a tagged renewal of the output of another gate has two renewals under it.
InputSharing == [kind : {"sharing"}, a : Gate, b : Port, n : 0..1]
InputRenewal == [kind : {"renewal"}, a : Gate, b : Port, n : 0..2]

\* GateEvalIdentifier and ResultBroadcastIdentifier.
GateEval == [kind : {"evaluation"}, a : Gate, b : {0}, n : {0}]
ResultBroadcast == [kind : {"result"}, a : Wire, b : {0}, n : {0}]

\* NopIdentifier of the majority of the random number and of an output.
Nop == [kind : {"nopGeneric"}, a : {0}, b : {0}, n : {1}] \union
       [kind : {"nopResult"}, a : Wire, b : {0}, n : {0}]

\* Those whose arguments are given by what they are for.
Named == Generic \union InputSharing \union InputRenewal \union GateEval \union
         ResultBroadcast \union Nop

Protocol == Named \union OfQuorum \union OfTwoQuorums

\* The high word and the low word.
Id(p) ==
  CASE p.kind = "generic"    -> <<0, p.n>>
    [] p.kind = "nopGeneric" -> <<ShortSize, p.n>>
    [] p.kind = "quorum"     -> <<FieldSize + p.a, p.n>>
    [] p.kind = "sharing"    -> <<2 * FieldSize + p.a, 2 * p.b + p.n>>
    [] p.kind = "renewal"    -> <<2 * FieldSize + p.a, 3 * p.b + p.n>>
    [] p.kind = "evaluation" -> <<3 * FieldSize, p.a>>
    [] p.kind = "result"     -> <<4 * FieldSize, p.a>>
    [] p.kind = "nopResult"  -> <<4 * FieldSize + ShortSize, p.a>>
    [] OTHER                 -> <<5 * FieldSize + p.a, p.b * ShortSize + p.n>>

IdentifiersTypeOK ==
  /\ inUse \subseteq Protocol
  /\ evaluating \in BOOLEAN
  /\ whichProtocol \in [Quorum -> 0..MaxProtocols]
  /\ twoQuorum \in [Quorum -> [Quorum -> 0..MaxTwo]]

IdentifiersInit ==
  /\ inUse = {}
  /\ evaluating = FALSE
  /\ whichProtocol = [q \in Quorum |-> 0]
  /\ twoQuorum = [q \in Quorum |-> [r \in Quorum |-> 0]]

-----------------------------------------------------------------------------
(***************************************************************************)
(* The protocols that may be registered next.                              *)
(***************************************************************************)

\* Inputs are shared in one stage of the program, gates are evaluated in the next, and a
\* protocol with given arguments runs once at a time.
NamedInTurn ==
  {p \in Named : /\ p \notin inUse
                 /\ p.kind = "sharing" => ~evaluating
                 /\ p.kind = "renewal" => evaluating}

\* GetNextProtocolId of a copy of the quorum q.
NextOfQuorum(q) == [kind |-> "quorum", a |-> q, b |-> 0, n |-> whichProtocol[q]]

\* GetNextTwoProtocolId(r) of a copy of the quorum q.
NextOfTwo(q, r) ==
  [kind |-> "two", a |-> IF q > r THEN q ELSE r, b |-> IF q > r THEN r ELSE q,
   n |-> twoQuorum[q][r]]

-----------------------------------------------------------------------------

RegisterProtocol(p) ==
  /\ Cardinality(inUse) < MaxRegistered
  /\ inUse' = inUse \union {p}

RegisterNamed ==
  \E p \in NamedInTurn :
    /\ RegisterProtocol(p)
    /\ UNCHANGED <<evaluating, whichProtocol, twoQuorum>>

GetNextProtocolId(q) ==
  /\ whichProtocol[q] < MaxProtocols
  /\ RegisterProtocol(NextOfQuorum(q))
  /\ whichProtocol' = [whichProtocol EXCEPT ![q] = @ + 1]
  /\ UNCHANGED <<evaluating, twoQuorum>>

\* Mutant of CountTwo: the other quorum is not told.
CountOne(q, r) == twoQuorum' = [twoQuorum EXCEPT ![q][r] = @ + 1]

\* Both copies count, as the party may be a member of both.
CountTwo(q, r) == twoQuorum' = [twoQuorum EXCEPT ![q][r] = @ + 1, ![r][q] = @ + 1]

GetNextTwoProtocolId(q, r) ==
  /\ q # r
  /\ twoQuorum[q][r] < MaxTwo
  /\ RegisterProtocol(NextOfTwo(q, r))
  /\ CountTwo(q, r)
  /\ UNCHANGED <<evaluating, whichProtocol>>

\* A protocol is completed.  (ReleaseId has no effect: nothing is ever added to UsedIds.)
Unregister ==
  \E p \in inUse :
    /\ inUse' = inUse \ {p}
    /\ UNCHANGED <<evaluating, whichProtocol, twoQuorum>>

\* The inputs are shared, and the party goes on.
StartEvaluation ==
  /\ ~evaluating
  /\ \A p \in inUse : p.kind # "sharing"
  /\ evaluating' = TRUE
  /\ UNCHANGED <<inUse, whichProtocol, twoQuorum>>

IdentifiersNext ==
  \/ RegisterNamed
  \/ \E q \in Quorum : GetNextProtocolId(q)
  \/ \E q, r \in Quorum : GetNextTwoProtocolId(q, r)
  \/ Unregister
  \/ StartEvaluation

IdentifiersSpec == IdentifiersInit /\ [][IdentifiersNext]_identifierVars

-----------------------------------------------------------------------------

\* The assertion of RegisterProtocol, that the dictionary does not contain the identifier:
\* whatever may be registered next has an identifier that no registered protocol has.
IdentifiersUnused ==
  \A q \in inUse :
    /\ \A p \in NamedInTurn : Id(p) # Id(q)
    /\ \A r \in Quorum : Id(NextOfQuorum(r)) # Id(q)
    /\ \A r, s \in Quorum : r # s /\ twoQuorum[r][s] < MaxTwo => Id(NextOfTwo(r, s)) # Id(q)

=============================================================================
