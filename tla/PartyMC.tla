------------------------------ MODULE PartyMC ------------------------------
(***************************************************************************)
(* The runtime of a party and the identifiers of its protocols, one of     *)
(* which is followed in a behaviour.                                       *)
(*                                                                         *)
(* Protocols: a root and three identifiers for the protocols below it,     *)
(* deep enough for a child that launches a grandchild while its sibling is *)
(* being started, and for identifiers to be used again.                    *)
(*                                                                         *)
(* Identifiers: arguments at the ends of their ranges, two registered at   *)
(* a time; two quorums, of which the party may be a member of both.        *)
(***************************************************************************)
EXTENDS Party, ProtocolIdentifiers

VARIABLE followed

MCQuorum == {0, 65535}
MCGate == {0, 65536, 16777215}   \* the second has the bit of NOP_PROTOCOL_MODIFIER
MCPort == {0, 1}
MCWire == {0, 65536}

BothInit == Init /\ IdentifiersInit /\ followed \in {"protocols", "identifiers"}

BothNext ==
  /\ \/ followed = "protocols" /\ Next /\ UNCHANGED identifierVars
     \/ followed = "identifiers" /\ IdentifiersNext /\ UNCHANGED vars
  /\ UNCHANGED followed

bothVars == <<vars, identifierVars, followed>>

\* That of the protocols: where they are not followed nothing has started.
BothSpec == BothInit /\ [][BothNext]_bothVars /\ Fairness
=============================================================================
