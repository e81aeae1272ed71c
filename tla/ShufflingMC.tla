---------------------------- MODULE ShufflingMC ----------------------------
(***************************************************************************)
(* Four parties, three of them trusted, on the bitonic network of four     *)
(* wires: six gates in three layers.                                       *)
(***************************************************************************)
EXTENDS Shuffling

MCParty == 0..3
MCFirstGateForWire == [w \in MCParty |-> IF w < 2 THEN 1 ELSE 0]
MCLastGateForWire == [w \in MCParty |-> IF w < 2 THEN 4 ELSE 5]

\* The lists that QuorumGenerator returns for a number of quorums of a size.
Lists(count, size) ==
  {qs \in [1..count -> {S \in SUBSET MCParty : Cardinality(S) = size}] :
     UNION {qs[i] : i \in 1..count} = MCParty}

\* With three quorums the first holds no output: its members must be in another one.  The
\* third has no input, so a party that is in no other starts the evaluation early.
MCQuorumLists ==
  Lists(1, 4) \union Lists(2, 2) \union Lists(2, 3) \union
  {qs \in Lists(3, 3) : qs[1] = 0..2 /\ qs[2] \union qs[3] = MCParty}

\* A party that is in the first of three quorums only.
MCIdleQuorumLists == {<<{0, 1, 2}, {1, 2, 3}, {1, 2, 3}>>}
=============================================================================
