--------------------------- MODULE ShareRenewalMC ---------------------------
(***************************************************************************)
(* Quorums of one to four members that overlap in every way, and two       *)
(* members with a quorum of seven, for which they need a second round.     *)
(* Where there is a second round the first quorum is part of the other:    *)
(* a member of the first alone would start it and never be called again.   *)
(***************************************************************************)
EXTENDS ShareRenewal

MCQuorums == SUBSET (0..3) \ {{}}

MCRenewals ==
  {r \in MCQuorums \X MCQuorums : 3 * Cardinality(r[1]) < Cardinality(r[2]) => r[1] \subseteq r[2]}
    \union {<<{1, 3}, 0..6>>}

\* One member needs two rounds before the last to reach ten.
MCTwoIntermediateRounds == {<<{0}, 0..9>>}
=============================================================================
