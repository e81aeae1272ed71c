-------------------------- MODULE GateEvaluationMC --------------------------
(***************************************************************************)
(* Two quorums that share two members, one, or all.  The circuits have     *)
(* four gates on four wires: two gates of inputs that run at the same      *)
(* time, and two that take their outputs crosswise, in turn or both, with  *)
(* every assignment of the gates to the quorums.                           *)
(***************************************************************************)
EXTENDS GateEvaluation

MCCircuits ==
  {[g \in 1..4 |-> [wires |-> <<<<1, 2>>, <<3, 4>>, third, fourth>>[g], quorum |-> qs[g]]] :
     third \in {<<1, 3>>, <<3, 1>>},
     fourth \in {<<2, 4>>, <<4, 1>>, <<3, 1>>},
     qs \in {qs \in [1..4 -> {0, 1}] : qs[1] = 0}}

MCMemberships ==
  {[q \in {0, 1} |-> IF q = 0 THEN {1, 2, 3} ELSE {2, 3, 4}],
   [q \in {0, 1} |-> IF q = 0 THEN {2, 3} ELSE {1, 2}],
   [q \in {0, 1} |-> {1, 2}]}
=============================================================================
