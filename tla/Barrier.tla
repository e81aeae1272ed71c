------------------------------ MODULE Barrier -------------------------------
(***************************************************************************)
(* What SynchronizationProtocol promises: no party leaves before every     *)
(* party has arrived, that is, has completed its own sub-protocols.        *)
(***************************************************************************)
CONSTANT Party

VARIABLES
  arrived,   \* the parties whose sub-protocols are completed
  left       \* the parties that have left the barrier

vars == <<arrived, left>>

Init == arrived = {} /\ left = {}

Arrive(p) ==
  /\ p \notin arrived
  /\ arrived' = arrived \union {p}
  /\ UNCHANGED left

Leave(p) ==
  /\ arrived = Party
  /\ p \notin left
  /\ left' = left \union {p}
  /\ UNCHANGED arrived

Next == \E p \in Party : Arrive(p) \/ Leave(p)

Spec == Init /\ [][Next]_vars

=============================================================================
