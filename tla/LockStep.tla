------------------------------ MODULE LockStep ------------------------------
(***************************************************************************)
(* The network as the protocols see it.  No caller of Send or Multicast    *)
(* passes a delay, so a message sent during one tick of the simulator is   *)
(* due at the next tick; the queue being stable, messages are handled in   *)
(* the order in which they were sent, and those a party posts to itself    *)
(* with Loopback before all others and within the tick.                    *)
(***************************************************************************)
EXTENDS Naturals, Sequences

VARIABLES
  clock,      \* the time of the last event
  network,    \* the messages that are due, in the order of the queue
  loopbacks   \* the loopback queue

NetworkInit ==
  /\ clock = 0
  /\ network = <<>>
  /\ loopbacks = <<>>

\* NetSimulator.Send during the tick `now`.
Letter(now, from, to, body) ==
  [at |-> now + 1, from |-> from, to |-> to, body |-> body]

\* NetSimulator.Multicast: one message for each addressee, in their order.
Letters(now, from, tos, body) ==
  [i \in DOMAIN tos |-> Letter(now, from, tos[i], body)]

\* The message that the simulator delivers next, if it is the turn of a message.
Due == IF loopbacks = <<>> /\ network # <<>> THEN {Head(network)} ELSE {}

\* Code may run at the tick t: everything due earlier has been handled.
IsTime(t) ==
  /\ loopbacks # <<>> => t = clock
  /\ \A i \in DOMAIN network : network[i].at >= t

=============================================================================
