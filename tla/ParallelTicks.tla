--------------------------- MODULE ParallelTicks ---------------------------
(***************************************************************************)
(* What the concurrent simulator promises.  Time passes in ticks.  When a  *)
(* tick begins, all events that are due by then are taken, and the tick    *)
(* lasts until all of them have been handled.  The events of one entity    *)
(* (their target) are handled one at a time and those of earlier times     *)
(* first; the events of different entities may be handled at the same time *)
(* and in any order.  Handlers schedule events for later ticks, or for the *)
(* present time, and these are due in the next tick.  Only a halt keeps    *)
(* events from being handled.                                              *)
(***************************************************************************)
EXTENDS Integers

VARIABLES
  clock,      \* the simulation clock
  phase,      \* "off", "starting" (before the first tick) or "on"
  halted,
  waiting,    \* the events that have been scheduled
  due,        \* the events of this tick that are not handled yet
  busy        \* those of them that are being handled

vars == <<clock, phase, halted, waiting, due, busy>>

Init ==
  /\ clock = 0
  /\ phase = "off"
  /\ halted = FALSE
  /\ waiting = {}
  /\ due = {}
  /\ busy = {}

\* Code that may call the simulator is running: a handler, or the program while the
\* simulation is off.
Calling == phase = "off" \/ busy # {}

Schedule ==
  /\ Calling
  /\ \E e \in waiting' \ waiting :
       /\ e.time >= clock
       /\ waiting' = waiting \union {e}
  /\ UNCHANGED <<clock, phase, halted, due, busy>>

Halt ==
  /\ Calling
  /\ halted' = TRUE
  /\ UNCHANGED <<clock, phase, waiting, due, busy>>

\* By the program, not by a handler.
Reset ==
  /\ phase = "off"
  /\ halted' = FALSE
  /\ clock' = 0
  /\ UNCHANGED <<phase, waiting, due, busy>>

Start ==
  /\ phase = "off"
  /\ phase' = "starting"
  /\ UNCHANGED <<clock, halted, waiting, due, busy>>

\* The first tick of a run is the tick 1.
Tick ==
  /\ phase # "off"
  /\ due = {}
  /\ ~halted
  /\ phase' = "on"
  /\ clock' = IF phase = "starting" THEN 1 ELSE clock + 1
  /\ due' = {e \in waiting : e.time <= clock'}
  /\ waiting' = waiting \ due'
  /\ UNCHANGED <<halted, busy>>

Begin(e) ==
  /\ \A f \in due :
       f.target = e.target => f \notin busy /\ e.time <= f.time
  /\ busy' = busy \union {e}
  /\ UNCHANGED <<clock, phase, halted, waiting, due>>

End(e) ==
  /\ busy' = busy \ {e}
  /\ due' = due \ {e}
  /\ UNCHANGED <<clock, phase, halted, waiting>>

Stop ==
  /\ phase # "off"
  /\ due = {}
  /\ halted \/ waiting = {}
  /\ phase' = "off"
  /\ UNCHANGED <<clock, halted, waiting, due, busy>>

Next ==
  \/ Schedule \/ Halt \/ Reset \/ Start \/ Tick \/ Stop
  \/ \E e \in due \ busy : Begin(e)
  \/ \E e \in busy : End(e)

Spec == Init /\ [][Next]_vars

=============================================================================
