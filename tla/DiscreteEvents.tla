--------------------------- MODULE DiscreteEvents ---------------------------
(***************************************************************************)
(* What the discrete-event simulator promises the network built on it.     *)
(* Events are kept in two sets, numbered in the order in which they were   *)
(* scheduled.  Loopbacks are dispatched before any timed event, oldest     *)
(* first; of the timed events the earliest is dispatched, and of several   *)
(* with the same time the one that was scheduled first.  The clock jumps   *)
(* to the time of the event that is dispatched.                            *)
(***************************************************************************)
EXTENDS Integers

VARIABLES
  clock,       \* the simulation clock
  pc,          \* "idle" (outside Run), "loop" (Run's test), "handling" (in a handler)
  halted,
  timed,       \* the timed events that wait
  loop,        \* the loopback events that wait
  timedCount,  \* how many timed events were scheduled so far
  loopCount    \* how many loopback events were posted so far

vars == <<clock, pc, halted, timed, loop, timedCount, loopCount>>

Event == [time : Nat, stamp : Nat]

TypeOK ==
  /\ clock \in Nat
  /\ pc \in {"idle", "loop", "handling"}
  /\ halted \in BOOLEAN
  /\ timed \in SUBSET Event
  /\ loop \in SUBSET Event
  /\ timedCount \in Nat
  /\ loopCount \in Nat

Init ==
  /\ clock = 0
  /\ pc = "idle"
  /\ halted = FALSE
  /\ timed = {}
  /\ loop = {}
  /\ timedCount = 0
  /\ loopCount = 0

\* Events are scheduled by the handler of an event, and before the simulation
\* runs by the parties that start.
Scheduling == pc \in {"idle", "handling"}

Schedule ==
  /\ Scheduling
  /\ \E e \in timed' \ timed :
       /\ e \in Event
       /\ e.time >= clock
       /\ e.stamp = timedCount
       /\ timed' = timed \union {e}
  /\ timedCount' = timedCount + 1
  /\ UNCHANGED <<clock, pc, halted, loop, loopCount>>

Loopback ==
  /\ Scheduling
  /\ loop' = loop \union {[time |-> clock, stamp |-> loopCount]}
  /\ loopCount' = loopCount + 1
  /\ UNCHANGED <<clock, pc, halted, timed, timedCount>>

Halt ==
  /\ Scheduling
  /\ halted' = TRUE
  /\ UNCHANGED <<clock, pc, timed, loop, timedCount, loopCount>>

Run ==
  /\ pc = "idle"
  /\ pc' = "loop"
  /\ halted' = FALSE
  /\ clock' = 0
  /\ UNCHANGED <<timed, loop, timedCount, loopCount>>

Dispatch(e) ==
  /\ pc = "loop"
  /\ ~halted
  /\ clock' = e.time
  /\ pc' = "handling"
  /\ UNCHANGED <<halted, timedCount, loopCount>>

DispatchLoopback ==
  \E e \in loop :
    /\ \A f \in loop : e.stamp <= f.stamp
    /\ Dispatch(e)
    /\ loop' = loop \ {e}
    /\ UNCHANGED timed

Before(e, f) == e.time < f.time \/ (e.time = f.time /\ e.stamp < f.stamp)

DispatchTimed ==
  /\ loop = {}
  /\ \E e \in timed :
       /\ \A f \in timed : f = e \/ Before(e, f)
       /\ Dispatch(e)
       /\ timed' = timed \ {e}
       /\ UNCHANGED loop

HandlerReturns ==
  /\ pc = "handling"
  /\ pc' = "loop"
  /\ UNCHANGED <<clock, halted, timed, loop, timedCount, loopCount>>

Stop ==
  /\ pc = "loop"
  /\ halted \/ (timed = {} /\ loop = {})
  /\ pc' = "idle"
  /\ UNCHANGED <<clock, halted, timed, loop, timedCount, loopCount>>

Next ==
  \/ Schedule
  \/ Loopback
  \/ Halt
  \/ Run
  \/ DispatchLoopback
  \/ DispatchTimed
  \/ HandlerReturns
  \/ Stop

Spec == Init /\ [][Next]_vars

-----------------------------------------------------------------------------

\* Within a run the clock never goes back; only Run itself sets it to 0.
ClockMonotone == [][pc = "loop" => clock' >= clock]_vars

\* A loopback that waits while a handler runs is of the current tick: it is
\* handled before the clock moves.
LoopbacksAreOfThisTick == pc = "handling" => \A e \in loop : e.time = clock

=============================================================================
