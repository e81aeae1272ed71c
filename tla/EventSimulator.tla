--------------------------- MODULE EventSimulator ---------------------------
(***************************************************************************)
(* The discrete-event simulator (EventSimulator.cs) with its two queues,   *)
(* each a binary heap (BinaryHeap.cs) whose items carry the number under   *)
(* which they were added (StableBinaryHeap), so that events of equal time  *)
(* leave in the order in which they were added.                            *)
(*                                                                         *)
(* A heap is the used part of the array: a function on 0..count-1.         *)
(***************************************************************************)
EXTENDS Integers, FiniteSets

CONSTANTS
  MaxDelay,      \* bound: the largest delay an event is scheduled with
  MaxEvents,     \* bound: the number of timed events scheduled
  MaxLoopbacks   \* bound: the number of loopbacks posted

ASSUME BoundsAssumption ==
  /\ MaxDelay \in Nat
  /\ MaxEvents \in Nat
  /\ MaxLoopbacks \in Nat

VARIABLES
  clock, pc, halted,
  maxClock,        \* the latest time reached, reported as the number of rounds
  queue, loopbackQueue,           \* the heaps
  queueStamp, loopbackStamp       \* their NextTimestamp

vars == <<clock, pc, halted, maxClock, queue, loopbackQueue, queueStamp, loopbackStamp>>

-----------------------------------------------------------------------------
(***************************************************************************)
(* The heap.                                                               *)
(***************************************************************************)

EmptyHeap == [i \in {} |-> 0]

Count(h) == Cardinality(DOMAIN h)
Items(h) == {h[i] : i \in DOMAIN h}

\* BaseEvent.CompareTo; as a mutant of Less, the number of an item is not looked at.
LessByTime(e, f) == e.time < f.time

\* CompareTo of timestamped items.
Less(e, f) == e.time < f.time \/ (e.time = f.time /\ e.stamp < f.stamp)

\* A heap is one of timestamped items or of events by themselves.
Precedes(stamped, e, f) == IF stamped THEN Less(e, f) ELSE LessByTime(e, f)

Parent(i) == (i - 1) \div 2

\* The items on the way from the hole at `p` to the place of `item` move down.
UpHeap(stamped, h, p, item) ==
  LET place[i \in 0..p] == IF i > 0 /\ Precedes(stamped, item, h[Parent(i)]) THEN place[Parent(i)] ELSE i
      path[i \in 0..p] == IF i > place[p] THEN {i} \union path[Parent(i)] ELSE {}
  IN  [i \in 0..p |-> IF i = place[p] THEN item
                      ELSE IF i \in path[p] THEN h[Parent(i)] ELSE h[i]]

Add(h, item) == UpHeap(TRUE, h, Count(h), item)

SmallerChild(stamped, h, i) ==
  LET left == 2 * i + 1
      right == 2 * i + 2
  IN  IF right \in DOMAIN h /\ Precedes(stamped, h[right], h[left]) THEN right ELSE left

\* The items on the way from the hole at the root to the place of `item` move up.
DownHeap(stamped, h, item) ==
  LET child(i) == SmallerChild(stamped, h, i)
      sinks(i) == 2 * i + 1 \in DOMAIN h /\ Precedes(stamped, h[child(i)], item)
      place[i \in DOMAIN h] == IF sinks(i) THEN place[child(i)] ELSE i
      path[i \in DOMAIN h] == IF sinks(i) THEN {i} \union path[child(i)] ELSE {}
  IN  [i \in DOMAIN h |-> IF i = place[0] THEN item
                          ELSE IF i \in path[0] THEN h[child(i)] ELSE h[i]]

First(h) == h[0]

\* Without its last item, which takes the place of data[0] and sinks.
RemoveFirstBy(stamped, h) ==
  LET last == Count(h) - 1
  IN  IF last = 0 THEN EmptyHeap
      ELSE DownHeap(stamped, [i \in 0..(last - 1) |-> h[i]], h[last])

\* Mutant of RemoveFirst: the last item stays in its place as well.
RemoveFirstKeepingLast(h) ==
  LET last == Count(h) - 1
  IN  IF last = 0 THEN EmptyHeap ELSE DownHeap(TRUE, h, h[last])

RemoveFirst(h) == RemoveFirstBy(TRUE, h)

-----------------------------------------------------------------------------
(***************************************************************************)
(* The simulator.                                                          *)
(***************************************************************************)

Init ==
  /\ clock = 0
  /\ pc = "idle"
  /\ halted = FALSE
  /\ maxClock = 0
  /\ queue = EmptyHeap
  /\ loopbackQueue = EmptyHeap
  /\ queueStamp = 0
  /\ loopbackStamp = 0

\* Handlers schedule events, and the parties that start before Run.
Scheduling == pc \in {"idle", "handling"}

Schedule(delay) ==
  /\ Scheduling
  /\ queueStamp < MaxEvents
  /\ queue' = Add(queue, [time |-> clock + delay, stamp |-> queueStamp])
  /\ queueStamp' = queueStamp + 1
  /\ UNCHANGED <<clock, pc, halted, maxClock, loopbackQueue, loopbackStamp>>

Loopback ==
  /\ Scheduling
  /\ loopbackStamp < MaxLoopbacks
  /\ loopbackQueue' = Add(loopbackQueue, [time |-> clock, stamp |-> loopbackStamp])
  /\ loopbackStamp' = loopbackStamp + 1
  /\ UNCHANGED <<clock, pc, halted, maxClock, queue, queueStamp>>

Halt ==
  /\ Scheduling
  /\ halted' = TRUE
  /\ UNCHANGED <<clock, pc, maxClock, queue, loopbackQueue, queueStamp, loopbackStamp>>

\* Run begins with Reset, which leaves both queues and maxClock as they are.
Run ==
  /\ pc = "idle"
  /\ pc' = "loop"
  /\ halted' = FALSE
  /\ clock' = 0
  /\ UNCHANGED <<maxClock, queue, loopbackQueue, queueStamp, loopbackStamp>>

\* Mutant of Waiting: the loop looks at the message queue alone.
WaitingInQueue == queue # EmptyHeap

Waiting == loopbackQueue # EmptyHeap \/ queue # EmptyHeap

LoopbackFirst == loopbackQueue # EmptyHeap

NextEvent == IF LoopbackFirst THEN First(loopbackQueue) ELSE First(queue)

Dispatch ==
  /\ pc = "loop"
  /\ ~halted
  /\ Waiting
  /\ clock' = NextEvent.time
  /\ maxClock' = IF NextEvent.time > maxClock THEN NextEvent.time ELSE maxClock
  /\ IF LoopbackFirst
       THEN loopbackQueue' = RemoveFirst(loopbackQueue) /\ UNCHANGED queue
       ELSE queue' = RemoveFirst(queue) /\ UNCHANGED loopbackQueue
  /\ pc' = "handling"
  /\ UNCHANGED <<halted, queueStamp, loopbackStamp>>

HandlerReturns ==
  /\ pc = "handling"
  /\ pc' = "loop"
  /\ UNCHANGED <<clock, halted, maxClock, queue, loopbackQueue, queueStamp, loopbackStamp>>

Stop ==
  /\ pc = "loop"
  /\ halted \/ ~Waiting
  /\ pc' = "idle"
  /\ UNCHANGED <<clock, halted, maxClock, queue, loopbackQueue, queueStamp, loopbackStamp>>

Next ==
  \/ \E delay \in 0..MaxDelay : Schedule(delay)
  \/ Loopback
  \/ Halt
  \/ Run
  \/ Dispatch
  \/ HandlerReturns
  \/ Stop

Spec == Init /\ [][Next]_vars

-----------------------------------------------------------------------------
(***************************************************************************)
(* Properties.                                                             *)
(***************************************************************************)

Event == [time : Nat, stamp : Nat]

\* The used part of the array, in which no item is twice.
IsHeap(h) ==
  /\ DOMAIN h = 0..(Count(h) - 1)
  /\ Items(h) \subseteq Event
  /\ Cardinality(Items(h)) = Count(h)

TypeOK ==
  /\ clock \in Nat
  /\ maxClock \in Nat
  /\ pc \in {"idle", "loop", "handling"}
  /\ halted \in BOOLEAN
  /\ IsHeap(queue)
  /\ IsHeap(loopbackQueue)
  /\ queueStamp \in 0..MaxEvents
  /\ loopbackStamp \in 0..MaxLoopbacks

\* In both arrays no item is less than its parent, whatever adds and removes came
\* before, so that data[0] is the next event.
HeapOrdered ==
  \A h \in {queue, loopbackQueue} :
    \A i \in DOMAIN h \ {0} : Less(h[Parent(i)], h[i])

Waits(h, n) == \E e \in Items(h) : e.stamp = n

=============================================================================
