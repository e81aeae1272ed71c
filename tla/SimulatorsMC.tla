---------------------------- MODULE SimulatorsMC ----------------------------
(***************************************************************************)
(* Both simulators, one of which runs in a behaviour.  The sequential one  *)
(* gets enough events for heaps of three levels, the concurrent one two    *)
(* targets; in both, delays make events overtake each other and tie.       *)
(***************************************************************************)
EXTENDS ConcurrentEventSimulator

VARIABLE kind     \* which of them runs

BothInit == ConcurrentInit /\ kind \in {"sequential", "concurrent"}

BothNext ==
  /\ \/ kind = "sequential" /\ Next /\ UNCHANGED <<t, taken, work, worker, activeCount>>
     \/ kind = "concurrent" /\ ConcurrentNext
  /\ UNCHANGED kind

bothVars == <<concurrentVars, kind>>

\* In the sequential simulator the loop of Run goes on until it stops, and handlers
\* return.  In the concurrent one so does the loop, and the pool gives every worker
\* time.
BothSpec ==
  /\ BothInit
  /\ [][BothNext]_bothVars
  /\ WF_bothVars(kind = "sequential" /\ (Dispatch \/ HandlerReturns)
                 /\ UNCHANGED <<kind, t, taken, work, worker, activeCount>>)
  /\ WF_bothVars(kind = "concurrent" /\ MainStep /\ UNCHANGED kind)
  /\ \A g \in Target :
       WF_bothVars(kind = "concurrent" /\ WorkerStep(g) /\ UNCHANGED kind)

-----------------------------------------------------------------------------

\* In each array no item is less than its parent, whatever adds and removes came
\* before, so that data[0] is the next event.
HeapsAreOrdered ==
  IF kind = "sequential" THEN TypeOK /\ HeapOrdered
                         ELSE ConcurrentTypeOK /\ ConcurrentHeapOrdered

\* The abstract specification that is not about the simulator that runs sees its
\* initial state.
Sequential(x, initial) == IF kind = "sequential" THEN x ELSE initial
Concurrent(x, initial) == IF kind = "concurrent" THEN x ELSE initial


DES == INSTANCE DiscreteEvents WITH
  clock <- Sequential(clock, 0), pc <- Sequential(pc, "idle"),
  halted <- Sequential(halted, FALSE),
  timed <- Sequential(Items(queue), {}), loop <- Sequential(Items(loopbackQueue), {}),
  timedCount <- Sequential(queueStamp, 0), loopCount <- Sequential(loopbackStamp, 0)

\* The array heaps and their time stamps implement the abstract simulator: the
\* earliest event first, equal times in scheduling order, loopbacks before
\* messages in posting order.
ImplementsDiscreteEvents == DES!Spec

PhaseOfRun ==
  IF pc = "idle" THEN "off"
  ELSE IF t = 1 /\ pc # "wait" THEN "starting" ELSE "on"

PT == INSTANCE ParallelTicks WITH
  clock <- Concurrent(clock, 0), phase <- Concurrent(PhaseOfRun, "off"),
  halted <- Concurrent(halted, FALSE),
  waiting <- Concurrent(Items(queue) \union Range(taken), {}),
  due <- Launched,
  busy <- {Head(work[g]) : g \in {h \in Target : worker[h] = "handling"}}

\* The two-step Dequeue, the groups and the count of active workers implement ticks
\* that end when all their events are handled, one at a time for each target and the
\* earlier first, while handlers schedule events into the queue.
ImplementsParallelTicks == PT!Spec

\* A run that is not halted handles every event that waits while it is on: neither
\* simulator stops with one left in a queue.
EveryEventIsHandled ==
  /\ \A n \in 0..(MaxEvents - 1) :
       (kind = "sequential" /\ pc # "idle" /\ Waits(queue, n))
         ~> (halted \/ ~Waits(queue, n))
  /\ \A n \in 0..(MaxLoopbacks - 1) :
       (kind = "sequential" /\ pc # "idle" /\ Waits(loopbackQueue, n))
         ~> (halted \/ ~Waits(loopbackQueue, n))
  /\ \A n \in 0..(MaxParallelEvents - 1) :
       (kind = "concurrent" /\ pc # "idle" /\ Pending(n)) ~> (halted \/ ~Pending(n))

=============================================================================
