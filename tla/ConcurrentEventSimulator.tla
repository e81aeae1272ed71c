---------------------- MODULE ConcurrentEventSimulator ----------------------
(***************************************************************************)
(* The concurrent simulator (ConcurrentEventSimulator.cs), which inherits  *)
(* from EventSimulator but runs the events of a tick on the thread pool,   *)
(* one worker for each target.  Its queue (ConcurrentEventQueue.cs) is a   *)
(* heap under a lock (ConcurrentPriorityQueue.cs) that looks at the times  *)
(* of events alone; the stamp of an event only tells it from others here.  *)
(*                                                                         *)
(* Each operation of the queue is one step, as it holds the lock.  The     *)
(* main thread and the workers interleave.                                 *)
(***************************************************************************)
EXTENDS EventSimulator, Sequences, Functions

CONSTANTS
  Target,              \* the entities that handle events
  MaxParallelEvents,   \* bound: the number of timed events scheduled
  MaxParallelLoopbacks \* bound: the number of loopbacks posted

ASSUME TargetAssumption == IsFiniteSet(Target)

VARIABLES
  t,            \* the local t of Run: the present tick
  taken,        \* eList of Dequeue(t)
  work,         \* what is left of the groups that have been launched
  worker,       \* for each target "none", "ready" (between events) or "handling"
  activeCount

concurrentVars == <<vars, t, taken, work, worker, activeCount>>

-----------------------------------------------------------------------------
(***************************************************************************)
(* The queue.                                                              *)
(***************************************************************************)

\* MinBinaryHeap
Insert(h, item) == UpHeap(FALSE, h, Count(h), item)
Remove(h) == RemoveFirstBy(FALSE, h)

-----------------------------------------------------------------------------
(***************************************************************************)
(* The inherited operations, called by the program while the simulation    *)
(* does not run, and by handlers.                                          *)
(***************************************************************************)

ConcurrentInit ==
  /\ Init
  /\ t = 0
  /\ taken = <<>>
  /\ work = [g \in Target |-> <<>>]
  /\ worker = [g \in Target |-> "none"]
  /\ activeCount = 0

Calling == pc = "idle" \/ \E g \in Target : worker[g] = "handling"

ConcurrentSchedule(delay, target) ==
  /\ Calling
  /\ queueStamp < MaxParallelEvents
  /\ queue' = Insert(queue, [time |-> clock + delay, stamp |-> queueStamp, target |-> target])
  /\ queueStamp' = queueStamp + 1
  /\ UNCHANGED <<clock, pc, halted, maxClock, loopbackQueue, loopbackStamp,
                 t, taken, work, worker, activeCount>>

\* Loopbacks are queued, and nothing ever takes them from the queue.
ConcurrentLoopback(target) ==
  /\ Calling
  /\ loopbackStamp < MaxParallelLoopbacks
  /\ loopbackQueue' =
       Insert(loopbackQueue, [time |-> clock, stamp |-> loopbackStamp, target |-> target])
  /\ loopbackStamp' = loopbackStamp + 1
  /\ UNCHANGED <<clock, pc, halted, maxClock, queue, queueStamp,
                 t, taken, work, worker, activeCount>>

ConcurrentHalt ==
  /\ Calling
  /\ halted' = TRUE
  /\ UNCHANGED <<clock, pc, maxClock, queue, loopbackQueue, queueStamp, loopbackStamp,
                 t, taken, work, worker, activeCount>>

\* Called by the program: this Run does not call it.
Reset ==
  /\ pc = "idle"
  /\ halted' = FALSE
  /\ clock' = 0
  /\ UNCHANGED <<pc, maxClock, queue, loopbackQueue, queueStamp, loopbackStamp,
                 t, taken, work, worker, activeCount>>

-----------------------------------------------------------------------------
(***************************************************************************)
(* Run.                                                                    *)
(***************************************************************************)

StartRun ==
  /\ pc = "idle"
  /\ pc' = "test"
  /\ t' = 1
  /\ UNCHANGED <<clock, halted, maxClock, queue, loopbackQueue, queueStamp, loopbackStamp,
                 taken, work, worker, activeCount>>

\* The condition of the loop; the queue of loopbacks is not looked at.
Test ==
  /\ pc = "test"
  /\ pc' = IF ~halted /\ queue # EmptyHeap THEN "peek" ELSE "idle"
  /\ UNCHANGED <<clock, halted, maxClock, queue, loopbackQueue, queueStamp, loopbackStamp,
                 t, taken, work, worker, activeCount>>

IsDue(e) == e.time <= t

\* Dequeue(t): Count and TryPeek.
Peek ==
  /\ pc = "peek"
  /\ pc' = IF queue # EmptyHeap /\ IsDue(First(queue)) THEN "take" ELSE "launch"
  /\ UNCHANGED <<clock, halted, maxClock, queue, loopbackQueue, queueStamp, loopbackStamp,
                 t, taken, work, worker, activeCount>>

\* Dequeue(t): TryDequeue, which may find another event than TryPeek did.
Take ==
  /\ pc = "take"
  /\ queue # EmptyHeap
  /\ taken' = Append(taken, First(queue))
  /\ queue' = Remove(queue)
  /\ pc' = "peek"
  /\ UNCHANGED <<clock, halted, maxClock, loopbackQueue, queueStamp, loopbackStamp,
                 t, work, worker, activeCount>>

\* GroupBy(e => e.TargetId), which keeps the order within a group.
Group(g) ==
  LET upto[n \in 0..Len(taken)] ==
        IF n = 0 THEN <<>>
        ELSE IF taken[n].target = g THEN Append(upto[n - 1], taken[n]) ELSE upto[n - 1]
  IN  upto[Len(taken)]

\* The groups are counted before the first is queued; a worker that has been queued
\* later than another is one that begins later.
Launch ==
  /\ pc = "launch"
  /\ clock' = t
  /\ work' = [g \in Target |-> Group(g)]
  /\ worker' = [g \in Target |-> IF Group(g) # <<>> THEN "ready" ELSE "none"]
  /\ activeCount' = Cardinality({e.target : e \in Range(taken)})
  /\ taken' = <<>>
  /\ pc' = "wait"
  /\ UNCHANGED <<halted, maxClock, queue, loopbackQueue, queueStamp, loopbackStamp, t>>

NextTick ==
  /\ pc = "wait"
  /\ activeCount = 0
  /\ t' = t + 1
  /\ pc' = "test"
  /\ UNCHANGED <<clock, halted, maxClock, queue, loopbackQueue, queueStamp, loopbackStamp,
                 taken, work, worker, activeCount>>

-----------------------------------------------------------------------------
(***************************************************************************)
(* The worker of a group.                                                  *)
(***************************************************************************)

BeginHandle(g) ==
  /\ worker[g] = "ready"
  /\ work[g] # <<>>
  /\ worker' = [worker EXCEPT ![g] = "handling"]
  /\ UNCHANGED <<vars, t, taken, work, activeCount>>

EndHandle(g) ==
  /\ worker[g] = "handling"
  /\ work' = [work EXCEPT ![g] = Tail(@)]
  /\ worker' = [worker EXCEPT ![g] = "ready"]
  /\ UNCHANGED <<vars, t, taken, activeCount>>

\* Mutant of IsDone: the count goes down before the last event is handled.
IsDoneEarly(g) == worker[g] = "ready" /\ Len(work[g]) <= 1

IsDone(g) == worker[g] = "ready" /\ work[g] = <<>>

CountDown(g) ==
  /\ IsDone(g)
  /\ activeCount' = activeCount - 1
  /\ worker' = [worker EXCEPT ![g] = "none"]
  /\ UNCHANGED <<vars, t, taken, work>>

MainStep == Test \/ Peek \/ Take \/ Launch \/ NextTick
WorkerStep(g) == BeginHandle(g) \/ EndHandle(g) \/ CountDown(g)

ConcurrentNext ==
  \/ \E delay \in 0..MaxDelay, target \in Target : ConcurrentSchedule(delay, target)
  \/ \E target \in Target : ConcurrentLoopback(target)
  \/ ConcurrentHalt
  \/ Reset
  \/ StartRun
  \/ MainStep
  \/ \E g \in Target : WorkerStep(g)

ConcurrentSpec == ConcurrentInit /\ [][ConcurrentNext]_concurrentVars

-----------------------------------------------------------------------------
(***************************************************************************)
(* Properties.                                                             *)
(***************************************************************************)

ConcurrentTypeOK ==
  /\ clock \in Nat /\ t \in Nat
  /\ pc \in {"idle", "test", "peek", "take", "launch", "wait"}
  /\ DOMAIN queue = 0..(Count(queue) - 1)
  /\ worker \in [Target -> {"none", "ready", "handling"}]
  /\ activeCount = Cardinality({g \in Target : worker[g] # "none"})

\* In the array no event is earlier than its parent.
ConcurrentHeapOrdered ==
  \A h \in {queue, loopbackQueue} :
    \A i \in DOMAIN h \ {0} : h[Parent(i)].time <= h[i].time

\* The events of the groups that have been launched and are not handled yet.
Launched == UNION {Range(work[g]) : g \in Target}

Pending(n) ==
  \E e \in Items(queue) \union Range(taken) \union Launched : e.stamp = n

=============================================================================
