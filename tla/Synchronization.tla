-------------------------- MODULE Synchronization ---------------------------
(***************************************************************************)
(* SynchronizationProtocol.cs: the barrier that ends the evaluation of the *)
(* circuit.  A party runs its sub-protocols, tells everybody when they are *)
(* completed, and leaves when everybody has told it so.                    *)
(*                                                                         *)
(* The sub-protocols of a party are abstracted to how long they run:       *)
(* work[p] rounds of a NopProtocol.  With no round to run, a party either  *)
(* has no sub-protocol, and tells the others in Start, or has only some    *)
(* that complete in their own Start, and is told so by a loopback.         *)
(***************************************************************************)
EXTENDS LockStep, FiniteSets

CONSTANTS
  N,          \* the number of parties
  MaxSkew,    \* bound: the tick at which the last party starts
  MaxWork     \* bound: the rounds of the sub-protocols of a party

\* What the models that use this module assume.
SynchronizationAssumption ==
  /\ N \in Nat \ {0}
  /\ MaxSkew \in Nat
  /\ MaxWork \in Nat

Party == 1..N

VARIABLES
  startAt,          \* the tick at which a party starts its barrier
  work,             \* the rounds its sub-protocols take
  stage,            \* is the barrier of a party registered, is it completed?
  nopCount,         \* the rounds its sub-protocols have left
  peersCompleted    \* PeersCompleted

vars == <<clock, network, loopbacks, startAt, work, stage, nopCount, peersCompleted>>

Message == [at : Nat, from : Party, to : Party, body : {"nop", "nextRound"}]

TypeOK ==
  /\ clock \in Nat
  /\ network \in Seq(Message)
  /\ loopbacks \in Seq(Party)
  /\ startAt \in [Party -> 0..MaxSkew]
  /\ work \in [Party -> 0..MaxWork]
  /\ stage \in [Party -> {"unregistered", "registered", "completed"}]
  /\ nopCount \in [Party -> 0..MaxWork]
  /\ peersCompleted \in [Party -> SUBSET Party]

\* The callers start the barrier at different ticks only if their sub-protocols
\* are long enough: nobody is done before everybody has started.
Overlapping == \A p, q \in Party : startAt[q] <= startAt[p] + work[p]

Init ==
  /\ NetworkInit
  /\ startAt \in [Party -> 0..MaxSkew]
  /\ work \in [Party -> 0..MaxWork]
  /\ Overlapping
  /\ stage = [p \in Party |-> "unregistered"]
  /\ nopCount = [p \in Party |-> 0]
  /\ peersCompleted = [p \in Party |-> {}]

-----------------------------------------------------------------------------

Everybody == [i \in Party |-> i]

\* Mutant of NextRound: the party does not tell itself.
NextRoundToOthers(now, p) ==
  SelectSeq(Letters(now, p, Everybody, "nextRound"), LAMBDA m : m.to # p)

NextRound(now, p) == Letters(now, p, Everybody, "nextRound")

\* Mutant of Start: the party tells the others without waiting for its sub-protocols.
StartAnnouncing(p) ==
  /\ stage[p] = "unregistered"
  /\ IsTime(startAt[p])
  /\ \A q \in Party : stage[q] = "unregistered" => startAt[q] >= startAt[p]
  /\ clock' = startAt[p]
  /\ stage' = [stage EXCEPT ![p] = "registered"]
  /\ nopCount' = [nopCount EXCEPT ![p] = work[p]]
  /\ network' = network \o NextRound(startAt[p], p)
  /\ UNCHANGED <<startAt, work, peersCompleted, loopbacks>>

Start(p) ==
  /\ stage[p] = "unregistered"
  /\ IsTime(startAt[p])
  /\ \A q \in Party : stage[q] = "unregistered" => startAt[q] >= startAt[p]
  /\ clock' = startAt[p]
  /\ stage' = [stage EXCEPT ![p] = "registered"]
  /\ nopCount' = [nopCount EXCEPT ![p] = work[p]]
  /\ \/ /\ work[p] = 0
        /\ network' = network \o NextRound(startAt[p], p)
        /\ UNCHANGED loopbacks
     \/ /\ work[p] = 0
        /\ loopbacks' = Append(loopbacks, p)
        /\ UNCHANGED network
     \/ /\ work[p] > 0
        /\ network' = Append(network, Letter(startAt[p], p, p, "nop"))
        /\ UNCHANGED loopbacks
  /\ UNCHANGED <<startAt, work, peersCompleted>>

\* The message m is handled by a registered protocol; every party that starts before
\* the tick of m has started.
Handle(m, body) ==
  /\ m.body = body
  /\ stage[m.to] = "registered"
  /\ \A q \in Party : stage[q] = "unregistered" => startAt[q] >= m.at
  /\ clock' = m.at
  /\ UNCHANGED <<startAt, work>>

\* Mutant of NopRound: the completion is sent as a message.
NopRoundReported(p, now) ==
  LET left == nopCount[p] - 1
  IN  /\ nopCount' = [nopCount EXCEPT ![p] = left]
      /\ IF left <= 0
           THEN network' = Tail(network) \o NextRound(now + 1, p)
           ELSE network' = Append(Tail(network), Letter(now, p, p, "nop"))
      /\ UNCHANGED loopbacks

\* NopProtocol.HandleMessage, and the completion that the runtime reports.
NopRound(p, now) ==
  LET left == nopCount[p] - 1
  IN  /\ nopCount' = [nopCount EXCEPT ![p] = left]
      /\ IF left <= 0
           THEN /\ loopbacks' = Append(loopbacks, p)
                /\ network' = Tail(network)
           ELSE /\ network' = Append(Tail(network), Letter(now, p, p, "nop"))
                /\ UNCHANGED loopbacks

HandleNop ==
  \E m \in Due :
    /\ Handle(m, "nop")
    /\ NopRound(m.to, m.at)
    /\ UNCHANGED <<stage, peersCompleted>>

\* The sub-protocols of p are completed.
HandleSubProtocolCompleted ==
  /\ loopbacks # <<>>
  /\ loopbacks' = Tail(loopbacks)
  /\ network' = network \o NextRound(clock, Head(loopbacks))
  /\ UNCHANGED <<clock, startAt, work, stage, nopCount, peersCompleted>>

EnoughPeers(peers) == Cardinality(peers) = N

HandleNextRound ==
  \E m \in Due :
    LET peers == peersCompleted[m.to] \union {m.from}
    IN  /\ Handle(m, "nextRound")
        /\ peersCompleted' = [peersCompleted EXCEPT ![m.to] = peers]
        /\ stage' = IF EnoughPeers(peers)
                      THEN [stage EXCEPT ![m.to] = "completed"]
                      ELSE stage
        /\ network' = Tail(network)
        /\ UNCHANGED <<nopCount, loopbacks>>

Next ==
  \/ \E p \in Party : Start(p)
  \/ HandleNop
  \/ HandleSubProtocolCompleted
  \/ HandleNextRound

Spec == Init /\ [][Next]_vars

-----------------------------------------------------------------------------

\* The assertion of Party.Receive: the message whose turn it is finds its barrier
\* registered.  It does not if a party is told by a peer before it has started,
\* or is told again after it has left.
MessagesFindProtocol ==
  \A m \in {network[i] : i \in DOMAIN network} :
    /\ stage[m.to] # "completed"
    /\ stage[m.to] = "unregistered" => startAt[m.to] < m.at

Arrived == {p \in Party : stage[p] # "unregistered" /\ nopCount[p] = 0}
Left == {p \in Party : stage[p] = "completed"}

\* The tick after that in which the last party became done.
LeavingTick(t) ==
  /\ \A q \in Party : startAt[q] + work[q] < t
  /\ \E q \in Party : startAt[q] + work[q] + 1 = t

=============================================================================
