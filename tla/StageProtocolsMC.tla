-------------------------- MODULE StageProtocolsMC ---------------------------
(***************************************************************************)
(* The protocols that stand between the stages of shuffling, one of them   *)
(* in a behaviour, on the network that they share.                         *)
(*                                                                         *)
(* The barrier: three parties that start up to one tick apart with up to   *)
(* two rounds of work enter it in every order, with messages of early      *)
(* parties on the way while others still work.                             *)
(*                                                                         *)
(* Majority filtering: five members, two of them faulty, and a receiver.   *)
(* The tally begins when two values have come, so the faulty members may   *)
(* be heard first, send the same wrong value, two values or nothing, and   *)
(* be heard in any order with the others.  In some behaviours one of them  *)
(* may also tell a receiver to tally.                                      *)
(*                                                                         *)
(* A random number: four members, one of which may misbehave, share over   *)
(* the field of five elements with polynomials of degree 1.  Conducts says *)
(* in which ways that one may misbehave.                                   *)
(***************************************************************************)
EXTENDS LockStep, FiniteSets

CONSTANTS
  N, MaxSkew, MaxWork,                                        \* of the barrier
  Sender, Receiver, Faulty, Forging, Value, Agreed, NoValue,  \* of majority filtering
  Size, Prime, Polynomials, Misbehaving, Conducts             \* of the random number

VARIABLES
  protocol, stage, nopCount,
  startAt, work, peersCompleted,
  forging, senders, received, scheduledTally, result,
  conduct, polynomial, commitsRecv, combinedShare, numSharesRecv,
  scheduledReconst, reconstRecv, opened

ofBarrier == <<startAt, work, peersCompleted>>
ofMajority == <<forging, senders, received, scheduledTally, result>>
ofRandom == <<conduct, polynomial, commitsRecv, combinedShare, numSharesRecv,
              scheduledReconst, reconstRecv, opened>>
vars == <<clock, network, loopbacks, protocol, stage, nopCount, ofBarrier, ofMajority, ofRandom>>

S == INSTANCE Synchronization
M == INSTANCE MajorityFiltering
R == INSTANCE RandomGeneration

ASSUME BarrierAssumption == S!SynchronizationAssumption
ASSUME FilteringAssumption == M!MajorityAssumption
ASSUME RandomAssumption == R!RandomGenerationAssumption

MCPolynomials == {<<0, 2>>, <<3, 1>>}
MCConstants == {<<0>>, <<3>>}     \* of a quorum of one member

Nothing == <<>>
NoBarrier == startAt = Nothing /\ work = Nothing /\ peersCompleted = Nothing
NoMajority ==
  /\ forging = {} /\ senders = Nothing /\ received = Nothing
  /\ scheduledTally = Nothing /\ result = Nothing
NoRandom ==
  /\ conduct = "correct" /\ polynomial = Nothing /\ commitsRecv = Nothing
  /\ combinedShare = Nothing /\ numSharesRecv = Nothing /\ scheduledReconst = Nothing
  /\ reconstRecv = Nothing /\ opened = Nothing

Init ==
  \/ protocol = "barrier" /\ S!Init /\ NoMajority /\ NoRandom
  \/ protocol = "majority" /\ M!Init /\ NoBarrier /\ NoRandom
  \/ protocol = "random" /\ R!Init /\ NoBarrier /\ NoMajority /\ nopCount = Nothing

Next ==
  /\ \/ protocol = "barrier" /\ S!Next /\ UNCHANGED <<ofMajority, ofRandom>>
     \/ protocol = "majority" /\ M!Next /\ UNCHANGED <<ofBarrier, ofRandom>>
     \/ protocol = "random" /\ R!Next /\ UNCHANGED <<nopCount, ofBarrier, ofMajority>>
  /\ UNCHANGED protocol

\* Every party starts, and the simulator runs until its queues are empty.
FairSpec == Init /\ [][Next]_vars /\ WF_vars(Next)

-----------------------------------------------------------------------------

\* What most of the properties need: no faulty member sends a message that parties send
\* to themselves, and the member that misbehaves in random generation does so towards all
\* others.
PlainFaults ==
  /\ forging = {}
  /\ conduct \in {"correct", "uncommitted", "late", "silent"}

\* The assertion of Party.Receive: a message finds its protocol registered and not
\* completed, although parties enter the barrier one after the other, the tally begins
\* before every value may have been received, and random generation goes on when two
\* thirds of the members have dealt.
MessagesFindProtocol ==
  PlainFaults =>
    CASE protocol = "barrier" -> S!TypeOK /\ S!MessagesFindProtocol
      [] protocol = "majority" -> M!TypeOK /\ M!MessagesFindProtocol
      [] protocol = "random" -> R!TypeOK /\ R!MessagesFindProtocol

B == INSTANCE Barrier WITH
  Party <- S!Party,
  arrived <- IF protocol = "barrier" THEN S!Arrived ELSE {},
  left <- IF protocol = "barrier" THEN S!Left ELSE {}

\* Nobody leaves the barrier before the sub-protocols of everybody are completed.
ImplementsBarrier == B!Spec

\* Whatever values the faulty members send, a receiver that leaves has the agreed value; and
\* where one of them may make it tally before it has heard the others, it leaves without a
\* value rather than with another one.
MajorityWins ==
  protocol = "majority" =>
    /\ M!NoWrongValue
    /\ PlainFaults => M!MajorityWins

\* A receiver has the agreed value even then: of the message with which it ends its round,
\* if another sends it, the handler says that the sender seems to be cheating.  (It
\* tallies, and this does not hold.)
MajorityWinsOverForgers == protocol = "majority" => M!MajorityWins

\* A member that goes on from random generation has counted the share of every correct
\* member, "all" honest inputs of the round, however soon the others deal.
HonestDealersCounted == protocol = "random" /\ PlainFaults => R!HonestDealersCounted

\* Although a member goes on when two thirds of the quorum have dealt, it has counted every
\* correct member, and the random number that is opened is the sum of what these have
\* dealt; and all open the same, even if the member that misbehaves makes them count
\* different shares.
OpenedIsTheSum ==
  protocol = "random" =>
    /\ R!InField
    /\ HonestDealersCounted
    /\ PlainFaults => R!OpenedIsTheSum
    /\ R!OpenTheSame

\* In which tick a protocol is completed: the barrier in the one after that in which the
\* last party became done, the others two and three after the start.
IsLeavingTick(t) ==
  CASE protocol = "barrier" -> S!LeavingTick(t)
    [] protocol = "majority" -> t = 2
    [] protocol = "random" -> t = 3

\* All leave in one tick, so that the stages that follow start in lock step again, members
\* and receivers of a value alike.
LeaveTogether ==
  [][PlainFaults =>
       \A p \in DOMAIN stage :
         stage[p] # "completed" /\ stage'[p] = "completed" => IsLeavingTick(clock')]_vars

\* A member that is silent keeps the others from opening the number, and a message that
\* finds no protocol stops the program.
MayBlock == conduct \in {"silent", "hasty"} \/ forging # {} \/ ~M!HonestMajority

\* Everybody leaves in the end: no order of messages and no values that faulty members send
\* keep a party in a protocol; only the silence of a member does in reconstruction.
EverybodyLeaves == MayBlock \/ <>(\A p \in DOMAIN stage : stage[p] = "completed")

=============================================================================
