------------------------- MODULE MajorityFiltering --------------------------
(***************************************************************************)
(* MajorityFilteringProtocol.cs: the members of a quorum send the value    *)
(* they agreed on to the parties outside of it, each of which takes the    *)
(* value that a majority of the members sent.  A member that is not a      *)
(* receiver runs two no-op rounds, to leave when the receivers do.         *)
(*                                                                         *)
(* A faulty member may send a receiver a wrong value, two values, or       *)
(* none, all of it in the tick in which the members start.  In some        *)
(* behaviours it may also send the message that makes a receiver tally,    *)
(* which receivers send to themselves.  The receivers may be registered earlier, *)
(* as the parties outside of the first quorum are, which wait for the      *)
(* random value from the beginning.                                        *)
(***************************************************************************)
EXTENDS LockStep, Integers, FiniteSets, SequencesExt

CONSTANTS
  Sender,      \* the members of the quorum
  Receiver,    \* the parties outside of it
  Faulty,      \* the members that are faulty
  Forging,     \* those that in some behaviours may tell a receiver to tally
  Value,       \* the values a member may send
  Agreed,      \* the value the members agreed on
  NoValue      \* null

\* What the models that use this module assume.
MajorityAssumption ==
  /\ IsFiniteSet(Sender) /\ IsFiniteSet(Receiver)
  /\ Sender \intersect Receiver = {}
  /\ Faulty \subseteq Sender
  /\ Forging \subseteq Faulty
  /\ Agreed \in Value
  /\ NoValue \notin Value
  /\ {"nop", "nextRound"} \intersect Value = {}     \* the types of messages differ

Party == Sender \union Receiver

VARIABLES
  forging,         \* the members that may tell a receiver to tally in this behaviour
  stage,           \* is the protocol of a party registered, is it completed?
  nopCount,        \* the no-op rounds a member has left
  senders,         \* Senders of a receiver: those it has not heard
  received,        \* Received of a receiver
  scheduledTally,  \* scheduledTally of a receiver
  result           \* Result of a receiver

vars == <<clock, network, loopbacks, stage, nopCount, senders, received,
          scheduledTally, result, forging>>

Message == [at : Nat, from : Party, to : Party,
            body : Value \union {"nop", "nextRound"}]

TypeOK ==
  /\ clock \in Nat
  /\ network \in Seq(Message)
  /\ loopbacks \in Seq(Sender)
  /\ stage \in [Party -> {"unregistered", "registered", "completed"}]
  /\ nopCount \in [Sender -> 0..2]
  /\ senders \in [Receiver -> SUBSET Sender]
  /\ received \in [Receiver -> Seq(Value)]
  /\ \A r \in Receiver : Len(received[r]) + Cardinality(senders[r]) = Cardinality(Sender)
  /\ scheduledTally \in [Receiver -> BOOLEAN]
  /\ result \in [Receiver -> Value \union {NoValue}]

Init ==
  /\ NetworkInit
  /\ forging \in {{}, Forging}
  /\ stage = [p \in Party |-> "unregistered"]
  /\ nopCount = [s \in Sender |-> 0]
  /\ senders = [r \in Receiver |-> Sender]
  /\ received = [r \in Receiver |-> <<>>]
  /\ scheduledTally = [r \in Receiver |-> FALSE]
  /\ result = [r \in Receiver |-> NoValue]

-----------------------------------------------------------------------------
(***************************************************************************)
(* The start, at tick 0 in any order.                                      *)
(***************************************************************************)

\* The messages that a faulty member may send.
Bodies(s) == Value \union {b \in {"nextRound"} : s \in forging}

\* What a member may send to the receivers: to each the agreed value, or if it is
\* faulty up to two messages.
Sendings(s) ==
  IF s \in Faulty
    THEN [Receiver -> {<<>>} \union {<<v>> : v \in Bodies(s)}
                             \union {<<v, w>> : v, w \in Bodies(s)}]
    ELSE [Receiver -> {<<Agreed>>}]

Outgoing(s, values) ==
  FlattenSeq([i \in 1..Cardinality(Receiver) |->
    LET r == SetToSeq(Receiver)[i]
    IN  [k \in DOMAIN values[r] |-> Letter(0, s, r, values[r][k])]])

NopRounds == 2

StartSender(s) ==
  /\ stage[s] = "unregistered"
  /\ IsTime(0)
  /\ \E values \in Sendings(s) :
       network' = Append(network \o Outgoing(s, values), Letter(0, s, s, "nop"))
  /\ nopCount' = [nopCount EXCEPT ![s] = NopRounds]
  /\ stage' = [stage EXCEPT ![s] = "registered"]
  /\ UNCHANGED <<clock, loopbacks, senders, received, scheduledTally, result>>

StartReceiver(r) ==
  /\ stage[r] = "unregistered"
  /\ IsTime(0)
  /\ stage' = [stage EXCEPT ![r] = "registered"]
  /\ UNCHANGED <<clock, network, loopbacks, nopCount, senders, received,
                 scheduledTally, result>>

-----------------------------------------------------------------------------
(***************************************************************************)
(* The handlers.                                                           *)
(***************************************************************************)

Handle(m) ==
  /\ stage[m.to] = "registered"
  /\ \A p \in Party : stage[p] # "unregistered"
  /\ clock' = m.at

\* Only the first value of a sender counts.
Accept(r, m) ==
  IF m.from \in senders[r]
    THEN /\ senders' = [senders EXCEPT ![r] = @ \ {m.from}]
         /\ received' = [received EXCEPT ![r] = Append(@, m.body)]
    ELSE UNCHANGED <<senders, received>>

\* Received.Count >= Math.Ceiling(2.0 * Senders.Count / 3.0), where Senders is what
\* is left of the list.
EnoughReceived(count, left) == 3 * count >= 2 * left

\* Mutant of ScheduleTally: the flag is not looked at.
ScheduleTallyAgain(r, m) ==
  IF EnoughReceived(Len(received'[r]), Cardinality(senders'[r]))
    THEN /\ network' = Append(Tail(network), Letter(m.at, r, r, "nextRound"))
         /\ scheduledTally' = [scheduledTally EXCEPT ![r] = TRUE]
    ELSE /\ network' = Tail(network)
         /\ UNCHANGED scheduledTally

ScheduleTally(r, m) ==
  IF /\ EnoughReceived(Len(received'[r]), Cardinality(senders'[r]))
     /\ ~scheduledTally[r]
    THEN /\ network' = Append(Tail(network), Letter(m.at, r, r, "nextRound"))
         /\ scheduledTally' = [scheduledTally EXCEPT ![r] = TRUE]
    ELSE /\ network' = Tail(network)
         /\ UNCHANGED scheduledTally

HandleBasic ==
  \E m \in Due :
    /\ Handle(m)
    /\ m.body \in Value
    /\ Accept(m.to, m)
    /\ ScheduleTally(m.to, m)
    /\ UNCHANGED <<loopbacks, stage, nopCount, result>>

\* Mutant of MajorityThreshold: half of the members decide.
ThresholdWithoutMajority == Cardinality(Sender) \div 2

\* majorityThreshold, computed from the list before anybody is removed from it.
MajorityThreshold == Cardinality(Sender) \div 2 + 1

\* The positions in Received at which a value reaches the threshold.
Decided(r) ==
  {i \in DOMAIN received[r] :
     Cardinality({j \in 1..i : received[r][j] = received[r][i]}) >= MajorityThreshold}

\* performTally takes the first value to reach the threshold.
Tally(r) == IF Decided(r) = {} THEN NoValue ELSE received[r][Min(Decided(r))]

\* Whoever has sent it: a message of another party is reported, and tallied on all the
\* same.
HandleNextRound ==
  \E m \in Due :
    /\ Handle(m)
    /\ m.body = "nextRound"
    /\ result' = [result EXCEPT ![m.to] = Tally(m.to)]
    /\ stage' = [stage EXCEPT ![m.to] = "completed"]
    /\ network' = Tail(network)
    /\ UNCHANGED <<loopbacks, nopCount, senders, received, scheduledTally>>

\* NopProtocol.HandleMessage.
HandleNop ==
  \E m \in Due :
    LET left == nopCount[m.to] - 1
    IN  /\ Handle(m)
        /\ m.body = "nop"
        /\ nopCount' = [nopCount EXCEPT ![m.to] = left]
        /\ IF left <= 0
             THEN /\ loopbacks' = Append(loopbacks, m.to)
                  /\ network' = Tail(network)
             ELSE /\ network' = Append(Tail(network), Letter(m.at, m.to, m.to, "nop"))
                  /\ UNCHANGED loopbacks
        /\ UNCHANGED <<stage, senders, received, scheduledTally, result>>

HandleSubProtocolCompleted ==
  /\ loopbacks # <<>>
  /\ loopbacks' = Tail(loopbacks)
  /\ stage' = [stage EXCEPT ![Head(loopbacks)] = "completed"]
  /\ UNCHANGED <<clock, network, nopCount, senders, received, scheduledTally, result>>

Next ==
  /\ \/ \E s \in Sender : StartSender(s)
     \/ \E r \in Receiver : StartReceiver(r)
     \/ HandleBasic
     \/ HandleNextRound
     \/ HandleNop
     \/ HandleSubProtocolCompleted
  /\ UNCHANGED forging

Spec == Init /\ [][Next]_vars

-----------------------------------------------------------------------------

HonestMajority == 2 * Cardinality(Sender \ Faulty) > Cardinality(Sender)

\* The assertion of Party.Receive: no message is on its way to a protocol that has
\* left, although the tally begins before every value may have been received, if nobody
\* is forging.
MessagesFindProtocol ==
  \A i \in DOMAIN network : stage[network[i].to] # "completed"

\* Whatever values the faulty members send, a receiver that leaves has the agreed value,
\* if nobody is forging.
MajorityWins ==
  HonestMajority =>
    \A r \in Receiver : stage[r] = "completed" => result[r] = Agreed

\* Even if the faulty members make a receiver tally before it has heard the others, it
\* leaves without a value rather than with another one.
NoWrongValue ==
  HonestMajority =>
    \A r \in Receiver : stage[r] = "completed" => result[r] \in {Agreed, NoValue}

=============================================================================
