------------------------------- MODULE Party --------------------------------
(***************************************************************************)
(* The protocol runtime of one party (Party.cs), for arbitrary protocols.  *)
(*                                                                         *)
(* The simulator hands the party one message at a time.  Receive looks the *)
(* addressed protocol up and runs its HandleMessage; the handler may run   *)
(* ExecuteSubProtocols, which registers and starts every child (whose      *)
(* Start may do the same) and only then looks which children are already   *)
(* completed.  `stack` is the C# call stack of these calls, one frame for  *)
(* each protocol whose code is running, so that the order of the           *)
(* registrations, the completions and the messages they cause is the       *)
(* code's.  The result of a protocol is abstracted to its identity.        *)
(*                                                                         *)
(* The classes derived from Protocol are the environment.  What they are   *)
(* assumed to respect is in the guards of ExecuteSubProtocols and Complete *)
(* (the contract of a protocol) and of NetworkMessage (the contract of its *)
(* peers: they write to a protocol only while it is registered).           *)
(***************************************************************************)
EXTENDS Integers, Sequences, FiniteSets

CONSTANTS
  Proto,       \* the protocol identifiers
  Root,        \* the protocol the party itself registers when it starts
  NoProto,     \* "no such key" in the dictionary ParentProtocols
  MaxBatch,    \* bound: children of one call of ExecuteSubProtocols
  MaxPending   \* bound: undelivered completion messages of a launching protocol

ASSUME ConstantsAssumption ==
  /\ IsFiniteSet(Proto)
  /\ Root \in Proto
  /\ NoProto \notin Proto
  /\ MaxBatch \in Nat
  /\ MaxPending \in Nat

VARIABLES
  started,       \* has NetSimulator.Run called Start of the party?
  registered,    \* the keys of RegisteredProtocols
  isCompleted,   \* the registered protocols whose IsCompleted is true
  parentOf,      \* ParentProtocols
  outstanding,   \* ChildProtocolOutstandingCount
  completedMsg,  \* ChildProtocolCompletedMsg: the children with a result
  submission,    \* ChildProtocolSubmissionOrder
  loopbacks,     \* the simulator's loopback queue
  stack          \* the running calls, the innermost one last

tables == <<registered, isCompleted, parentOf, outstanding, completedMsg, submission>>
vars == <<started, tables, loopbacks, stack>>

\* Protocol code that runs because of an entry: "start" (Start) or "handle"
\* (HandleMessage called by Receive).  Inside ExecuteSubProtocols `toStart` and
\* `toCheck` are what its two loops have left to do.
Frame == [proto : Proto, entry : {"start", "handle"},
          toStart : Seq(Proto), toCheck : Seq(Proto)]

Completion == [to : Proto, result : SUBSET Proto, order : Seq(Proto)]

TypeOK ==
  /\ started \in BOOLEAN
  /\ registered \in SUBSET Proto
  /\ isCompleted \in SUBSET registered
  /\ parentOf \in [Proto -> Proto \union {NoProto}]
  /\ outstanding \in [Proto -> Nat]
  /\ completedMsg \in [Proto -> SUBSET Proto]
  /\ submission \in [Proto -> Seq(Proto)]
  /\ loopbacks \in Seq(Completion)
  /\ stack \in Seq(Frame)

-----------------------------------------------------------------------------

Elements(s) == {s[i] : i \in DOMAIN s}
Distinct(s) == \A i, j \in DOMAIN s : s[i] = s[j] => i = j

Children(p) == {c \in Proto : parentOf[c] = p}

Depth == Len(stack)
Top == stack[Depth]

\* The innermost code runs a protocol and is not inside ExecuteSubProtocols.
Running(p) ==
  /\ stack # <<>>
  /\ Top.proto = p
  /\ Top.toStart = <<>>
  /\ Top.toCheck = <<>>

NewFrame(p, entry) ==
  [proto |-> p, entry |-> entry, toStart |-> <<>>, toCheck |-> <<>>]

Pending(p) == {i \in DOMAIN loopbacks : loopbacks[i].to = p}

Init ==
  /\ started = FALSE
  /\ registered = {}
  /\ isCompleted = {}
  /\ parentOf = [p \in Proto |-> NoProto]
  /\ outstanding = [p \in Proto |-> 0]
  /\ completedMsg = [p \in Proto |-> {}]
  /\ submission = [p \in Proto |-> <<>>]
  /\ loopbacks = <<>>
  /\ stack = <<>>

-----------------------------------------------------------------------------
(***************************************************************************)
(* RegisterProtocol and CheckCompleted.                                    *)
(***************************************************************************)

\* Mutant of RegisterChild: the last submitted child comes first.
RegisterChildInFront(p, c) ==
  /\ registered' = registered \union {c}
  /\ parentOf' = [parentOf EXCEPT ![c] = p]
  /\ outstanding' = [[outstanding EXCEPT ![c] = 0] EXCEPT ![p] = @ + 1]
  /\ submission' = [submission EXCEPT ![p] = <<c>> \o @]
  /\ UNCHANGED <<isCompleted, completedMsg, loopbacks>>

RegisterChild(p, c) ==
  /\ registered' = registered \union {c}
  /\ parentOf' = [parentOf EXCEPT ![c] = p]
  /\ outstanding' = [[outstanding EXCEPT ![c] = 0] EXCEPT ![p] = @ + 1]
  /\ submission' = [submission EXCEPT ![p] = Append(@, c)]
  /\ UNCHANGED <<isCompleted, completedMsg, loopbacks>>

RegisterRoot ==
  /\ registered' = registered \union {Root}
  /\ outstanding' = [outstanding EXCEPT ![Root] = 0]
  /\ UNCHANGED <<isCompleted, parentOf, completedMsg, submission, loopbacks>>

\* Mutant of ForgetParent: the entry of ParentProtocols stays.
KeepParent(c) == UNCHANGED parentOf

ForgetParent(c) == parentOf' = [parentOf EXCEPT ![c] = NoProto]

\* Mutant of PostCompletion: the submission order outlives its batch.
PostKeepingOrder(p, result) ==
  /\ loopbacks' = Append(loopbacks, [to |-> p, result |-> result, order |-> submission[p]])
  /\ completedMsg' = [completedMsg EXCEPT ![p] = {}]
  /\ UNCHANGED submission

PostCompletion(p, result) ==
  /\ loopbacks' = Append(loopbacks, [to |-> p, result |-> result, order |-> submission[p]])
  /\ completedMsg' = [completedMsg EXCEPT ![p] = {}]
  /\ submission' = [submission EXCEPT ![p] = <<>>]

\* The result goes to the parent's table; the child that leaves none outstanding
\* hands the table over to a completion message.
ReportCompletion(c) ==
  LET p == parentOf[c]
      result == completedMsg[p] \union {c}
      left == outstanding[p] - 1
  IN  /\ ForgetParent(c)
      /\ outstanding' = [outstanding EXCEPT ![p] = left]
      /\ IF left > 0
           THEN /\ completedMsg' = [completedMsg EXCEPT ![p] = result]
                /\ UNCHANGED <<submission, loopbacks>>
           ELSE PostCompletion(p, result)

\* Mutant of CheckCompleted: a child counts as completed once it was started.
CheckCompletedAlways(c) ==
  /\ registered' = registered \ {c}
  /\ isCompleted' = isCompleted \ {c}
  /\ IF parentOf[c] = NoProto
       THEN UNCHANGED <<parentOf, outstanding, completedMsg, submission, loopbacks>>
       ELSE ReportCompletion(c)

CheckCompleted(c) ==
  IF c \notin isCompleted
    THEN UNCHANGED <<tables, loopbacks>>
    ELSE /\ registered' = registered \ {c}
         /\ isCompleted' = isCompleted \ {c}
         /\ IF parentOf[c] = NoProto
              THEN UNCHANGED <<parentOf, outstanding, completedMsg, submission, loopbacks>>
              ELSE ReportCompletion(c)

-----------------------------------------------------------------------------
(***************************************************************************)
(* What the simulator calls: Start of the party, and Receive.              *)
(***************************************************************************)

Start ==
  /\ ~started
  /\ started' = TRUE
  /\ RegisterRoot
  /\ stack' = <<NewFrame(Root, "start")>>

Receive(p) ==
  /\ stack = <<>>
  /\ stack' = <<NewFrame(p, "handle")>>
  /\ UNCHANGED <<started, tables>>

\* Mutant of LoopbackMessage: the newest message is taken first.
LoopbackNewestFirst ==
  /\ loopbacks # <<>>
  /\ Receive(loopbacks[Len(loopbacks)].to)
  /\ loopbacks' = SubSeq(loopbacks, 1, Len(loopbacks) - 1)

\* The simulator drains the loopback queue before any message of the network.
LoopbackMessage ==
  /\ loopbacks # <<>>
  /\ Receive(Head(loopbacks).to)
  /\ loopbacks' = Tail(loopbacks)

NetworkMessage(p) ==
  /\ loopbacks = <<>>
  /\ p \in registered
  /\ Receive(p)
  /\ UNCHANGED loopbacks

-----------------------------------------------------------------------------
(***************************************************************************)
(* What running code does.                                                 *)
(***************************************************************************)

\* Mutant of Unused: an identifier may be handed out while its protocol runs.
UnusedOutsideTable(c) ==
  /\ \A i \in DOMAIN stack : c \notin Elements(stack[i].toStart)
  /\ \A p \in Proto : c \notin completedMsg[p]

\* An identifier that no constructed protocol of this party has, and that is
\* not the key of a result still waiting to be reported.
Unused(c) ==
  /\ c \notin registered
  /\ \A i \in DOMAIN stack : c \notin Elements(stack[i].toStart)
  /\ \A p \in Proto : c \notin completedMsg[p]

Batches(S) ==
  {s \in UNION {[1..n -> S] : n \in 1..MaxBatch} : Distinct(s)}

ExecuteSubProtocols(p) ==
  /\ Running(p)
  /\ p \notin isCompleted
  /\ Cardinality(Pending(p)) < MaxPending
  /\ \E kids \in Batches({c \in Proto : Unused(c)}) :
       stack' = [stack EXCEPT ![Depth] =
                   [@ EXCEPT !.toStart = kids, !.toCheck = kids]]
  /\ UNCHANGED <<started, tables, loopbacks>>

StartChild ==
  /\ stack # <<>>
  /\ Top.toStart # <<>>
  /\ RegisterChild(Top.proto, Head(Top.toStart))
  /\ stack' = Append([stack EXCEPT ![Depth].toStart = Tail(@)],
                     NewFrame(Head(Top.toStart), "start"))
  /\ UNCHANGED started

\* Mutant of CheckChild: a child is looked at as soon as it was started.
CheckChildAtOnce ==
  /\ stack # <<>>
  /\ Len(Top.toCheck) > Len(Top.toStart)
  /\ CheckCompleted(Head(Top.toCheck))
  /\ stack' = [stack EXCEPT ![Depth].toCheck = Tail(@)]
  /\ UNCHANGED started

CheckChild ==
  /\ stack # <<>>
  /\ Top.toStart = <<>>
  /\ Top.toCheck # <<>>
  /\ CheckCompleted(Head(Top.toCheck))
  /\ stack' = [stack EXCEPT ![Depth].toCheck = Tail(@)]
  /\ UNCHANGED started

\* A protocol sets IsCompleted only when it waits for no child and for no
\* completion message.
Complete(p) ==
  /\ Running(p)
  /\ p \notin isCompleted
  /\ Children(p) = {}
  /\ Pending(p) = {}
  /\ isCompleted' = isCompleted \union {p}
  /\ UNCHANGED <<started, registered, parentOf, outstanding, completedMsg,
                 submission, loopbacks, stack>>

\* Mutant of Return: nobody looks at a protocol after its handler.
ReturnUnchecked(p) ==
  /\ Running(p)
  /\ stack' = SubSeq(stack, 1, Depth - 1)
  /\ UNCHANGED <<started, tables, loopbacks>>

Return(p) ==
  /\ Running(p)
  /\ stack' = SubSeq(stack, 1, Depth - 1)
  /\ IF Top.entry = "handle"
       THEN CheckCompleted(p)
       ELSE UNCHANGED <<tables, loopbacks>>
  /\ UNCHANGED started

Next ==
  \/ Start
  \/ LoopbackMessage
  \/ StartChild
  \/ CheckChild
  \/ \E p \in Proto :
       \/ NetworkMessage(p)
       \/ ExecuteSubProtocols(p)
       \/ Complete(p)
       \/ Return(p)

Spec == Init /\ [][Next]_vars

(***************************************************************************)
(* Fairness.  The simulator's loop runs until both queues are empty, the   *)
(* loops of ExecuteSubProtocols run to their end, and every handler        *)
(* returns (SF, because a handler may launch batches before it does).      *)
(* Nothing says that a protocol completes or that a peer ever writes.      *)
(***************************************************************************)
Fairness ==
  /\ WF_vars(LoopbackMessage)
  /\ WF_vars(StartChild)
  /\ WF_vars(CheckChild)
  /\ \A p \in Proto : SF_vars(Return(p))

FairSpec == Spec /\ Fairness

-----------------------------------------------------------------------------
(***************************************************************************)
(* Properties.                                                             *)
(***************************************************************************)

\* Every dictionary lookup and assertion of the runtime succeeds: a completion
\* message finds its addressee registered (Receive), a child is registered under
\* a registered parent and under a fresh key (RegisterProtocol), and a completed
\* child finds its parent still registered (CheckCompleted).
LookupsSucceed ==
  /\ \A i \in DOMAIN loopbacks : loopbacks[i].to \in registered
  /\ \A i \in DOMAIN stack :
       /\ stack[i].proto \in registered
       /\ Elements(stack[i].toStart) \intersect registered = {}
  /\ \A c \in registered : parentOf[c] # NoProto => parentOf[c] \in registered

\* The counter that decides when a parent is told is the number of its children
\* that are registered, so it cannot reach zero early, or stay above it.
OutstandingIsLive ==
  \A p \in registered : outstanding[p] = Cardinality(Children(p))

\* ResultList of a completion message finds a result for every submitted child,
\* in submission order, and no result is left over: the submission order and the
\* table of results, two dictionaries filled at different times, agree.
CompletionsMatch ==
  \A i \in DOMAIN loopbacks :
    LET m == loopbacks[i]
    IN  /\ Elements(m.order) = m.result
        /\ Cardinality(m.result) = Len(m.order)

\* One call of ExecuteSubProtocols is answered by one message: none is posted to
\* a protocol while it still has children of the call to start, or to look at
\* after the one that caused the message, even if the first children of the call
\* complete in their Start.
OneMessagePerLaunch ==
  [][Len(loopbacks') > Len(loopbacks) =>
       \A i \in DOMAIN stack :
         stack[i].proto = loopbacks'[Len(loopbacks')].to =>
           stack[i].toStart = <<>> /\ Len(stack[i].toCheck) = 1]_vars

\* The runtime implements fork/join: every registration is a fork, every reported
\* completion a finish, every completion message a join.
FJ == INSTANCE ForkJoin WITH
  batch <- submission,
  live <- [p \in Proto |-> Children(p)],
  joins <- [i \in DOMAIN loopbacks |->
              [to |-> loopbacks[i].to, order |-> loopbacks[i].order]]

ImplementsForkJoin == FJ!Spec

\* A posted completion message is delivered.
JoinDelivered ==
  \A p \in Proto :
    Pending(p) # {} ~>
      (stack # <<>> /\ stack[1].proto = p /\ stack[1].entry = "handle")

\* A child that sets IsCompleted, in Start or in a handler, is noticed: it leaves
\* the table without another message having to arrive for it.
CompletionNoticed ==
  \A c \in Proto \ {Root} : c \in isCompleted ~> c \notin registered


=============================================================================
