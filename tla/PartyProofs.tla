---------------------------- MODULE PartyProofs -----------------------------
(***************************************************************************)
(* Theorems about the runtime of a party, for every set of protocols and   *)
(* every bound, and about the identifiers of its protocols.                *)
(***************************************************************************)
EXTENDS Party, ProtocolIdentifiers, FiniteSetTheorems, TLAPS

(***************************************************************************)
(* The inductive invariant.                                                *)
(***************************************************************************)

IdleBeforeStart == ~started => registered = {} /\ stack = <<>>

\* ParentProtocols: only registered protocols have a parent, and the parent of one
\* is registered and not completed.
TreeInv ==
  \A c \in Proto : parentOf[c] # NoProto =>
    c \in registered /\ parentOf[c] \in registered \ isCompleted

CountInv == \A p \in Proto : outstanding[p] = Cardinality(Children(p))

\* Each submitted child is registered or has a result, and an idle protocol has
\* no submission left.
BatchOf(p) ==
  /\ Elements(submission[p]) = Children(p) \union completedMsg[p]
  /\ Children(p) \intersect completedMsg[p] = {}
  /\ Distinct(submission[p])
  /\ Children(p) = {} => submission[p] = <<>>

BatchInv == \A p \in Proto : BatchOf(p)

LoopInv ==
  \A i \in DOMAIN loopbacks :
    LET m == loopbacks[i]
    IN  /\ m.to \in registered \ isCompleted
        /\ Elements(m.order) = m.result
        /\ Distinct(m.order)

\* One call on the stack: the children it has to start are fresh, and those it has
\* to look at are its own.
FrameInv(f) ==
  /\ f.proto \in registered
  /\ f.proto \notin Elements(f.toCheck)
  /\ f.toStart # <<>> => f.proto \notin isCompleted
  /\ Distinct(f.toStart) /\ Distinct(f.toCheck)
  /\ Elements(f.toStart) \subseteq Elements(f.toCheck)
  /\ \A k \in Elements(f.toStart) :
       k \notin registered /\ \A p \in Proto : k \notin completedMsg[p]
  /\ \A k \in Elements(f.toCheck) \ Elements(f.toStart) :
       k \in registered /\ parentOf[k] = f.proto

\* A call and one that it encloses.
NestingInv(f, g) ==
  /\ f.proto # g.proto
  /\ f.proto \notin Elements(g.toCheck)
  /\ Elements(f.toCheck) \intersect Elements(g.toCheck) = {}
  /\ g.entry = "start"

StackInv ==
  \A i \in DOMAIN stack :
    /\ FrameInv(stack[i])
    /\ \A j \in DOMAIN stack : i < j => NestingInv(stack[i], stack[j])

IInv ==
  /\ TypeOK
  /\ IdleBeforeStart
  /\ TreeInv
  /\ CountInv
  /\ BatchInv
  /\ LoopInv
  /\ StackInv

-----------------------------------------------------------------------------
(***************************************************************************)
(* Sequences without repetition, and finite sets.                          *)
(***************************************************************************)

LEMMA AppendOne ==
  ASSUME NEW S, NEW s \in Seq(S), NEW x \in S
  PROVE  /\ Append(s, x) \in Seq(S)
         /\ Elements(Append(s, x)) = Elements(s) \union {x}
         /\ Distinct(s) /\ x \notin Elements(s) => Distinct(Append(s, x))
<1>1. /\ Append(s, x) \in Seq(S) /\ Len(s) \in Nat
      /\ DOMAIN s = 1..Len(s) /\ DOMAIN Append(s, x) = 1..(Len(s) + 1)
      /\ Append(s, x)[Len(s) + 1] = x
      /\ \A i \in 1..Len(s) : Append(s, x)[i] = s[i]
  OBVIOUS
<1>2. \A i \in 1..(Len(s) + 1) : i = Len(s) + 1 \/ i \in 1..Len(s)
  BY <1>1
<1>3. Elements(Append(s, x)) = Elements(s) \union {x}
  <2>1. \A i \in 1..Len(s) : i \in 1..(Len(s) + 1)
    BY <1>1
  <2>2. Len(s) + 1 \in 1..(Len(s) + 1)
    BY <1>1
  <2>3. QED
    BY <1>1, <1>2, <2>1, <2>2 DEF Elements
<1>4. ASSUME Distinct(s), x \notin Elements(s) PROVE Distinct(Append(s, x))
  BY <1>1, <1>2, <1>4 DEF Elements, Distinct
<1>5. QED
  BY <1>1, <1>3, <1>4

\* Taking the head of a sequence without repetition leaves the rest, without it.
LEMMA TakeHead ==
  ASSUME NEW S, NEW s \in Seq(S), s # <<>>
  PROVE  /\ Head(s) \in S
         /\ Tail(s) \in Seq(S)
         /\ Elements(s) = {Head(s)} \union Elements(Tail(s))
         /\ Distinct(s) => Distinct(Tail(s)) /\ Head(s) \notin Elements(Tail(s))
<1>1. /\ Head(s) \in S /\ Tail(s) \in Seq(S) /\ Len(Tail(s)) = Len(s) - 1
      /\ Head(s) = s[1] /\ Len(s) \in Nat \ {0}
      /\ \A i \in 1..(Len(s) - 1) : Tail(s)[i] = s[i + 1]
  OBVIOUS
<1>2. Elements(s) \subseteq {Head(s)} \union Elements(Tail(s))
  <2> SUFFICES ASSUME NEW i \in DOMAIN s, i # 1 PROVE s[i] \in Elements(Tail(s))
    BY <1>1 DEF Elements
  <2>1. i - 1 \in DOMAIN Tail(s) /\ Tail(s)[i - 1] = s[i]
    BY <1>1
  <2>2. QED
    BY <2>1 DEF Elements
<1>3. {Head(s)} \union Elements(Tail(s)) \subseteq Elements(s)
  BY <1>1 DEF Elements
<1>4. ASSUME Distinct(s)
      PROVE  Distinct(Tail(s)) /\ Head(s) \notin Elements(Tail(s))
  <2>1. \A i \in DOMAIN Tail(s) : i + 1 \in DOMAIN s /\ Tail(s)[i] = s[i + 1] /\ i + 1 # 1
    BY <1>1
  <2>2. 1 \in DOMAIN s /\ \A i, j \in DOMAIN Tail(s) : i + 1 = j + 1 => i = j
    BY <1>1
  <2>3. QED
    BY <1>1, <1>4, <2>1, <2>2 DEF Elements, Distinct
<1>5. QED
  BY <1>1, <1>2, <1>3, <1>4

\* The empty sequence has no elements and no repetition.
LEMMA EmptyElements ==
  /\ Elements(<<>>) = {}
  /\ Distinct(<<>>)
BY DEF Elements, Distinct

\* A sequence without repetition is as long as its set of elements is large.
LEMMA DistinctLength ==
  ASSUME NEW S, NEW s \in Seq(S), Distinct(s)
  PROVE  Cardinality(Elements(s)) = Len(s)
<1>1. s \in Bijection(1..Len(s), Elements(s))
  BY DEF Elements, Distinct, Bijection, Injection, Surjection, IsInjective
<1>2. QED
  BY <1>1, FS_CountingElements DEF ExistsBijection

\* The children of a protocol are a finite set.
LEMMA FiniteChildren ==
  ASSUME NEW p
  PROVE  /\ IsFiniteSet(Children(p))
         /\ Cardinality(Children(p)) \in Nat
         /\ Cardinality(Children(p)) = 0 <=> Children(p) = {}
<1>1. IsFiniteSet(Children(p))
  BY FS_Subset, ConstantsAssumption DEF Children
<1>2. QED
  BY <1>1, FS_CardinalityType, FS_EmptySet

-----------------------------------------------------------------------------
(***************************************************************************)
(* The tables of the party: what registering a child and noticing a        *)
(* completed protocol do to them.                                          *)
(***************************************************************************)

TableTypes ==
  /\ registered \in SUBSET Proto
  /\ isCompleted \in SUBSET registered
  /\ parentOf \in [Proto -> Proto \union {NoProto}]
  /\ outstanding \in [Proto -> Nat]
  /\ completedMsg \in [Proto -> SUBSET Proto]
  /\ submission \in [Proto -> Seq(Proto)]
  /\ loopbacks \in Seq(Completion)

TablesInv == TableTypes /\ TreeInv /\ CountInv /\ BatchInv /\ LoopInv

\* RegisterProtocol of a fresh child keeps the dictionaries in agreement.
LEMMA RegisterChildKeepsTables ==
  ASSUME TablesInv,
         NEW p \in registered \ isCompleted,
         NEW c \in Proto \ registered,
         \A q \in Proto : c \notin completedMsg[q],
         RegisterChild(p, c)
  PROVE  TablesInv'
<1> USE DEF TablesInv, TableTypes
<1>1. p \in Proto /\ p # c /\ p # NoProto /\ parentOf[c] = NoProto
  BY ConstantsAssumption DEF TreeInv
<1>2. /\ registered' = registered \union {c}
      /\ UNCHANGED <<isCompleted, completedMsg, loopbacks>>
      /\ parentOf'[c] = p /\ \A x \in Proto \ {c} : parentOf'[x] = parentOf[x]
      /\ outstanding'[c] = 0 /\ outstanding'[p] = outstanding[p] + 1
      /\ \A q \in Proto \ {c, p} : outstanding'[q] = outstanding[q]
      /\ submission'[p] = Append(submission[p], c)
      /\ \A q \in Proto \ {p} : submission'[q] = submission[q]
  BY <1>1 DEF RegisterChild
<1>3. TableTypes'
  <2>1. parentOf' \in [Proto -> Proto \union {NoProto}]
    BY <1>1 DEF RegisterChild
  <2>2. outstanding' \in [Proto -> Nat]
    <3>1. [outstanding EXCEPT ![c] = 0] \in [Proto -> Nat]
      OBVIOUS
    <3>2. \A f \in [Proto -> Nat] : [f EXCEPT ![p] = @ + 1] \in [Proto -> Nat]
      BY <1>1
    <3>3. QED
      BY <3>1, <3>2 DEF RegisterChild
  <2>3. submission' \in [Proto -> Seq(Proto)]
    BY <1>1 DEF RegisterChild
  <2>4. QED
    BY <1>1, <1>2, <2>1, <2>2, <2>3
<1>4. Children(c) = {} /\ c \notin Children(p)
  BY <1>1, ConstantsAssumption DEF TreeInv, Children
<1>5. /\ Children(p)' = Children(p) \union {c}
      /\ \A q \in Proto \ {p} : Children(q)' = Children(q)
  <2>1. \A q \in Proto : parentOf[c] # q
    BY <1>1, ConstantsAssumption
  <2>2. QED
    BY <1>1, <1>2, <2>1 DEF Children
<1>6. TreeInv'
  BY <1>1, <1>2 DEF TreeInv
<1>7. CountInv'
  <2>1. Cardinality(Children(p) \union {c}) = Cardinality(Children(p)) + 1
    BY <1>4, FiniteChildren, FS_AddElement
  <2>2. Cardinality(Children(c)) = 0
    BY <1>4, FS_EmptySet
  <2>3. \A q \in Proto : outstanding'[q] = Cardinality(Children(q)')
    <3> SUFFICES ASSUME NEW q \in Proto
                 PROVE  outstanding'[q] = Cardinality(Children(q)')
      OBVIOUS
    <3>1. outstanding[q] = Cardinality(Children(q))
      BY DEF CountInv
    <3>2. CASE q = p
      BY <1>2, <1>5, <2>1, <3>1, <3>2
    <3>3. CASE q = c
      BY <1>1, <1>2, <1>4, <1>5, <2>2, <3>3
    <3>4. QED
      BY <1>2, <1>5, <3>1, <3>2, <3>3
  <2>4. QED
    BY <2>3 DEF CountInv
<1>8. BatchInv'
  <2>1. c \notin Elements(submission[p])
    BY <1>1, <1>4 DEF BatchInv, BatchOf
  <2>2. /\ Elements(submission'[p]) = Elements(submission[p]) \union {c}
        /\ Distinct(submission'[p])
    BY <1>1, <1>2, <2>1, AppendOne DEF BatchInv, BatchOf
  <2>3. \A q \in Proto : BatchOf(q)'
    <3> SUFFICES ASSUME NEW q \in Proto PROVE BatchOf(q)'
      OBVIOUS
    <3>1. BatchOf(q)
      BY DEF BatchInv
    <3>2. CASE q = p
      <4>1. /\ Elements(submission'[q]) = Elements(submission[q]) \union {c}
            /\ Children(q)' = Children(q) \union {c}
            /\ completedMsg'[q] = completedMsg[q] /\ c \notin completedMsg[q]
            /\ Distinct(submission'[q])
        BY <1>2, <1>5, <2>2, <3>2
      <4>2. Children(q)' # {}
        BY <4>1
      <4>3. Elements(submission[q]) = Children(q) \union completedMsg[q]
        BY <3>1 DEF BatchOf
      <4>4. Elements(submission'[q]) = Children(q)' \union completedMsg'[q]
        BY <4>1, <4>3
      <4>5. Children(q)' \intersect completedMsg'[q] = {}
        BY <3>1, <4>1 DEF BatchOf
      <4>6. QED
        BY <4>1, <4>2, <4>4, <4>5 DEF BatchOf
    <3>3. CASE q # p
      BY <1>2, <1>5, <3>1, <3>3 DEF BatchOf
    <3>4. QED
      BY <3>2, <3>3
  <2>4. QED
    BY <2>3 DEF BatchInv
<1>9. LoopInv'
  BY <1>2 DEF LoopInv
<1>10. QED
  BY <1>3, <1>6, <1>7, <1>8, <1>9

\* A completed protocol without a parent leaves the table, and nothing else happens.
LEMMA DropRootKeepsTables ==
  ASSUME TablesInv, NEW c \in isCompleted, parentOf[c] = NoProto, CheckCompleted(c)
  PROVE  TablesInv'
<1>1. /\ registered' = registered \ {c} /\ isCompleted' = isCompleted \ {c}
      /\ UNCHANGED <<parentOf, outstanding, completedMsg, submission, loopbacks>>
  BY DEF CheckCompleted
<1>2. TableTypes'
  BY <1>1 DEF TablesInv, TableTypes
<1>3. \A q \in Proto : Children(q)' = Children(q)
  BY <1>1 DEF Children
<1>4. TreeInv'
  BY <1>1 DEF TablesInv, TreeInv
<1>5. CountInv'
  BY <1>1, <1>3 DEF TablesInv, CountInv
<1>6. BatchInv'
  BY <1>1, <1>3 DEF TablesInv, BatchInv, BatchOf
<1>7. LoopInv'
  BY <1>1 DEF TablesInv, LoopInv
<1>8. QED
  BY <1>2, <1>4, <1>5, <1>6, <1>7 DEF TablesInv

\* What is known of the parent of a completed protocol before it is told.
LEMMA ParentOfCompleted ==
  ASSUME TablesInv, NEW c \in isCompleted, NEW p, p = parentOf[c], p # NoProto,
         CheckCompleted(c)
  PROVE  /\ c \in Proto /\ p \in Proto /\ p # c
         /\ p \in registered /\ p \notin isCompleted
         /\ c \in Children(p) /\ c \notin completedMsg[p]
         /\ ReportCompletion(c)
         /\ outstanding[p] - 1 = Cardinality(Children(p) \ {c})
         /\ outstanding[p] - 1 \in Nat
         /\ outstanding[p] - 1 = 0 <=> Children(p) = {c}
<1>1. c \in Proto /\ p \in registered \ isCompleted /\ p \in Proto /\ p # c
  BY DEF TablesInv, TableTypes, TreeInv
<1>2. c \in Children(p)
  BY <1>1 DEF Children
<1>3. c \notin completedMsg[p]
  BY <1>1, <1>2 DEF TablesInv, BatchInv, BatchOf
<1>4. ReportCompletion(c)
  BY DEF CheckCompleted
<1>5. IsFiniteSet(Children(p)) /\ IsFiniteSet(Children(p) \ {c})
  BY FiniteChildren, FS_RemoveElement
<1>6. outstanding[p] - 1 = Cardinality(Children(p) \ {c})
  BY <1>1, <1>2, <1>5, FS_RemoveElement DEF TablesInv, CountInv
<1>7. /\ Cardinality(Children(p) \ {c}) \in Nat
      /\ Cardinality(Children(p) \ {c}) = 0 <=> Children(p) \ {c} = {}
  BY <1>5, FS_CardinalityType, FS_EmptySet
<1>8. QED
  BY <1>1, <1>2, <1>3, <1>4, <1>6, <1>7

\* So does the report of a completed child to its parent.
LEMMA ReportKeepsTables ==
  ASSUME TablesInv, NEW c \in isCompleted, NEW p, p = parentOf[c], p # NoProto,
         CheckCompleted(c)
  PROVE  TablesInv'
<1> DEFINE left == outstanding[p] - 1
           result == completedMsg[p] \union {c}
<1>1. /\ c \in Proto /\ p \in Proto /\ p # c
      /\ p \in registered /\ p \notin isCompleted
      /\ c \in Children(p) /\ c \notin completedMsg[p]
      /\ ReportCompletion(c)
      /\ left = Cardinality(Children(p) \ {c})
      /\ left \in Nat
      /\ left = 0 <=> Children(p) = {c}
  BY ParentOfCompleted
<1>13. registered' = registered \ {c} /\ isCompleted' = isCompleted \ {c}
  BY DEF CheckCompleted
<1>2. /\ parentOf' = [parentOf EXCEPT ![c] = NoProto]
      /\ outstanding' = [outstanding EXCEPT ![p] = left]
      /\ left > 0 => /\ completedMsg' = [completedMsg EXCEPT ![p] = result]
                     /\ UNCHANGED <<submission, loopbacks>>
      /\ ~ (left > 0) => PostCompletion(p, result)
  BY <1>1 DEF ReportCompletion, ForgetParent
<1> HIDE DEF left, result
<1>3. result = completedMsg[p] \union {c} /\ result \in SUBSET Proto
  BY <1>1 DEF result, TablesInv, TableTypes
<1>4. /\ parentOf' \in [Proto -> Proto \union {NoProto}]
      /\ outstanding' \in [Proto -> Nat]
      /\ \A x \in Proto \ {c} : parentOf'[x] = parentOf[x]
      /\ parentOf'[c] = NoProto
  BY <1>1, <1>2 DEF TablesInv, TableTypes
<1>12. /\ Children(p)' = Children(p) \ {c}
      /\ \A q \in Proto \ {p} : Children(q)' = Children(q)
  <2>1. \A q \in Proto : q # NoProto
    BY ConstantsAssumption
  <2>2. QED
    BY <1>1, <1>4, <2>1 DEF Children
<1>5. TreeInv'
  BY <1>1, <1>13, <1>4 DEF TablesInv, TreeInv
<1>6. CountInv'
  <2>1. outstanding'[p] = left /\ \A q \in Proto \ {p} : outstanding'[q] = outstanding[q]
    BY <1>1, <1>2 DEF TablesInv, TableTypes
  <2>2. \A q \in Proto : outstanding'[q] = Cardinality(Children(q)')
    BY <1>1, <1>12, <2>1 DEF TablesInv, CountInv
  <2>3. QED
    BY <2>2 DEF CountInv
<1>7. BatchOf(p) /\ \A q \in Proto : BatchOf(q)
  BY <1>1 DEF TablesInv, BatchInv
<1>8. Elements(submission[p]) = (Children(p) \ {c}) \union result
  BY <1>1, <1>3, <1>7 DEF BatchOf
<1>9. CASE left > 0
  <2>1. /\ completedMsg'[p] = result
        /\ \A q \in Proto \ {p} : completedMsg'[q] = completedMsg[q]
        /\ completedMsg' \in [Proto -> SUBSET Proto]
        /\ UNCHANGED <<submission, loopbacks>>
    <3>1. /\ completedMsg' = [completedMsg EXCEPT ![p] = result]
          /\ UNCHANGED <<submission, loopbacks>>
      BY <1>2, <1>9
    <3>2. completedMsg \in [Proto -> SUBSET Proto]
      BY DEF TablesInv, TableTypes
    <3>3. QED
      BY <1>1, <1>3, <3>1, <3>2
  <2>2. BatchOf(p)'
    <3>1. Children(p)' # {}
      BY <1>1, <1>12, <1>9
    <3>2. Children(p)' \intersect completedMsg'[p] = {}
      BY <1>1, <1>3, <1>7, <1>12, <2>1 DEF BatchOf
    <3>3. Elements(submission'[p]) = Children(p)' \union completedMsg'[p]
      BY <1>1, <1>8, <1>12, <2>1
    <3>4. Distinct(submission'[p])
      BY <1>7, <2>1 DEF BatchOf
    <3>5. QED
      BY <3>1, <3>2, <3>3, <3>4 DEF BatchOf
  <2>3. \A q \in Proto \ {p} : BatchOf(q)'
    BY <1>1, <1>7, <1>12, <2>1 DEF BatchOf
  <2>4. BatchInv'
    BY <2>2, <2>3 DEF BatchInv
  <2>5. TableTypes'
    BY <1>1, <1>13, <1>4, <2>1 DEF TablesInv, TableTypes
  <2>6. LoopInv'
    BY <1>1, <1>13, <2>1 DEF TablesInv, LoopInv
  <2>7. QED
    BY <1>5, <1>6, <2>4, <2>5, <2>6 DEF TablesInv
<1>10. CASE ~ (left > 0)
  <2> DEFINE m == [to |-> p, result |-> result, order |-> submission[p]]
  <2>1. /\ completedMsg'[p] = {} /\ submission'[p] = <<>>
        /\ \A q \in Proto \ {p} : /\ completedMsg'[q] = completedMsg[q]
                                  /\ submission'[q] = submission[q]
        /\ completedMsg' \in [Proto -> SUBSET Proto]
        /\ submission' \in [Proto -> Seq(Proto)]
        /\ loopbacks' = Append(loopbacks, m)
    <3>1. /\ loopbacks' = Append(loopbacks, m)
          /\ completedMsg' = [completedMsg EXCEPT ![p] = {}]
          /\ submission' = [submission EXCEPT ![p] = <<>>]
      BY <1>2, <1>10 DEF PostCompletion
    <3>2. completedMsg \in [Proto -> SUBSET Proto] /\ submission \in [Proto -> Seq(Proto)]
      BY DEF TablesInv, TableTypes
    <3>3. QED
      BY <1>1, <3>1, <3>2
  <2>2. Children(p) = {c}
    BY <1>1, <1>10
  <2>3. Elements(m.order) = m.result /\ Distinct(m.order) /\ m \in Completion
    BY <1>1, <1>3, <1>7, <1>8, <2>2 DEF TablesInv, TableTypes, BatchOf, Completion
  <2>4. BatchOf(p)'
    BY <1>1, <1>12, <2>1, <2>2, EmptyElements DEF BatchOf
  <2>5. \A q \in Proto \ {p} : BatchOf(q)'
    <3> SUFFICES ASSUME NEW q \in Proto \ {p} PROVE BatchOf(q)'
      OBVIOUS
    <3>1. /\ Children(q)' = Children(q) /\ completedMsg'[q] = completedMsg[q]
          /\ submission'[q] = submission[q]
      BY <1>12, <2>1
    <3>2. QED
      BY <1>7, <3>1 DEF BatchOf
  <2>6. BatchInv'
    BY <2>4, <2>5 DEF BatchInv
  <2>7. TableTypes'
    BY <1>1, <1>13, <1>4, <2>1, <2>3 DEF TablesInv, TableTypes
  <2>8. LoopInv'
    <3>1. \A i \in DOMAIN loopbacks' :
            \/ i \in DOMAIN loopbacks /\ loopbacks'[i] = loopbacks[i]
            \/ loopbacks'[i] = m
      BY <2>1, <2>3 DEF TablesInv, TableTypes
    <3>2. m.to \in registered' \ isCompleted'
      BY <1>1, <1>13
    <3>3. QED
      BY <1>1, <1>13, <2>3, <3>1, <3>2 DEF TablesInv, LoopInv
  <2>9. QED
    BY <1>5, <1>6, <2>6, <2>7, <2>8 DEF TablesInv
<1>11. QED
  BY <1>9, <1>10

\* All that noticing c may do to what the calls on the stack rely on.
TouchesOnly(c) ==
  /\ \A x \in Proto \ {c} :
       /\ x \in registered' <=> x \in registered
       /\ parentOf'[x] = parentOf[x]
       /\ \A q \in Proto : x \in completedMsg'[q] => x \in completedMsg[q]
  /\ \A x \in Proto : x \in isCompleted' => x \in isCompleted
  /\ c \notin isCompleted => UNCHANGED tables

\* So does CheckCompleted, and it touches nothing but the entries of c and its parent.
LEMMA CheckCompletedKeepsTables ==
  ASSUME TablesInv, NEW c \in Proto, CheckCompleted(c)
  PROVE  TablesInv' /\ TouchesOnly(c)
<1>1. CASE c \notin isCompleted
  <2>1. UNCHANGED <<tables, loopbacks>>
    BY <1>1 DEF CheckCompleted
  <2>2. UNCHANGED <<registered, isCompleted, parentOf, outstanding, completedMsg,
                    submission, loopbacks, tables>>
    BY <2>1 DEF tables
  <2>3. TouchesOnly(c)
    BY <1>1, <2>2 DEF TouchesOnly
  <2>4. TablesInv'
    BY <2>2 DEF TablesInv, TableTypes, TreeInv, CountInv, BatchInv, BatchOf, LoopInv, Children
  <2>5. QED
    BY <2>3, <2>4
<1>2. CASE c \in isCompleted /\ parentOf[c] = NoProto
  <2>1. /\ registered' = registered \ {c} /\ isCompleted' = isCompleted \ {c}
        /\ UNCHANGED <<parentOf, completedMsg>>
    BY <1>2 DEF CheckCompleted
  <2>2. TouchesOnly(c)
    BY <1>2, <2>1 DEF TouchesOnly
  <2>3. QED
    BY <1>2, <2>2, DropRootKeepsTables
<1>3. CASE c \in isCompleted /\ parentOf[c] # NoProto
  <2> DEFINE p == parentOf[c]
  <2>1. p \in Proto /\ registered' = registered \ {c} /\ isCompleted' = isCompleted \ {c}
        /\ ReportCompletion(c)
    BY <1>3 DEF CheckCompleted, TablesInv, TableTypes
  <2>2. \A x \in Proto \ {c} : parentOf'[x] = parentOf[x]
    BY <2>1 DEF ReportCompletion, ForgetParent, TablesInv, TableTypes
  <2>3. \/ completedMsg' = [completedMsg EXCEPT ![p] = completedMsg[p] \union {c}]
        \/ completedMsg' = [completedMsg EXCEPT ![p] = {}]
    BY <2>1 DEF ReportCompletion, PostCompletion
  <2>4. \A x \in Proto \ {c} : \A q \in Proto : x \in completedMsg'[q] => x \in completedMsg[q]
    BY <2>1, <2>3 DEF TablesInv, TableTypes
  <2>5. TouchesOnly(c)
    BY <1>3, <2>1, <2>2, <2>4 DEF TouchesOnly
  <2>6. QED
    BY <1>3, <2>5, ReportKeepsTables
<1>4. QED
  BY <1>1, <1>2, <1>3

-----------------------------------------------------------------------------
(***************************************************************************)
(* The invariant is inductive.                                             *)
(***************************************************************************)

LEMMA TypesOfIInv ==
  /\ TypeOK <=> started \in BOOLEAN /\ TableTypes /\ stack \in Seq(Frame)
  /\ IInv <=> /\ started \in BOOLEAN /\ stack \in Seq(Frame)
              /\ IdleBeforeStart /\ TablesInv /\ StackInv
<1>1. TypeOK <=> started \in BOOLEAN /\ TableTypes /\ stack \in Seq(Frame)
  BY Zenon DEF TypeOK, TableTypes
<1>2. QED
  BY <1>1, Zenon DEF IInv, TablesInv

\* A call that has just been made satisfies the invariant of frames.
LEMMA NewFrameInv ==
  ASSUME NEW p \in Proto, NEW e \in {"start", "handle"}
  PROVE  /\ NewFrame(p, e) \in Frame
         /\ p \in registered => FrameInv(NewFrame(p, e))
BY EmptyElements DEF NewFrame, Frame, FrameInv

\* The invariant holds before the party is started.
LEMMA InitIInv == Init => IInv
<1> SUFFICES ASSUME Init PROVE IInv
  OBVIOUS
<1>1. started \in BOOLEAN /\ IdleBeforeStart
  BY Zenon DEF Init, IdleBeforeStart
<1>2. stack \in Seq(Frame) /\ StackInv
  BY DEF Init, StackInv
<1>3. TableTypes /\ TreeInv /\ LoopInv
  BY DEF Init, TableTypes, TreeInv, LoopInv
<1>4. \A p \in Proto : Children(p) = {}
  BY ConstantsAssumption DEF Init, Children
<1>5. CountInv
  BY <1>4, FS_EmptySet DEF Init, CountInv
<1>6. BatchInv
  BY <1>4, EmptyElements DEF Init, BatchInv, BatchOf
<1>7. QED
  BY <1>1, <1>2, <1>3, <1>5, <1>6, TypesOfIInv, Zenon DEF TablesInv

\* Start of the party keeps the invariant.
LEMMA StartKeepsIInv ==
  ASSUME IInv, Start
  PROVE  IInv'
<1>1. started' \in BOOLEAN /\ IdleBeforeStart'
  BY Zenon DEF Start, IdleBeforeStart
<1>2. registered = {} /\ TablesInv
  BY Zenon, TypesOfIInv DEF Start, IdleBeforeStart
<1>3. /\ registered' = {Root} /\ outstanding' = [outstanding EXCEPT ![Root] = 0]
      /\ UNCHANGED <<isCompleted, parentOf, completedMsg, submission, loopbacks>>
  BY <1>2 DEF Start, RegisterRoot
<1>4. Root \in Proto /\ \A p \in Proto : Children(p) = {} /\ Children(p)' = Children(p)
  BY <1>2, <1>3, ConstantsAssumption DEF TablesInv, TreeInv, Children
<1>5. TableTypes' /\ TreeInv'
  BY <1>2, <1>3, <1>4 DEF TablesInv, TableTypes, TreeInv
<1>6. CountInv'
  BY <1>2, <1>3, <1>4, FS_EmptySet DEF TablesInv, TableTypes, CountInv
<1>7. BatchInv'
  BY <1>2, <1>3, <1>4 DEF TablesInv, BatchInv, BatchOf
<1>8. LoopInv'
  BY <1>2, <1>3 DEF TablesInv, LoopInv
<1>9. stack' = <<NewFrame(Root, "start")>>
  BY DEF Start
<1>10. FrameInv(NewFrame(Root, "start"))' /\ NewFrame(Root, "start") \in Frame
  BY <1>3, <1>4, NewFrameInv, EmptyElements DEF FrameInv, NewFrame
<1>11. stack' \in Seq(Frame) /\ StackInv'
  BY <1>9, <1>10 DEF StackInv
<1>12. QED
  BY <1>1, <1>5, <1>6, <1>7, <1>8, <1>11, TypesOfIInv, Zenon
     DEF TablesInv, IInv, TypeOK, TableTypes

\* A message finds the party idle, and its addressee runs.
LEMMA ReceiveKeepsStack ==
  ASSUME IInv, NEW p \in registered, Receive(p)
  PROVE  /\ started' \in BOOLEAN /\ stack' \in Seq(Frame) /\ IdleBeforeStart' /\ StackInv'
         /\ UNCHANGED <<registered, isCompleted, parentOf, outstanding,
                        completedMsg, submission>>
<1>1. /\ started' = started /\ stack' = <<NewFrame(p, "handle")>>
      /\ UNCHANGED <<registered, isCompleted, parentOf, outstanding,
                     completedMsg, submission>>
  BY DEF Receive, tables
<1>2. started \in BOOLEAN /\ IdleBeforeStart /\ TableTypes
  BY Zenon, TypesOfIInv DEF TablesInv
<1>3. p \in Proto /\ started
  BY <1>2 DEF TableTypes, IdleBeforeStart
<1>4. FrameInv(NewFrame(p, "handle"))' /\ NewFrame(p, "handle") \in Frame
  BY <1>1, <1>3, NewFrameInv, EmptyElements DEF FrameInv, NewFrame
<1>5. stack' \in Seq(Frame) /\ StackInv'
  BY <1>1, <1>4 DEF StackInv
<1>6. started' \in BOOLEAN /\ IdleBeforeStart'
  BY <1>1, <1>2, <1>3, Zenon DEF IdleBeforeStart
<1>7. QED
  BY <1>1, <1>5, <1>6

\* So does the delivery of a message, from the loopback queue or the network.
LEMMA MessageKeepsIInv ==
  ASSUME IInv, LoopbackMessage \/ \E p \in Proto : NetworkMessage(p)
  PROVE  IInv'
<1>1. TablesInv
  BY Zenon, TypesOfIInv
<1>2. PICK p \in registered : /\ Receive(p)
                              /\ \/ loopbacks' = loopbacks
                                 \/ loopbacks # <<>> /\ loopbacks' = Tail(loopbacks)
  <2>1. CASE LoopbackMessage
    <3>1. Head(loopbacks) = loopbacks[1] /\ 1 \in DOMAIN loopbacks
      BY <1>1, <2>1 DEF LoopbackMessage, TablesInv, TableTypes
    <3>2. QED
      BY <1>1, <2>1, <3>1 DEF LoopbackMessage, TablesInv, LoopInv
  <2>2. CASE \E p \in Proto : NetworkMessage(p)
    BY <2>2 DEF NetworkMessage
  <2>3. QED
    BY <2>1, <2>2
<1>3. /\ started' \in BOOLEAN /\ stack' \in Seq(Frame) /\ IdleBeforeStart' /\ StackInv'
      /\ UNCHANGED <<registered, isCompleted, parentOf, outstanding,
                     completedMsg, submission>>
  BY <1>2, ReceiveKeepsStack
<1>4. loopbacks' \in Seq(Completion) /\ LoopInv'
  <2>1. loopbacks \in Seq(Completion) /\ LoopInv
    BY <1>1 DEF TablesInv, TableTypes
  <2>2. CASE loopbacks' = loopbacks
    BY <1>3, <2>1, <2>2 DEF LoopInv
  <2>3. CASE loopbacks # <<>> /\ loopbacks' = Tail(loopbacks)
    <3>1. \A i \in DOMAIN loopbacks' : /\ i + 1 \in DOMAIN loopbacks
                                       /\ loopbacks'[i] = loopbacks[i + 1]
      BY <2>1, <2>3
    <3>2. QED
      BY <1>3, <2>1, <2>3, <3>1 DEF LoopInv
  <2>4. QED
    BY <1>2, <2>2, <2>3
<1>5. TableTypes' /\ TreeInv' /\ CountInv' /\ BatchInv'
  BY <1>1, <1>3, <1>4
     DEF TablesInv, TableTypes, TreeInv, CountInv, BatchInv, BatchOf, Children
<1>6. QED
  BY <1>3, <1>4, <1>5, TypesOfIInv, Zenon DEF TablesInv, IInv, TypeOK, TableTypes

\* The innermost call.
LEMMA TopFrame ==
  ASSUME IInv, stack # <<>>
  PROVE  /\ started /\ Depth \in Nat /\ Depth \in DOMAIN stack /\ DOMAIN stack = 1..Depth
         /\ Top \in Frame /\ FrameInv(Top)
         /\ \A i \in 1..(Depth - 1) : /\ i \in DOMAIN stack
                                      /\ FrameInv(stack[i])
                                      /\ NestingInv(stack[i], Top)
         /\ \A i, j \in 1..(Depth - 1) : i < j => NestingInv(stack[i], stack[j])
<1>1. started /\ stack \in Seq(Frame) /\ StackInv
  BY Zenon, TypesOfIInv DEF IdleBeforeStart
<1>2. /\ Depth \in Nat /\ Depth \in DOMAIN stack /\ DOMAIN stack = 1..Depth
      /\ Top = stack[Depth] /\ Top \in Frame
      /\ \A i \in 1..(Depth - 1) : i \in DOMAIN stack /\ i < Depth
  BY <1>1 DEF Depth, Top
<1>3. QED
  BY <1>1, <1>2 DEF StackInv

\* So does entering ExecuteSubProtocols.
LEMMA ExecuteKeepsIInv ==
  ASSUME IInv, NEW p \in Proto, ExecuteSubProtocols(p)
  PROVE  IInv'
<1>1. /\ Running(p) /\ p \notin isCompleted /\ stack # <<>> /\ Top.proto = p
      /\ Top.toStart = <<>> /\ Top.toCheck = <<>>
      /\ UNCHANGED <<started, tables, loopbacks>>
  BY DEF ExecuteSubProtocols, Running
<1>2. UNCHANGED <<started, registered, isCompleted, parentOf, outstanding,
                  completedMsg, submission, loopbacks>>
  BY <1>1 DEF tables
<1>3. PICK kids \in Seq(Proto) :
        /\ \A k \in Elements(kids) : k \in Proto /\ Unused(k)
        /\ Distinct(kids)
        /\ stack' = [stack EXCEPT ![Depth] =
                       [@ EXCEPT !.toStart = kids, !.toCheck = kids]]
  <2> DEFINE U == {c \in Proto : Unused(c)}
  <2>1. PICK kids \in Batches(U) :
          stack' = [stack EXCEPT ![Depth] = [@ EXCEPT !.toStart = kids, !.toCheck = kids]]
    BY DEF ExecuteSubProtocols
  <2>2. PICK n \in 1..MaxBatch : kids \in [1..n -> U]
    BY DEF Batches
  <2>3. n \in Nat /\ U \subseteq Proto
    BY ConstantsAssumption
  <2>4. kids \in Seq(Proto) /\ \A k \in Elements(kids) : k \in U
    <3> HIDE DEF U
    <3>1. kids \in Seq(U)
      BY <2>2, <2>3
    <3>2. QED
      BY <2>3, <3>1 DEF Elements
  <2>5. Distinct(kids)
    BY DEF Batches
  <2>6. QED
    BY <2>1, <2>4, <2>5
<1> DEFINE f == [Top EXCEPT !.toStart = kids, !.toCheck = kids]
<1>4. /\ started /\ Depth \in Nat /\ Depth \in DOMAIN stack /\ DOMAIN stack = 1..Depth
      /\ Top \in Frame /\ FrameInv(Top)
      /\ \A i \in 1..(Depth - 1) : /\ i \in DOMAIN stack
                                   /\ FrameInv(stack[i])
                                   /\ NestingInv(stack[i], Top)
      /\ \A i, j \in 1..(Depth - 1) : i < j => NestingInv(stack[i], stack[j])
  BY <1>1, TopFrame
<1>5. /\ stack \in Seq(Frame) /\ TablesInv /\ started \in BOOLEAN
  BY Zenon, TypesOfIInv
<1>6. f \in Frame /\ f.proto = p /\ f.toStart = kids /\ f.toCheck = kids /\ f.entry = Top.entry
  BY <1>1, <1>4 DEF Frame
<1>7. /\ stack' \in Seq(Frame) /\ DOMAIN stack' = 1..Depth /\ stack'[Depth] = f
      /\ \A i \in 1..(Depth - 1) : stack'[i] = stack[i]
  BY <1>3, <1>4, <1>5, <1>6 DEF Top
<1>8. FrameInv(f)
  BY <1>1, <1>3, <1>4, <1>6 DEF FrameInv, Unused
<1>9. ASSUME NEW i \in 1..(Depth - 1) PROVE NestingInv(stack[i], f)
  <2>1. FrameInv(stack[i]) /\ NestingInv(stack[i], Top) /\ i \in DOMAIN stack
    BY <1>4
  <2>2. \A k \in Elements(kids) : k \notin Elements(stack[i].toCheck) /\ k # stack[i].proto
    BY <1>3, <2>1 DEF FrameInv, Unused
  <2>3. QED
    BY <1>1, <1>6, <2>1, <2>2 DEF NestingInv
<1>10. StackInv'
  <2>1. \A i \in 1..Depth : i = Depth \/ i \in 1..(Depth - 1)
    BY <1>4
  <2>2. \A i \in 1..Depth : FrameInv(stack'[i])
    BY <1>4, <1>7, <1>8, <2>1
  <2>3. \A i, j \in 1..Depth : i < j => NestingInv(stack'[i], stack'[j])
    BY <1>4, <1>7, <1>9, <2>1
  <2>4. \A i \in 1..Depth : FrameInv(stack[i])'
    BY <1>2, <2>2 DEF FrameInv
  <2>5. QED
    BY <1>7, <2>3, <2>4 DEF StackInv
<1>11. TablesInv' /\ started' \in BOOLEAN
  BY <1>2, <1>5
     DEF TablesInv, TableTypes, TreeInv, CountInv, BatchInv, BatchOf, LoopInv, Children
<1>12. IdleBeforeStart'
  BY <1>2, <1>4, Zenon DEF IdleBeforeStart
<1>13. QED
  BY <1>7, <1>10, <1>11, <1>12, TypesOfIInv, Zenon DEF TablesInv, IInv, TypeOK, TableTypes

\* So does an iteration of its first loop.
LEMMA StartChildKeepsIInv ==
  ASSUME IInv, StartChild
  PROVE  IInv'
<1>1. stack # <<>> /\ Top.toStart # <<>>
  BY DEF StartChild
<1>2. /\ started /\ Depth \in Nat /\ Depth \in DOMAIN stack /\ DOMAIN stack = 1..Depth
      /\ Top \in Frame /\ FrameInv(Top)
      /\ \A i \in 1..(Depth - 1) : /\ i \in DOMAIN stack
                                   /\ FrameInv(stack[i])
                                   /\ NestingInv(stack[i], Top)
      /\ \A i, j \in 1..(Depth - 1) : i < j => NestingInv(stack[i], stack[j])
  BY <1>1, TopFrame
<1>3. /\ stack \in Seq(Frame) /\ TablesInv /\ started \in BOOLEAN
  BY Zenon, TypesOfIInv
<1>4. PICK p, c, rest, g :
        p = Top.proto /\ c = Head(Top.toStart) /\ rest = Tail(Top.toStart) /\ g = Top
  OBVIOUS
<1>5. /\ c \in Proto /\ rest \in Seq(Proto) /\ g.toCheck \in Seq(Proto)
      /\ Elements(g.toStart) = {c} \union Elements(rest)
      /\ Distinct(rest) /\ c \notin Elements(rest)
  BY <1>1, <1>2, <1>4, TakeHead DEF Frame, FrameInv
<1>6. /\ p \in registered /\ p \notin isCompleted /\ c \notin registered
      /\ \A q \in Proto : c \notin completedMsg[q]
      /\ c \in Elements(g.toCheck)
  BY <1>1, <1>2, <1>4, <1>5 DEF FrameInv
<1>7. RegisterChild(p, c) /\ started' = started
  BY <1>4 DEF StartChild
<1>8. TablesInv'
  BY <1>3, <1>5, <1>6, <1>7, RegisterChildKeepsTables
<1>9. /\ registered' = registered \union {c} /\ p \in Proto
      /\ parentOf'[c] = p /\ \A x \in Proto \ {c} : parentOf'[x] = parentOf[x]
      /\ UNCHANGED <<isCompleted, completedMsg, loopbacks>>
  BY <1>3, <1>5, <1>6, <1>7 DEF RegisterChild, TablesInv, TableTypes
<1> DEFINE f == [g EXCEPT !.toStart = rest]
<1>10. /\ f \in Frame /\ f.proto = p /\ f.toStart = rest /\ f.toCheck = g.toCheck
       /\ f.entry = g.entry /\ g \in Frame
  BY <1>2, <1>4, <1>5 DEF Frame
<1>11. NewFrame(c, "start") \in Frame
  BY <1>5, NewFrameInv
<1>12. stack' = Append([stack EXCEPT ![Depth] = f], NewFrame(c, "start"))
  BY <1>2, <1>3, <1>4 DEF StartChild, Top
<1> HIDE DEF f
<1>13. /\ stack' \in Seq(Frame) /\ DOMAIN stack' = 1..(Depth + 1)
       /\ stack'[Depth] = f /\ stack'[Depth + 1] = NewFrame(c, "start")
       /\ \A i \in 1..(Depth - 1) : stack'[i] = stack[i]
  <2> DEFINE low == [stack EXCEPT ![Depth] = f]
  <2>1. /\ low \in Seq(Frame) /\ Len(low) = Depth /\ low[Depth] = f
        /\ \A i \in 1..(Depth - 1) : low[i] = stack[i]
    <3>1. low \in [1..Depth -> Frame]
      BY <1>2, <1>3, <1>10
    <3>2. low[Depth] = f /\ \A i \in 1..(Depth - 1) : low[i] = stack[i]
      BY <1>2, <1>3
    <3> HIDE DEF low
    <3>3. QED
      BY <1>2, <3>1, <3>2
  <2> HIDE DEF low
  <2>2. stack' = Append(low, NewFrame(c, "start"))
    BY <1>12 DEF low
  <2>3. QED
    BY <1>2, <1>11, <2>1, <2>2
<1>14. FrameInv(g) /\ \A i \in 1..(Depth - 1) : FrameInv(stack[i]) /\ NestingInv(stack[i], g)
  BY <1>2, <1>4
<1>15. ASSUME NEW h, FrameInv(h), h \in Frame, NestingInv(h, g)
       PROVE  /\ FrameInv(h)' /\ NestingInv(h, f)
              /\ NestingInv(h, NewFrame(c, "start"))
  <2>1. c \notin Elements(h.toCheck) /\ c # h.proto
    BY <1>5, <1>6, <1>15 DEF NestingInv, FrameInv
  <2>2. Elements(h.toCheck) \subseteq Proto
    BY <1>15 DEF Frame, Elements
  <2>3. FrameInv(h)'
    BY <1>5, <1>9, <1>15, <2>1, <2>2 DEF FrameInv
  <2>4. NestingInv(h, f)
    BY <1>4, <1>10, <1>15 DEF NestingInv
  <2>5. NestingInv(h, NewFrame(c, "start"))
    BY <1>15, <2>1, EmptyElements DEF NestingInv, NewFrame
  <2>6. QED
    BY <2>3, <2>4, <2>5
<1>16. FrameInv(f)'
  <2>1. Elements(g.toCheck) \subseteq Proto
    BY <1>10 DEF Frame, Elements
  <2>2. QED
    BY <1>4, <1>5, <1>6, <1>9, <1>10, <1>14, <2>1 DEF FrameInv
<1>17. FrameInv(NewFrame(c, "start"))' /\ NestingInv(f, NewFrame(c, "start"))
  BY <1>5, <1>6, <1>9, <1>10, EmptyElements DEF FrameInv, NestingInv, NewFrame
<1>18. StackInv'
  <2>1. \A i \in 1..(Depth + 1) : i = Depth + 1 \/ i = Depth \/ i \in 1..(Depth - 1)
    BY <1>2
  <2>2. \A i \in 1..(Depth - 1) : /\ FrameInv(stack[i])' /\ NestingInv(stack[i], f)
                                  /\ NestingInv(stack[i], NewFrame(c, "start"))
    <3> SUFFICES ASSUME NEW i \in 1..(Depth - 1)
                 PROVE  /\ FrameInv(stack[i])' /\ NestingInv(stack[i], f)
                        /\ NestingInv(stack[i], NewFrame(c, "start"))
      OBVIOUS
    <3>1. PICK h : h = stack[i] /\ h = stack'[i] /\ h \in Frame
      BY <1>2, <1>3, <1>13
    <3>2. FrameInv(h)' /\ NestingInv(h, f) /\ NestingInv(h, NewFrame(c, "start"))
      BY <1>14, <1>15, <3>1
    <3>3. QED
      BY <3>1, <3>2 DEF FrameInv
  <2>3. \A i \in 1..(Depth + 1) : FrameInv(stack[i])'
    BY <1>13, <1>16, <1>17, <2>1, <2>2 DEF FrameInv
  <2>4. \A i, j \in 1..(Depth + 1) : i < j => NestingInv(stack'[i], stack'[j])
    BY <1>2, <1>13, <1>17, <2>1, <2>2
  <2>5. QED
    BY <1>13, <2>3, <2>4 DEF StackInv
<1>19. started' \in BOOLEAN /\ IdleBeforeStart'
  BY <1>2, <1>3, <1>7, Zenon DEF IdleBeforeStart
<1>20. QED
  BY <1>8, <1>13, <1>18, <1>19, TypesOfIInv, Zenon DEF TablesInv, IInv, TypeOK, TableTypes

\* So does an iteration of its second loop.
LEMMA CheckChildKeepsIInv ==
  ASSUME IInv, CheckChild
  PROVE  IInv'
<1>1. stack # <<>> /\ Top.toStart = <<>> /\ Top.toCheck # <<>>
  BY DEF CheckChild
<1>2. /\ started /\ Depth \in Nat /\ Depth \in DOMAIN stack /\ DOMAIN stack = 1..Depth
      /\ Top \in Frame /\ FrameInv(Top)
      /\ \A i \in 1..(Depth - 1) : /\ i \in DOMAIN stack
                                   /\ FrameInv(stack[i])
                                   /\ NestingInv(stack[i], Top)
      /\ \A i, j \in 1..(Depth - 1) : i < j => NestingInv(stack[i], stack[j])
  BY <1>1, TopFrame
<1>3. /\ stack \in Seq(Frame) /\ TablesInv /\ started \in BOOLEAN
  BY Zenon, TypesOfIInv
<1>4. PICK c, rest, g : c = Head(Top.toCheck) /\ rest = Tail(Top.toCheck) /\ g = Top
  OBVIOUS
<1>5. /\ c \in Proto /\ rest \in Seq(Proto) /\ g.toStart = <<>> /\ g \in Frame
      /\ Elements(g.toCheck) = {c} \union Elements(rest)
      /\ Distinct(rest) /\ c \notin Elements(rest)
  BY <1>1, <1>2, <1>4, TakeHead DEF Frame, FrameInv
<1>6. CheckCompleted(c) /\ started' = started
  BY <1>4 DEF CheckChild
<1>7. TablesInv' /\ TouchesOnly(c)
  BY <1>3, <1>5, <1>6, CheckCompletedKeepsTables
<1> DEFINE f == [g EXCEPT !.toCheck = rest]
<1>8. /\ f \in Frame /\ f.proto = g.proto /\ f.toStart = <<>> /\ f.toCheck = rest
      /\ f.entry = g.entry
  BY <1>5 DEF Frame
<1>9. stack' = [stack EXCEPT ![Depth] = f]
  BY <1>2, <1>3, <1>4 DEF CheckChild, Top
<1> HIDE DEF f
<1>10. /\ stack' \in Seq(Frame) /\ DOMAIN stack' = 1..Depth /\ stack'[Depth] = f
       /\ \A i \in 1..(Depth - 1) : stack'[i] = stack[i]
  BY <1>2, <1>3, <1>8, <1>9
<1>11. FrameInv(g) /\ \A i \in 1..(Depth - 1) : FrameInv(stack[i]) /\ NestingInv(stack[i], g)
  BY <1>2, <1>4
<1>12. ASSUME NEW h, h \in Frame, FrameInv(h), c \notin Elements(h.toCheck), c # h.proto
       PROVE  FrameInv(h)'
  <2>1. h.proto \in Proto /\ Elements(h.toCheck) \subseteq Proto
    BY <1>12 DEF Frame, Elements
  <2>2. QED
    BY <1>12, <1>7, <2>1 DEF FrameInv, TouchesOnly
<1>13. c # g.proto /\ c \in Elements(g.toCheck)
  BY <1>5, <1>11 DEF FrameInv
<1>14. FrameInv(f) /\ c \notin Elements(f.toCheck) /\ c # f.proto
  BY <1>5, <1>8, <1>11, <1>13, EmptyElements DEF FrameInv
<1>15. FrameInv(f)'
  BY <1>8, <1>12, <1>14
<1>16. ASSUME NEW h, h \in Frame, FrameInv(h), NestingInv(h, g)
       PROVE  FrameInv(h)' /\ NestingInv(h, f)
  <2>1. c \notin Elements(h.toCheck) /\ c # h.proto
    BY <1>13, <1>16 DEF NestingInv
  <2>2. QED
    BY <1>5, <1>8, <1>12, <1>16, <2>1 DEF NestingInv
<1>17. StackInv'
  <2>1. \A i \in 1..Depth : i = Depth \/ i \in 1..(Depth - 1)
    BY <1>2
  <2>2. \A i \in 1..(Depth - 1) : FrameInv(stack[i])' /\ NestingInv(stack[i], f)
    <3> SUFFICES ASSUME NEW i \in 1..(Depth - 1)
                 PROVE  FrameInv(stack[i])' /\ NestingInv(stack[i], f)
      OBVIOUS
    <3>1. PICK h : h = stack[i] /\ h = stack'[i] /\ h \in Frame
      BY <1>2, <1>3, <1>10
    <3>2. FrameInv(h)' /\ NestingInv(h, f)
      BY <1>11, <1>16, <3>1
    <3>3. QED
      BY <3>1, <3>2 DEF FrameInv
  <2>3. \A i \in 1..Depth : FrameInv(stack[i])'
    BY <1>10, <1>15, <2>1, <2>2 DEF FrameInv
  <2>4. \A i, j \in 1..Depth : i < j => NestingInv(stack'[i], stack'[j])
    BY <1>2, <1>10, <2>1, <2>2
  <2>5. QED
    BY <1>10, <2>3, <2>4 DEF StackInv
<1>18. started' \in BOOLEAN /\ IdleBeforeStart'
  BY <1>2, <1>3, <1>6, Zenon DEF IdleBeforeStart
<1>19. QED
  BY <1>7, <1>10, <1>17, <1>18, TypesOfIInv, Zenon DEF TablesInv, IInv, TypeOK, TableTypes

\* So does a protocol that sets IsCompleted.
LEMMA CompleteKeepsIInv ==
  ASSUME IInv, NEW p \in Proto, Complete(p)
  PROVE  IInv'
<1>1. /\ stack # <<>> /\ Top.proto = p /\ Top.toStart = <<>>
      /\ p \notin isCompleted /\ Children(p) = {} /\ Pending(p) = {}
      /\ isCompleted' = isCompleted \union {p}
      /\ UNCHANGED <<started, registered, parentOf, outstanding, completedMsg,
                     submission, loopbacks, stack>>
  BY DEF Complete, Running
<1>2. /\ started /\ Depth \in Nat /\ Depth \in DOMAIN stack /\ DOMAIN stack = 1..Depth
      /\ Top \in Frame /\ FrameInv(Top)
      /\ \A i \in 1..(Depth - 1) : /\ i \in DOMAIN stack
                                   /\ FrameInv(stack[i])
                                   /\ NestingInv(stack[i], Top)
      /\ \A i, j \in 1..(Depth - 1) : i < j => NestingInv(stack[i], stack[j])
  BY <1>1, TopFrame
<1>3. /\ stack \in Seq(Frame) /\ TablesInv /\ started \in BOOLEAN /\ StackInv
  BY Zenon, TypesOfIInv
<1>4. p \in registered
  BY <1>1, <1>2 DEF FrameInv
<1>5. TableTypes' /\ CountInv' /\ BatchInv'
  BY <1>1, <1>3, <1>4 DEF TablesInv, TableTypes, CountInv, BatchInv, BatchOf, Children
<1>6. TreeInv'
  BY <1>1, <1>3 DEF TablesInv, TreeInv, Children
<1>7. LoopInv'
  BY <1>1, <1>3 DEF TablesInv, LoopInv, Pending
<1>8. StackInv'
  <2>1. \A i \in 1..Depth : i = Depth \/ i \in 1..(Depth - 1)
    BY <1>2
  <2>2. \A i \in 1..Depth : stack[i].proto = p => stack[i].toStart = <<>>
    BY <1>1, <1>2, <2>1 DEF NestingInv, Top
  <2>3. \A i \in 1..Depth : FrameInv(stack[i])'
    BY <1>1, <1>2, <1>3, <2>2 DEF FrameInv, StackInv
  <2>4. QED
    BY <1>1, <1>2, <1>3, <2>3 DEF StackInv
<1>9. stack' \in Seq(Frame) /\ started' \in BOOLEAN /\ IdleBeforeStart'
  BY <1>1, <1>2, <1>3, Zenon DEF IdleBeforeStart
<1>10. QED
  BY <1>5, <1>6, <1>7, <1>8, <1>9, TypesOfIInv, Zenon DEF TablesInv, IInv, TypeOK, TableTypes

\* So does the return of a handler, with the check that follows.
LEMMA ReturnKeepsIInv ==
  ASSUME IInv, NEW p \in Proto, Return(p)
  PROVE  IInv'
<1>1. /\ stack # <<>> /\ Top.proto = p /\ started' = started
      /\ stack' = SubSeq(stack, 1, Depth - 1)
      /\ Top.entry = "handle" => CheckCompleted(p)
      /\ Top.entry # "handle" => UNCHANGED <<tables, loopbacks>>
  BY DEF Return, Running
<1>2. /\ started /\ Depth \in Nat /\ Depth \in DOMAIN stack /\ DOMAIN stack = 1..Depth
      /\ Top \in Frame /\ FrameInv(Top)
      /\ \A i \in 1..(Depth - 1) : /\ i \in DOMAIN stack
                                   /\ FrameInv(stack[i])
                                   /\ NestingInv(stack[i], Top)
      /\ \A i, j \in 1..(Depth - 1) : i < j => NestingInv(stack[i], stack[j])
  BY <1>1, TopFrame
<1>3. /\ stack \in Seq(Frame) /\ TablesInv /\ started \in BOOLEAN
  BY Zenon, TypesOfIInv
<1>4. /\ stack' \in Seq(Frame) /\ DOMAIN stack' = 1..(Depth - 1)
      /\ \A i \in 1..(Depth - 1) : stack'[i] = stack[i]
  BY <1>1, <1>2, <1>3 DEF Depth
<1>5. started' \in BOOLEAN /\ IdleBeforeStart'
  BY <1>1, <1>2, <1>3, Zenon DEF IdleBeforeStart
<1>6. CASE Top.entry = "handle"
  <2>1. Depth = 1
    <3>1. SUFFICES ASSUME 1 \in 1..(Depth - 1) PROVE FALSE
      BY <1>2
    <3>2. QED
      BY <1>2, <1>6, <3>1 DEF NestingInv
  <2>2. StackInv'
    BY <1>4, <2>1 DEF StackInv
  <2>3. TablesInv'
    BY <1>1, <1>3, <1>6, CheckCompletedKeepsTables
  <2>4. QED
    BY <1>4, <1>5, <2>2, <2>3, TypesOfIInv, Zenon DEF TablesInv, IInv, TypeOK, TableTypes
<1>7. CASE Top.entry # "handle"
  <2>1. UNCHANGED <<registered, isCompleted, parentOf, outstanding, completedMsg,
                    submission, loopbacks>>
    BY <1>1, <1>7 DEF tables
  <2>2. StackInv'
    <3>1. ASSUME NEW i \in DOMAIN stack'
          PROVE  FrameInv(stack[i])'
      <4>1. stack'[i] = stack[i] /\ FrameInv(stack[i])
        BY <1>2, <1>4
      <4>2. QED
        BY <2>1, <4>1 DEF FrameInv
    <3>2. \A i, j \in DOMAIN stack' : i < j => NestingInv(stack[i], stack[j])'
      BY <1>2, <1>4 DEF NestingInv
    <3>3. QED
      BY <3>1, <3>2 DEF StackInv
  <2>3. TablesInv'
    BY <1>3, <2>1
       DEF TablesInv, TableTypes, TreeInv, CountInv, BatchInv, BatchOf, LoopInv, Children
  <2>4. QED
    BY <1>4, <1>5, <2>2, <2>3, TypesOfIInv, Zenon DEF TablesInv, IInv, TypeOK, TableTypes
<1>8. QED
  BY <1>6, <1>7

\* Every step keeps the invariant.
LEMMA NextIInv == IInv /\ [Next]_vars => IInv'
<1> SUFFICES ASSUME IInv, [Next]_vars PROVE IInv'
  OBVIOUS
<1>1. CASE UNCHANGED vars
  <2>1. UNCHANGED <<started, registered, isCompleted, parentOf, outstanding,
                    completedMsg, submission, loopbacks, stack>>
    BY <1>1 DEF vars, tables
  <2>2. TablesInv /\ stack \in Seq(Frame) /\ StackInv /\ started \in BOOLEAN /\ IdleBeforeStart
    BY Zenon, TypesOfIInv
  <2>3. TablesInv' /\ stack' \in Seq(Frame) /\ StackInv'
    <3>1. TablesInv'
      BY <2>1, <2>2
         DEF TablesInv, TableTypes, TreeInv, CountInv, BatchInv, BatchOf, LoopInv, Children
    <3>2. stack' \in Seq(Frame) /\ StackInv'
      BY <2>1, <2>2 DEF StackInv, FrameInv
    <3>3. QED
      BY <3>1, <3>2
  <2>4. started' \in BOOLEAN /\ IdleBeforeStart'
    BY <2>1, <2>2, Zenon DEF IdleBeforeStart
  <2>5. QED
    BY <2>3, <2>4, TypesOfIInv, Zenon DEF TablesInv, IInv, TypeOK, TableTypes
<1>2. CASE Next
  <2>1. CASE Start
    BY <2>1, StartKeepsIInv
  <2>2. CASE LoopbackMessage
    BY <2>2, MessageKeepsIInv
  <2>3. CASE StartChild
    BY <2>3, StartChildKeepsIInv
  <2>4. CASE CheckChild
    BY <2>4, CheckChildKeepsIInv
  <2>5. ASSUME NEW p \in Proto, NetworkMessage(p) PROVE IInv'
    BY <2>5, MessageKeepsIInv
  <2>6. ASSUME NEW p \in Proto, ExecuteSubProtocols(p) PROVE IInv'
    BY <2>6, ExecuteKeepsIInv
  <2>7. ASSUME NEW p \in Proto, Complete(p) PROVE IInv'
    BY <2>7, CompleteKeepsIInv
  <2>8. ASSUME NEW p \in Proto, Return(p) PROVE IInv'
    BY <2>8, ReturnKeepsIInv
  <2>9. QED
    BY <1>2, <2>1, <2>2, <2>3, <2>4, <2>5, <2>6, <2>7, <2>8, Zenon DEF Next
<1>3. QED
  BY <1>1, <1>2

\* The invariant holds in every reachable state.
LEMMA Invariance == Spec => []IInv
BY InitIInv, NextIInv, PTL DEF Spec

-----------------------------------------------------------------------------
(***************************************************************************)
(* The theorems.                                                           *)
(***************************************************************************)

\* The tables, the loopback queue and the call stack keep their types; in
\* particular the counter of a parent never becomes negative.
THEOREM TypeCorrect == Spec => []TypeOK
<1>1. IInv => TypeOK
  BY Zenon DEF IInv
<1>2. QED
  BY <1>1, Invariance, PTL

\* No lookup or assertion of Receive, RegisterProtocol and CheckCompleted fails.
THEOREM LookupsAlwaysSucceed == Spec => []LookupsSucceed
<1>1. IInv => LookupsSucceed
  <2> SUFFICES ASSUME IInv PROVE LookupsSucceed
    OBVIOUS
  <2>1. TablesInv /\ StackInv
    BY Zenon, TypesOfIInv
  <2>2. \A i \in DOMAIN loopbacks : loopbacks[i].to \in registered
    BY <2>1 DEF TablesInv, LoopInv
  <2>3. \A i \in DOMAIN stack : /\ stack[i].proto \in registered
                                /\ Elements(stack[i].toStart) \intersect registered = {}
    BY <2>1 DEF StackInv, FrameInv
  <2>4. \A c \in registered : parentOf[c] # NoProto => parentOf[c] \in registered
    BY <2>1 DEF TablesInv, TableTypes, TreeInv
  <2>5. QED
    BY <2>2, <2>3, <2>4 DEF LookupsSucceed
<1>2. QED
  BY <1>1, Invariance, PTL

\* The counter of outstanding children is the number of registered children.
THEOREM CountersAreExact == Spec => []OutstandingIsLive
<1>1. IInv => OutstandingIsLive
  <2> SUFFICES ASSUME IInv PROVE OutstandingIsLive
    OBVIOUS
  <2>1. TablesInv
    BY Zenon, TypesOfIInv
  <2>2. QED
    BY <2>1 DEF TablesInv, TableTypes, CountInv, OutstandingIsLive
<1>2. QED
  BY <1>1, Invariance, PTL

\* A completion message carries one result for each submitted child, and no other.
THEOREM CompletionMessagesMatch == Spec => []CompletionsMatch
<1>1. IInv => CompletionsMatch
  <2> SUFFICES ASSUME IInv PROVE CompletionsMatch
    OBVIOUS
  <2>1. TablesInv
    BY Zenon, TypesOfIInv
  <2> SUFFICES ASSUME NEW i \in DOMAIN loopbacks
               PROVE  /\ Elements(loopbacks[i].order) = loopbacks[i].result
                      /\ Cardinality(loopbacks[i].result) = Len(loopbacks[i].order)
    BY DEF CompletionsMatch
  <2>2. PICK m : m = loopbacks[i]
    OBVIOUS
  <2>3. m.order \in Seq(Proto) /\ Elements(m.order) = m.result /\ Distinct(m.order)
    <3>1. loopbacks \in Seq(Completion) /\ LoopInv
      BY <2>1 DEF TablesInv, TableTypes
    <3>2. m \in Completion
      BY <2>2, <3>1
    <3>3. Elements(m.order) = m.result /\ Distinct(m.order)
      BY <2>2, <3>1 DEF LoopInv
    <3>4. QED
      BY <3>2, <3>3 DEF Completion
  <2>4. QED
    BY <2>2, <2>3, DistinctLength
<1>2. QED
  BY <1>1, Invariance, PTL

\* A completed child either leaves the messages alone or was the last child of the
\* protocol to which a message is then posted.
LEMMA PostedForTheLastChild ==
  ASSUME TablesInv, NEW c \in Proto, CheckCompleted(c)
  PROVE  \/ loopbacks' = loopbacks
         \/ \E p \in Proto : /\ p = parentOf[c] /\ p # c /\ Children(p) = {c}
                             /\ c \in isCompleted /\ p \in registered
                             /\ Len(loopbacks') = Len(loopbacks) + 1
                             /\ loopbacks'[Len(loopbacks')].to = p
<1>1. CASE c \notin isCompleted \/ parentOf[c] = NoProto
  BY <1>1 DEF CheckCompleted
<1>2. CASE c \in isCompleted /\ parentOf[c] # NoProto
  <2>1. PICK p : p = parentOf[c]
    OBVIOUS
  <2>2. /\ p \in Proto /\ p # c /\ p \in registered
        /\ ReportCompletion(c) /\ outstanding[p] - 1 \in Nat
        /\ outstanding[p] - 1 = 0 <=> Children(p) = {c}
    BY <1>2, <2>1, ParentOfCompleted
  <2>3. CASE outstanding[p] - 1 > 0
    BY <2>1, <2>2, <2>3 DEF ReportCompletion
  <2>4. CASE ~ (outstanding[p] - 1 > 0)
    <3>1. PostCompletion(p, completedMsg[p] \union {c})
      BY <2>1, <2>2, <2>4 DEF ReportCompletion
    <3>2. PICK m : m.to = p /\ loopbacks' = Append(loopbacks, m)
      BY <3>1 DEF PostCompletion
    <3>3. loopbacks \in Seq(Completion)
      BY DEF TablesInv, TableTypes
    <3>4. Len(loopbacks') = Len(loopbacks) + 1 /\ loopbacks'[Len(loopbacks')] = m
      BY <3>2, <3>3
    <3>5. Children(p) = {c}
      <4>1. outstanding[p] \in Nat
        BY <2>2 DEF TablesInv, TableTypes
      <4>2. outstanding[p] - 1 = 0
        BY <2>2, <2>4, <4>1
      <4>3. QED
        BY <2>2, <4>2, Zenon
    <3>6. loopbacks'[Len(loopbacks')].to = p
      BY <3>2, <3>4
    <3>7. QED
      BY <1>2, <2>1, <2>2, <3>4, <3>5, <3>6, Zenon
  <2>5. QED
    BY <2>3, <2>4
<1>3. QED
  BY <1>1, <1>2

\* A protocol is told once about each call of ExecuteSubProtocols: when a message is
\* posted to it, it is starting no child, and the one it looks at is its last.
THEOREM OneMessageForEachLaunch == Spec => OneMessagePerLaunch
<1> DEFINE A == Len(loopbacks') > Len(loopbacks) =>
                  \A i \in DOMAIN stack :
                    stack[i].proto = loopbacks'[Len(loopbacks')].to =>
                      stack[i].toStart = <<>> /\ Len(stack[i].toCheck) = 1
<1>1. ASSUME IInv, Next PROVE A
  <2>1. TablesInv /\ stack \in Seq(Frame)
    BY <1>1, Zenon, TypesOfIInv
  <2>2. loopbacks \in Seq(Completion)
    BY <2>1 DEF TablesInv, TableTypes
  <2>3. SUFFICES ASSUME Len(loopbacks') > Len(loopbacks),
                        NEW i \in DOMAIN stack,
                        stack[i].proto = loopbacks'[Len(loopbacks')].to
                 PROVE  stack[i].toStart = <<>> /\ Len(stack[i].toCheck) = 1
    OBVIOUS
  <2>4. loopbacks' # loopbacks
    BY <2>2, <2>3
  <2>5. stack # <<>>
    BY <2>1
  <2>6. /\ started /\ Depth \in Nat /\ Depth \in DOMAIN stack /\ DOMAIN stack = 1..Depth
        /\ Top \in Frame /\ FrameInv(Top)
        /\ \A j \in 1..(Depth - 1) : /\ j \in DOMAIN stack
                                     /\ FrameInv(stack[j])
                                     /\ NestingInv(stack[j], Top)
        /\ \A j, k \in 1..(Depth - 1) : j < k => NestingInv(stack[j], stack[k])
    BY <1>1, <2>5, TopFrame
  <2>7. CASE CheckChild
    <3>1. PICK c, s : /\ s = Top.toCheck /\ c = Head(s) /\ s # <<>> /\ Top.toStart = <<>>
                      /\ CheckCompleted(c)
      BY <2>7 DEF CheckChild
    <3>2. c \in Proto /\ s \in Seq(Proto) /\ c \in Elements(s) /\ Distinct(s)
      BY <2>6, <3>1, TakeHead DEF Frame, FrameInv
    <3>3. \A k \in Elements(s) : k \in Proto /\ parentOf[k] = Top.proto
      BY <2>6, <3>1, <3>2, EmptyElements DEF FrameInv, Elements
    <3>4. PICK p \in Proto : /\ p = parentOf[c] /\ Children(p) = {c}
                             /\ loopbacks'[Len(loopbacks')].to = p
      BY <2>1, <2>4, <3>1, <3>2, PostedForTheLastChild
    <3>5. p = Top.proto /\ Elements(s) = {c}
      BY <3>2, <3>3, <3>4 DEF Children
    <3>6. i = Depth
      BY <2>3, <2>6, <3>4, <3>5 DEF NestingInv
    <3>7. Len(s) = 1
      <4>1. Cardinality(Elements(s)) = Len(s)
        BY <3>2, DistinctLength
      <4>2. Cardinality({c}) = 1
        BY FS_Singleton
      <4>3. QED
        BY <3>5, <4>1, <4>2
    <3>8. QED
      BY <3>1, <3>6, <3>7 DEF Top
  <2>8. ASSUME NEW c \in Proto, Return(c)
        PROVE  stack[i].toStart = <<>> /\ Len(stack[i].toCheck) = 1
    <3>1. Top.proto = c /\ Top.entry = "handle" /\ CheckCompleted(c)
      BY <2>4, <2>8 DEF Return, Running
    <3>2. i = Depth
      BY <2>6, <3>1 DEF NestingInv
    <3>3. PICK p \in Proto : p # c /\ loopbacks'[Len(loopbacks')].to = p
      BY <2>1, <2>4, <3>1, PostedForTheLastChild
    <3>4. QED
      BY <2>3, <3>1, <3>2, <3>3 DEF Top
  <2>9. CASE LoopbackMessage
    <3>1. loopbacks # <<>> /\ loopbacks' = Tail(loopbacks)
      BY <2>9 DEF LoopbackMessage
    <3>2. Len(loopbacks') = Len(loopbacks) - 1 /\ Len(loopbacks) \in Nat
      BY <2>2, <3>1
    <3>3. QED
      BY <2>3, <3>2
  <2>10. QED
    BY <1>1, <2>4, <2>7, <2>8, <2>9
       DEF Next, Start, RegisterRoot, StartChild, RegisterChild, NetworkMessage,
           ExecuteSubProtocols, Complete
<1>2. IInv /\ [Next]_vars => [A]_vars
  BY <1>1
<1>3. Spec => [][A]_vars
  BY <1>2, Invariance, PTL DEF Spec
<1>4. QED
  BY <1>3 DEF OneMessagePerLaunch

-----------------------------------------------------------------------------
(***************************************************************************)
(* The runtime implements fork/join.                                       *)
(***************************************************************************)

Live == [p \in Proto |-> Children(p)]

JoinOf(m) == [to |-> m.to, order |-> m.order]

Joins == [i \in DOMAIN loopbacks |-> JoinOf(loopbacks[i])]

\* An iteration of the first loop is a fork.
LEMMA StartChildForks ==
  ASSUME IInv, StartChild
  PROVE  FJ!Next
<1>1. stack # <<>> /\ Top.toStart # <<>>
  BY DEF StartChild
<1>2. Top \in Frame /\ FrameInv(Top)
  BY <1>1, TopFrame
<1>3. TablesInv
  BY Zenon, TypesOfIInv
<1>4. PICK p, c : p = Top.proto /\ c = Head(Top.toStart)
  OBVIOUS
<1>5. /\ c \in Proto /\ c \notin registered /\ p \in Proto /\ p \in registered
      /\ RegisterChild(p, c)
  <2>1. c \in Proto /\ c \in Elements(Top.toStart)
    BY <1>1, <1>2, <1>4, TakeHead DEF Frame
  <2>2. QED
    BY <1>2, <1>4, <2>1 DEF FrameInv, Frame, StartChild
<1>6. parentOf[c] = NoProto /\ p # c /\ \A q \in Proto : q # NoProto
  BY <1>3, <1>5, ConstantsAssumption DEF TablesInv, TreeInv
<1>7. /\ parentOf' \in [Proto -> Proto \union {NoProto}] /\ parentOf'[c] = p
      /\ \A x \in Proto \ {c} : parentOf'[x] = parentOf[x]
  BY <1>3, <1>5 DEF RegisterChild, TablesInv, TableTypes
<1>8. /\ Children(p)' = Children(p) \union {c}
      /\ \A q \in Proto \ {p} : Children(q)' = Children(q)
      /\ \A q \in Proto : c \notin Children(q)
  BY <1>5, <1>6, <1>7 DEF Children
<1>9. Live' = [Live EXCEPT ![p] = @ \union {c}] /\ \A q \in Proto : c \notin Live[q]
  BY <1>5, <1>8 DEF Live
<1>10. Joins' = Joins /\ submission' = [submission EXCEPT ![p] = Append(@, c)]
  BY <1>5 DEF RegisterChild, Joins
<1>11. FJ!Fork(p, c)
  BY <1>9, <1>10 DEF FJ!Fork, Live, Joins, JoinOf
<1>12. QED
  BY <1>5, <1>11 DEF FJ!Next

\* The report of a completed child is a finish, with the join if it is the last one.
LEMMA CompletionFinishes ==
  ASSUME TablesInv, NEW c \in Proto, CheckCompleted(c)
  PROVE  FJ!Next \/ UNCHANGED FJ!vars
<1>1. CASE c \notin isCompleted \/ parentOf[c] = NoProto
  <2>1. UNCHANGED <<parentOf, submission, loopbacks>>
    BY <1>1 DEF CheckCompleted, tables
  <2>2. QED
    BY <2>1 DEF FJ!vars, Children
<1>2. CASE c \in isCompleted /\ parentOf[c] # NoProto
  <2>1. PICK p : p = parentOf[c]
    OBVIOUS
  <2>2. /\ p \in Proto /\ p # c /\ c \in Children(p)
        /\ ReportCompletion(c) /\ outstanding[p] - 1 \in Nat
        /\ outstanding[p] - 1 = 0 <=> Children(p) = {c}
    BY <1>2, <2>1, ParentOfCompleted
  <2>3. /\ parentOf' \in [Proto -> Proto \union {NoProto}] /\ parentOf'[c] = NoProto
        /\ \A x \in Proto \ {c} : parentOf'[x] = parentOf[x]
        /\ \A q \in Proto : q # NoProto
    BY <2>2, ConstantsAssumption DEF ReportCompletion, ForgetParent, TablesInv, TableTypes
  <2>4. /\ Children(p)' = Children(p) \ {c}
        /\ \A q \in Proto \ {p} : Children(q)' = Children(q)
    BY <2>1, <2>2, <2>3 DEF Children
  <2>5. Live' = [Live EXCEPT ![p] = @ \ {c}] /\ c \in Live[p]
    BY <2>2, <2>4 DEF Live
  <2>6. CASE outstanding[p] - 1 > 0
    <3>1. Live[p] # {c}
      BY <2>2, <2>6 DEF Live
    <3>2. submission' = submission /\ loopbacks' = loopbacks
      BY <2>1, <2>2, <2>6 DEF ReportCompletion
    <3>3. Joins' = Joins
      BY <3>2 DEF Joins
    <3>4. FJ!Finish(p, c)
      BY <2>5, <3>1, <3>2, <3>3 DEF FJ!Finish, Live, Joins, JoinOf
    <3>5. QED
      BY <2>2, <3>4 DEF FJ!Next
  <2>7. CASE ~ (outstanding[p] - 1 > 0)
    <3>1. Live[p] = {c}
      <4>1. outstanding[p] \in Nat
        BY <2>2 DEF TablesInv, TableTypes
      <4>2. outstanding[p] - 1 = 0
        BY <2>2, <2>7, <4>1
      <4>3. Children(p) = {c}
        BY <2>2, <4>2, Zenon
      <4>4. QED
        BY <2>2, <4>3 DEF Live
    <3>2. PostCompletion(p, completedMsg[p] \union {c})
      BY <2>1, <2>2, <2>7 DEF ReportCompletion
    <3>3. PICK m : /\ m.to = p /\ m.order = submission[p]
                   /\ loopbacks' = Append(loopbacks, m)
      BY <3>2 DEF PostCompletion
    <3>4. submission' = [submission EXCEPT ![p] = <<>>]
      BY <3>2 DEF PostCompletion
    <3>5. Joins' = Append(Joins, [to |-> p, order |-> submission[p]])
      <4>1. loopbacks \in Seq(Completion)
        BY DEF TablesInv, TableTypes
      <4>2. QED
        BY <3>3, <4>1 DEF Joins, JoinOf
    <3>6. FJ!Finish(p, c)
      BY <2>5, <3>1, <3>4, <3>5 DEF FJ!Finish, Live, Joins, JoinOf
    <3>7. QED
      BY <2>2, <3>6 DEF FJ!Next
  <2>8. QED
    BY <2>6, <2>7
<1>3. QED
  BY <1>1, <1>2

\* Forks, finishes and joins of the abstract specification are all that the calls
\* of protocols, their completions and the loopback queue amount to.
THEOREM PartyImplementsForkJoin == Spec => ImplementsForkJoin
<1>1. Init => FJ!Init
  <2> SUFFICES ASSUME Init PROVE FJ!Init
    OBVIOUS
  <2>1. \A p \in Proto : Children(p) = {}
    BY ConstantsAssumption DEF Init, Children
  <2>2. QED
    BY <2>1 DEF Init, FJ!Init
<1>2. IInv /\ [Next]_vars => [FJ!Next]_(FJ!vars)
  <2> SUFFICES ASSUME IInv, [Next]_vars PROVE FJ!Next \/ UNCHANGED FJ!vars
    OBVIOUS
  <2>1. TablesInv /\ stack \in Seq(Frame)
    BY Zenon, TypesOfIInv
  <2>2. CASE StartChild
    BY <2>2, StartChildForks
  <2>3. CASE CheckChild
    <3>1. stack # <<>> /\ Top.toCheck # <<>> /\ CheckCompleted(Head(Top.toCheck))
      BY <2>3 DEF CheckChild
    <3>2. Head(Top.toCheck) \in Proto
      BY <3>1, TopFrame, TakeHead DEF Frame
    <3>3. QED
      BY <2>1, <3>1, <3>2, CompletionFinishes
  <2>4. ASSUME NEW p \in Proto, Return(p) PROVE FJ!Next \/ UNCHANGED FJ!vars
    <3>1. CASE Top.entry = "handle"
      BY <2>1, <2>4, <3>1, CompletionFinishes DEF Return
    <3>2. CASE Top.entry # "handle"
      BY <2>4, <3>2 DEF Return, tables, FJ!vars, Children
    <3>3. QED
      BY <3>1, <3>2
  <2>5. CASE LoopbackMessage
    <3>1. /\ loopbacks # <<>> /\ loopbacks' = Tail(loopbacks)
          /\ UNCHANGED <<submission, parentOf>>
      BY <2>5 DEF LoopbackMessage, Receive, tables
    <3>2. Joins # <<>> /\ Joins' = Tail(Joins)
      <4>1. loopbacks \in Seq(Completion)
        BY <2>1 DEF TablesInv, TableTypes
      <4>2. QED
        BY <3>1, <4>1 DEF Joins
    <3>3. FJ!Join
      BY <3>1, <3>2 DEF FJ!Join, Joins, JoinOf, Children
    <3>4. QED
      BY <3>3 DEF FJ!Next
  <2>6. CASE Start
    BY <2>6 DEF Start, RegisterRoot, FJ!vars, Children
  <2>7. ASSUME NEW p \in Proto, NetworkMessage(p) PROVE UNCHANGED FJ!vars
    BY <2>7 DEF NetworkMessage, Receive, tables, FJ!vars, Children
  <2>8. ASSUME NEW p \in Proto, ExecuteSubProtocols(p) PROVE UNCHANGED FJ!vars
    BY <2>8 DEF ExecuteSubProtocols, tables, FJ!vars, Children
  <2>9. ASSUME NEW p \in Proto, Complete(p) PROVE UNCHANGED FJ!vars
    BY <2>9 DEF Complete, FJ!vars, Children
  <2>10. CASE UNCHANGED vars
    BY <2>10 DEF vars, tables, FJ!vars, Children
  <2>11. QED
    BY <2>2, <2>3, <2>4, <2>5, <2>6, <2>7, <2>8, <2>9, <2>10 DEF Next
<1>3. QED
  BY <1>1, <1>2, Invariance, PTL DEF Spec, ImplementsForkJoin, FJ!Spec

-----------------------------------------------------------------------------
(***************************************************************************)
(* The identifiers under which a party registers its protocols: none is    *)
(* given to two protocols that are registered at a time, for all quorums,  *)
(* gates, ports and outputs whose numbers fit their fields, as long as no  *)
(* counter wraps.                                                          *)
(***************************************************************************)

Kinds == {"generic", "nopGeneric", "quorum", "sharing", "renewal", "evaluation",
          "result", "nopResult", "two"}

\* What the arguments of a protocol are, by its kind.
Arguments(p) ==
  /\ p.kind \in Kinds
  /\ p.a \in Nat /\ p.b \in Nat /\ p.n \in Nat
  /\ p.kind \in {"generic", "nopGeneric"} => p.a = 0 /\ p.b = 0
  /\ p.kind = "quorum" => p.a < ShortSize /\ p.b = 0
  /\ p.kind = "sharing" => p.a < FieldSize /\ p.n \in 0..1
  /\ p.kind = "renewal" => p.a < FieldSize /\ p.n \in 0..2
  /\ p.kind \in {"evaluation", "result", "nopResult"} => p.b = 0 /\ p.n = 0
  /\ p.kind = "two" => p.a < ShortSize /\ p.b < ShortSize /\ p.n < ShortSize

\* A protocol is the record of its kind and its arguments, which fit their fields.
LEMMA ProtocolArguments ==
  ASSUME NEW p \in Protocol
  PROVE  /\ p = [kind |-> p.kind, a |-> p.a, b |-> p.b, n |-> p.n]
         /\ Arguments(p)
<1> DEFINE Rec == [kind |-> p.kind, a |-> p.a, b |-> p.b, n |-> p.n]
<1>1. /\ FieldSize \in Nat /\ ShortSize \in Nat
      /\ \A q \in Quorum : q \in Nat /\ q < ShortSize
      /\ \A g \in Gate : g \in Nat /\ g < FieldSize
      /\ \A x \in Port \union Wire : x \in Nat
  BY IdentifiersAssumption
<1>2. CASE p \in Generic
  BY <1>1, <1>2 DEF Generic, Arguments, Kinds
<1>3. CASE p \in InputSharing
  BY <1>1, <1>3 DEF InputSharing, Arguments, Kinds
<1>4. CASE p \in InputRenewal
  BY <1>1, <1>4 DEF InputRenewal, Arguments, Kinds
<1>5. CASE p \in GateEval
  BY <1>1, <1>5 DEF GateEval, Arguments, Kinds
<1>6. CASE p \in ResultBroadcast
  BY <1>1, <1>6 DEF ResultBroadcast, Arguments, Kinds
<1>7. CASE p \in [kind : {"nopGeneric"}, a : {0}, b : {0}, n : {1}]
  BY <1>1, <1>7 DEF Arguments, Kinds
<1>8. CASE p \in [kind : {"nopResult"}, a : Wire, b : {0}, n : {0}]
  BY <1>1, <1>8 DEF Arguments, Kinds
<1>9. CASE p \in OfQuorum
  BY <1>1, <1>9 DEF OfQuorum, Arguments, Kinds
<1>10. CASE p \in OfTwoQuorums
  BY <1>1, <1>10 DEF OfTwoQuorums, Arguments, Kinds
<1>11. QED
  BY Zenon, <1>2, <1>3, <1>4, <1>5, <1>6, <1>7, <1>8, <1>9, <1>10 DEF Protocol, Named, Nop

\* The words of an identifier, by the kind of the protocol.
LEMMA Words ==
  ASSUME NEW p, p.kind \in Kinds
  PROVE  /\ p.kind = "generic" => Id(p) = <<0, p.n>>
         /\ p.kind = "nopGeneric" => Id(p) = <<ShortSize, p.n>>
         /\ p.kind = "quorum" => Id(p) = <<FieldSize + p.a, p.n>>
         /\ p.kind = "sharing" => Id(p) = <<2 * FieldSize + p.a, 2 * p.b + p.n>>
         /\ p.kind = "renewal" => Id(p) = <<2 * FieldSize + p.a, 3 * p.b + p.n>>
         /\ p.kind = "evaluation" => Id(p) = <<3 * FieldSize, p.a>>
         /\ p.kind = "result" => Id(p) = <<4 * FieldSize, p.a>>
         /\ p.kind = "nopResult" => Id(p) = <<4 * FieldSize + ShortSize, p.a>>
         /\ p.kind = "two" => Id(p) = <<5 * FieldSize + p.a, p.b * ShortSize + p.n>>
BY Zenon DEF Id, Kinds

\* The low word, by the kind of the protocol.
LEMMA LowWord ==
  ASSUME NEW p, Arguments(p)
  PROVE  /\ p.kind = "quorum" => Id(p)[2] = p.n
         /\ p.kind = "sharing" => Id(p)[2] = 2 * p.b + p.n
         /\ p.kind = "renewal" => Id(p)[2] = 3 * p.b + p.n
         /\ p.kind = "two" => Id(p)[2] = p.b * ShortSize + p.n
         /\ p.kind \in {"generic", "nopGeneric"} => Id(p)[2] = p.n
         /\ p.kind \in {"evaluation", "result", "nopResult"} => Id(p)[2] = p.a
<1>1. p.kind \in Kinds
  BY DEF Arguments
<1>2. QED
  BY <1>1, Words

\* The field of the high word, by the kind of the protocol.
LEMMA FieldOfHighWord ==
  ASSUME NEW p, Arguments(p)
  PROVE  /\ p.kind = "quorum" => Id(p)[1] = FieldSize + p.a
         /\ p.kind \in {"sharing", "renewal"} => Id(p)[1] = 2 * FieldSize + p.a
         /\ p.kind = "two" => Id(p)[1] = 5 * FieldSize + p.a
<1>1. p.kind \in Kinds
  BY DEF Arguments
<1>2. QED
  BY <1>1, Words

\* The high word tells the kind, except that what brings a value to a gate may be a sharing
\* or a renewal.
Class(p) == IF p.kind = "renewal" THEN "sharing" ELSE p.kind

LEMMA HighWord ==
  ASSUME NEW p, Arguments(p)
  PROVE  /\ Id(p)[1] \in Nat
         /\ Class(p) \in Kinds \ {"renewal"}
         /\ Class(p) = "generic" => Id(p)[1] = 0
         /\ Class(p) = "nopGeneric" => Id(p)[1] = ShortSize
         /\ Class(p) = "quorum" => FieldSize <= Id(p)[1] /\ Id(p)[1] < 2 * FieldSize
         /\ Class(p) = "sharing" => 2 * FieldSize <= Id(p)[1] /\ Id(p)[1] < 3 * FieldSize
         /\ Class(p) = "evaluation" => Id(p)[1] = 3 * FieldSize
         /\ Class(p) = "result" => Id(p)[1] = 4 * FieldSize
         /\ Class(p) = "nopResult" => Id(p)[1] = 4 * FieldSize + ShortSize
         /\ Class(p) = "two" => 5 * FieldSize <= Id(p)[1]
<1>1. FieldSize \in Nat /\ ShortSize \in Nat /\ 0 < ShortSize /\ ShortSize < FieldSize
  BY IdentifiersAssumption
<1>2. p.kind \in Kinds /\ p.a \in Nat
  BY DEF Arguments
<1>3. CASE p.kind \in {"sharing", "renewal"}
  <2>1. Id(p)[1] = 2 * FieldSize + p.a /\ p.a < FieldSize
    BY <1>3, <1>2, Words DEF Arguments
  <2>2. Class(p) = "sharing"
    BY <1>3 DEF Class
  <2>3. QED
    BY <1>1, <1>2, <2>1, <2>2 DEF Kinds
<1>4. CASE p.kind \in {"quorum", "two"}
  <2>1. /\ p.kind = "quorum" => Id(p)[1] = FieldSize + p.a
        /\ p.kind = "two" => Id(p)[1] = 5 * FieldSize + p.a
        /\ p.a < ShortSize
    BY <1>4, <1>2, Words DEF Arguments
  <2>2. Class(p) = p.kind
    BY <1>4 DEF Class
  <2>3. QED
    BY <1>1, <1>2, <1>4, <2>1, <2>2 DEF Kinds
<1>5. CASE p.kind \in {"generic", "nopGeneric", "evaluation", "result", "nopResult"}
  <2>1. /\ p.kind = "generic" => Id(p)[1] = 0
        /\ p.kind = "nopGeneric" => Id(p)[1] = ShortSize
        /\ p.kind = "evaluation" => Id(p)[1] = 3 * FieldSize
        /\ p.kind = "result" => Id(p)[1] = 4 * FieldSize
        /\ p.kind = "nopResult" => Id(p)[1] = 4 * FieldSize + ShortSize
    BY <1>2, Words
  <2>2. Class(p) = p.kind
    BY <1>5 DEF Class
  <2>3. QED
    BY <1>1, <1>2, <1>5, <2>1, <2>2 DEF Kinds
<1>6. QED
  BY <1>2, <1>3, <1>4, <1>5 DEF Kinds

\* The ranges of the high words do not overlap.
LEMMA KindsApart ==
  ASSUME NEW p, NEW q, Arguments(p), Arguments(q), Id(p) = Id(q)
  PROVE  Class(p) = Class(q)
<1>1. FieldSize \in Nat /\ ShortSize \in Nat /\ 0 < ShortSize /\ ShortSize < FieldSize
  BY IdentifiersAssumption
<1> DEFINE h == Id(p)[1]
<1>2. /\ h \in Nat
      /\ Class(p) \in Kinds \ {"renewal"}
      /\ Class(p) = "generic" => h = 0
      /\ Class(p) = "nopGeneric" => h = ShortSize
      /\ Class(p) = "quorum" => FieldSize <= h /\ h < 2 * FieldSize
      /\ Class(p) = "sharing" => 2 * FieldSize <= h /\ h < 3 * FieldSize
      /\ Class(p) = "evaluation" => h = 3 * FieldSize
      /\ Class(p) = "result" => h = 4 * FieldSize
      /\ Class(p) = "nopResult" => h = 4 * FieldSize + ShortSize
      /\ Class(p) = "two" => 5 * FieldSize <= h
  BY HighWord
<1>3. /\ Class(q) \in Kinds \ {"renewal"}
      /\ Class(q) = "generic" => h = 0
      /\ Class(q) = "nopGeneric" => h = ShortSize
      /\ Class(q) = "quorum" => FieldSize <= h /\ h < 2 * FieldSize
      /\ Class(q) = "sharing" => 2 * FieldSize <= h /\ h < 3 * FieldSize
      /\ Class(q) = "evaluation" => h = 3 * FieldSize
      /\ Class(q) = "result" => h = 4 * FieldSize
      /\ Class(q) = "nopResult" => h = 4 * FieldSize + ShortSize
      /\ Class(q) = "two" => 5 * FieldSize <= h
  BY HighWord
<1> HIDE DEF h
<1>4. QED
  BY <1>1, <1>2, <1>3 DEF Kinds

\* A number below the unit and a multiple of the unit can be told from their sum.
LEMMA Fields ==
  ASSUME NEW u \in Nat, NEW i \in Nat, NEW j \in Nat, NEW m \in Nat, NEW n \in Nat,
         m < u, n < u, i * u + m = j * u + n
  PROVE  i = j /\ m = n
<1>1. ~(i < j)
  <2> SUFFICES ASSUME i < j PROVE FALSE
    OBVIOUS
  <2>1. PICK d \in Nat : j = i + 1 + d
    <3>1. j - i - 1 \in Nat /\ j = i + 1 + (j - i - 1)
      OBVIOUS
    <3>2. QED
      BY <3>1
  <2>2. j * u = i * u + u + d * u
    BY <2>1
  <2>3. d * u \in Nat /\ i * u \in Nat
    OBVIOUS
  <2>4. QED
    BY <2>2, <2>3
<1>2. ~(j < i)
  <2> SUFFICES ASSUME j < i PROVE FALSE
    OBVIOUS
  <2>1. PICK d \in Nat : i = j + 1 + d
    <3>1. i - j - 1 \in Nat /\ i = j + 1 + (i - j - 1)
      OBVIOUS
    <3>2. QED
      BY <3>1
  <2>2. i * u = j * u + u + d * u
    BY <2>1
  <2>3. d * u \in Nat /\ j * u \in Nat
    OBVIOUS
  <2>4. QED
    BY <2>2, <2>3
<1>3. i = j
  BY <1>1, <1>2
<1>4. i * u \in Nat
  OBVIOUS
<1>5. QED
  BY <1>3, <1>4

\* Two protocols do not have the same identifier, unless one shares an input with a gate
\* and the other renews shares for it.
LEMMA IdInjective ==
  ASSUME NEW p \in Protocol, NEW q \in Protocol, Id(p) = Id(q),
         ~(p.kind = "sharing" /\ q.kind = "renewal"),
         ~(p.kind = "renewal" /\ q.kind = "sharing")
  PROVE  p = q
<1>0. Id(p)[1] = Id(q)[1] /\ Id(p)[2] = Id(q)[2]
  OBVIOUS
<1>1. Arguments(p) /\ Arguments(q)
  BY ProtocolArguments
<1>2. p.kind = q.kind
  BY <1>1, KindsApart DEF Class
<1>3. /\ p = [kind |-> p.kind, a |-> p.a, b |-> p.b, n |-> p.n]
      /\ q = [kind |-> q.kind, a |-> q.a, b |-> q.b, n |-> q.n]
  BY ProtocolArguments
<1>4. SUFFICES p.a = q.a /\ p.b = q.b /\ p.n = q.n
  BY <1>2, <1>3, Zenon
<1>5. /\ p.kind \in Kinds
      /\ p.a \in Nat /\ p.b \in Nat /\ p.n \in Nat
      /\ q.a \in Nat /\ q.b \in Nat /\ q.n \in Nat
      /\ FieldSize \in Nat /\ ShortSize \in Nat
  BY <1>1, IdentifiersAssumption DEF Arguments
<1>6. CASE p.kind = "sharing"
  <2>0. /\ Id(p)[1] = 2 * FieldSize + p.a /\ Id(p)[2] = 2 * p.b + p.n
        /\ Id(q)[1] = 2 * FieldSize + q.a /\ Id(q)[2] = 2 * q.b + q.n
    BY <1>1, <1>2, <1>6, LowWord, FieldOfHighWord
  <2>1. /\ 2 * FieldSize + p.a = 2 * FieldSize + q.a
        /\ 2 * p.b + p.n = 2 * q.b + q.n
    BY <1>0, <2>0
  <2>2. p.n \in 0..1 /\ q.n \in 0..1
    BY <1>1, <1>2, <1>6 DEF Arguments
  <2>3. QED
    BY <1>5, <2>1, <2>2
<1>7. CASE p.kind = "renewal"
  <2>0. /\ Id(p)[1] = 2 * FieldSize + p.a /\ Id(p)[2] = 3 * p.b + p.n
        /\ Id(q)[1] = 2 * FieldSize + q.a /\ Id(q)[2] = 3 * q.b + q.n
    BY <1>1, <1>2, <1>7, LowWord, FieldOfHighWord
  <2>1. /\ 2 * FieldSize + p.a = 2 * FieldSize + q.a
        /\ 3 * p.b + p.n = 3 * q.b + q.n
    BY <1>0, <2>0
  <2>2. p.n \in 0..2 /\ q.n \in 0..2
    BY <1>1, <1>2, <1>7 DEF Arguments
  <2>3. p.n < 3 /\ q.n < 3 /\ p.b * 3 + p.n = q.b * 3 + q.n
    BY <1>5, <2>1, <2>2
  <2>4. p.b = q.b /\ p.n = q.n
    BY Zenon, <1>5, <2>3, 3 \in Nat, Fields
  <2>5. QED
    BY <1>5, <2>1, <2>4
<1>8. CASE p.kind = "two"
  <2>0. /\ Id(p)[1] = 5 * FieldSize + p.a /\ Id(p)[2] = p.b * ShortSize + p.n
        /\ Id(q)[1] = 5 * FieldSize + q.a /\ Id(q)[2] = q.b * ShortSize + q.n
    BY <1>1, <1>2, <1>8, LowWord, FieldOfHighWord
  <2>1. /\ 5 * FieldSize + p.a = 5 * FieldSize + q.a
        /\ p.b * ShortSize + p.n = q.b * ShortSize + q.n
    BY <1>0, <2>0
  <2>2. p.n < ShortSize /\ q.n < ShortSize
    BY <1>1, <1>2, <1>8 DEF Arguments
  <2>3. p.b = q.b /\ p.n = q.n
    <3>1. /\ ShortSize \in Nat
          /\ p.b \in Nat /\ q.b \in Nat /\ p.n \in Nat /\ q.n \in Nat
          /\ p.n < ShortSize /\ q.n < ShortSize
          /\ p.b * ShortSize + p.n = q.b * ShortSize + q.n
      BY Zenon, <1>5, <2>1, <2>2
    <3>2. QED
      BY Zenon, <3>1, Fields
  <2>4. QED
    BY <1>5, <2>1, <2>3
<1>9. CASE p.kind = "quorum"
  <2>0. /\ Id(p)[1] = FieldSize + p.a /\ Id(p)[2] = p.n
        /\ Id(q)[1] = FieldSize + q.a /\ Id(q)[2] = q.n
    BY <1>1, <1>2, <1>9, LowWord, FieldOfHighWord
  <2>1. FieldSize + p.a = FieldSize + q.a /\ p.n = q.n
    BY <1>0, <2>0
  <2>2. p.b = 0 /\ q.b = 0
    BY <1>1, <1>2, <1>9 DEF Arguments
  <2>3. QED
    BY <1>5, <2>1, <2>2
<1>10. CASE p.kind \in {"generic", "nopGeneric"}
  <2>0. Id(p)[2] = p.n /\ Id(q)[2] = q.n
    BY <1>1, <1>2, <1>10, LowWord, FieldOfHighWord
  <2>1. p.n = q.n
    BY <1>0, <2>0
  <2>2. QED
    BY <1>1, <1>2, <1>10, <2>1 DEF Arguments
<1>11. CASE p.kind \in {"evaluation", "result", "nopResult"}
  <2>0. Id(p)[2] = p.a /\ Id(q)[2] = q.a
    BY <1>1, <1>2, <1>11, LowWord, FieldOfHighWord
  <2>1. p.a = q.a
    BY <1>0, <2>0
  <2>2. QED
    BY <1>1, <1>2, <1>11, <2>1 DEF Arguments
<1>12. QED
  BY <1>5, <1>6, <1>7, <1>8, <1>9, <1>10, <1>11 DEF Kinds

-----------------------------------------------------------------------------
(***************************************************************************)
(* The inductive invariant: no number is given out twice.                  *)
(***************************************************************************)

\* Registered protocols have numbers below the counters.
BelowCounters ==
  \A p \in inUse :
    /\ p.kind = "quorum" => p.n < whichProtocol[p.a]
    /\ p.kind = "two" => p.n < twoQuorum[p.a][p.b]

\* The copies of two quorums count the same.
SameCount == \A q, r \in Quorum : twoQuorum[q][r] = twoQuorum[r][q]

\* Inputs are shared in one stage and shares renewed in the other.
InStage ==
  \A p \in inUse :
    /\ p.kind = "sharing" => ~evaluating
    /\ p.kind = "renewal" => evaluating

IdentifiersInv == IdentifiersTypeOK /\ BelowCounters /\ SameCount /\ InStage

\* Everything is empty at first.
LEMMA InitIdentifiersInv == IdentifiersInit => IdentifiersInv
<1> SUFFICES ASSUME IdentifiersInit PROVE IdentifiersInv
  OBVIOUS
<1>1. /\ inUse = {} /\ evaluating = FALSE
      /\ whichProtocol = [q \in Quorum |-> 0]
      /\ twoQuorum = [q \in Quorum |-> [r \in Quorum |-> 0]]
  BY DEF IdentifiersInit
<1>2. 0 \in 0..MaxProtocols /\ 0 \in 0..MaxTwo
  BY IdentifiersAssumption
<1>3. IdentifiersTypeOK
  <2>1. evaluating \in BOOLEAN
    BY <1>1, Zenon
  <2>2. /\ whichProtocol \in [Quorum -> 0..MaxProtocols]
        /\ twoQuorum \in [Quorum -> [Quorum -> 0..MaxTwo]]
    BY <1>1, <1>2
  <2>3. QED
    BY <1>1, <2>1, <2>2 DEF IdentifiersTypeOK
<1>4. BelowCounters /\ SameCount /\ InStage
  BY <1>1 DEF BelowCounters, SameCount, InStage
<1>5. QED
  BY <1>3, <1>4 DEF IdentifiersInv

\* What is registered under the next number of a quorum is a protocol.
LEMMA NextOfQuorumType ==
  ASSUME IdentifiersTypeOK, NEW q \in Quorum
  PROVE  NextOfQuorum(q) \in OfQuorum
<1>1. whichProtocol[q] \in Nat
  BY IdentifiersAssumption DEF IdentifiersTypeOK
<1>2. QED
  BY <1>1 DEF NextOfQuorum, OfQuorum

\* And so is what is registered under the next number of two quorums.
LEMMA NextOfTwoType ==
  ASSUME IdentifiersTypeOK, NEW q \in Quorum, NEW r \in Quorum, q # r, twoQuorum[q][r] < MaxTwo
  PROVE  /\ NextOfTwo(q, r) \in OfTwoQuorums
         /\ NextOfTwo(q, r).n = twoQuorum[q][r]
         /\ \/ NextOfTwo(q, r).a = q /\ NextOfTwo(q, r).b = r
            \/ NextOfTwo(q, r).a = r /\ NextOfTwo(q, r).b = q
<1>1. q \in Nat /\ r \in Nat /\ twoQuorum[q][r] \in 0..(ShortSize - 1)
  BY IdentifiersAssumption DEF IdentifiersTypeOK
<1>2. CASE q > r
  BY <1>1, <1>2 DEF NextOfTwo, OfTwoQuorums
<1>3. CASE r > q
  BY <1>1, <1>3 DEF NextOfTwo, OfTwoQuorums
<1>4. QED
  BY <1>1, <1>2, <1>3

\* Kinds of protocols.
LEMMA KindOf ==
  ASSUME NEW p \in Protocol
  PROVE  /\ p \in Named => p.kind \notin {"quorum", "two"}
         /\ p \in OfQuorum => p.kind = "quorum" /\ p.a \in Quorum
         /\ p \in OfTwoQuorums => p.kind = "two" /\ p.a \in Quorum /\ p.b \in Quorum
         /\ p.kind = "quorum" => p \in OfQuorum
         /\ p.kind = "two" => p \in OfTwoQuorums
<1>1. p \in Named => p.kind \notin {"quorum", "two"}
  BY DEF Named, Generic, InputSharing, InputRenewal, GateEval, ResultBroadcast, Nop
<1>2. p \in OfQuorum => p.kind = "quorum" /\ p.a \in Quorum
  BY DEF OfQuorum
<1>3. p \in OfTwoQuorums => p.kind = "two" /\ p.a \in Quorum /\ p.b \in Quorum
  BY DEF OfTwoQuorums
<1>4. QED
  BY <1>1, <1>2, <1>3 DEF Protocol

\* Every step keeps the invariant.
LEMMA NextIdentifiersInv == IdentifiersInv /\ [IdentifiersNext]_identifierVars => IdentifiersInv'
<1> SUFFICES ASSUME IdentifiersInv, [IdentifiersNext]_identifierVars PROVE IdentifiersInv'
  OBVIOUS
<1>1. IdentifiersTypeOK /\ BelowCounters /\ SameCount /\ InStage
  BY DEF IdentifiersInv
<1>2. CASE RegisterNamed
  <2>1. PICK p \in NamedInTurn : RegisterProtocol(p)
    BY <1>2 DEF RegisterNamed
  <2>2. UNCHANGED <<evaluating, whichProtocol, twoQuorum>>
    BY <1>2 DEF RegisterNamed
  <2>3. /\ inUse' = inUse \union {p}
        /\ p \in Protocol /\ p \in Named
        /\ p.kind = "sharing" => ~evaluating
        /\ p.kind = "renewal" => evaluating
    BY <2>1 DEF RegisterProtocol, NamedInTurn, Protocol
  <2>4. p.kind \notin {"quorum", "two"}
    BY <2>3, KindOf
  <2>5. IdentifiersTypeOK'
    BY <1>1, <2>2, <2>3 DEF IdentifiersTypeOK
  <2>6. BelowCounters' /\ SameCount' /\ InStage'
    BY <1>1, <2>2, <2>3, <2>4 DEF BelowCounters, SameCount, InStage
  <2>7. QED
    BY <2>5, <2>6 DEF IdentifiersInv
<1>3. ASSUME NEW q \in Quorum, GetNextProtocolId(q)
      PROVE  IdentifiersInv'
  <2>1. /\ inUse' = inUse \union {NextOfQuorum(q)}
        /\ whichProtocol[q] < MaxProtocols
        /\ whichProtocol' = [whichProtocol EXCEPT ![q] = @ + 1]
        /\ UNCHANGED <<evaluating, twoQuorum>>
    BY <1>3 DEF GetNextProtocolId, RegisterProtocol
  <2>2. /\ whichProtocol \in [Quorum -> 0..MaxProtocols] /\ MaxProtocols \in Nat
        /\ inUse \subseteq Protocol
    BY <1>1, IdentifiersAssumption DEF IdentifiersTypeOK
  <2>3. /\ whichProtocol' \in [Quorum -> 0..MaxProtocols]
        /\ whichProtocol'[q] = whichProtocol[q] + 1
        /\ \A r \in Quorum : whichProtocol[r] <= whichProtocol'[r]
    BY <2>1, <2>2
  <2>4. NextOfQuorum(q) \in OfQuorum /\ NextOfQuorum(q) \in Protocol
    BY <1>1, NextOfQuorumType DEF Protocol
  <2>5. IdentifiersTypeOK'
    BY <1>1, <2>1, <2>3, <2>4 DEF IdentifiersTypeOK
  <2>6. BelowCounters'
    <3> SUFFICES ASSUME NEW p \in inUse'
                 PROVE  /\ p.kind = "quorum" => p.n < whichProtocol'[p.a]
                        /\ p.kind = "two" => p.n < twoQuorum'[p.a][p.b]
      BY DEF BelowCounters
    <3>1. CASE p \in inUse
      <4>1. p.kind = "two" => p.n < twoQuorum'[p.a][p.b]
        BY <1>1, <2>1, <3>1 DEF BelowCounters
      <4>2. ASSUME p.kind = "quorum" PROVE p.n < whichProtocol'[p.a]
        <5>1. p \in OfQuorum /\ p.a \in Quorum /\ p.n \in Nat
          BY <2>2, <3>1, <4>2, KindOf DEF OfQuorum
        <5>2. p.n < whichProtocol[p.a]
          BY <1>1, <3>1, <4>2 DEF BelowCounters
        <5>3. whichProtocol[p.a] \in Nat /\ whichProtocol'[p.a] \in Nat
          BY <2>2, <2>3, <5>1
        <5>4. QED
          BY <2>3, <5>1, <5>2, <5>3
      <4>3. QED
        BY <4>1, <4>2
    <3>2. CASE p = NextOfQuorum(q)
      <4>1. p.kind = "quorum" /\ p.a = q /\ p.n = whichProtocol[q]
        BY <3>2 DEF NextOfQuorum
      <4>2. whichProtocol[q] \in Nat
        BY <2>2
      <4>3. QED
        BY <2>3, <4>1, <4>2
    <3>3. QED
      BY <2>1, <3>1, <3>2
  <2>7. SameCount'
    BY <1>1, <2>1 DEF SameCount
  <2>8. InStage'
    BY <1>1, <2>1 DEF InStage, NextOfQuorum
  <2>9. QED
    BY <2>5, <2>6, <2>7, <2>8 DEF IdentifiersInv
<1>4. ASSUME NEW q \in Quorum, NEW r \in Quorum, GetNextTwoProtocolId(q, r)
      PROVE  IdentifiersInv'
  <2>1. /\ q # r
        /\ twoQuorum[q][r] < MaxTwo
        /\ inUse' = inUse \union {NextOfTwo(q, r)}
        /\ twoQuorum' = [twoQuorum EXCEPT ![q][r] = @ + 1, ![r][q] = @ + 1]
        /\ UNCHANGED <<evaluating, whichProtocol>>
    BY <1>4 DEF GetNextTwoProtocolId, RegisterProtocol, CountTwo
  <2>2. /\ twoQuorum \in [Quorum -> [Quorum -> 0..MaxTwo]] /\ MaxTwo \in Nat
        /\ inUse \subseteq Protocol
        /\ twoQuorum[q][r] = twoQuorum[r][q]
    BY <1>1, IdentifiersAssumption DEF IdentifiersTypeOK, SameCount
  <2>3. /\ twoQuorum' \in [Quorum -> [Quorum -> 0..MaxTwo]]
        /\ twoQuorum'[q][r] = twoQuorum[q][r] + 1
        /\ twoQuorum'[r][q] = twoQuorum[q][r] + 1
        /\ \A s, t \in Quorum : <<s, t>> \notin {<<q, r>>, <<r, q>>} => twoQuorum'[s][t] = twoQuorum[s][t]
    <3>1. PICK g : g = [twoQuorum EXCEPT ![q][r] = @ + 1]
      OBVIOUS
    <3>2. /\ g \in [Quorum -> [Quorum -> 0..MaxTwo]]
          /\ g[q][r] = twoQuorum[q][r] + 1
          /\ \A s, t \in Quorum : <<s, t>> # <<q, r>> => g[s][t] = twoQuorum[s][t]
      BY <2>1, <2>2, <3>1
    <3>3. twoQuorum' = [g EXCEPT ![r][q] = @ + 1]
      BY <2>1, <3>1
    <3>4. g[r][q] = twoQuorum[q][r]
      BY <2>1, <2>2, <3>2
    <3>5. /\ twoQuorum' \in [Quorum -> [Quorum -> 0..MaxTwo]]
          /\ twoQuorum'[r][q] = g[r][q] + 1
          /\ \A s, t \in Quorum : <<s, t>> # <<r, q>> => twoQuorum'[s][t] = g[s][t]
      <4>1. g[r][q] + 1 \in 0..MaxTwo
        BY <2>1, <2>2, <3>4
      <4>2. PICK h : h = [g[r] EXCEPT ![q] = @ + 1]
        OBVIOUS
      <4>3. /\ h \in [Quorum -> 0..MaxTwo]
            /\ h[q] = g[r][q] + 1
            /\ \A t \in Quorum : t # q => h[t] = g[r][t]
        BY <3>2, <4>1, <4>2
      <4>4. twoQuorum' = [g EXCEPT ![r] = h]
        BY <3>2, <3>3, <4>2
      <4>5. QED
        BY <3>2, <4>3, <4>4
    <3>6. twoQuorum'[q][r] = g[q][r]
      <4>1. <<q, r>> # <<r, q>>
        BY <2>1
      <4>2. QED
        BY <3>5, <4>1
    <3>7. ASSUME NEW s \in Quorum, NEW t \in Quorum, <<s, t>> \notin {<<q, r>>, <<r, q>>}
          PROVE  twoQuorum'[s][t] = twoQuorum[s][t]
      <4>1. twoQuorum'[s][t] = g[s][t]
        BY <3>5, <3>7
      <4>2. QED
        BY <3>2, <3>7, <4>1
    <3>8. QED
      BY <3>2, <3>4, <3>5, <3>6, <3>7
  <2>4. \A s, t \in Quorum : twoQuorum[s][t] <= twoQuorum'[s][t] /\ twoQuorum[s][t] \in Nat /\ twoQuorum'[s][t] \in Nat
    BY <2>2, <2>3
  <2>5. /\ NextOfTwo(q, r) \in OfTwoQuorums /\ NextOfTwo(q, r) \in Protocol
        /\ NextOfTwo(q, r).n = twoQuorum[q][r]
        /\ \/ NextOfTwo(q, r).a = q /\ NextOfTwo(q, r).b = r
           \/ NextOfTwo(q, r).a = r /\ NextOfTwo(q, r).b = q
    BY <1>1, <2>1, NextOfTwoType DEF Protocol
  <2>6. IdentifiersTypeOK'
    BY <1>1, <2>1, <2>3, <2>5 DEF IdentifiersTypeOK
  <2>7. BelowCounters'
    <3> SUFFICES ASSUME NEW p \in inUse'
                 PROVE  /\ p.kind = "quorum" => p.n < whichProtocol'[p.a]
                        /\ p.kind = "two" => p.n < twoQuorum'[p.a][p.b]
      BY DEF BelowCounters
    <3>1. CASE p \in inUse
      <4>1. p.kind = "quorum" => p.n < whichProtocol'[p.a]
        BY <1>1, <2>1, <3>1 DEF BelowCounters
      <4>2. ASSUME p.kind = "two" PROVE p.n < twoQuorum'[p.a][p.b]
        <5>1. p.a \in Quorum /\ p.b \in Quorum /\ p.n \in Int
          BY <2>2, <3>1, <4>2, KindOf, IdentifiersAssumption DEF OfTwoQuorums
        <5>2. p.n < twoQuorum[p.a][p.b]
          BY <1>1, <3>1, <4>2 DEF BelowCounters
        <5>3. QED
          BY <2>4, <5>1, <5>2
      <4>3. QED
        BY <4>1, <4>2
    <3>2. CASE p = NextOfTwo(q, r)
      <4>1. p.kind = "two"
        BY <3>2 DEF NextOfTwo
      <4>2. twoQuorum[q][r] \in Nat
        BY <2>4
      <4>3. QED
        BY <2>3, <2>5, <3>2, <4>1, <4>2
    <3>3. QED
      BY <2>1, <3>1, <3>2
  <2>8. SameCount'
    BY <1>1, <2>3 DEF SameCount
  <2>9. InStage'
    BY <1>1, <2>1 DEF InStage, NextOfTwo
  <2>10. QED
    BY <2>6, <2>7, <2>8, <2>9 DEF IdentifiersInv
<1>5. CASE Unregister
  <2>1. inUse' \subseteq inUse /\ UNCHANGED <<evaluating, whichProtocol, twoQuorum>>
    BY <1>5 DEF Unregister
  <2>2. QED
    BY <1>1, <2>1 DEF IdentifiersInv, IdentifiersTypeOK, BelowCounters, SameCount, InStage
<1>6. CASE StartEvaluation
  <2>1. /\ \A p \in inUse : p.kind # "sharing"
        /\ UNCHANGED <<inUse, whichProtocol, twoQuorum>>
    BY <1>6 DEF StartEvaluation
  <2>2. evaluating' /\ evaluating' \in BOOLEAN
    BY <1>6, Zenon DEF StartEvaluation
  <2>3. IdentifiersTypeOK'
    BY <1>1, <2>1, <2>2, Zenon DEF IdentifiersTypeOK
  <2>4. BelowCounters' /\ SameCount'
    BY <1>1, <2>1 DEF BelowCounters, SameCount
  <2>5. InStage'
    BY <2>1, <2>2, Zenon DEF InStage
  <2>6. QED
    BY <2>3, <2>4, <2>5 DEF IdentifiersInv
<1>7. CASE UNCHANGED identifierVars
  BY <1>1, <1>7 DEF identifierVars, IdentifiersInv, IdentifiersTypeOK, BelowCounters, SameCount, InStage
<1>8. QED
  BY <1>2, <1>3, <1>4, <1>5, <1>6, <1>7 DEF IdentifiersNext

\* Whatever may be registered next differs from what is registered, and so does its
\* identifier.
LEMMA InvUnused == IdentifiersInv => IdentifiersUnused
<1> SUFFICES ASSUME IdentifiersInv, NEW q \in inUse
             PROVE  /\ \A p \in NamedInTurn : Id(p) # Id(q)
                    /\ \A r \in Quorum : Id(NextOfQuorum(r)) # Id(q)
                    /\ \A r, s \in Quorum :
                         r # s /\ twoQuorum[r][s] < MaxTwo => Id(NextOfTwo(r, s)) # Id(q)
  BY DEF IdentifiersUnused
<1>1. IdentifiersTypeOK /\ BelowCounters /\ SameCount /\ InStage
  BY DEF IdentifiersInv
<1>2. q \in Protocol
  BY <1>1 DEF IdentifiersTypeOK
<1>3. ASSUME NEW p \in NamedInTurn, Id(p) = Id(q)
      PROVE  FALSE
  <2>1. /\ p \in Protocol /\ p \notin inUse
        /\ p.kind = "sharing" => ~evaluating
        /\ p.kind = "renewal" => evaluating
    BY DEF NamedInTurn, Protocol
  <2>2. /\ q.kind = "sharing" => ~evaluating
        /\ q.kind = "renewal" => evaluating
    BY <1>1 DEF InStage
  <2>3. /\ ~(p.kind = "sharing" /\ q.kind = "renewal")
        /\ ~(p.kind = "renewal" /\ q.kind = "sharing")
    BY Zenon, <2>1, <2>2
  <2>4. p = q
    BY Zenon, <1>2, <1>3, <2>1, <2>3, IdInjective
  <2>5. QED
    BY <2>1, <2>4
<1>4. ASSUME NEW r \in Quorum, Id(NextOfQuorum(r)) = Id(q)
      PROVE  FALSE
  <2>1. NextOfQuorum(r) \in Protocol
    BY <1>1, NextOfQuorumType DEF Protocol
  <2>2. NextOfQuorum(r).kind = "quorum" /\ NextOfQuorum(r).a = r /\ NextOfQuorum(r).n = whichProtocol[r]
    BY DEF NextOfQuorum
  <2>3. NextOfQuorum(r) = q
    BY <1>2, <1>4, <2>1, <2>2, IdInjective
  <2>4. whichProtocol[r] < whichProtocol[r]
    BY <1>1, <2>2, <2>3 DEF BelowCounters
  <2>5. whichProtocol[r] \in Nat
    BY <1>1, IdentifiersAssumption DEF IdentifiersTypeOK
  <2>6. QED
    BY <2>4, <2>5
<1>5. ASSUME NEW r \in Quorum, NEW s \in Quorum, r # s, twoQuorum[r][s] < MaxTwo,
             Id(NextOfTwo(r, s)) = Id(q)
      PROVE  FALSE
  <2>1. /\ NextOfTwo(r, s) \in Protocol
        /\ NextOfTwo(r, s).n = twoQuorum[r][s]
        /\ \/ NextOfTwo(r, s).a = r /\ NextOfTwo(r, s).b = s
           \/ NextOfTwo(r, s).a = s /\ NextOfTwo(r, s).b = r
    BY <1>1, <1>5, NextOfTwoType DEF Protocol
  <2>2. NextOfTwo(r, s).kind = "two"
    BY DEF NextOfTwo
  <2>3. NextOfTwo(r, s) = q
    BY <1>2, <1>5, <2>1, <2>2, IdInjective
  <2>4. twoQuorum[r][s] = twoQuorum[s][r]
    BY <1>1 DEF SameCount
  <2>5. twoQuorum[r][s] < twoQuorum[r][s]
    BY <1>1, <2>1, <2>2, <2>3, <2>4 DEF BelowCounters
  <2>6. twoQuorum[r][s] \in Nat
    BY <1>1, IdentifiersAssumption DEF IdentifiersTypeOK
  <2>7. QED
    BY <2>5, <2>6
<1>6. QED
  BY <1>3, <1>4, <1>5

\* No counter leaves its range and every registered protocol is one that the generator
\* makes identifiers for.
THEOREM IdentifiersHaveTypes == IdentifiersSpec => []IdentifiersTypeOK
<1>1. IdentifiersInv => IdentifiersTypeOK
  BY DEF IdentifiersInv
<1>2. QED
  BY <1>1, InitIdentifiersInv, NextIdentifiersInv, PTL DEF IdentifiersSpec

\* The assertion of RegisterProtocol holds: no protocol that may be registered next has the
\* identifier of a registered one.
THEOREM IdentifiersAlwaysUnused == IdentifiersSpec => []IdentifiersUnused
BY InitIdentifiersInv, NextIdentifiersInv, InvUnused, PTL DEF IdentifiersSpec

=============================================================================
