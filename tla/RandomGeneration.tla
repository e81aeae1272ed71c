-------------------------- MODULE RandomGeneration ---------------------------
(***************************************************************************)
(* The members of a quorum make a random number that none of them knows    *)
(* (RandGenProtocol) and then open it (ReconstructionProtocol), as the     *)
(* stage machines do one after the other.  A member deals a polynomial     *)
(* whose free coefficient is its own random number; the number of all is   *)
(* the sum.  The polynomials are real, over a small field.                 *)
(*                                                                         *)
(* One member may misbehave.  It may do so towards all others: deal        *)
(* without a commitment, commit after it has dealt, or be silent all the   *)
(* time.  It may also commit in time to the first member only, or begin    *)
(* with the message that ends the round, which members send to themselves. *)
(***************************************************************************)
EXTENDS LockStep, Integers, FiniteSetsExt, SequencesExt

CONSTANTS
  Size,          \* the members of the quorum, 1..Size
  Prime,         \* the size of the field
  Polynomials,   \* the polynomials that members deal: coefficients, the free one first
  Misbehaving,   \* the member that may misbehave
  Conducts       \* how it may

\* What the models that use this module assume.
RandomGenerationAssumption ==
  /\ Size \in Nat \ {0}
  /\ Prime \in Nat /\ Prime > Size /\ \A d \in 2..(Prime - 1) : Prime % d # 0
  /\ Misbehaving \in 1..Size
  /\ Conducts \subseteq {"correct", "uncommitted", "late", "silent", "partial", "hasty"}
  /\ \A c \in Polynomials : Len(c) = (Size + 2) \div 3

Member == 1..Size

VARIABLES
  stage,             \* the protocol a member runs
  conduct,           \* of the member that may misbehave
  polynomial,        \* what each member deals
  commitsRecv,       \* the members whose commitment a member has
  combinedShare,     \* CombinedShare
  numSharesRecv,     \* numSharesRecv
  scheduledReconst,  \* scheduledReconst
  reconstRecv,       \* ReconstRecv
  opened             \* Result of the reconstruction

private == <<conduct, polynomial, commitsRecv, combinedShare, numSharesRecv,
             scheduledReconst, reconstRecv, opened>>
vars == <<clock, network, loopbacks, stage, private>>

TypeOK ==
  /\ stage \in [Member -> {"unregistered", "generating", "generated", "opening", "completed"}]
  /\ commitsRecv \in [Member -> SUBSET Member]
  /\ numSharesRecv \in [Member -> 0..Size]
  /\ scheduledReconst \in [Member -> BOOLEAN]
  /\ \A p \in Member : DOMAIN reconstRecv[p] \subseteq Member

Unopened == Prime

\* What is computed is in the field.
InField ==
  /\ combinedShare \in [Member -> 0..(Prime - 1)]
  /\ opened \in [Member -> 0..(Prime - 1) \union {Unopened}]

Init ==
  /\ NetworkInit
  /\ stage = [p \in Member |-> "unregistered"]
  /\ conduct \in Conducts
  /\ polynomial \in [Member -> Polynomials]
  /\ commitsRecv = [p \in Member |-> {}]
  /\ combinedShare = [p \in Member |-> 0]
  /\ numSharesRecv = [p \in Member |-> 0]
  /\ scheduledReconst = [p \in Member |-> FALSE]
  /\ reconstRecv = [p \in Member |-> <<>>]
  /\ opened = [p \in Member |-> Unopened]

-----------------------------------------------------------------------------
(***************************************************************************)
(* Shamir sharing.                                                         *)
(***************************************************************************)

PolyDegree == (Size + 2) \div 3 - 1

\* A row of coefficients times a column of the Vandermonde matrix.
ShareOf(coeffs, i) ==
  FoldLeft(LAMBDA sum, k : (sum + coeffs[k] * i^(k - 1)) % Prime, 0, [k \in DOMAIN coeffs |-> k])

MultipInverse(a) == CHOOSE b \in 1..(Prime - 1) : (a * b) % Prime = 1

\* The value at 0 of the Lagrange polynomial of i.
Lagrange(i) ==
  FoldLeft(LAMBDA product, j :
             IF j = i THEN product
             ELSE (product * (Prime - j) * MultipInverse((i + Prime - j) % Prime)) % Prime,
           1, [j \in 1..(PolyDegree + 1) |-> j])

\* SimpleRecombine looks at as many shares as it needs.
Recombine(shares) ==
  FoldLeft(LAMBDA secret, i : (secret + Lagrange(i) * shares[i]) % Prime, 0,
           [i \in 1..(PolyDegree + 1) |-> i])

-----------------------------------------------------------------------------
(***************************************************************************)
(* Random generation.                                                      *)
(***************************************************************************)

Members == [i \in Member |-> i]
Conduct(p) == IF p = Misbehaving THEN conduct ELSE "correct"

Others(p) == SelectSeq(Members, LAMBDA i : i # p)

Commits(p) == Letters(0, p, Members, [type |-> "commit"])
Shares(p) ==
  [i \in Member |-> Letter(0, p, i, [type |-> "share", value |-> ShareOf(polynomial[p], i)])]

\* Commitments are sent before shares.
Sent(p) ==
  CASE Conduct(p) = "correct" -> Commits(p) \o Shares(p)
    [] Conduct(p) = "uncommitted" -> Shares(p)
    [] Conduct(p) = "late" -> Shares(p) \o Commits(p)
    [] Conduct(p) = "silent" -> <<>>
    [] Conduct(p) = "partial" ->
         Letters(0, p, <<1>>, [type |-> "commit"]) \o Shares(p) \o Commits(p)
    [] Conduct(p) = "hasty" ->
         Letters(0, p, Others(p), [type |-> "nextRound"]) \o Commits(p) \o Shares(p)

\* The members start in one tick, in any order.
Start(p) ==
  /\ stage[p] = "unregistered"
  /\ IsTime(0)
  /\ stage' = [stage EXCEPT ![p] = "generating"]
  /\ network' = network \o Sent(p)
  /\ UNCHANGED <<clock, loopbacks, private>>

\* The protocol that handles a message of the type.
Handler(type) == IF type = "reconst" THEN "opening" ELSE "generating"

\* It is the turn of the message m, which finds its protocol, and all members have started.
Handle(m, type) ==
  /\ m.body.type = type
  /\ stage[m.to] = Handler(type)
  /\ \A p \in Member : stage[p] # "unregistered"
  /\ clock' = m.at

HandleCommit ==
  \E m \in Due :
    /\ Handle(m, "commit")
    /\ commitsRecv' = [commitsRecv EXCEPT ![m.to] = @ \union {m.from}]
    /\ network' = Tail(network)
    /\ UNCHANGED <<loopbacks, stage, conduct, polynomial, combinedShare, numSharesRecv,
                   scheduledReconst, reconstRecv, opened>>

\* The end of the round comes a tick later, when all messages of this one are handled.
NextRound(now, p) == <<Letter(now, p, p, [type |-> "nextRound"])>>

\* Mutant of EndRound: the end of the round is a loopback, which comes first.
EndRoundAtOnce(now, p) ==
  /\ loopbacks' = Append(loopbacks, p)
  /\ stage' = [stage EXCEPT ![p] = "generated"]
  /\ network' = Tail(network)

EndRound(now, p) ==
  /\ network' = Tail(network) \o NextRound(now, p)
  /\ UNCHANGED <<loopbacks, stage>>

EnoughShares(count) == 3 * count >= 2 * Size

\* A share that comes before the commitment of its dealer is not counted.
HandleShare ==
  \E m \in Due :
    LET p == m.to
        counts == m.from \in commitsRecv[p]
        ends == counts /\ EnoughShares(numSharesRecv[p] + 1) /\ ~scheduledReconst[p]
    IN  /\ Handle(m, "share")
        /\ combinedShare' = IF counts THEN [combinedShare EXCEPT ![p] = (@ + m.body.value) % Prime]
                                      ELSE combinedShare
        /\ numSharesRecv' = IF counts THEN [numSharesRecv EXCEPT ![p] = @ + 1] ELSE numSharesRecv
        /\ scheduledReconst' = [scheduledReconst EXCEPT ![p] = @ \/ ends]
        /\ \/ ends /\ EndRound(m.at, p)
           \/ ~ends /\ network' = Tail(network) /\ UNCHANGED <<loopbacks, stage>>
        /\ UNCHANGED <<conduct, polynomial, commitsRecv, reconstRecv, opened>>

\* The protocol is completed, whoever has sent the message, which the runtime reports to
\* its parent.
HandleNextRound ==
  \E m \in Due :
    /\ Handle(m, "nextRound")
    /\ stage' = [stage EXCEPT ![m.to] = "generated"]
    /\ loopbacks' = Append(loopbacks, m.to)
    /\ network' = Tail(network)
    /\ UNCHANGED private

-----------------------------------------------------------------------------
(***************************************************************************)
(* Reconstruction.                                                         *)
(***************************************************************************)

\* The parent starts the reconstruction.
StartReconstruction ==
  /\ loopbacks # <<>>
  /\ LET p == Head(loopbacks)
     IN  /\ stage' = [stage EXCEPT ![p] = "opening"]
         /\ network' =
              IF Conduct(p) = "silent" THEN network
              ELSE network \o Letters(clock, p, Members,
                                      [type |-> "reconst", value |-> combinedShare[p]])
  /\ loopbacks' = Tail(loopbacks)
  /\ UNCHANGED <<clock, private>>

HandleReconst ==
  \E m \in Due :
    LET p == m.to
        shares == [i \in DOMAIN reconstRecv[p] \union {m.from} |->
                     IF i = m.from THEN m.body.value ELSE reconstRecv[p][i]]
        complete == DOMAIN shares = Member
    IN  /\ Handle(m, "reconst")
        /\ reconstRecv' = [reconstRecv EXCEPT ![p] = shares]
        /\ opened' = IF complete THEN [opened EXCEPT ![p] = Recombine(shares)] ELSE opened
        /\ stage' = IF complete THEN [stage EXCEPT ![p] = "completed"] ELSE stage
        /\ network' = Tail(network)
        /\ UNCHANGED <<loopbacks, conduct, polynomial, commitsRecv, combinedShare,
                       numSharesRecv, scheduledReconst>>

Next ==
  \/ \E p \in Member : Start(p)
  \/ HandleCommit
  \/ HandleShare
  \/ HandleNextRound
  \/ StartReconstruction
  \/ HandleReconst

Spec == Init /\ [][Next]_vars

-----------------------------------------------------------------------------

\* The assertion of Party.Receive: the message whose turn it is finds its protocol, which
\* is registered when the members start, at tick 0, or when the random number is there, and
\* has not been completed by a message that came before.
MessagesFindProtocol ==
  \A m \in Due : stage[m.to] \in {Handler(m.body.type), "unregistered"}

\* The members who dealt as they should.
Dealers == {p \in Member : Conduct(p) = "correct"}

\* A member that goes on has counted the share of every correct member: that others deal
\* sooner does not keep it from that, if the member that misbehaves does so towards all.
HonestDealersCounted ==
  \A p \in Member :
    stage[p] \in {"generated", "opening", "completed"} =>
      numSharesRecv[p] >= Cardinality(Dealers)

SumOfDealt == MapThenSumSet(LAMBDA q : polynomial[q][1], Dealers) % Prime

\* Although a member goes on when two thirds of the quorum have dealt, the number that is
\* opened is the sum of what every correct member has dealt, if the member that misbehaves
\* does so towards all.
OpenedIsTheSum ==
  \A p \in Member : stage[p] = "completed" => opened[p] = SumOfDealt

\* All open the same number, even if they have counted different shares.
OpenTheSame ==
  \A p, q \in Member : stage[p] = "completed" /\ stage[q] = "completed" => opened[p] = opened[q]

=============================================================================
