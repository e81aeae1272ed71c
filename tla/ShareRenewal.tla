---------------------------- MODULE ShareRenewal ----------------------------
(***************************************************************************)
(* QuorumShareRenewal.cs: a quorum passes a secret that its members share  *)
(* on to another quorum.  In a round every member shares its shares with   *)
(* the members of the target, who combine what they receive to shares of   *)
(* the secret.  If the other quorum has more than three times as many      *)
(* members, the first one renews its shares among itself before, to have   *)
(* three times as many.  A tagged renewal does this for two secrets, under *)
(* one protocol that waits for both.                                       *)
(*                                                                         *)
(* A share is the point at which a polynomial was evaluated: the share of  *)
(* a share s that was made for the point t is the pair <<s, t>>, and those *)
(* for t of the shares at 1, 2, 3, ... combine to the share at t.          *)
(* Commitments are empty (the quorums are not Byzantine).  All members     *)
(* start in one tick, as they evaluate gates in lock step (GateEvaluation),*)
(* and those who only receive have started before.                         *)
(***************************************************************************)
EXTENDS LockStep, Integers, FiniteSets, SequencesExt

CONSTANTS
  Renewals,   \* pairs of quorums, the second of which gets the shares of the first
  Item        \* the secrets: two in a tagged renewal

ASSUME ShareRenewalAssumption ==
  /\ \A r \in Renewals : r = <<r[1], r[2]>>
  /\ \A r \in Renewals : \A q \in {r[1], r[2]} : q # {} /\ IsFiniteSet(q) /\ q \subseteq Nat
  /\ IsFiniteSet(Item) /\ Item # {} /\ Item \subseteq Nat

VARIABLES
  from, to,    \* Quorums[FROM] and Quorums[TO]
  started,     \* the parties that have started
  remaining,   \* IntermediateRoundsRemaining
  shares,      \* Shares, and Result when the renewal is completed
  round,       \* CurrentRound, a set of at most one
  completed,   \* the renewals that are completed
  joined       \* the parties whose tagged renewal is completed

vars == <<clock, network, loopbacks, from, to, started, remaining, shares, round,
          completed, joined>>

-----------------------------------------------------------------------------

Party == from \union to

\* QuorumShareRenewalProtocol: one for each party and each secret.
Renewal == Party \X Item

Size(q) == Cardinality(q)

\* MyQuorumIndex, from 0.
Position(p, q) == Cardinality({r \in q : r < p})

\* The members of a quorum are kept in order.
Members(q) == [n \in 1..Size(q) |-> CHOOSE p \in q : Position(p, q) = n - 1]

\* The shares that there are after n intermediate rounds.
ShareCount(f, n) == 3^n * Size(f)

\* Mutant of IntermediateRounds: three times as many is not enough.
IntermediateRoundsStrict(f, t) ==
  CHOOSE n \in 0..Size(t) :
    /\ 3 * ShareCount(f, n) > Size(t)
    /\ \A k \in 0..(n - 1) : 3 * ShareCount(f, k) <= Size(t)

\* The rounds it takes until the shares are within a factor of three of the other quorum.
IntermediateRounds(f, t) ==
  CHOOSE n \in 0..Size(t) :
    /\ 3 * ShareCount(f, n) >= Size(t)
    /\ \A k \in 0..(n - 1) : 3 * ShareCount(f, k) < Size(t)

\* The constructor of ShareRenewalRound.
NewRound(senders, target, startShares, finalShares, isFinal) ==
  [target |-> target,
   startShares |-> startShares,
   finalShares |-> finalShares,
   commits |-> [p \in senders |-> 0],
   reshares |-> [p \in senders |-> [i \in 1..startShares |-> <<>>]],
   received |-> 0,
   isFinal |-> isFinal]

\* A sum in which a share is missing, or of a wrong point.
Broken == 0

TypeOK ==
  /\ <<from, to>> \in Renewals
  /\ started \subseteq Party
  /\ joined \subseteq started
  /\ completed \subseteq started \X Item
  /\ remaining \in [Renewal -> Nat]
  /\ shares \in [Renewal -> Seq(Nat)]
  /\ \A r \in Renewal : \A c \in round[r] :
       /\ round[r] = {c}
       /\ c.commits \in [from -> 0..c.startShares]
       /\ c.reshares \in [from -> [1..c.startShares -> Seq(Nat \X Nat)]]

Init ==
  /\ NetworkInit
  /\ \E r \in Renewals : from = r[1] /\ to = r[2]
  /\ started = to \ from
  /\ remaining = [r \in Renewal |-> IntermediateRounds(from, to)]
  /\ shares = [r \in Renewal |-> IF r[1] \in from THEN <<Position(r[1], from) + 1>> ELSE <<>>]
  /\ round = [r \in Renewal |->
       IF r[1] \in from
         THEN {}
         ELSE {NewRound(from, to, 3^IntermediateRounds(from, to), 1, TRUE)}]
  /\ completed = {}
  /\ joined = {}

-----------------------------------------------------------------------------
(***************************************************************************)
(* A round.                                                                *)
(***************************************************************************)

\* The point for which the j-th of the shares of the n-th member is made.
Point(n, j, finalShares) == (n - 1) * finalShares + j

Commitments(r, c, now) ==
  Letters(now, r[1], Members(c.target), [item |-> r[2], type |-> "commit", share |-> <<>>])

Dealings(r, c, s, now) ==
  FlattenSeq([n \in 1..Size(c.target) |->
    [j \in 1..c.finalShares |->
      Letter(now, r[1], Members(c.target)[n],
             [item |-> r[2], type |-> "share", share |-> <<s, Point(n, j, c.finalShares)>>])]])

\* Mutant of Reshare: the shares are sent before the commitment to them.
ReshareThenCommit(r, c, s, now) == Dealings(r, c, s, now) \o Commitments(r, c, now)

\* The share s is shared with the members of the target.
Reshare(r, c, s, now) == Commitments(r, c, now) \o Dealings(r, c, s, now)

\* ShareRenewalRound.Start.
StartRound(r, c, now, before) ==
  /\ round' = [round EXCEPT ![r] = {c}]
  /\ network' = before \o FlattenSeq([i \in DOMAIN shares[r] |-> Reshare(r, c, shares[r][i], now)])

\* The share of `sender` is filed under the number of commitments received so far.
File(c, sender, s) ==
  [c EXCEPT !.reshares[sender][c.commits[sender]] = Append(@, s),
            !.received = @ + 1]

AllReceived(c) == c.received = Size(from) * c.startShares * c.finalShares

\* Mutant of OrderedShares: the shares of one sender are taken in order of their points.
OrderedSharesByPoint(c, j) ==
  [k \in 1..(Size(from) * c.startShares) |->
     c.reshares[Members(from)[((k - 1) % Size(from)) + 1]][((k - 1) \div Size(from)) + 1][j]]

\* A row of orderedShares: the j-th reshare of each share of each sender.
OrderedShares(c, j) ==
  [k \in 1..(Size(from) * c.startShares) |->
     c.reshares[Members(from)[((k - 1) \div c.startShares) + 1]][((k - 1) % c.startShares) + 1][j]]

Filled(c) ==
  \A p \in from : \A i \in 1..c.startShares : Len(c.reshares[p][i]) = c.finalShares

\* A linear combination of shares at 1, 2, 3, ... that were evaluated at the same point is
\* the share at this point.
Combined(row) ==
  IF \E t \in {row[1][2]} : \A k \in DOMAIN row : row[k] = <<k, t>> THEN row[1][2] ELSE Broken

Recombine(c) ==
  [j \in 1..c.finalShares |-> IF Filled(c) THEN Combined(OrderedShares(c, j)) ELSE Broken]

-----------------------------------------------------------------------------
(***************************************************************************)
(* QuorumShareRenewalProtocol.                                             *)
(***************************************************************************)

\* The renewals of a party that complete in its step; the second posts the completion of
\* both to the tagged renewal.
Complete(p, items, before) ==
  /\ completed' = completed \union ({p} \X items)
  /\ loopbacks' = before \o
       IF items # {} /\ {p} \X Item \subseteq completed' THEN <<p>> ELSE <<>>

\* Mutant of FirstRound: the intermediate round goes to the other quorum.
FirstRoundToOther(p) ==
  IF IntermediateRounds(from, to) > 0
    THEN NewRound(from, to, 1, 3, FALSE)
    ELSE NewRound(from, to, 1, 1, TRUE)

\* The first round of a party.
FirstRound(p) ==
  IF IntermediateRounds(from, to) > 0
    THEN NewRound(from, from, 1, 3, FALSE)
    ELSE NewRound(from, to, 1, 1, TRUE)

\* Start of both renewals.  Whoever is not in the other quorum has nothing to wait for.
Start(p) ==
  LET c == FirstRound(p)
      letters(item) ==
        FlattenSeq([i \in DOMAIN shares[<<p, item>>] |->
          Reshare(<<p, item>>, c, shares[<<p, item>>][i], 0)])
  IN  /\ p \in from \ started
      /\ IsTime(0)
      /\ started' = started \union {p}
      /\ round' = [r \in Renewal |-> IF r[1] = p THEN {c} ELSE round[r]]
      /\ network' = network \o
           FlattenSeq([n \in 1..Cardinality(Item) |-> letters(Members(Item)[n])])
      /\ Complete(p, IF c.isFinal /\ p \notin to THEN Item ELSE {}, loopbacks)
      /\ UNCHANGED <<clock, from, to, remaining, shares, joined>>

Addressee(m) == <<m.to, m.body.item>>

\* The message whose turn it is, if it is of the type.
Delivered(type) ==
  {m \in Due : Party \subseteq started /\ m.body.type = type}

Took(m) ==
  /\ clock' = m.at
  /\ UNCHANGED <<from, to, started, joined>>

NextRound(r, now) == Letter(now, r[1], r[1], [item |-> r[2], type |-> "nextRound", share |-> <<>>])

HandleCommit ==
  \E m \in Delivered("commit") : \E c \in round[Addressee(m)] :
    /\ Took(m)
    /\ round' = [round EXCEPT ![Addressee(m)] = {[c EXCEPT !.commits[m.from] = @ + 1]}]
    /\ network' = Tail(network)
    /\ UNCHANGED <<loopbacks, remaining, shares, completed>>

\* A share that no commitment has announced is dropped.
HandleShare ==
  \E m \in Delivered("share") : \E c \in round[Addressee(m)] :
    LET filed == IF c.commits[m.from] > 0 THEN File(c, m.from, m.body.share) ELSE c
    IN  /\ Took(m)
        /\ round' = [round EXCEPT ![Addressee(m)] = {filed}]
        /\ network' = Tail(network) \o
             IF AllReceived(filed) THEN <<NextRound(Addressee(m), m.at)>> ELSE <<>>
        /\ UNCHANGED <<loopbacks, remaining, shares, completed>>

\* The round is over: the shares are combined, and if it was not the last one the next is
\* started in the next tick.
FinishRound ==
  \E m \in Delivered("nextRound") : \E c \in round[Addressee(m)] :
    LET r == Addressee(m)
    IN  /\ Took(m)
        /\ shares' = [shares EXCEPT ![r] = Recombine(c)]
        /\ IF c.isFinal
             THEN /\ Complete(m.to, {m.body.item}, loopbacks)
                  /\ network' = Tail(network)
                  /\ UNCHANGED <<round, remaining>>
             ELSE /\ round' = [round EXCEPT ![r] = {}]
                  /\ remaining' = [remaining EXCEPT ![r] = @ - 1]
                  /\ network' = Append(Tail(network), NextRound(r, m.at))
                  /\ UNCHANGED <<loopbacks, completed>>

\* The next round, which goes to the other quorum even if it is not the last.
StartNextRound ==
  \E m \in Delivered("nextRound") :
    LET r == Addressee(m)
        count == Len(shares[r])
    IN  /\ Took(m)
        /\ round[r] = {}
        /\ IF remaining[r] > 0
             THEN StartRound(r, NewRound(from, to, count, 3 * count, FALSE), m.at, Tail(network))
             ELSE StartRound(r, NewRound(from, to, count, 1, TRUE), m.at, Tail(network))
        /\ UNCHANGED <<loopbacks, remaining, shares, completed>>

\* QuorumTaggedShareRenewalProtocol.HandleMessage.
JoinSubProtocols ==
  /\ loopbacks # <<>>
  /\ loopbacks' = Tail(loopbacks)
  /\ joined' = joined \union {Head(loopbacks)}
  /\ UNCHANGED <<clock, network, from, to, started, remaining, shares, round, completed>>

Next ==
  \/ \E p \in from : Start(p)
  \/ HandleCommit
  \/ HandleShare
  \/ FinishRound
  \/ StartNextRound
  \/ JoinSubProtocols

Spec == Init /\ [][Next]_vars

\* The simulator runs until its queues are empty.
FairSpec == Spec /\ WF_vars(Next)

-----------------------------------------------------------------------------

\* A message finds a round, and room in it: no more commitments than the assertion allows,
\* and no more shares after each than are combined.
MessagesFitRound ==
  Party \subseteq started =>
    \A m \in Due :
      m.body.type # "nextRound" =>
        \E c \in round[Addressee(m)] :
          LET n == c.commits[m.from]
          IN  IF m.body.type = "commit"
                THEN n < c.startShares
                ELSE n > 0 /\ Len(c.reshares[m.from][n]) < c.finalShares

\* "send the message to start the next round when we have received all of the shares from
\* everybody", says the comment: whoever is told to combine has each share that it combines.
AllSharesAtTheEnd ==
  Party \subseteq started =>
    \A m \in Due :
      m.body.type = "nextRound" => \A c \in round[Addressee(m)] : Filled(c)

\* The shares of a quorum stay shares of the secret: the one of each member is the one at
\* its position, and when it has several they follow each other.
SharesOfTheSecret ==
  \A r \in Renewal :
    LET count == Len(shares[r])
        quorum == IF r \in completed THEN to ELSE from
    IN  r[1] \in quorum =>
          \A j \in 1..count : shares[r][j] = Point(Position(r[1], quorum) + 1, j, count)

\* The tagged renewal is completed at every member of both quorums.
EverybodyCompletes == <>(joined = Party)

=============================================================================
