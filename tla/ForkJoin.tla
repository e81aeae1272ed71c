------------------------------ MODULE ForkJoin ------------------------------
(***************************************************************************)
(* What a party's runtime promises the protocols that run on it.  A        *)
(* protocol forks children one after the other; when the last live child   *)
(* of a protocol finishes, one join is posted to it, and it names exactly  *)
(* the children forked since the previous join, in the order in which they *)
(* were forked.  Joins are delivered in the order in which they were       *)
(* posted.                                                                 *)
(***************************************************************************)
EXTENDS Sequences

CONSTANT Proto    \* the identities of protocols

VARIABLES
  batch,    \* batch[p]: the children p forked since its last join, in order
  live,     \* live[p]: the children of p that have not finished
  joins     \* the joins that have been posted and not delivered

vars == <<batch, live, joins>>

Init ==
  /\ batch = [p \in Proto |-> <<>>]
  /\ live = [p \in Proto |-> {}]
  /\ joins = <<>>

\* No protocol is forked again while it is live.
Fork(p, c) ==
  /\ \A q \in Proto : c \notin live[q]
  /\ batch' = [batch EXCEPT ![p] = Append(@, c)]
  /\ live' = [live EXCEPT ![p] = @ \union {c}]
  /\ UNCHANGED joins

Finish(p, c) ==
  /\ c \in live[p]
  /\ live' = [live EXCEPT ![p] = @ \ {c}]
  /\ IF live[p] = {c}
       THEN /\ joins' = Append(joins, [to |-> p, order |-> batch[p]])
            /\ batch' = [batch EXCEPT ![p] = <<>>]
       ELSE UNCHANGED <<batch, joins>>

Join ==
  /\ joins # <<>>
  /\ joins' = Tail(joins)
  /\ UNCHANGED <<batch, live>>

Next ==
  \/ \E p, c \in Proto : Fork(p, c) \/ Finish(p, c)
  \/ Join

Spec == Init /\ [][Next]_vars

=============================================================================
