------------------------ MODULE PolynomialCommitments ------------------------
(***************************************************************************)
(* The polynomial commitments of the library (PolyCommit): parameters with *)
(* a table of products, commitments and witnesses made with that table,    *)
(* and their verification; the proof that the committer knows the          *)
(* polynomial, by Fiat and Shamir, and the assertion of its degree.        *)
(*                                                                         *)
(* A group element is its logarithm to the generator, a number modulo the  *)
(* order of the groups: a product is a sum, a power is a product, and so   *)
(* is a pairing.  Both generators are 1, as the pairing is symmetric.      *)
(*                                                                         *)
(* An element that is read beyond the end of a table can be any; there the *)
(* model lets all such reads of a behaviour give the same one.             *)
(***************************************************************************)
EXTENDS Integers, Sequences, SequencesExt, Functions

CONSTANTS
  Order,         \* the order of the groups, a prime
  Degrees,       \* the values of t: polynomials have degree t or less
  WindowWidth,   \* POLYCOMMIT_WINDOW_DEFAULT
  Coefficients,  \* bound: the coefficients, or values, of what is committed to
  Secrets,       \* bound: what alpha is drawn from
  Randoms,       \* bound: what s1, s2 and the multipliers are drawn from
  Beyond         \* what may be read beyond the end of a table

Zr == 0..(Order - 1)

ASSUME CommitmentsAssumption ==
  /\ Order \in Nat \ {0, 1} /\ \A d \in 2..(Order - 1) : Order % d # 0
  /\ Degrees \subseteq 0..(Order - 1)
  /\ WindowWidth \in Nat \ {0, 1}
  /\ Coefficients \subseteq Zr /\ Secrets \subseteq Zr /\ Randoms \subseteq Zr /\ Beyond \subseteq Zr

VARIABLES
  pc,          \* what has been done last
  params,      \* PolyCommitParams
  committer,   \* PolyCommitter
  C,           \* the commitment
  witness,     \* of the value at each point
  prover,      \* PoK_poly_Prover
  sent,        \* what the verifier has got
  accepted     \* its verdict

vars == <<pc, params, committer, C, witness, prover, sent, accepted>>

-----------------------------------------------------------------------------
(***************************************************************************)
(* Polynomials: coefficients 0..t.                                         *)
(***************************************************************************)

Total(f) == FoldFunction(LAMBDA a, b : (a + b) % Order, 0, f)
Power(x, k) == IF k = 0 THEN 1 ELSE (x^k) % Order
Inverse1(a) == CHOOSE b \in Zr : (a * b) % Order = 1

Eval(f, x) == Total([k \in DOMAIN f |-> f[k] * Power(x, k)])
Deg(f) == LET set == {k \in DOMAIN f : f[k] # 0}
          IN IF set = {} THEN -1 ELSE CHOOSE k \in set : \A l \in set : l <= k
Scaled(c, f) == [k \in DOMAIN f |-> (c * f[k]) % Order]

\* Multiplication by x^n, of a polynomial whose degree allows it.
LeftShift(f, n) == [k \in DOMAIN f |-> IF k < n THEN 0 ELSE f[k - n]]

\* (f(x) - f(i)) / (x - i)
Quotient(f, i) ==
  [k \in DOMAIN f |-> Total([j \in {l \in DOMAIN f : l > k} |-> f[j] * Power(i, j - k - 1)])]

TimesLinear(f, root) ==
  [k \in DOMAIN f |-> ((IF k = 0 THEN 0 ELSE f[k - 1]) + (Order - root) * f[k]) % Order]

\* The polynomial of degree t that is 1 at i and 0 at the other points of 0..t.
LagrangeBasis(t, i) ==
  LET product == FoldLeft(LAMBDA f, j : IF j - 1 = i THEN f ELSE TimesLinear(f, j - 1),
                          [k \in 0..t |-> IF k = 0 THEN 1 ELSE 0], [j \in 1..(t + 1) |-> j])
  IN Scaled(Inverse1(Eval(product, i)), product)

\* v, followed by zeros, are the values at 0..t.
PolyFromVec(v, t) ==
  [k \in 0..t |-> Total([i \in DOMAIN v |-> v[i] * LagrangeBasis(t, i - 1)[k]])]

-----------------------------------------------------------------------------
(***************************************************************************)
(* The tables of products.                                                 *)
(***************************************************************************)

\* The last window would be full, for which the table has no entry.
Width(t) == IF t % WindowWidth = WindowWidth - 1 THEN WindowWidth - 1 ELSE WindowWidth
Windows(t) == t \div Width(t) + 1

\* Mutant of Bound: of the elements g^(alpha^0), ..., g^(alpha^t) one is forgotten.
BoundButOne(t, k) == IF k = Windows(t) - 1 THEN t % Width(t) ELSE Width(t)

Bound(t, k) == IF k = Windows(t) - 1 THEN (t + 1) % Width(t) ELSE Width(t)

\* For every window the products of all subsets of its elements, doubled element by element.
PrecompProducts(t, elements) ==
  [k \in 0..(Windows(t) - 1) |->
    FoldLeft(LAMBDA products, i :
               products \o [j \in DOMAIN products |->
                              (products[j] + elements[k * Width(t) + i - 1]) % Order],
             <<0>>, [i \in 1..Bound(t, k) |-> i])]

Product(p, table, k, index) ==
  IF index < Len(table[k]) THEN table[k][index + 1] ELSE p.beyond

\* The binary digits of an exponent, the highest first.
Digits == LET n == CHOOSE n \in 1..Order : 2^n >= Order /\ \A l \in 1..(n - 1) : 2^l < Order
          IN [b \in 1..n |-> n - b]

\* The digits of the exponents of a window, the lowest first, are an index into its products.
Index(t, expons, k, b) ==
  FoldFunction(+, 0, [i \in {i \in 0..(Width(t) - 1) : k * Width(t) + i \in DOMAIN expons} |->
                        ((expons[k * Width(t) + i] \div 2^b) % 2) * 2^i])

\* Square and multiply for all exponents together.
CInternal(p, table, expons) ==
  FoldLeft(LAMBDA c, b :
             (2 * c + Total([k \in DOMAIN table |->
                               Product(p, table, k, Index(p.t, expons, k, b))])) % Order,
           0, Digits)

\* g^alpha, which the proofs read in the table of the powers also when t is 0.
GAlpha(p) == IF p.t = 0 THEN p.beyond ELSE p.galphai[1]

\* The parameters, with the commitments to the Lagrange basis where they are wanted.
Parameters(t, alpha, computeLagrange, beyond) ==
  LET galphai == [i \in 0..t |-> Power(alpha, i)]
      products == PrecompProducts(t, galphai)
      p == [t |-> t, beyond |-> beyond]
      glambdai == [i \in 0..t |-> CInternal(p, products, LagrangeBasis(t, i))]
  IN [t |-> t, beyond |-> beyond, galphai |-> galphai, ghatalpha |-> alpha, products |-> products,
      computeLagrange |-> computeLagrange,
      glambdai |-> IF computeLagrange THEN glambdai ELSE <<>>,
      lambdaProducts |-> IF computeLagrange THEN PrecompProducts(t, glambdai) ELSE <<>>]

-----------------------------------------------------------------------------
(***************************************************************************)
(* Commitments.                                                            *)
(***************************************************************************)

Polynomial(f) == [mode |-> "POLY", f |-> f, v |-> <<>>]
Vector(v, t) == [mode |-> "VEC", f |-> PolyFromVec(v, t), v |-> v]

\* get_C, element by element.
GetC(p, com) ==
  IF com.mode = "VEC" /\ p.computeLagrange THEN Total([i \in DOMAIN com.v |-> p.glambdai[i - 1] * com.v[i]])
                                           ELSE Total([i \in DOMAIN com.f |-> p.galphai[i] * com.f[i]])

\* get_C_fast
GetCFast(p, com) ==
  IF com.mode = "VEC" /\ p.computeLagrange
    THEN CInternal(p, p.lambdaProducts, [i \in 0..(Len(com.v) - 1) |-> com.v[i + 1]])
    ELSE CInternal(p, p.products, com.f)

\* A commitment to the quotient of a blinded f(x) - f(i).
CreateWitness(p, com, i, blinding) ==
  GetCFast(p, Polynomial(Scaled(blinding, Quotient(com.f, i))))

\* e(C, ghat) = e(witness, ghatalpha / ghat^i) e(g, ghat^fi)
VerifyEval(p, commitment, i, fi, w) ==
  commitment = (w * (p.ghatalpha + Order - i) + fi) % Order

VerifyPoly(p, commitment, f) == GetC(p, Polynomial(f)) = commitment
VerifyVec(p, commitment, v) == VerifyPoly(p, commitment, PolyFromVec(v, p.t))

\* Of several commitments at one point, with a random multiplier for each.
VerifyEvalBatch(p, commitments, i, fi, ws, multipliers) ==
  VerifyEval(p, Total([j \in DOMAIN commitments |-> multipliers[j] * commitments[j]]), i,
                Total([j \in DOMAIN fi |-> multipliers[j] * fi[j]]),
                Total([j \in DOMAIN ws |-> multipliers[j] * ws[j]]))

-----------------------------------------------------------------------------
(***************************************************************************)
(* Behaviours.                                                             *)
(***************************************************************************)

None == <<>>

Init ==
  /\ pc = "new"
  /\ params = None /\ committer = None /\ C = None /\ witness = None
  /\ prover = None /\ sent = None /\ accepted = FALSE

\* PolyCommit.Setup
Setup ==
  /\ pc = "new"
  /\ pc' = "created"
  /\ \E t \in Degrees, alpha \in Secrets, computeLagrange \in BOOLEAN, beyond \in Beyond :
       params' = Parameters(t, alpha, computeLagrange, beyond)
  /\ UNCHANGED <<committer, C, witness, prover, sent, accepted>>

\* What can be committed to: a polynomial of degree t or less, a vector of up to t + 1 values.
Committers(t) ==
  {Polynomial(f) : f \in [0..t -> Coefficients]}
    \union {Vector(v, t) : v \in UNION {[1..n -> Coefficients] : n \in 1..(t + 1)}}

\* PolyCommit.Commit: the commitment, and a witness for each member of the quorum.
Commit ==
  /\ pc = "created"
  /\ pc' = "committed"
  /\ \E com \in Committers(params.t) :
       /\ committer' = com
       /\ C' = GetCFast(params, com)
       /\ witness' = [i \in 1..(Order - 1) |-> CreateWitness(params, com, i, 1)]
  /\ UNCHANGED <<params, prover, sent, accepted>>

\* What the announcement commits to; the index of the proof is a hash of the commitment.
Announced(index, gamma, s1, s2) ==
  LET w == CreateWitness(params, committer, index, gamma)
  IN [index |-> index, gamma |-> gamma, s1 |-> s1, s2 |-> s2, witness |-> w,
      LHS |-> (w * (GAlpha(params) + Order - index) * s1 + s2) % Order]

Announce ==
  /\ pc = "committed"
  /\ pc' = "announced"
  /\ \E index \in Zr, gamma \in Zr, s1 \in Randoms, s2 \in Randoms :
       prover' = Announced(index, gamma, s1, s2)
  /\ UNCHANGED <<params, committer, C, witness, sent, accepted>>

\* Mutant of Response: the blinding is put in once more, not taken out.
ResponseBlinded(chall) ==
  [u1 |-> (prover.s1 + (Order - chall) * prover.gamma) % Order,
   u2 |-> (prover.s2 + (Order - Eval(committer.f, prover.index)) * chall) % Order]

Response(chall) ==
  [u1 |-> (prover.s1 + (Order - chall) * Inverse1(prover.gamma)) % Order,
   u2 |-> (prover.s2 + (Order - Eval(committer.f, prover.index)) * chall) % Order]

\* The challenge is a hash of the announcement.  A blinding factor of zero, which is not
\* looked for, has no inverse.
Respond ==
  /\ pc = "announced"
  /\ \/ /\ prover.gamma # 0
        /\ \E chall \in Zr :
             sent' = [index |-> prover.index, witness |-> prover.witness, LHS |-> prover.LHS,
                      chall |-> chall, response |-> Response(chall)]
        /\ pc' = "responded"
     \/ /\ prover.gamma = 0
        /\ pc' = "aborted"
        /\ UNCHANGED sent
  /\ UNCHANGED <<params, committer, C, witness, prover, accepted>>

\* PoK_poly_Verifier, for a commitment that it was given.
Verify(commitment) ==
  LET w == sent.witness * (GAlpha(params) + Order - sent.index)
  IN sent.LHS = (w * sent.response.u1 + sent.response.u2 + commitment * sent.chall) % Order

VerifyProof ==
  /\ pc = "responded"
  /\ pc' = "verified"
  /\ accepted' = Verify(C)
  /\ UNCHANGED <<params, committer, C, witness, prover, sent>>

\* assert_degree: that of the polynomial is d or less.  The degree is compared as an unsigned
\* number, in which the -1 of the polynomial that is zero is more than every d.
AssertDegree ==
  /\ pc = "committed"
  /\ \E d \in 0..params.t :
       IF Deg(committer.f) \in 0..d
         THEN /\ pc' = "asserted"
              /\ sent' = [d |-> d,
                          C_d |-> GetCFast(params, Polynomial(LeftShift(committer.f, params.t - d)))]
         ELSE /\ pc' = "aborted"
              /\ UNCHANGED sent
  /\ UNCHANGED <<params, committer, C, witness, prover, accepted>>

VerifyAssertDegree ==
  /\ pc = "asserted"
  /\ pc' = "verified"
  /\ accepted' = (sent.C_d = (C * params.galphai[params.t - sent.d]) % Order)
  /\ UNCHANGED <<params, committer, C, witness, prover, sent>>

Next ==
  \/ Setup \/ Commit \/ Announce \/ Respond \/ VerifyProof
  \/ AssertDegree \/ VerifyAssertDegree

Spec == Init /\ [][Next]_vars

-----------------------------------------------------------------------------
(***************************************************************************)
(* Properties.                                                             *)
(***************************************************************************)

\* The commitment that is made with the table is the one that is made without it: that of
\* any polynomial of degree t or less.
FastIsRight == pc = "committed" => C = GetC(params, committer)

\* A commitment can be opened, as the polynomial, as the vector, and by the witness of a
\* member at its point: the verifier accepts the value of the polynomial there and no other,
\* by itself and together with others, whose multipliers are drawn: a wrong value passes
\* only if its own multiplier is zero.
OpeningsVerify ==
  pc = "committed" =>
    /\ VerifyPoly(params, C, committer.f)
    /\ committer.mode = "VEC" => VerifyVec(params, C, committer.v)
    /\ \A i \in DOMAIN witness :
         LET right == Eval(committer.f, i)
             shifted(fi) == [j \in 1..2 |-> (j * fi) % Order]
         IN \A fi \in Zr :
              /\ VerifyEval(params, C, i, fi, witness[i]) <=> fi = right
              /\ \A m1, m2 \in Randoms :
                   VerifyEvalBatch(params, shifted(C), i, <<right, fi>>, shifted(witness[i]), <<m1, m2>>)
                     <=> fi = shifted(right)[2] \/ m2 = 0

\* A proof that is made by somebody who knows the polynomial, and an assertion of a degree
\* that it does not exceed, are accepted.  A proof of knowledge is one for its commitment:
\* for another one, the same answer to the same challenge is not accepted.
ProofsVerify ==
  /\ pc = "verified" => accepted
  /\ pc = "responded" /\ sent.chall # 0 => \A other \in Zr \ {C} : ~Verify(other)

=============================================================================
