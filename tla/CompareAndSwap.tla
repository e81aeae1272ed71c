--------------------------- MODULE CompareAndSwap ---------------------------
(***************************************************************************)
(* The protocols of SecretSharing/Protocols that compare two shared values *)
(* and put them in order, as the gates of a sorting network do.  Each is a *)
(* stage machine that launches others and goes on with their results; at   *)
(* the bottom are sums, products, reconstructions and random numbers.      *)
(*                                                                         *)
(* The members of a quorum run the same protocols on shares of the same    *)
(* values in lock step (GateEvaluation), so one of them is followed.  A    *)
(* share is the value it is a share of, the flag IsPublic, and the degree  *)
(* of the polynomial it lies on: 0 if all members hold the value itself,   *)
(* 1 for PolyDegree, 2 for twice as much.                                  *)
(*                                                                         *)
(* Protocols that are launched together do not touch each other; here they *)
(* run one after the other, under the one that launched them.              *)
(***************************************************************************)
EXTENDS Integers, Sequences, SequencesExt

CONSTANT Primes     \* the fields in which values are shared

\* What the models that use this module assume.
PrimesAssumption ==
  \A p \in Primes : p \in Nat /\ p > 2 /\ \A d \in 2..(p - 1) : p % d # 0

VARIABLES
  prime,     \* Prime
  inputs,    \* what is compared: two shares, with their tags if they have any
  stack,     \* the protocol that runs, before those that wait for it
  outcome    \* Result of the first protocol, once it is completed

vars == <<prime, inputs, stack, outcome>>

-----------------------------------------------------------------------------
(***************************************************************************)
(* Shares.                                                                 *)
(***************************************************************************)

Share(value, isPublic, degree) ==
  [value |-> value % prime, isPublic |-> isPublic, degree |-> degree]

CreateConstantShare(value) == Share(value, TRUE, 0)
SecretShare(value) == Share(value, FALSE, 1)

ShareAdditiveInverse(s) == Share(prime - s.value, s.isPublic, s.degree)

Larger(a, b) == IF a > b THEN a ELSE b

\* ShareAdditionProtocol, which is completed when it is made.
Sum(s, t) ==
  Share(s.value + t.value, s.isPublic /\ t.isPublic, Larger(s.degree, t.degree))

\* Mutant of Product: the product of two secret shares is not renewed.
ProductUnrenewed(s, t) ==
  Share(s.value * t.value, s.isPublic /\ t.isPublic, s.degree + t.degree)

\* ShareMultiplicationProtocol: the product of two secret shares is renewed.
Product(s, t) ==
  IF s.isPublic \/ t.isPublic
    THEN Share(s.value * t.value, s.isPublic /\ t.isPublic, s.degree + t.degree)
    ELSE SecretShare(s.value * t.value)

\* BitCompositionProtocol: the lowest bit comes first.
Composition(bits) ==
  LET from[i \in 1..(Len(bits) + 1)] ==
        IF i > Len(bits) THEN CreateConstantShare(0)
        ELSE Sum(Product(from[i + 1], CreateConstantShare(2)), bits[i])
  IN  from[1]

PowerOfTwo[k \in Nat] == IF k = 0 THEN 1 ELSE 2 * PowerOfTwo[k - 1]

\* GetBitLength2 and GetBitDecomposition, padded with zeroes.
BitLength(n) == CHOOSE k \in 0..n : n < PowerOfTwo[k] /\ (k > 0 => PowerOfTwo[k - 1] <= n)
BitDecomposition(n, length) ==
  [i \in 1..length |-> CreateConstantShare((n \div PowerOfTwo[i - 1]) % 2)]

\* FinalProcessing of RandomBitGenProtocol: the share of a random number, divided by the
\* smaller root of its square, is one of 1 or -1, which is moved to 1 or 0.
MultipInverse(n) == CHOOSE m \in 1..(prime - 1) : (n * m) % prime = 1
SmallerRoot(square) == CHOOSE n \in 1..(prime \div 2) : (n * n) % prime = square
RandomBit(rand, square) ==
  Share(MultipInverse(2) * (MultipInverse(SmallerRoot(square)) * rand.value + 1), FALSE,
        rand.degree)

-----------------------------------------------------------------------------
(***************************************************************************)
(* Protocols: a call is a protocol and what it is made with, a frame of    *)
(* the stack is a call with the state of its stage machine.                *)
(***************************************************************************)

Call(protocol, args) == [protocol |-> protocol, args |-> args]

Add(s, t) == Call("ShareAddition", <<s, t>>)
Multiply(s, t) == Call("ShareMultiplication", <<s, t>>)
Reconstruct(s) == Call("Reconstruction", <<s>>)
Compose(bits) == Call("BitComposition", <<bits>>)
Or(s, t) == Call("SharedBitOr", <<s, t>>)
Xor(s, t) == Call("SharedBitXor", <<s, t>>)
RandGen == Call("RandGen", <<>>)
RandomBitGen == Call("RandomBitGen", <<>>)
RandomBitwiseGen(max) == Call("RandomBitwiseGen", <<max>>)
BitwiseLessThan(as, bs) == Call("BitwiseLessThan", <<as, bs>>)
LeastSignificantBit(s) == Call("LeastSignificantBit", <<s>>)
LessThanHalfPrime(s) == Call("LessThanHalfPrime", <<s>>)
LessThan(s, t) == Call("ShareLessThan", <<s, t>>)
ConditionalSwap(s, t, bit) == Call("ConditionalSwap", <<s, t, bit>>)

\* With the protocol that the factory makes for two bits.
BitwiseOperation(as, bs, op) == Call("BitwiseOperation", <<as, bs, op>>)
PrefixOperation(bits, op) == Call("PrefixOperation", <<bits, op>>)
Loopback(value) == Call("Loopback", <<value>>)

\* A protocol that is completed without launching others, and its Result.
IsLeaf(c) ==
  c.protocol \in {"ShareAddition", "ShareMultiplication", "Reconstruction", "BitComposition",
                 "Loopback"}

LeafResult(c) ==
  CASE c.protocol = "ShareAddition" -> Sum(c.args[1], c.args[2])
    [] c.protocol = "ShareMultiplication" -> Product(c.args[1], c.args[2])
    [] c.protocol = "Reconstruction" -> c.args[1].value
    [] c.protocol = "BitComposition" -> Composition(c.args[1])
    [] OTHER -> c.args[1]

\* What Start of a protocol launches.
Launched(c) ==
  LET s == c.args[1]  t == c.args[2]
  IN CASE c.protocol = "CompareAndSwap" -> <<LessThan(s, t)>>
       [] c.protocol = "TaggedCompareAndSwap" -> <<LessThan(s[1], t[1])>>
       [] c.protocol = "ConditionalSwap" ->
            <<Add(CreateConstantShare(1), ShareAdditiveInverse(c.args[3]))>>
       [] c.protocol = "ShareLessThan" -> <<Add(s, ShareAdditiveInverse(t))>>
       [] c.protocol = "LessThanHalfPrime" -> <<Multiply(s, CreateConstantShare(2))>>
       [] c.protocol = "LeastSignificantBit" -> <<RandomBitwiseGen(prime)>>
       [] c.protocol = "RandomBitwiseGen" -> [i \in 1..BitLength(s) |-> RandomBitGen]
       [] c.protocol = "RandomBitGen" -> <<RandGen>>
       [] c.protocol = "BitwiseLessThan" -> <<BitwiseOperation(s, t, "SharedBitXor")>>
       [] c.protocol = "BitwiseOperation" ->
            [i \in DOMAIN s |-> Call(c.args[3], <<s[i], t[i]>>)]
       [] c.protocol = "PrefixOperation" -> <<>>
       [] OTHER -> <<Multiply(s, t)>>          \* SharedBitOr, SharedBitXor

\* The frame of a protocol that has been started: the fields it keeps, the protocols it has
\* launched that have not run yet, and the results of those that have.
Frame(c) ==
  [call |-> c, stage |-> 0, fields |-> <<>>, todo |-> Launched(c), results |-> <<>>]

Top == stack[1]
Args == Top.call.args
Fields == Top.fields
Results == Top.results

Init ==
  /\ prime \in Primes
  /\ \E a, b \in 0..(prime - 1) :
       \/ /\ inputs = <<<<SecretShare(a)>>, <<SecretShare(b)>>>>
          /\ stack = <<Frame(Call("CompareAndSwap", <<inputs[1][1], inputs[2][1]>>))>>
       \/ /\ inputs = <<<<SecretShare(a), SecretShare(1)>>, <<SecretShare(b), SecretShare(2)>>>>
          /\ stack = <<Frame(Call("TaggedCompareAndSwap", inputs))>>
  /\ outcome = <<>>

-----------------------------------------------------------------------------
(***************************************************************************)
(* Running protocols.                                                      *)
(***************************************************************************)

\* The stack of those that wait goes on with the result of the first that was launched.
Answered(waiting, result) ==
  [waiting EXCEPT ![1].todo = Tail(@), ![1].results = Append(@, result)]

\* The message that all are completed has come to the protocol, in this stage.
Handling(protocol, stage) ==
  /\ stack # <<>>
  /\ Top.call.protocol = protocol
  /\ Top.stage = stage
  /\ Top.todo = <<>>

\* ExecuteSubProtocols, keeping what the protocol has assigned to its fields.
ExecuteIn(stage, calls, fields) ==
  /\ stack' = [stack EXCEPT ![1] =
                 [@ EXCEPT !.stage = stage, !.todo = calls, !.results = <<>>,
                           !.fields = fields]]
  /\ UNCHANGED <<prime, inputs, outcome>>

Execute(calls, fields) == ExecuteIn(Top.stage + 1, calls, fields)

\* The protocol is completed; the result goes to the one that launched it.
Complete(result) ==
  /\ IF Len(stack) = 1
       THEN stack' = <<>> /\ outcome' = result
       ELSE stack' = Answered(Tail(stack), result) /\ UNCHANGED outcome
  /\ UNCHANGED <<prime, inputs>>

\* Start of the next protocol that was launched.
Launching == stack # <<>> /\ Top.todo # <<>>

RunLeaf ==
  /\ Launching
  /\ IsLeaf(Head(Top.todo))
  /\ stack' = Answered(stack, LeafResult(Head(Top.todo)))
  /\ UNCHANGED <<prime, inputs, outcome>>

\* The sum of the random numbers of the members may be any.
GenerateRandom ==
  /\ Launching
  /\ Head(Top.todo) = RandGen
  /\ \E v \in 0..(prime - 1) : stack' = Answered(stack, SecretShare(v))
  /\ UNCHANGED <<prime, inputs, outcome>>

StartProtocol ==
  /\ Launching
  /\ ~IsLeaf(Head(Top.todo)) /\ Head(Top.todo) # RandGen
  /\ stack' = <<Frame(Head(Top.todo))>> \o stack
  /\ UNCHANGED <<prime, inputs, outcome>>

-----------------------------------------------------------------------------
(***************************************************************************)
(* The stage machines: HandleMessage of each protocol.                     *)
(***************************************************************************)

HandleCompareAndSwap ==
  \/ /\ Handling("CompareAndSwap", 0)
     /\ Execute(<<ConditionalSwap(Args[1], Args[2], Results[1])>>, Fields)
  \/ /\ Handling("CompareAndSwap", 1)
     /\ Complete(Results[1])

\* The tags are swapped as the shares are.
HandleTaggedCompareAndSwap ==
  \/ /\ Handling("TaggedCompareAndSwap", 0)
     /\ Execute(<<ConditionalSwap(Args[1][1], Args[2][1], Results[1]),
                  ConditionalSwap(Args[1][2], Args[2][2], Results[1])>>, Fields)
  \/ /\ Handling("TaggedCompareAndSwap", 1)
     /\ Complete(<<<<Results[1][1], Results[2][1]>>, <<Results[1][2], Results[2][2]>>>>)

HandleConditionalSwap ==
  LET s == Args[1]  t == Args[2]  swapBit == Args[3]
  IN \/ /\ Handling("ConditionalSwap", 0)
        /\ Execute(<<Multiply(swapBit, s), Multiply(Results[1], s),
                     Multiply(swapBit, t), Multiply(Results[1], t)>>, Fields)
     \/ /\ Handling("ConditionalSwap", 1)
        /\ Execute(<<Add(Results[1], Results[4]), Add(Results[2], Results[3])>>, Fields)
     \/ /\ Handling("ConditionalSwap", 2)
        /\ Complete(Results)

\* W (X + Y - 2 X Y) + X Y - (X + Y) + 1, where W, X and Y tell whether the first value, the
\* second and their difference are less than half of the prime.
HandleLessThan ==
  \/ /\ Handling("ShareLessThan", 0)
     /\ Execute(<<LessThanHalfPrime(Args[1]), LessThanHalfPrime(Args[2]),
                  LessThanHalfPrime(Results[1])>>, Fields)
  \/ /\ Handling("ShareLessThan", 1)
     /\ Execute(<<Multiply(Results[2], Results[3]), Add(Results[2], Results[3])>>,
                [w |-> Results[1]])
  \/ /\ Handling("ShareLessThan", 2)
     /\ Execute(<<Multiply(CreateConstantShare(2), Results[1])>>,
                [w |-> Fields.w, xy |-> Results[1], xpy |-> Results[2]])
  \/ /\ Handling("ShareLessThan", 3)
     /\ Execute(<<Add(Fields.xpy, ShareAdditiveInverse(Results[1]))>>, Fields)
  \/ /\ Handling("ShareLessThan", 4)
     /\ Execute(<<Multiply(Fields.w, Results[1])>>, Fields)
  \/ /\ Handling("ShareLessThan", 5)
     /\ Execute(<<Add(Fields.xy, Results[1])>>, Fields)
  \/ /\ Handling("ShareLessThan", 6)
     /\ Execute(<<Add(ShareAdditiveInverse(Fields.xpy), Results[1])>>, Fields)
  \/ /\ Handling("ShareLessThan", 7)
     /\ Execute(<<Add(CreateConstantShare(1), Results[1])>>, Fields)
  \/ /\ Handling("ShareLessThan", 8)
     /\ Complete(Results[1])

\* A value is less than half of the prime if its double is even.
HandleLessThanHalfPrime ==
  \/ /\ Handling("LessThanHalfPrime", 0)
     /\ Execute(<<LeastSignificantBit(Results[1])>>, Fields)
  \/ /\ Handling("LessThanHalfPrime", 1)
     /\ Execute(<<Add(CreateConstantShare(1), ShareAdditiveInverse(Results[1]))>>, Fields)
  \/ /\ Handling("LessThanHalfPrime", 2)
     /\ Complete(Results[1])

\* A random number whose bits are shared is added, and the sum is opened.  Its lowest bit,
\* that of the random number, and whether the sum is less than the random number, as it is
\* if adding went round the prime, give that of the value.
HandleLeastSignificantBit ==
  \/ /\ Handling("LeastSignificantBit", 0)
     /\ Execute(<<Compose(Results[1])>>, [bitwiseRand |-> Results[1]])
  \/ /\ Handling("LeastSignificantBit", 1)
     /\ Execute(<<Add(Results[1], Args[1])>>, Fields)
  \/ /\ Handling("LeastSignificantBit", 2)
     /\ Execute(<<Reconstruct(Results[1])>>, Fields)
  \/ /\ Handling("LeastSignificantBit", 3)
     /\ Execute(<<Xor(CreateConstantShare(Results[1] % 2), Fields.bitwiseRand[1])>>,
                [bitwiseRand |-> Fields.bitwiseRand, revealedPadded |-> Results[1]])
  \/ /\ Handling("LeastSignificantBit", 4)
     /\ Execute(<<BitwiseLessThan(
                    BitDecomposition(Fields.revealedPadded, Len(Fields.bitwiseRand)),
                    Fields.bitwiseRand)>>, [x |-> Results[1]])
  \/ /\ Handling("LeastSignificantBit", 5)
     /\ Execute(<<Xor(Fields.x, Results[1])>>, Fields)
  \/ /\ Handling("LeastSignificantBit", 6)
     /\ Complete(Results[1])

\* Mutant of IsBelow: a number beyond the prime is kept.
AnyIsBelow(bit) == TRUE

\* The random number is accepted.
IsBelow(bit) == bit = 1

HandleRandomBitwiseGen ==
  LET max == Args[1]
  IN \/ /\ Handling("RandomBitwiseGen", 0)
        /\ Execute(<<BitwiseLessThan(Results, BitDecomposition(max, BitLength(max)))>>,
                   [result |-> Results])
     \/ /\ Handling("RandomBitwiseGen", 1)
        /\ Execute(<<Reconstruct(Results[1])>>, Fields)
     \/ /\ Handling("RandomBitwiseGen", 2)
        /\ IsBelow(Results[1])
        /\ Complete(Fields.result)
     \/ /\ Handling("RandomBitwiseGen", 2)
        /\ ~IsBelow(Results[1])
        /\ ExecuteIn(0, Launched(Top.call), <<>>)      \* try again

HandleRandomBitGen ==
  \/ /\ Handling("RandomBitGen", 0)
     /\ Execute(<<Multiply(Results[1], Results[1])>>, [randShare |-> Results[1]])
  \/ /\ Handling("RandomBitGen", 1)
     /\ Execute(<<Reconstruct(Results[1])>>, Fields)
  \/ /\ Handling("RandomBitGen", 2)
     /\ Results[1] # 0
     /\ Complete(RandomBit(Fields.randShare, Results[1]))
  \/ /\ Handling("RandomBitGen", 2)
     /\ Results[1] = 0
     /\ ExecuteIn(0, Launched(Top.call), <<>>)         \* start over

\* ExecuteSubtractionStep: each prefix without the one above it.  With one bit there is
\* nothing to subtract.
SubtractionStep(D) ==
  IF Len(D) > 1
    THEN BitwiseOperation(Front(D),
           [i \in 1..(Len(D) - 1) |-> ShareAdditiveInverse(D[i + 1])], "ShareAddition")
    ELSE Loopback(<<>>)

\* The highest bit in which the numbers differ is marked; there the second one has a 1 if
\* it is greater.
HandleBitwiseLessThan ==
  \/ /\ Handling("BitwiseLessThan", 0)
     /\ Execute(<<PrefixOperation(Results[1], "SharedBitOr")>>, Fields)
  \/ /\ Handling("BitwiseLessThan", 1)
     /\ Execute(<<SubtractionStep(Results[1])>>, [d |-> Results[1]])
  \/ /\ Handling("BitwiseLessThan", 2)
     /\ Execute(<<BitwiseOperation(Args[2], Append(Results[1], Last(Fields.d)),
                                   "ShareMultiplication")>>, Fields)
  \/ /\ Handling("BitwiseLessThan", 3)
     /\ Execute(<<PrefixOperation(Results[1], "ShareAddition")>>, Fields)
  \/ /\ Handling("BitwiseLessThan", 4)
     /\ Complete(Results[1][1])

HandleBitwiseOperation ==
  /\ Handling("BitwiseOperation", 0)
  /\ Complete(Results)

\* The result begins with the highest bit, is extended bit by bit and reversed in the end.
\* (The stage is not counted.)
HandlePrefixOperation ==
  LET bits == Args[1]
      before == IF Fields = <<>> THEN <<Last(bits)>> ELSE Fields
      result == before \o Results
      whichBit == Len(bits) - Len(result)
  IN /\ Handling("PrefixOperation", 0)
     /\ \/ /\ whichBit > 0
           /\ ExecuteIn(0, <<Call(Args[2], <<bits[whichBit], Last(result)>>)>>, result)
        \/ /\ whichBit = 0
           /\ Complete(Reverse(result))

HandleSharedBitXor ==
  \/ /\ Handling("SharedBitXor", 0)
     /\ Execute(<<Add(Args[1], Args[2])>>, [bitProd |-> Results[1]])
  \/ /\ Handling("SharedBitXor", 1)
     /\ Execute(<<Add(Results[1], Share(2 * (prime - Fields.bitProd.value),
                       Fields.bitProd.isPublic, Fields.bitProd.degree))>>, Fields)
  \/ /\ Handling("SharedBitXor", 2)
     /\ Complete(Results[1])

\* Mutant of Uncounted: both bits count.
CountedTwice(bitProd) == CreateConstantShare(0)

\* What is subtracted from the sum of two bits, as it is counted twice.
Uncounted(bitProd) == ShareAdditiveInverse(bitProd)

HandleSharedBitOr ==
  \/ /\ Handling("SharedBitOr", 0)
     /\ Execute(<<Add(Args[1], Args[2])>>, [bitProd |-> Results[1]])
  \/ /\ Handling("SharedBitOr", 1)
     /\ Execute(<<Add(Results[1], Uncounted(Fields.bitProd))>>, Fields)
  \/ /\ Handling("SharedBitOr", 2)
     /\ Complete(Results[1])

Next ==
  \/ RunLeaf
  \/ GenerateRandom
  \/ StartProtocol
  \/ HandleCompareAndSwap
  \/ HandleTaggedCompareAndSwap
  \/ HandleConditionalSwap
  \/ HandleLessThan
  \/ HandleLessThanHalfPrime
  \/ HandleLeastSignificantBit
  \/ HandleRandomBitwiseGen
  \/ HandleRandomBitGen
  \/ HandleBitwiseLessThan
  \/ HandleBitwiseOperation
  \/ HandlePrefixOperation
  \/ HandleSharedBitXor
  \/ HandleSharedBitOr

Spec == Init /\ [][Next]_vars

-----------------------------------------------------------------------------

Value(s) == s.value

\* The values that come out in the i-th place, and those that went in.
Untagged == Len(inputs[1]) = 1
Output(i) == IF Untagged THEN <<Value(outcome[i])>> ELSE [k \in 1..2 |-> Value(outcome[i][k])]
Input(i) == [k \in DOMAIN inputs[i] |-> Value(inputs[i][k])]

\* A gate puts its inputs in order, with their tags: what comes out are the inputs, and the
\* lesser value comes first.
PutInOrder ==
  outcome # <<>> =>
    /\ Output(1)[1] <= Output(2)[1]
    /\ \/ Output(1) = Input(1) /\ Output(2) = Input(2)
       \/ Output(1) = Input(2) /\ Output(2) = Input(1)

AreBits(shares) == \A i \in DOMAIN shares : Value(shares[i]) \in {0, 1}

\* The protocols for bits, whose formulas hold for 0 and 1 only, are given bits, and as many
\* of the one number as of the other.
BitsAreBits ==
  stack # <<>> =>
    /\ Top.call.protocol \in {"SharedBitOr", "SharedBitXor"} => AreBits(Args)
    /\ Top.call.protocol = "BitwiseLessThan" =>
         Len(Args[1]) = Len(Args[2]) /\ AreBits(Args[1]) /\ AreBits(Args[2])

\* The shares of a product have twice the degree, of which a quorum cannot open or multiply
\* any more; and a share is used as public only if all members have the same.
SharesAreReduced ==
  stack # <<>> =>
    \A i \in DOMAIN Top.todo :
      LET c == Top.todo[i]
      IN c.protocol \in {"ShareAddition", "ShareMultiplication", "Reconstruction"} =>
           \A k \in DOMAIN c.args : /\ c.args[k].degree <= 1
                                    /\ c.args[k].isPublic <=> c.args[k].degree = 0

=============================================================================
