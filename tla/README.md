# mpclib in TLA+

A verification development for mpclib, a library and simulator for secure
multi-party computation in C#, with its polynomial commitments in C++.  It models
the parts of the library that the protocols run on, the protocols that keep
parties in lock step, what they compute with and the programs made of them, checks
all this with TLC on small instances, and proves with TLAPS, for all parameters, what
the party runtime, the simulators, the identifiers, the protocols between the stages,
comparisons and networks promise.

## 1. Inventory of the system

### The execution substrate

**Discrete-event simulator** (`Libs/Simulation/EventSimulator.cs`,
`EventQueue.cs`, `Event.cs`, `Libs/BasicDataStructures/BinaryHeap.cs`).
State: the clock, the halt flag, `maxClock` (reported as the number of
rounds), and two queues, one of scheduled events and one of loopbacks.  Both
queues are binary heaps in an array whose items carry the number under which
they were added.  Operations: `Schedule`, `Loopback`, `Halt`, `Reset`, `Run`.
Hard: stability of the heap, loopbacks before messages, what a second run
finds in the queues.  Correct if the earliest event comes first, events of
equal time in scheduling order, loopbacks at once, and no run stops early.

**Concurrent simulator** (`ConcurrentEventSimulator.cs`, `ConcurrentEventQueue.cs`,
`Libs/BasicDataStructures/ConcurrentPriorityQueue.cs`).  The same operations, but
`Run` takes all events of a tick from the queue, gives those of each target to a
worker of the thread pool and waits for a counter of active workers to reach
zero.  Hard: handlers schedule while the main thread waits, the queue is looked
at and taken from in two steps, and the counter is all that ends a tick.
Nothing in the repository constructs it.

**Network simulator** (`Libs/DistributedSystem/NetSimulator.cs`).  Static:
the parties and the simulator.  `Send` and `Multicast` schedule `Receive` of
the addressee one tick later (no caller passes a delay), `Loopback` posts it
within the tick, `Run` starts every party and runs the simulator.

**Party runtime** (`Libs/DistributedSystem/Party.cs`, `Protocol.cs`,
`Libs/Mps/MpsParty.cs`).  State of a party: the registered protocols, the
parent of each, the number of outstanding children of each, the results its
children have reported and the order in which they were submitted, five
dictionaries keyed by protocol identifiers.  Operations: `RegisterProtocol`,
`ExecuteSubProtocols` (register and start every child, then look which are
completed), `Receive` (look up, handle, look whether completed),
`CheckCompleted` (report to the parent; the last outstanding child posts one
`SubProtocolCompletedMsg`).  Hard: children that complete in their own
`Start`, children that launch children while a sibling is being started,
identifiers used again, completion messages that wait while other messages
are handled.

### The protocols that keep parties together

**Barrier** (`Libs/BasicProtocols/SynchronizationProtocol.cs`).  Runs a
party's sub-protocols, tells everybody when they are completed, leaves when
everybody has told so.  Hard: parties that arrive at different ticks.

**Majority filtering** (`Libs/BasicProtocols/MajorityFilteringProtocol.cs`).
The members of a quorum send a value to the parties outside; each receiver
takes the majority.  Hard: faulty members; a tally scheduled before all
values have come; members that leave in the same tick as the receivers.

**Shuffling and sorting** (`Libs/Mps/MultiPartyShufflingProtocol.cs`,
`MultiPartySortingProtocol.cs`).  The program itself: a stage machine of
random generation, reconstruction, majority filtering, input sharing, circuit
evaluation under a barrier, reconstruction and result broadcast.  Hard: parties
in different quorums take different paths and must meet again.

### The protocols on quorums

**Quorums and identifiers** (`Libs/DistributedSystem/Quorum.cs`,
`ProtocolIdentifier.cs`, `QuorumProtocol.cs`, `QuorumGenerator.cs`).  Each
party has its own copy of every quorum, with counters from which protocol
identifiers are made: the copies must stay in agreement.  Hard: parties in two
quorums, wrap-around, prefixes that share bits.

**Share renewal** (`Libs/SecretSharing/QuorumSharing/QuorumShareRenewal.cs`).
A quorum passes a shared secret to another quorum, in several rounds if that
is more than three times its size.

**Circuit evaluation** (`Libs/Circuit/CircuitEvaluationProtocol.cs`).  Gates
are assigned to quorums; a gate is evaluated when its inputs are there, and
its outputs are passed on to the quorums of the next gates.  Hard: a quorum
evaluates several gates at a time, and its members take the identifiers of the
sub-protocols from counters of their own, so they must start gates in the same
order although some get a share by resharing and some by loopback.

**Secret sharing** (`Libs/SecretSharing/Protocols/*`): sharing,
reconstruction, random generation, arithmetic, comparisons, each a small stage
machine over sub-protocols.  Hard: a comparison is ten kinds of protocols deep,
its formulas hold only for bits and for values of the field, random numbers are
thrown away and made again, and the product of two secrets must be renewed
before it is used.

### Pure algorithms

**Circuits and networks** (`Libs/Circuit/Circuit.cs`, `Gate.cs`,
`SortingNetwork.cs`, `LPSorting.cs`): graph surgery and sorting networks.  Hard:
connections and open addresses are kept in four tables that every change must keep
in agreement; permutation gates are collapsed; the topological order starts from a
set without order.
**Shamir sharing** and the Welch-Berlekamp decoder; **finite fields**.

**Polynomial commitments** (`Libs/PolyCommit/PolyCommit/*`, C++ on NTL and PBC).
Parameters with a table of products, by windows of the exponents; commitments and
witnesses computed with that table; openings, alone and in a batch; a proof, by Fiat
and Shamir, that the committer knows the polynomial; an assertion of its degree.
Hard: the arithmetic of the windows, whose last one is short; a commitment must open
as what it was made of, for every degree.

### Other code

BGW, DKMS, the cryptographic protocols, secure broadcast and the anonymity network
are earlier protocols: commented out, unfinished, or in projects outside of
`MpcLib.sln` on a runtime that the source no longer has (section 5).  The rest of
`Libs` is vendored, native or in other languages, and `Apps` holds drivers and demonstrations.

## 2. Modules

| Module | Models | State |
| --- | --- | --- |
| `DiscreteEvents` | what the simulator promises (abstract) | sets of waiting events, clock |
| `ParallelTicks` | what the concurrent simulator promises (abstract) | events waiting, due in this tick and being handled |
| `ConcurrentEventSimulator` | `ConcurrentEventSimulator.cs`, its queue | the main thread and a worker for each target, the queue, the counter |
| `EventSimulator` | `EventSimulator.cs` on `BinaryHeap.cs` | the two array heaps, time stamps, clock, halt flag |
| `ForkJoin` | what the runtime promises (abstract) | forked batches, live children, posted joins |
| `Party` | `Party.cs`, `Protocol.cs` | the dictionaries, the loopback queue, the C# call stack |
| `LockStep` | `NetSimulator` as protocols see it | clock, messages in order, loopbacks |
| `Barrier` | what a barrier promises (abstract) | who has arrived, who has left |
| `Synchronization` | `SynchronizationProtocol.cs`, `NopProtocol` | stage, rounds left, `PeersCompleted` |
| `MajorityFiltering` | `MajorityFilteringProtocol.cs`, `NopProtocol` | stage, `Senders`, `Received`, `scheduledTally`, `Result` |
| `RandomGeneration` | `RandomGeneration.cs` (`RandGenProtocol`), `ReconstructionProtocol.cs`, `BigShamirSharing.cs` | commitments and shares received, the combined share, `scheduledReconst`, `ReconstRecv` |
| `GateEvaluation` | `CircuitEvaluationProtocol.cs` on several quorums | stage, shares and exchange of each gate, counters of the quorums, resharings |
| `Shuffling` | `MultiPartyShufflingProtocol.cs`, `MultiPartySortingProtocol.cs` with the protocols of its stages | quorums, stage of each party, its live protocols, what it knows |
| `ShareRenewal` | `QuorumShareRenewal.cs` (tagged: two secrets) | current round, shares, rounds left |
| `ProtocolIdentifiers` | `ProtocolIdentifier.cs`, the counters of `Quorum.cs` | registered protocols (`inUse`), counters of a party's quorums |
| `CompareAndSwap` | the protocols that compare two shared values and put them in order | the protocols that wait for each other, their stages and fields |
| `Circuits`, `SortingNetworks` | `Circuit.cs`, `Gate.cs`, `SortingNetwork.cs` (operators, and how networks are built and put in order) | a network and a part of it, the gates still to be ranked and those that are |
| `PolynomialCommitments` | the C++ library of commitments | parameters with tables, committer, commitment, witnesses, proof |
| `PartyProofs`, `SimulatorsProofs`, `StageProtocolsProofs`, `ShufflingProofs`, `ShareRenewalProofs`, `ComparisonProofs`, `SortingNetworksProofs` | proofs about the modules of that name (`PartyProofs`: about `ProtocolIdentifiers` too; `SimulatorsProofs`: about `SimulatorsMC`; `StageProtocolsProofs`: about `StageProtocolsMC`; `ComparisonProofs`: about `CompareAndSwap`; `SortingNetworksProofs`: about `SortingMC`, with the networks) | |
| `SequenceLemmas` | lemmas about sequences, the queue of `LockStep`, recursion and folds, for the proofs | |
| `*MC` | the instances TLC checks; `SimulatorsMC`, `PartyMC`, `StageProtocolsMC` and `SortingMC` take one of several modules in a behaviour | |

`EventSimulator` implements `DiscreteEvents` (items of the heaps as sets),
`ConcurrentEventSimulator` implements `ParallelTicks` (what the workers have not
handled as due),
`Party` implements `ForkJoin` (submission order as batch, children in the
parent table as live), `Synchronization` implements `Barrier`.  The
abstractions stack: `LockStep` is the lock-step delivery that
`DiscreteEvents` gives when every delay is one tick, and `Synchronization`,
`MajorityFiltering`, `RandomGeneration`,
`GateEvaluation`, `ShareRenewal` and `Shuffling` run on it with the completion of
sub-protocols reported as `ForkJoin` says, by one loopback.

**Simulator.**  A heap is the used part of the array, a function on
`0..count-1`.  `UpHeap` and `DownHeap` follow the loops: the items on the path of
the hole are shifted and the item is put at its place.  Handlers are the
environment: between `Dispatch` and `HandlerReturns` they may schedule, post
loopbacks and halt.  Growth of the array is left out, as is what the
simulator never calls.

**Concurrent simulator.**  Its module extends the first, as its class does, and
uses the heap with the times of events alone as keys.  A step of the main thread is
one operation of the queue, which holds the lock for that long, or one test; a
worker begins an event, ends it, and counts itself down.  Between the two a handler
runs, and may schedule, post and halt.

**Party.**  `stack` is the call stack: a frame for each protocol whose code
runs, with what the two loops of `ExecuteSubProtocols` have left to do.  A step
is one iteration of a loop, the lookup of a message, or the return of a
handler with the check that follows; `RegisterProtocol` and `CheckCompleted`
are operators these steps conjoin.  Results are the identities of the
protocols.  The classes derived from `Protocol` are unconstrained except for a
contract, stated in the guards: identifiers are not in use when handed out,
and a protocol does not complete while it waits for children.

**Barrier and majority.**  Each action is one handler of one party, with the
messages it sends.  In `Synchronization` the sub-protocols of a party take
`work` rounds.  Its assumption `Overlapping` (nobody is done before everybody
has started) is what the barrier needs of its callers; without it
`MessagesFindProtocol` fails.  In `MajorityFiltering` faulty members send each
receiver up to two values of any kind, in the tick in which members send.  In some behaviours those of
`Forging` may also send `NextRound`, the message that a receiver sends to itself to
tally: `HandleNextRound` tallies whoever has sent it, as the code does.  Then the
values that follow meet a protocol that has left, and the model stops there as the
program does, at the assertion of `Party.Receive`.

**Random numbers.**  Every member deals a polynomial over a small field, adds up
the shares it has commitments for, and when two thirds of the quorum have dealt waits
for the next tick; then all open what they have.  One member may misbehave, as
`Conducts` says: towards all others alike, by dealing without a commitment, committing
too late, or being silent; by committing in time to the first member only (`partial`); or by
beginning with the message that ends the round of the others (`hasty`).  As `PolyCommit`
is null in the stage machines, no share is verified, and a member whose share is wrong is
left out.

**Circuit evaluation.**  A circuit is a sequence of gates with the wires at
their ports and their quorum; connections follow from the wires.  The two
protocols a factory makes, which `CompareAndSwap` and `ShareRenewal` model by
themselves, are abstracted: evaluating a gate (`CompareAndSwapProtocol` and what it
launches) is `Rounds` exchanges among the members, each under the next number of the
member's copy of the quorum and completed, like `ReconstructionProtocol`, when all are
heard; a resharing (`QuorumShareRenewal.cs`, one round) goes from every member of one
quorum to every member of the other, who is done a tick after the last.  Everything between them follows
the code: `Start` of every gate, the three stages, loopbacks at once within a
quorum and after the resharing for members of both, and the completion of the
circuit evaluation of a quorum.

**Shuffling.**  The stage machine of `HandleMessage` for every party, of the shuffling
or of the sorting program, which differ in what a party shares and in the number of
quorums, with the protocols each stage launches: random generation, reconstruction, majority
filtering, sharings, barrier, evaluation.  All parties are honest and values are
left out: what is followed is who knows what.  `NetSimulator.Run` starts parties
in order.  The quorums are chosen from the lists `QuorumGenerator` can return;
when a quorum ends its evaluation is chosen too, the same tick for all members
(which `GateEvaluation.InLockStep` shows).  The source launches
`RandomGenProtocol` (`MultiPartyShufflingProtocol.cs:156`), a class it does not
contain; `RandGenProtocol` of `RandomGeneration.cs` is modelled in its place.

**Share renewal.**  A share is represented by the points at which polynomials
were evaluated to make it, so recombining the right shares, and only these, gives
the share at the member's position; anything else gives `Broken`.  Members of the
target alone have started before, as `GateEvaluation` has it.

**Comparison.**  The gates of a sorting network.  The members of a quorum run the
same protocols in lock step, so one member is followed; a share is the value it
is a share of, `IsPublic`, and the degree of its polynomial (none for a constant,
`PolyDegree`, twice as much for a product that has not been renewed).  `stack`
holds the protocols that wait for each other, each with its stage and the fields
it keeps; those launched together run one after the other, as they have nothing
in common.  Sums, products, compositions of bits and reconstructions give their
results at once; a random number is any number.  Commitments are left out, and so
are the branches for a maximum that is a power of two or for numbers of one bit:
the maximum is a prime greater than two.  `BitwiseOperation`, `PrefixOperation`
and the others are the classes of that name with `Protocol` left off.

**Networks.**  A circuit has its gates, both dictionaries of connections and both
sets of open addresses, and `Circuits` has an operator for every method that changes
them.  Gates are numbered as they are appended and numbered again when their network
is appended to another, which stands for object identity.  `SortingNetworks` builds
networks from gates and parts in every way, or takes one from a factory, collapses
permutation gates and assigns topological ranks, one iteration of the loop a step.  The
order of the hash set the ranks begin with is any.  What a network computes follows from
its connections (`Evaluated`), and is compared with the gates applied one after the other
(`Straight`).  Of the permutation gates two are used, one of which is not its own inverse.
`LPSortingNetwork` is bitonic sort on up to 2^11 wires; the method of Leighton and Plaxton
that follows for more is left out.

**Commitments.**  A group element is its logarithm: products are sums, powers and
pairings are products, modulo the order of the groups.  The tables, the square and
multiply over all exponents together and the index into a table are as in the code.
What is read beyond the end of a table is an arbitrary element (`Beyond`).  The batch
check draws a multiplier for each commitment: the property is about all that `Randoms`
has, zero among them, with which a wrong value passes.  Hashes
that make an index or a challenge are arbitrary numbers.

**Identifiers.**  An identifier is the pair of its 32-bit words, as TLC's
integers have no 64 bits.  A party registers protocols of every kind in any order
its stage allows and completes them in any order; the counters only grow.
`GetNextTwoProtocolId` of two different quorums is in the library, but the
program always passes an identifier to a renewal.

## 3. What TLC checks

| Run | Instance | States | Shows |
| --- | --- | --- | --- |
| `simulators` | sequential: 7 timed events with delay 0 or 1, 2 loopbacks; concurrent: 4 events for 2 targets, 1 loopback | 308,288 | `HeapsAreOrdered`; the heaps implement `DiscreteEvents`, main thread and workers implement `ParallelTicks`; `EveryEventIsHandled` |
| `party` | runtime: a root and 3 more protocols, batches of up to 2; identifiers: quorums, gates and outputs at the ends of their ranges, 2 registered at a time | 30,383 | the tables agree (`LookupsSucceed`, `OutstandingIsLive`, `CompletionsMatch`), one message for a launch, fork/join, completions are noticed and delivered; no identifier is given twice (`IdentifiersUnused`) |
| `stage_protocols` | barrier of 3 parties, start up to 1 tick apart, 0 to 2 rounds of work; 5 members of which 2 send any values, and one may end the round of the receiver; 4 members of which 1 misbehaves, field of 5 elements | 213,456 | no message meets an unregistered protocol, nobody leaves a barrier early, the agreed value wins, every correct dealer is counted and the random number is their sum, all leave and in one tick; with an ended round no wrong value is taken, and all open the same number |
| `shuffling` | 4 parties of which 3 trusted, 6 gates, 1 to 3 quorums, both programs | 49,558 | parties find their protocols registered, are in one stage at a time when they write to each other, no output is opened before the last quorum has ended, every party ends with all results |
| `renewal` | 2 secrets, quorums of 1 to 4 members overlapping in every way, and 2 to 7 members | 25,683 | commitments and shares are filed where they belong, a member ends with the share at its position, all do |
| `gates` | 4 gates on 4 wires in every assignment to 2 quorums, 3 memberships, 2 exchanges for a gate | 41,706 | messages and shares find who waits for them, identifiers mean the same to all members, members begin a gate in the same tick, every circuit evaluation is completed |
| `sorting` | comparison: fields of 3, 5 and 7 elements, all inputs and random numbers, with and without tags; networks: 3 wires, up to 5 gates and parts in every order, and the factories on 1 to 8 wires, all bits | 818,368 | inputs come out in order with their tags, the formulas for bits are given bits, products are renewed before they are used; networks compute what their gates do and factories' networks sort, merge, insert and select, collapsed or not; the tables agree; the order of gates is complete and topological |
| `commitments` | groups of order 5, degrees 0 to 4, windows of 3 | 1,301,513 | commitments made with the tables open as what they were made of and as nothing else, but for a multiplier of zero; proofs and assertions are accepted, a proof by its commitment only |

**Bounds.**  Seven items make a heap of three full levels, so an item can sink
past a level and choose between children twice; delays 0 and 1 give ties and
overtaking, and the halting and second run are included.  Four parallel events for two
targets leave one or several to a worker, with others scheduled while it runs.
Four protocols give a child that launches a grandchild while its sibling waits to be started, and
identifiers used again; `MaxBatch = 3` and `MaxPending = 2` were run once by hand
(474,320 states) with the same result.  Three parties with skew 1 and work 2 enter
the barrier in every order, with and without loopbacks.  Five members with two
faulty are the smallest case in which the faulty ones alone cause the tally.
Four members are the fewest of whom two thirds (three) are not all, with polynomials
of degree 1.
In `forged_next_round` the other two protocols are as small as they can be.
One receiver is enough, as receivers do not interact; three members with two
receivers were run by hand as well.
Four gates give a quorum two gates at a time, before and after a resharing, and
both crosswise connections of two layers; the memberships have two, one and all
members in common.

The source has 5 trusted parties of at least 6, on a number that is a power of two;
3 of 4 keep what the stages depend on: trusted and other parties, a majority and a
two-thirds count that differ from all and from one, and six gates that three
quorums share unequally.  With one quorum everybody is in it; with two a party is
in one or both; with three one has no input and one no output.  Every party of the
run is in a quorum that holds an output; the run `idle_quorum` is about the others.
Quorums of up to four members overlap in every way, and two to seven members need
one intermediate round.  Where there is one, the first quorum is part of the second:
a member of the first alone starts the last round, which completes in its `Start`,
and is not called again (`QuorumShareRenewal.cs:58`), so `EverybodyCompletes` does
not hold of it and no run has one.  Identifiers need two protocols, as the property is about pairs, and two quorums.
The fields of the comparison are small but nothing in them is cut off: every pair of
values, every random number and every number thrown away.  Two of them have numbers of
three bits, so a prefix has a first, a middle and a last one.
Degrees 0 to 4 with windows of three make one window or two, the last with one element
or two, and one of them lowers the width of the windows; the code's width is 12.

Three wires let a part leave one wire without a gate, and a permutation of three that is
between two comparisons and later ones is collapsed.  What puts all bits in order puts
all values in order, so the factories are checked on bits; on 8 wires bitonic sort has
the halves of both orders within each other.  Ranks are assigned to networks of up to
four wires, for every order of their inputs.

The type invariants of `EventSimulator` and `ConcurrentEventSimulator` are part of
`HeapsAreOrdered`, those of the stage protocols part of `MessagesFindProtocol`.  Those of
`Shuffling`, `GateEvaluation` and `ShareRenewal` hold on the same instances; they are not
among the properties of the runs, which say more.

### Where the code differs from what it says

| Run | Shows |
| --- | --- |
| `idle_quorum` | A party in no quorum that holds an output launches an empty batch of reconstructions.  `ExecuteSubProtocols` posts a completion message only from the completion of a child, so the party stays in stage 5, and the results others send it find no protocol: the assertion of `Party.Receive` fails. |
| `two_intermediate_rounds` | The round after the first intermediate one is sent to the other quorum even if it is intermediate too; the other quorum, which waits for the last round, combines as soon as the number of shares is reached, with shares of the wrong polynomials.  It takes a quorum more than nine times as large as the first to see it. |
| `forged_next_round` | A receiver tallies when a message comes that it sends to itself.  If another party sends it, the handler prints that the party "seems to be cheating!" (`MajorityFilteringProtocol.cs:65`) and tallies all the same: one faulty member makes a receiver leave with null, though a correct majority sends the agreed value.  That it takes no wrong value is what is left, and part of `MajorityWins`. |
| `window_table` | The width of the windows is lowered by one when the last window would be full, as the table has no entry for that; but the lower width may divide the number of elements too, and then the last window is full again.  The commitment is computed from what lies beyond the end of its table, and is not the one that `get_C` computes.  With the width of 12 it takes a degree of 131, the parameters of a quorum of 394 to 396 members; the instance has width 3 and degree 5. |

What the models show beside their properties, or leave out:

- Random generation has the handler of `forged_next_round` too.  The message that ends the
  round is there "to ensure we receive the inputs of "all" honest parties"
  (`RandomGeneration.cs:85`), but a member that sends it to the others (`hasty`) makes them
  go on without these (line 97).  `HonestDealersCounted`, a part of `OpenedIsTheSum`, does
  not hold of it, and is stated under `PlainFaults`.
- A member drops the shares for which it has no commitment, for itself (line 91).  If a
  dealer commits in time to some members only (`partial`), these add up other polynomials
  than the rest, and what they have then are not shares of one number, as the class
  promises (line 18): with the polynomials of the run they open a number that is the sum of
  no numbers that were dealt.  All open the same one, which is what is left to check.
- A proof of knowledge divides by its blinding factor, and the test for zero is commented
  out (`PolyCommitProofs.cpp:39`); the model stops there.  An assertion of the degree
  compares -1, the degree of the polynomial that is zero, with an unsigned number
  (line 122) and is refused for every bound.  For the degree 0, that is in quorums of up to
  three members, prover and verifier read `galphai[1]` beyond the end of the powers
  (lines 34 and 166); what they read cancels out.
- A proof that has the zero challenge is accepted for any commitment; `ProofsVerify`
  leaves it out.
- Reconstruction waits for all members for ever: `EverybodyLeaves` makes an exception for
  a silent one.  A share that does not fit its commitment throws `NotImplementedException`
  (`RandomGeneration.cs:75`), where `PolyCommit` is given.
- The ranks of gates are assigned once.  `Circuit.AssignTopologicalRanks` does not clear
  them, so that a second call, after a circuit has been changed, would pass over all gates
  that have one (`Circuit.cs:178`); nothing in the library does that.
- `ConcurrentEventSimulator.Run` never looks at the loopbacks and never resets a halt;
  the queue is not stable for events of one time; an event with delay 0 is handled a tick
  later, and the first tick is 1.  `ParallelTicks` says so, and makes no promise about
  loopbacks.
- `Polynomial.init` sets a local variable in the place of the coefficients
  (`Libs/FiniteField/Polynomial.cs`), on which the Welch-Berlekamp decoder rests; nothing
  in the solution calls it.

Two more differences are in code that is used from 2^12 wires on only, and are read, not
checked.  The comment at `Circuit.cs:414` says that the addresses at the borders of a
network are unwound past permutation gates, but `Circuit.CollapsePermutationGates`, which
follows, looks up a connection at every port (lines 236 and 237) and fails at the border;
`LPSortingNetwork` begins with a permutation gate there, and so does an inverted bitonic
sort end with one, as `CanCollapse` says.  The inner loop at `LPSorting.cs:224`, which
"merge[s] the corresponding lists" (line 220), counts with the variable of the outer one,
so most lists are not merged.

**Fairness.**  `Run` is a loop that goes on while a queue holds events, and
handlers return: weak fairness of the steps of the simulator.  For `Party`,
strong fairness of `Return`, because a handler may launch any number of batches
before it returns but is assumed to return.  In the concurrent simulator, weak fairness of
the main thread, whose waits are sleeps that end, and of every worker, as the thread pool
runs what it is given.  Nothing is assumed about protocols
completing or peers writing.  In the lock-step modules every party starts and
the simulator runs until its queues are empty: weak fairness of `Next`.
Nothing is claimed about the end of a comparison: it may throw away random numbers for
ever, and ends only with probability one.

`CHECK_DEADLOCK` is off: a simulation ends when its queues are empty.

## 4. What is proved

`PartyProofs` proves, for every finite set of protocols and every bound:

- `TypeCorrect`, `LookupsAlwaysSucceed`, `CountersAreExact`,
  `CompletionMessagesMatch`: the four invariants the run checks;
- `OneMessageForEachLaunch`: the action property;
- `PartyImplementsForkJoin`: the refinement.

They follow from one inductive invariant, `IInv`.  None of the four is
inductive: that the counter of a parent is the number of its children says
nothing of what `CheckCompleted` does to it unless the parent is registered,
which depends on the call stack.  `IInv` adds, in named conjuncts: before the
start everything is empty (`IdleBeforeStart`); the parent table is a forest of
registered protocols (`TreeInv`); counters are exact (`CountInv`); the
children of a parent and its reported results together are exactly its
submission order, without repetition (`BatchInv`); each posted message is for a
registered protocol and names exactly its results (`LoopInv`); and the frames
of the stack are nested launches whose children still to be started are not
registered and whose children still to be looked at are children of the frame
(`StackInv`).  Each action has its lemma; the lemmas about `RegisterProtocol` and
`CheckCompleted` are shared.  Assumed: the set of protocols is finite, the root
is one of them, `NoProto` is none.

`PartyProofs` also proves `IdentifiersAlwaysUnused` and `IdentifiersHaveTypes`, for all
sets of quorums, gates, ports and outputs whose numbers fit their fields, as long as no
counter wraps (`IdentifiersAssumption`).  The lemma `IdInjective` says that two
protocols with one identifier are the same, unless one is a sharing and the other a
renewal; the high words of the kinds lie in intervals that do not meet
(`KindsApart`), and within a kind the words determine the arguments.  The invariant
adds to the types that a registered protocol of a quorum, or of a pair, has a number
below the counter (`BelowCounters`), that the two counters of a pair are equal
(`SameCount`) and that sharings and renewals are registered in different stages
(`InStage`); without them a counter could return to a number in use.

### The simulators

`SimulatorsProofs` proves, for any number of events, delays, loopbacks and targets:

- `HeapsAlwaysOrdered`: the invariant of the run, of both simulators;
- `HeapsImplementDiscreteEvents` and `ThreadsImplementParallelTicks`: the refinements;
- `ClockNeverGoesBack` and `LoopbacksStayInTheirTick`: the clock of the sequential one never
  goes back during a run, and the loopbacks in its heap are of the current tick.  They are
  proved of `DiscreteEvents`, and hold of the heaps as these implement it.

The difficulty is the heap, whose loops are recursive functions of the place in the
array.  That such functions exist is proved once (`DescentExists` of `SequenceLemmas`, by
induction over a rank), and what they compute is described by a set of places that is closed under their
steps: the way of an item up (`UpPath`) or down (`DownPath`) to the place where it stops.
`UpHeapKeepsOrder`, `DownHeapKeepsOrder` and the lemmas about the items follow from the
description, for heaps with stamps or without (`HeapOf`).  `QueueAdd` and `QueueRemove`
then say of a queue all that its users need: an add with a new stamp makes it one with an
item more, and a remove takes one that no other precedes.

The invariant of the sequential simulator is that both arrays are such queues, and the
invariant of `DiscreteEvents`: that the first loopback of the heap, which looks at the
time first, is the oldest one follows only because the loopbacks that wait are of one
tick (`LoopbacksComeFirst`).  The invariant of the concurrent one, `ConcurrentInv`, adds
to the types and the queues: where the clock is when the events of a tick are taken, and
that nobody can halt then (`TickInv`); what has been taken is due, in order, without
repetition and not later than anything left, and that what `TryPeek` saw is still there
for `TryDequeue` (`TakenInv`); every worker has events of its own target only, in order,
and there are workers only while the main thread waits (`WorkInv`); and `activeCount` is
the number of the workers (`ConcurrentState`).  Without the last two a tick might end
early or an event of a target be overtaken.  Assumed: the bounds are natural numbers
and there are finitely many targets (`BoundsAssumption`, `TargetAssumption`).

### The protocols between the stages

`StageProtocolsProofs` proves, for every number of parties, members and receivers, every
start and work:

- `BarrierIsImplemented`: the refinement of `Barrier`;
- `MajorityAlwaysWins`: if correct members are a majority, a receiver leaves with the
  agreed value or with none, even if faulty members end its round, and with the agreed
  value if they send values only, whatever values these are;

and, of the behaviours in which no member sends another the message that ends a round, and
who misbehaves in random generation does so towards all (`PlainFaults`, a condition inside
the properties; `forged_next_round` and the remarks of section 3 show what happens in the
others):

- `HonestDealersAlwaysCounted`: who goes on has counted the share of every correct member;
- `MessagesAlwaysFindProtocol`: the assertion of `Party.Receive`, for all three protocols;
- `AllLeaveTogether`: the action property.

None of them is inductive, as each depends on what is still on the way.  The queue of the
network is in the order of ticks and holds messages for this tick and the next only
(`InLockStep`), and no message of a kind is there twice.

*Barrier* (`BarrierInv`).  A message of a sub-protocol comes in time for the tick in
which its party arrives (`RoundsInTime`); a party is told of its arrival in that tick
(`CompletionsInTime`) and tells the others one tick later, each once (`Announcements`);
who is counted has arrived and told everybody (`CountedPeers`).  A party that leaves has
counted all, so nothing is on the way to it any more.

*Majority* (`MajorityInv`).  A value that a receiver has not got from a correct member is
on the way and comes in the first tick (`ValuesOnTheWay`, `ValuesInTime`), and the tally
is in the second (`TalliesInTime`).  What was received has at least as many agreed values
as correct members were heard, and at most as many others as faulty ones were
(`ValuesCounted`), so the majority decides, however early the tally was scheduled.

*Majority with forged messages* (`FilterInv`).  The ticks are of no use then, as a receiver
may have left before the values come.  What is left is that only faulty members send
another value than the agreed one, and that a sender is counted once (`OthersCounted`): other values are
never more than faulty members, and so never decide.

*Random generation* (`RandomInv`).  When messages come, and
in what order, does not depend on the shares in them, so the invariant is about their
types.  Every member counts the same shares, those of the members that committed before
they dealt (`CommitsFirst`, `SharesCounted`), so one has enough when all have; it then ends
its round in the second tick (`RoundsEnd`, `MembersGoOn`), and the shares it opens come in
the third, to members that have gone on too (`OpeningsInTime`).

Assumed: what the modules name as assumptions of their constants
(`SynchronizationAssumption`, `MajorityAssumption`, `RandomGenerationAssumption`), and for
the barrier the assumption `Overlapping` of section 2, which is part of its initial states.

### Shuffling and sorting

`ShufflingProofs` proves, for any number of parties and of trusted ones, any first and last
gates of the wires, any lists of quorums that contain all parties, and any ticks in which
the quorums end their evaluations:

- `NobodyOpensEarly`: nobody opens the outputs while a party evaluates gates;
- `WhoLeavesKnows`: who has left the first stages knows the random number, and who has
  completed the protocol knows all outputs.

The first needs the barrier from the inside: a party that leaves has heard everybody, and
that a message is only sent by a party whose evaluations are completed has to be known of
messages on the way, of those counted and of those reported (`Announced`).  The second is
about majorities.  A party completes the protocol of an output in the tick after it has heard
two fifths of the holders, but knows the output only if it has heard more than half of them
by then, so what matters is *when* values come.  The invariant (`Inv`) follows the ticks.  Whoever waits at the
barrier hears of the same parties in the same tick (`Together`), so all leave it in one
tick t, if any does (`Leaving`); the holders of an output open it in t + 1 and hear of each
other all (`Opening`); they send it in t + 2, to parties that wait for it, and these decide
in t + 3, when all holders were heard (`Telling`).  Before the first leaves, nothing of the
outputs is on the way (`Closed`).  What a party may run in a stage (`Fits`, `Running`) and
what is posted to a parent (`Reported`) keep these apart from the stages before.

The network is the queue of `LockStep`: each handler sends for the next tick only
(`InLockStep`).  What a start or a handler sends and registers is described once
(`Launched`, `Completed`, `Handled` and their lemmas).  Assumed: `ShufflingAssumption`.
`Inv` was found with TLC on the instances of the run first.

`MessagesFindProtocol` and `InStep` stay with TLC.  They do not follow from
`ShufflingAssumption`: where a party is in quorums that hold no output they are false, as
the run `idle_quorum` shows, and nothing in the code keeps quorums from being like that.

### Share renewal

`ShareRenewalProofs` proves, for any number of secrets and quorums of any size that need no
intermediate round:

- `RenewalFitsRound`: commitments and shares find the round they are for, and room in it;
- `RenewalHasAllShares`: whoever combines has a share of every sender;
- `RenewalKeepsSecret`: each member has the share of the secret at its position, in the old
  quorum until its renewal is completed and in the new one afterwards.

A share is filed under the *number* of commitments that have come, so it matters in which
order the queue delivers.  The invariant (`IInv`) says which commitments have been received and
which shares (`announced` and `filed`), and that they determine every round: its
counters and tables are those of `RoundOf`.  The queue (`QueueOK`) then holds no commitment
and no share twice nor one that was received, each share comes after its
commitment unless this was received (`InOrderOfRound`), each is the one made for its receiver
(`Message`), and a message that ends a round is for a receiver with everybody's share.
`Start` sends everything for both secrets in one step; that the letters of all secrets,
members and points together are in that order is `SentOfAllSecrets`.  When as many shares
have come as there are senders, each has sent one (`AllFiled`), and the members are in the
order of their positions (`MembersInOrder`, from `ListedInOrder` of `SequenceLemmas`), so
what is combined is the share at the receiver's position (`Recombined`).

Assumed: `ShareRenewalAssumption` and `NoIntermediateRounds`, that a quorum has at most three
times as many members as the one it gets its shares from.  The code renews shares between the
quorums of `QuorumGenerator.GenerateQuorums`, which all have `countPerQuorum` members, so no
intermediate round is ever run; one such round is checked by TLC only (quorums of two and of seven),
and with two the second property is false, as the run `two_intermediate_rounds` shows.

### Networks

`SortingNetworksProofs` proves, for any numbers of wires, beginnings, gates that are
appended, parts and factories of up to 1024 wires:

- `ConnectionsAlwaysAgree`: the lookups and assertions of `Circuit.cs` succeed;
- `OrderIsAlwaysTopological`: `AssignTopologicalRanks` gives every gate a rank, once, after
  those it gets its inputs from;
- of gates, what the next section says.

The two rest on `NetworksStayWhole`: the network and its part are circuits whose open
addresses are the ends of the wires (`IsNetwork`).  `ConnectionsAgree` is not inductive.  What
is appended must have other gates and two ports or more, on different wires, and a wire that
has no beginning must have no end (`IsWired`); and a permutation gate can only be bypassed
because its permutation is one (`IsGate`).  `IsNetwork` adds that a connection leads to a gate
of a higher number, also after permutation gates have been collapsed (`AreInverse`): so there
are no cycles, which `AssignTopologicalRanks` takes for granted.  The operators of `Circuits` are
described part by part (`AddConnectionIs`), then along the folds: the connections of a call
(`AddConnectionsProperties`), ports that are bypassed (`AllBypassed`), gates of a list
(`AppendGatesProperties`).  Factories are recursive functions of the number of wires, of which
it is shown that they exist and that each makes a network (`FactoryProperties`).

The invariant of the ranking (`NoneIsForgotten`) says that gates with a rank come after all
before them, and that no gate is forgotten: those after a gate with a rank, and those with
open inputs only, have one or are in the queue.  One address is passed over when ranking
begins, but a gate with open inputs only has two (`OrderingBegins`).  When the queue is empty
the least gate without a rank would be one that was forgotten (`OrderingEnds`).

Assumed: `SortingNetworksAssumption`, and for gates `FieldsAssumption`.  That ranking ends, and what a network computes, is
only model-checked.

### Comparisons

`ComparisonProofs` proves `GateSafe`: in every field of odd prime order, for all inputs and
all random numbers, a gate puts its inputs in order (`PutInOrder`), the protocols for bits
get bits (`BitsAreBits`), and shares are reduced before they are used
(`SharesAreReduced`).  `SortingNetworksProofs` carries this over to the specification that
TLC checks (`AlwaysPutInOrder`, `BitsAreAlwaysBits`, `SharesAreAlwaysReduced`).

None of the three is inductive: what a protocol of the stack does with a result depends on
what it launched, up to ten levels above.  The invariant (`GateInv`) gives each protocol a
contract.  `Proper` says when a call may be made (bits for the operations on bits, numbers
of one length for `BitwiseLessThan`, shares that are reduced), and `Meets` what the result
must be: a share of a value that follows from the arguments (`Promised`), or, where random
numbers are drawn, a share of a bit, or bits of a number below the bound.  `At` says for every
stage of every protocol what it keeps in its fields and which calls it has launched for
which values.  A frame is kept (`FrameOK`) if the calls of its batch that have run have met
their contracts and those to do are proper; the stack is kept (`StackOK`) if the call of each
frame is the first to do of the frame below it.  Each handler has its lemma: from the results
that its stage waited for follows that the next stage is launched as `At` says, or that the
result meets the contract.

What the lemmas come to is the arithmetic of the paper that the code follows:

- a square of the field has two roots, so a random number divided by the smaller root of its
  square is 1 or -1 (`SmallerRootExists` and the lemmas after it), and inverses exist;
- the highest bit in which two numbers differ decides, which the prefixes of their bits mark
  (`IsNumber` and the lemmas about it);
- the lowest bit of a value follows from those of a random number and of their sum, and from
  whether the sum went round the prime (`LeastSignificantBitStays`); as the prime is odd, a value
  is less than half of it if its double is even (`LessThanHalfPrimeStays`);
- which halves two values and their difference lie in tells which one is less
  (`LessThanStays`).

Powers of two and the composition of bits are recursive functions in the model, as the
provers cannot use the operators of the library for them.  Assumed: `PrimesAssumption`, that
the numbers of elements of the fields are primes greater than two.

`SequenceLemmas` has what these proofs need of sequences, of the queue and of recursion:
induction is stated there for sets (`SetInduction`, `StrongInduction`) instead of predicates,
so that the provers can apply it, and functions that are recursive over a rank
(`DescentExists`) or fold a finite set (`FoldInto`) are shown to exist.

### Only model-checked

- Liveness (`EveryEventIsHandled`, `EverybodyLeaves`, `JoinDelivered`, `CompletionNoticed`
  and the others): fairness is out of reach of the prover.
- `OpenedIsTheSum`: it rests on the arithmetic of polynomials over a field of any prime
  order, with powers and inverses, of which the provers know nothing.
- What the commitments compute (`OpeningsVerify`, `ProofsVerify`): it rests on the same
  arithmetic, and on tables folded over exponents.  What networks compute (`DoesWhatItShould`): that a factory's network
  sorts needs induction over the values on its wires.
- Circuit evaluation, and share renewal with an intermediate round; of shuffling and sorting, `MessagesFindProtocol` and
  `InStep`, for the reason given above.

## 5. Plan, and what is not modelled

Done: both simulators, party runtime, barrier, majority filter, random numbers, circuit
evaluation, shuffling and sorting, share renewal, identifiers, comparisons and networks,
commitments; proofs about the runtime, both simulators, identifiers, the protocols
between the stages, shuffling and sorting, share renewal, comparisons and networks.

Left to prove, in this order: that circuit evaluation keeps in lock step
(`MessagesFindProtocol`, `IdentifiersAgree` and `InLockStep` of `GateEvaluation`) for every
circuit and number of quorums; `MessagesFindProtocol` and `InStep` of `Shuffling` for lists of
quorums in which every party holds an output.

Not modelled, and why:

- **BGW** (`BgwMpc`), **`AllToAllGeneration.cs`**, **`MaskzAnonymity`**: projects outside of
  `MpcLib.sln`, written for party classes that the source no longer has.
- **`SecureBroadcaster.cs`, `CryptoMpc.cs`, `DlCryptoMpc.cs`, the controllers of
  `SyncNetSimulator.cs`**: commented out as a whole.  **`DkmsProtocol.cs`** throws
  `NotImplementedException` where its steps should be.
- **The Welch-Berlekamp decoder**: called from `BgwMpc` only.  **`ByzantineQuorum`** is never
  constructed, so verification of shares by commitment is modelled in
  `PolynomialCommitments` but in no protocol.
- **Finite fields**: data; the models that need them have small fields of their own.
- **Text parsers, windows and drivers**; **random sampling**, a choice of the environment.
- **Vendored code** (gmp, ntl, openssl, pbc, MiscUtil) and programs in other languages.
