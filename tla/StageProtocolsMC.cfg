CONSTANTS
  N = 3
  MaxSkew = 1
  MaxWork = 2
  Sender = {s1, s2, s3, s4, s5}
  Receiver = {r1}
  Faulty = {s1, s2}
  Forging = {s1}
  Value = {agreed, wrong}
  Agreed = agreed
  NoValue = none
  Size = 4
  Prime = 5
  Polynomials <- MCPolynomials
  Misbehaving = 2
  Conducts = {"correct", "uncommitted", "late", "silent", "partial", "hasty"}
SPECIFICATION FairSpec
INVARIANTS
  MessagesFindProtocol
  MajorityWins
  OpenedIsTheSum
PROPERTIES
  ImplementsBarrier
  LeaveTogether
  EverybodyLeaves
CHECK_DEADLOCK FALSE
