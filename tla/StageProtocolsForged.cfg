CONSTANTS
  N = 2
  MaxSkew = 1
  MaxWork = 1
  Sender = {s1, s2, s3, s4, s5}
  Receiver = {r1}
  Faulty = {s1, s2}
  Forging = {s1}
  Value = {agreed, wrong}
  Agreed = agreed
  NoValue = none
  Size = 1
  Prime = 5
  Polynomials <- MCConstants
  Misbehaving = 1
  Conducts = {"correct"}
SPECIFICATION FairSpec
INVARIANTS
  MajorityWinsOverForgers
CHECK_DEADLOCK FALSE
