CONSTANTS
  Order = 5
  Degrees = {0, 1, 2, 3, 4}
  WindowWidth = 3
  Coefficients = {0, 3}
  Secrets = {2, 4}
  Randoms = {0, 3}
  Beyond = {0, 1}
SPECIFICATION Spec
INVARIANTS
  OpeningsVerify
  ProofsVerify
CHECK_DEADLOCK FALSE
