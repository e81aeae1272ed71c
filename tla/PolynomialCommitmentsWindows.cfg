CONSTANTS
  Order = 7
  Degrees = {5}
  WindowWidth = 3
  Coefficients = {0, 3}
  Secrets = {2}
  Randoms = {0}
  Beyond = {0, 1}
SPECIFICATION Spec
INVARIANT FastIsRight
CHECK_DEADLOCK FALSE
