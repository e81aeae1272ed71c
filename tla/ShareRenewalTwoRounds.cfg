CONSTANTS
  Renewals <- MCTwoIntermediateRounds
  Item = {1}
SPECIFICATION FairSpec
INVARIANTS
  AllSharesAtTheEnd
CHECK_DEADLOCK FALSE
