CONSTANTS
  Renewals <- MCRenewals
  Item = {1, 2}
SPECIFICATION FairSpec
INVARIANTS
  MessagesFitRound
  AllSharesAtTheEnd
  SharesOfTheSecret
PROPERTIES
  EverybodyCompletes
CHECK_DEADLOCK FALSE
