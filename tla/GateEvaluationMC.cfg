CONSTANTS
  Quorum = {0, 1}
  Circuits <- MCCircuits
  Memberships <- MCMemberships
  Rounds = 2
SPECIFICATION FairSpec
INVARIANTS
  MessagesFindProtocol
  IdentifiersAgree
  InLockStep
PROPERTIES
  EverybodyCompletes
CHECK_DEADLOCK FALSE
