CONSTANTS
  Party <- MCParty
  TRUSTED_PARTY_COUNT = 3
  GateCount = 6
  FirstGateForWire <- MCFirstGateForWire
  LastGateForWire <- MCLastGateForWire
  QuorumLists <- MCIdleQuorumLists
  Ends = {8}
SPECIFICATION FairSpec
INVARIANTS
  MessagesFindProtocol
CHECK_DEADLOCK FALSE
