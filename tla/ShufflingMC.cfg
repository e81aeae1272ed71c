CONSTANTS
  Party <- MCParty
  TRUSTED_PARTY_COUNT = 3
  GateCount = 6
  FirstGateForWire <- MCFirstGateForWire
  LastGateForWire <- MCLastGateForWire
  QuorumLists <- MCQuorumLists
  Ends = {8, 9}
SPECIFICATION FairSpec
INVARIANTS
  MessagesFindProtocol
  InStep
  NoOutputBeforeTheEnd
  KnowsResults
PROPERTIES
  EverybodyCompletes
CHECK_DEADLOCK FALSE
