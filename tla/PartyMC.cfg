CONSTANTS
  Root = root
  Proto = {root, a, b, c}
  NoProto = none
  MaxBatch = 2
  MaxPending = 1
  FieldSize = 16777216
  ShortSize = 65536
  Quorum <- MCQuorum
  Gate <- MCGate
  Port <- MCPort
  Wire <- MCWire
  MaxProtocols = 2
  MaxTwo = 2
  MaxRegistered = 2
SPECIFICATION BothSpec
INVARIANTS
  TypeOK
  LookupsSucceed
  OutstandingIsLive
  CompletionsMatch
  IdentifiersUnused
PROPERTIES
  OneMessagePerLaunch
  ImplementsForkJoin
  JoinDelivered
  CompletionNoticed
CHECK_DEADLOCK FALSE
