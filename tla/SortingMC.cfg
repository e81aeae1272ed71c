CONSTANTS
  WireCount <- MCWireCount
  PartWireCount <- MCPartWireCount
  Beginnings <- MCBeginnings
  Sizes <- MCSizes
  MaxOrdered <- MCMaxOrdered
  Primes <- MCPrimes
SPECIFICATION EitherSpec
INVARIANTS
  PutInOrder
  BitsAreBits
  SharesAreReduced
  DoesWhatItShould
  ConnectionsAgree
  OrderIsTopological
CHECK_DEADLOCK FALSE
