CONSTANTS
  MaxDelay = 1
  MaxEvents = 7
  MaxLoopbacks = 2
  Target = {a, b}
  MaxParallelEvents = 4
  MaxParallelLoopbacks = 1
SPECIFICATION BothSpec
INVARIANTS
  HeapsAreOrdered
PROPERTIES
  ImplementsDiscreteEvents
  ImplementsParallelTicks
  EveryEventIsHandled
CHECK_DEADLOCK FALSE
