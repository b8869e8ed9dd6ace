SPECIFICATION FairSpec
CONSTANTS
  Producers = {p1, p2}
  Consumers = {c1}
  Depth = 3
  MaxItems = 4
INVARIANTS
  PopNeverEmpty
  SlotsAccounted
  InflightAccounted
  IfEmptyOnlyInFront
  MoreAvailableMeansQueued
PROPERTIES
  ImplementsChannel
  EveryItemConsumed
