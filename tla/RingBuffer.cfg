\* Two producers, records of two and of four units, a ring of eight.
CONSTANTS
  Producers = {p1, p2}
  Size = 8
  Lengths = {8, 17}
  MaxRecords = 3
SPECIFICATION Spec
CHECK_DEADLOCK FALSE
INVARIANTS
  PositionsOrdered
  SamplesIntact
PROPERTIES
  ImplementsRecordQueue
  CommittedAreTaken
