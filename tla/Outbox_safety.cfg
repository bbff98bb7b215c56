SPECIFICATION Spec
CONSTANTS
  Workers = {w1, w2}
  Recipients = {seller}
  BatchSize = 2
  NatsOutcomes = {TRUE}
  MaxEvents = 2
  MaxFailures = 1
  MaxAborts = 1
SYMMETRY MCSymmetry
INVARIANTS
  OutboxInv
  ExtraDeliveriesExplained
  RecordedMailWasSent
PROPERTIES
  ImplementsQueue
CHECK_DEADLOCK FALSE
