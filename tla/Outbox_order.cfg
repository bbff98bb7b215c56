SPECIFICATION Spec
CONSTANTS
  Workers = {w1}
  Recipients = {seller}
  BatchSize = 2
  NatsOutcomes = {TRUE}
  MaxEvents = 2
  MaxFailures = 0
  MaxAborts = 0
INVARIANTS
  StreamInOrder
CHECK_DEADLOCK FALSE
