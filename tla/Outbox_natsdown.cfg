SPECIFICATION Spec
CONSTANTS
  Workers = {w1}
  Recipients = {seller}
  BatchSize = 2
  NatsOutcomes = {TRUE, FALSE}
  MaxEvents = 1
  MaxFailures = 0
  MaxAborts = 0
INVARIANTS
  ProcessedWasPublished
CHECK_DEADLOCK FALSE
