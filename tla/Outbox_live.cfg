SPECIFICATION FairSpec
CONSTANTS
  Workers = {w1}
  Recipients = {seller}
  BatchSize = 2
  NatsOutcomes = {TRUE}
  MaxEvents = 2
  MaxFailures = 1
  MaxAborts = 1
INVARIANTS
  OrderExplained
PROPERTIES
  EveryEventProcessed
CHECK_DEADLOCK FALSE
