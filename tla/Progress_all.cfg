SPECIFICATION FairSpec
CONSTANTS
  Creators = {a, b}
  Writers = {w, x}
  PoolMax = 2
  MaxLostTx = 1
  MaxAuditFaults = 1
  Askers = {r1, r2}
  MaxStored = 1
  MaxFaults = 2
  Sockets = {s1, s2}
  MaxDeaths = 1
  MaxRedisFaults = 1
  Gateways = {g, h}
  MaxEvents = 2
  MaxDeliver = 2
  MaxBreaks = 2
  Keyed = {1}
  MaxReplays = 1
INVARIANTS
  TypeOK
  OneConversation
  AuditGapsExplained
  ConnectedIsMember
  AckedWasEmitted
  NoDoubleEmission
PROPERTIES
  EveryCallEnds
  NewMessageSearchable
  EventuallyOffline
  EveryEventEmitted
CHECK_DEADLOCK FALSE
