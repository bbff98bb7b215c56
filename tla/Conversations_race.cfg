SPECIFICATION ConversationsSpec
CONSTANTS
  Creators = {a, b}
  Writers = {}
  PoolMax = 3
  MaxLostTx = 0
  MaxAuditFaults = 0
INVARIANTS
  CreationReturnsIt
CHECK_DEADLOCK FALSE
