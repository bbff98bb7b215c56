SPECIFICATION FairSpec
CONSTANTS
  Users = {customer}
  Agents = {}
  Readers = {}
  Leavers = {}
  Moderators = {}
  Requests = {r1, r2}
  Keys = {k1}
  Bodies = {b1}
  None = None
  PageSize = 1
  MaxSequence = 2
  MaxReads = 0
  MaxCrashes = 2
INVARIANTS
  OneMessagePerKey
PROPERTIES
  EveryRequestAnswered
