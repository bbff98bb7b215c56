SPECIFICATION Spec
CONSTANTS
  Users = {customer}
  Agents = {}
  Readers = {}
  Leavers = {customer}
  Moderators = {}
  Requests = {r1, r2}
  Keys = {k1}
  Bodies = {b1, b2}
  None = None
  PageSize = 1
  MaxSequence = 2
  MaxReads = 0
  MaxCrashes = 0
INVARIANTS
  AnswerIsTheStoredMessage
