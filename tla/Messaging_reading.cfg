SPECIFICATION Spec
CONSTANTS
  Users = {customer, agent}
  Agents = {agent}
  Readers = {agent}
  Leavers = {}
  Moderators = {}
  Requests = {r1, r2}
  Keys = {}
  Bodies = {b1}
  None = None
  PageSize = 1
  MaxSequence = 3
  MaxReads = 1
  MaxCrashes = 0
SYMMETRY SlotSymmetry
INVARIANTS
  ReaderSeesNoHole
  ReadCursorAgreesWithReceipts
