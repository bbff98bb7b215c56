SPECIFICATION Spec
CONSTANTS
  Users = {customer, seller}
  Agents = {}
  Readers = {}
  Leavers = {customer, seller}
  Moderators = {admin}
  Requests = {r1, r2}
  Keys = {k1}
  Bodies = {b1}
  None = None
  PageSize = 1
  MaxSequence = 2
  MaxReads = 0
  MaxCrashes = 0
SYMMETRY MCSymmetry
INVARIANTS
  TypeOK
  IInv
  SequencesGapFree
  OutboxAgreesWithMessages
PROPERTIES
  NoClearTextAfterE2ee
  DeletionIsFinal
  ImplementsLog
