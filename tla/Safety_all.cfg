SPECIFICATION Spec
CONSTANTS
  Claimers = {a, b}
  MaxPackages = 3
  MaxLostClaims = 1
  Members = {1, 2}
  MlsSenders = {s, t}
  PageLimit = 1
  MaxWelcomes = 1
  MaxMls = 3
  MaxLostMls = 1
  Sign = {q1, q2}
  MaxTokens = 3
  MaxCrashes = 1
  Askers = {r1, r2}
  MaxStored = 2
  MaxFaults = 1
  Files = {f}
  Finalizers = {fa, fb}
  MaxMishaps = 1
  Convs = {c, d}
  PageLimit50 = 1
  MaxSent = 2
  MaxOpens = 2
  MaxCuts = 1
  Reports = {ra, rb}
  Moderators = {m1, m2}
INVARIANTS
  TypeOK
  HandedOnce
  SequencedUnderLock
  GroupIsWhole
  PickupComplete
  ParentIsRevoked
  SurvivorsExplained
  IndexComplete
  RowAndObjectAgree
  ViewOfOneConversation
  MissingExplained
  ActionedIsHidden
PROPERTIES
  NoSessionAfterErasure
CHECK_DEADLOCK FALSE
