SPECIFICATION WalletSpec
CONSTANTS
  Plan = {p1, p2}
  Note = {n1, n2}
  None = None
  MaxHeight = 3
  TxDelta = 1
  LockDelta = 4
  EXPIRY_ABSENT_MARGIN = 1
  ReorgDepth = 1
  MaxReorgs = 2
  MAX_SELECT_ITERATIONS = 2
  PinLag = 1
  MaxLiveRuns = 2
SYMMETRY WalletSymmetry
CONSTRAINT Scope
INVARIANTS
  WalletTypeOK
  LocksCoverInFlight
  FailureIsFinal
  SentIsJournaled
PROPERTIES
  ReleaseFollowsJournal
CHECK_DEADLOCK FALSE
