SPECIFICATION WalletSpec
CONSTANTS
  Plan = {p1}
  Note = {n1, n2}
  None = None
  MaxHeight = 3
  TxDelta = 1
  LockDelta = 3
  EXPIRY_ABSENT_MARGIN = 1
  ReorgDepth = 1
  MaxReorgs = 1
  MAX_SELECT_ITERATIONS = 2
  PinLag = 0
  MaxLiveRuns = 1
SYMMETRY WalletSymmetry
INVARIANTS
  RejectedHoldsNothing
CHECK_DEADLOCK FALSE
