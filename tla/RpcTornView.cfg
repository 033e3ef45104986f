CONSTANTS
  a1 = a1
  a2 = a2
  a3 = a3
  b2 = b2
  b3 = b3
  d1 = d1
  d2 = d2
  d3 = d3
  s1 = s1
  s2 = s2
  v1 = v1
  v2 = v2
  v3 = v3
  t1 = t1
  t2 = t2
  Absent = Absent
  NoOp = NoOp
  None = None
  ContractKey = {}
  StorageKey <- MCStorageKey
  Value <- MCValue
  Hash <- MCHash
  MaxHeight = 3
  Chains <- MCChains
  ExecBlock <- MCExecBlock
  TxId <- MCTxId
  CallsIn <- MCCallsIn
  Activation = 2
  MaxReorgs = 1
  MaxFaults = 0
  MaxCrashes = 0
SPECIFICATION RpcSpec
INVARIANTS ViewDescribesState
