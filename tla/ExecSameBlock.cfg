CONSTANTS
  c1 = c1
  c2 = c2
  s1 = s1
  s2 = s2
  v1 = v1
  v2 = v2
  Absent = Absent
  NoOp = NoOp
  None = None
  ContractKey <- MCContractKey
  StorageKey <- MCStorageKey
  Value = {v1, v2}
  Hash = {b1}
  MaxHeight = 2
  Owner <- MCOwner
  CodeOf <- MCCodeOf
  CodeLength <- MCCodeLength
  Lengths = {1, 2}
  MaxTxs = 2
  MAX_FUEL_PER_CALL = 2
  MAX_FUEL_PER_ZCASH_TX = 2
  MAX_FUEL_PER_ZCASH_BLOCK = 3
  MAX_ZALK_MESSAGES_PER_TX = 2
  MAX_ZALK_MESSAGES_PER_BLOCK = 3
  MAX_CARRIER_BYTES_PER_BLOCK = 3
  MAX_DEPLOY_BYTES_PER_BLOCK = 2
  MAX_STORAGE_WRITES_PER_CALL = 1
SPECIFICATION ExecSpec
CHECK_DEADLOCK FALSE
INVARIANTS CallsSeeEarlierCalls
