SPECIFICATION PartsSpec
CONSTANTS
  ContractKey = {c1}
  StorageKey = {s1}
  Value = {v1, v2}
  Absent = Absent
  NoOp = NoOp
  Hash = {b1}
  None = None
  MaxHeight = 2
  Command <- Commands
  Alteration = {"none", "version", "expiry", "drop_input", "prevout", "swap_inputs", "value", "script", "drop_output", "extra_output", "swap_outputs", "pubkey", "no_sig", "index", "redeem", "data", "short", "swap_sigs", "split", "extra_push"}
  Relayed = {"none", "index", "data", "short", "swap_sigs", "split", "extra_push"}
  MaxRuns = 2
  MaxBlocks = 2
  MaxReorgs = 1
  Funding <- Fundings
  MaxTampers = 2
  Received <- Payloads
  Choice = {x, y}
  MaxLength = 3
  Birthday = 2
  MaxSwitches = 2
  MaxExits = 1
  Nothing = Nothing
  Terminal = {t1, t2}
  CreatesAtOnce = 1
  MaxCommands = 4
  MaxKills = 3
  StaleAfter = 1
  MaxNow = 3
  MaxTip = 3
  MaxReorged = 1
  MaxRestarts = 1
INVARIANTS
  StoreTypeOK
  RootMatches
  UndoChain
  MetaNotBehind
  PublishedIsPlanned
  IndexedIsCommitted
  PrintedIdIsIndexed
  CarriersPayDeploy
  MeetsRelayPolicy
  ParseIsCanonical
  VerifiedIsPlanned
  CleanPlanSucceeds
  SelectsFromOneChain
  AccountHasKeystore
  ReadyIsRecent
PROPERTIES
  RollbackRestoresMeta
  ImplementsVersions
  ScanCatchesUp
CHECK_DEADLOCK FALSE
