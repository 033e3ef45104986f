----------------------------- MODULE BlockExec -----------------------------
(***************************************************************************)
(* The block processor (process_parsed_block and below in                  *)
(* crates/zalkanes-indexer/src/lib.rs) and the contract runtime's write    *)
(* buffer (crates/zalkanes-runtime/src/lib.rs), over the state store.  A   *)
(* block is a sequence of transactions, a transaction a sequence of        *)
(* protocol messages; both are chosen as they are read.  Outputs that      *)
(* carry no message change nothing and are left out.                       *)
(*                                                                         *)
(* A contract is any WASM module: inside a call it may set or delete keys  *)
(* of its own storage, spend fuel, return or fail, in any order.  Every    *)
(* host call costs at least one unit of fuel.  Code is a function of the   *)
(* contract id, which commits to the code hash.                            *)
(***************************************************************************)
EXTENDS StateStore, Sequences, FiniteSets

CONSTANTS
  Owner,           \* the contract each storage key belongs to
  CodeOf,          \* the code a contract id commits to
  CodeLength,      \* the length of that code
  Lengths,         \* carrier lengths a message may declare
  MaxTxs,          \* bound on the transactions of a block
  MAX_FUEL_PER_CALL,
  MAX_FUEL_PER_ZCASH_TX,
  MAX_FUEL_PER_ZCASH_BLOCK,
  MAX_ZALK_MESSAGES_PER_TX,
  MAX_ZALK_MESSAGES_PER_BLOCK,
  MAX_CARRIER_BYTES_PER_BLOCK,
  MAX_DEPLOY_BYTES_PER_BLOCK,
  MAX_STORAGE_WRITES_PER_CALL

ASSUME OwnerAssumption == Owner \in [StorageKey -> ContractKey]
\* The prefixes c: and s: keep the two kinds of database keys apart.
ASSUME PrefixAssumption == ContractKey \cap StorageKey = {}
\* A contract id is a 32-byte hash.
ASSUME IdsAssumption == IsFiniteSet(ContractKey)
ASSUME CodeAssumption ==
  /\ CodeOf \in [ContractKey -> Value]
  /\ Lengths \subseteq Nat
  /\ CodeLength \in [ContractKey -> Lengths]
ASSUME LimitsAssumption ==
  /\ MaxTxs \in Nat
  /\ MAX_FUEL_PER_CALL \in Nat
  /\ MAX_FUEL_PER_ZCASH_TX \in Nat
  /\ MAX_FUEL_PER_ZCASH_BLOCK \in Nat
  /\ MAX_ZALK_MESSAGES_PER_TX \in Nat
  /\ MAX_ZALK_MESSAGES_PER_BLOCK \in Nat
  /\ MAX_CARRIER_BYTES_PER_BLOCK \in Nat
  /\ MAX_DEPLOY_BYTES_PER_BLOCK \in Nat
  /\ MAX_STORAGE_WRITES_PER_CALL \in Nat

VARIABLES
  at,          \* "idle", "block", "tx" or "call": what is being processed
  commit,      \* the pending BlockCommit
  limits,      \* BlockLimits
  txn,         \* number of the current transaction, its fuel and messages
  call,        \* the running call: contract, fuel limit, fuel left, overlay
  executions   \* execution records of the block, each with the writes it made

execVars == <<kv, hist, undo, meta, rb, at, commit, limits, txn, call, executions>>
procVars == <<at, commit, limits, txn, call, executions>>

Writes == [StorageKey -> Value \union {Absent, NoOp}]  \* Absent is a delete

NoWrites == [k \in StorageKey |-> NoOp]
NoCall   == [contract |-> None, limit |-> 0, left |-> 0, overlay |-> NoWrites]
NoLimits == [fuel |-> 0, messages |-> 0, carrier |-> 0, deploy |-> 0]

ExecInit ==
  /\ StoreInit
  /\ at = "idle"
  /\ commit = EmptyCommit
  /\ limits = NoLimits
  /\ txn = [n |-> 0, fuel |-> 0, messages |-> 0]
  /\ call = NoCall
  /\ executions = <<>>
----------------------------------------------------------------------------
(* Blocks and transactions *)

BlockHeight == IF meta.h = None THEN 1 ELSE meta.h + 1

begin_block ==
  /\ at = "idle"
  /\ BlockHeight \in Height
  /\ at' = "block"
  /\ commit' = EmptyCommit
  /\ limits' = NoLimits
  /\ txn' = [n |-> 0, fuel |-> 0, messages |-> 0]
  /\ executions' = <<>>
  /\ UNCHANGED <<storeVars, call>>

begin_tx ==
  /\ at = "block"
  /\ txn.n < MaxTxs
  /\ at' = "tx"
  /\ txn' = [n |-> txn.n + 1, fuel |-> 0, messages |-> 0]
  /\ UNCHANGED <<storeVars, commit, limits, call, executions>>

end_tx ==
  /\ at = "tx"
  /\ at' = "block"
  /\ UNCHANGED <<storeVars, commit, limits, txn, call, executions>>

end_block ==
  /\ at = "block"
  /\ \E hash \in Hash : next_block(BlockHeight, hash, commit)
  /\ at' = "idle"
  /\ UNCHANGED <<commit, limits, txn, call, executions>>
----------------------------------------------------------------------------
(* Messages *)

\* Every parsed message is counted before anything else is decided.
CountedTx == [txn EXCEPT !.messages = @ + 1]
Counted   == [limits EXCEPT !.messages = @ + 1]

WithinCaps ==
  /\ CountedTx.messages <= MAX_ZALK_MESSAGES_PER_TX
  /\ Counted.messages <= MAX_ZALK_MESSAGES_PER_BLOCK

message_over_cap ==
  /\ at = "tx"
  /\ ~WithinCaps
  /\ txn' = CountedTx
  /\ limits' = Counted
  /\ at' = "block"    \* the rest of the transaction is skipped
  /\ UNCHANGED <<storeVars, commit, call, executions>>

\* A message that is read and changes no more than the counters.
skip_with(l) ==
  /\ at = "tx"
  /\ WithinCaps
  /\ txn' = CountedTx
  /\ limits' = l
  /\ UNCHANGED <<storeVars, at, commit, call, executions>>

WithCarrier(n) == [Counted EXCEPT !.carrier = @ + n]
WithDeploy(n)  == [WithCarrier(n) EXCEPT !.deploy = @ + n]

\* Faulty variant: the caps are compared with the budget used so far.
BytesOk_before(l) == /\ limits.carrier <= MAX_CARRIER_BYTES_PER_BLOCK
                     /\ limits.deploy <= MAX_DEPLOY_BYTES_PER_BLOCK

BytesOk(l) == /\ l.carrier <= MAX_CARRIER_BYTES_PER_BLOCK
              /\ l.deploy <= MAX_DEPLOY_BYTES_PER_BLOCK

\* Contracts whose deployment is pending in this block.
Deployed == {c \in ContractKey : commit.put[c] # NoOp}

\* The declared bytes are charged before the caps are looked at, so a deploy
\* that is skipped for its size has used up the budget of the later ones.
deploy_skipped ==
  \/ skip_with(Counted)                                  \* output_index mismatch
  \/ \E n \in Lengths : ~BytesOk(WithDeploy(n)) /\ skip_with(WithDeploy(n))

\* Reconstruction or validation fails, or the contract exists already.
deploy_rejected ==
  \E n \in Lengths : BytesOk(WithDeploy(n)) /\ skip_with(WithDeploy(n))

handle_deploy ==
  \E c \in ContractKey \ Deployed :
     /\ at = "tx"
     /\ WithinCaps
     /\ BytesOk(WithDeploy(CodeLength[c]))
     /\ kv[c] = Absent
     /\ txn' = CountedTx
     /\ limits' = WithDeploy(CodeLength[c])
     /\ commit' = [commit EXCEPT !.put[c] = CodeOf[c]]
     /\ UNCHANGED <<storeVars, at, call, executions>>

MinOf(a, b) == IF a <= b THEN a ELSE b
Remaining(cap, used) == IF used <= cap THEN cap - used ELSE 0

\* Faulty variants: a call is limited by the block alone; the transaction's
\* budget is forgotten.
fuel_limit_of_block == Remaining(MAX_FUEL_PER_ZCASH_BLOCK, limits.fuel)
fuel_limit_no_tx == MinOf(MAX_FUEL_PER_CALL, Remaining(MAX_FUEL_PER_ZCASH_BLOCK, limits.fuel))

fuel_limit ==
  MinOf(MAX_FUEL_PER_CALL,
        MinOf(Remaining(MAX_FUEL_PER_ZCASH_TX, txn.fuel),
              Remaining(MAX_FUEL_PER_ZCASH_BLOCK, limits.fuel)))

\* Faulty variant: root_after is taken without the pending commit.
Execution_unprojected(c, ok, used, writes, pending) ==
  [tx |-> txn.n, contract |-> c, success |-> ok, fuel_used |-> used,
   root_before |-> compute_root(kv), root_after |-> compute_root(kv),
   writes |-> writes]

\* The records are framed by the root below the block and the root the
\* pending commit would give.
Execution(c, ok, used, writes, pending) ==
  [tx |-> txn.n, contract |-> c, success |-> ok, fuel_used |-> used,
   root_before |-> compute_root(kv), root_after |-> projected_root(kv, pending),
   writes |-> writes]

\* execute_call up to the start of the contract.  The contract is looked up
\* in the store: one deployed in this block is not found.
execute_call(c, l) ==
  /\ at = "tx"
  /\ WithinCaps
  /\ txn' = CountedTx
  /\ limits' = l
  /\ \/ /\ fuel_limit = 0
        /\ UNCHANGED <<at, call, executions>>
     \/ /\ fuel_limit > 0 /\ kv[c] = Absent
        /\ executions' = Append(executions, Execution(c, FALSE, 0, NoWrites, commit))
        /\ UNCHANGED <<at, call>>
     \/ /\ fuel_limit > 0 /\ kv[c] # Absent
        /\ at' = "call"
        /\ call' = [contract |-> c, limit |-> fuel_limit, left |-> fuel_limit,
                    overlay |-> NoWrites]
        /\ UNCHANGED executions
  /\ UNCHANGED <<storeVars, commit>>

handle_call == \E c \in ContractKey : execute_call(c, Counted)

\* The calldata may exceed the block's carrier budget, fail to reconstruct,
\* or arrive whole.
handle_call_carrier ==
  \E c \in ContractKey, n \in Lengths :
     \/ WithCarrier(n).carrier > MAX_CARRIER_BYTES_PER_BLOCK /\ skip_with(WithCarrier(n))
     \/ WithCarrier(n).carrier <= MAX_CARRIER_BYTES_PER_BLOCK /\ skip_with(WithCarrier(n))
     \/ /\ WithCarrier(n).carrier <= MAX_CARRIER_BYTES_PER_BLOCK
        /\ execute_call(c, WithCarrier(n))
----------------------------------------------------------------------------
(* Inside a call *)

Written(o) == {k \in StorageKey : o[k] # NoOp}

\* storage_set and storage_delete go to the overlay; a new key beyond the
\* cap is refused with -1, an old one may still be changed.
RoomFor(k) == k \in Written(call.overlay)
              \/ Cardinality(Written(call.overlay)) < MAX_STORAGE_WRITES_PER_CALL

\* Faulty variant: the storage prefix is chosen by the contract.
host_write_any(k, x) ==
  /\ at = "call"
  /\ call.left > 0
  /\ call' = IF RoomFor(k)
             THEN [call EXCEPT !.left = @ - 1, !.overlay[k] = x]
             ELSE [call EXCEPT !.left = @ - 1]
  /\ UNCHANGED <<storeVars, at, commit, limits, txn, executions>>

host_write(k, x) ==
  /\ at = "call"
  /\ call.left > 0
  /\ Owner[k] = call.contract
  /\ call' = IF RoomFor(k)
             THEN [call EXCEPT !.left = @ - 1, !.overlay[k] = x]
             ELSE [call EXCEPT !.left = @ - 1]
  /\ UNCHANGED <<storeVars, at, commit, limits, txn, executions>>

storage_set    == \E k \in StorageKey, v \in Value : host_write(k, v)
storage_delete == \E k \in StorageKey : host_write(k, Absent)

\* Instructions and host calls that write nothing.
spend_fuel ==
  /\ at = "call"
  /\ call.left > 0
  /\ call' = [call EXCEPT !.left = @ - 1]
  /\ UNCHANGED <<storeVars, at, commit, limits, txn, executions>>

\* apply_write for every write: sets and deletes go to separate lists.
ApplyWrites(c, w) ==
  [put |-> [k \in DbKey |-> IF k \in StorageKey /\ w[k] \notin {NoOp, Absent}
                            THEN w[k] ELSE c.put[k]],
   del |-> c.del \union {k \in StorageKey : w[k] = Absent}]

\* The end of execute_call, with what the call wrote if it succeeded.
finish_call(ok, writes) ==
  LET used == call.limit - call.left
  IN  /\ at = "call"
      /\ txn' = [txn EXCEPT !.fuel = @ + used]
      /\ limits' = [limits EXCEPT !.fuel = @ + used]
      /\ commit' = ApplyWrites(commit, writes)
      /\ executions' = Append(executions,
                              Execution(call.contract, ok, used, writes, commit'))
      /\ at' = "tx"
      /\ call' = NoCall
      /\ UNCHANGED storeVars

dispatch_ok   == finish_call(TRUE, call.overlay)
\* Faulty variant: a failed call keeps its writes.
dispatch_fail_keeps == finish_call(FALSE, call.overlay)

\* No dispatch export, a trap, a non-zero return code or fuel exhaustion: the
\* overlay is dropped.
dispatch_fail == finish_call(FALSE, NoWrites)

ExecNext ==
  \/ begin_block
  \/ begin_tx
  \/ end_tx
  \/ end_block
  \/ message_over_cap
  \/ deploy_skipped
  \/ deploy_rejected
  \/ handle_deploy
  \/ handle_call
  \/ handle_call_carrier
  \/ storage_set
  \/ storage_delete
  \/ spend_fuel
  \/ dispatch_ok
  \/ dispatch_fail

ExecSpec == ExecInit /\ [][ExecNext]_execVars
----------------------------------------------------------------------------
(* Properties *)

ExecutionRecord ==
  [tx : 1..MaxTxs, contract : ContractKey, success : BOOLEAN,
   fuel_used : 0..MAX_FUEL_PER_CALL, root_before : StateRoot, root_after : StateRoot,
   writes : Writes]

(* The type of the processor's state. *)
ExecTypeOK ==
  /\ StoreTypeOK
  /\ at \in {"idle", "block", "tx", "call"}
  /\ commit \in BlockCommit
  /\ limits \in [fuel : Nat, messages : Nat, carrier : Nat, deploy : Nat]
  /\ txn \in [n : 0..MaxTxs, fuel : Nat, messages : Nat]
  /\ call \in [contract : ContractKey \union {None}, limit : 0..MAX_FUEL_PER_CALL,
               left : 0..MAX_FUEL_PER_CALL, overlay : Writes]
  /\ executions \in Seq(ExecutionRecord)

\* The fuel of the records of s whose numbers are in T.
FuelIn(s, T) ==
  LET sum[n \in 0..Len(s)] ==
        IF n = 0 THEN 0 ELSE sum[n - 1] + (IF n \in T THEN s[n].fuel_used ELSE 0)
  IN  sum[Len(s)]

\* The records of the block's n-th transaction.
RecordsOf(n) == {i \in DOMAIN executions : executions[i].tx = n}

(* The records of a block never add up to more than the budgets: fuel per   *)
(* block, fuel per transaction, executions per transaction and per block,   *)
(* and storage keys written per call.                                       *)
WithinBudgets ==
  /\ FuelIn(executions, DOMAIN executions) <= MAX_FUEL_PER_ZCASH_BLOCK
  /\ Len(executions) <= MAX_ZALK_MESSAGES_PER_BLOCK
  /\ \A i \in DOMAIN executions :
        Cardinality(Written(executions[i].writes)) <= MAX_STORAGE_WRITES_PER_CALL
  /\ \A n \in 1..MaxTxs :
        /\ FuelIn(executions, RecordsOf(n)) <= MAX_FUEL_PER_ZCASH_TX
        /\ Cardinality(RecordsOf(n)) <= MAX_ZALK_MESSAGES_PER_TX

\* Records of calls that wrote k, and the last of them.
Wrote(k) == {i \in DOMAIN executions : executions[i].writes[k] # NoOp}
IsLastOf(i, S) == i \in S /\ \A j \in S : j <= i

\* The pending block leaves in k what the last call that wrote it put there, be
\* it a value or a delete, and leaves a key no call wrote as it is in the store.
EndsWithLastWrite(k) ==
  LET after == projected_root(kv, commit)[k] IN
  \/ Wrote(k) = {} /\ after = kv[k]
  \/ \E i \in Wrote(k) : IsLastOf(i, Wrote(k)) /\ after = executions[i].writes[k]

\* No call of the block sets k after another has deleted it.
NotRevived(k) ==
  \A i, j \in Wrote(k) :
     i < j /\ executions[i].writes[k] = Absent => executions[j].writes[k] = Absent

(* What a block does to storage is what its successful calls did and        *)
(* nothing of the failed ones, in their order as long as no key that one    *)
(* call deletes is set by a later one: execute_call and apply_write.        *)
OnlySuccessfulCallsWrite ==
  /\ \A i \in DOMAIN executions : ~executions[i].success => executions[i].writes = NoWrites
  /\ at # "idle" => \A k \in StorageKey : NotRevived(k) => EndsWithLastWrite(k)

(* "Calls execute in the order their transactions appear in the block"      *)
(* (calling-contracts.md:80): what they wrote takes effect in that order,   *)
(* whichever of them set and whichever deleted a key.                       *)
CallsApplyInOrder == at # "idle" => \A k \in StorageKey : EndsWithLastWrite(k)

(* When the block is committed its records agree with the chain of roots:   *)
(* every record starts from the root of the block below, and the last one   *)
(* ends with the committed storage.                                         *)
RecordsFrameBlock ==
  (at = "idle" /\ executions # <<>>) =>
     LET below == IF meta.h = 1 THEN EmptyState ELSE hist[meta.h - 1].state_root
         last  == executions[Len(executions)]
     IN  /\ \A i \in DOMAIN executions : executions[i].root_before = below
         /\ \A k \in StorageKey : last.root_after[k] = hist[meta.h].state_root[k]

(* A contract is called only with code that was on chain before the block,  *)
(* and writes only under its own storage prefix.                            *)
CallsOwnStorage ==
  \A i \in DOMAIN executions : executions[i].success =>
     /\ executions[i].root_before[executions[i].contract] # Absent
     /\ \A k \in Written(executions[i].writes) : Owner[k] = executions[i].contract

\* The length of the code of the contracts in S.
CodeBytes[S \in SUBSET ContractKey] ==
  IF S = {} THEN 0
  ELSE LET c == CHOOSE x \in S : TRUE IN CodeLength[c] + CodeBytes[S \ {c}]

(* The code bytes a block deploys stay within the deploy and carrier caps.  *)
DeployedWithinCaps ==
  /\ CodeBytes[Deployed] <= MAX_DEPLOY_BYTES_PER_BLOCK
  /\ CodeBytes[Deployed] <= MAX_CARRIER_BYTES_PER_BLOCK

(* Each call of a block starts from the state the call before it left.      *)
CallsSeeEarlierCalls ==
  \A i \in 1..(Len(executions) - 1) : \A k \in StorageKey :
     executions[i + 1].root_before[k] = executions[i].root_after[k]
=============================================================================
