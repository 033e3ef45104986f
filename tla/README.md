# zalkanes: a TLA+ model of the indexer, the contract executor, the deployment path and the wallet

zalkanes is a metaprotocol on Zcash: contracts (WASM modules) are deployed and
called by data carried in transparent transactions. A node follows a Zebra node's
best chain, executes every message of every block from the activation height on and
keeps the contract state in RocksDB; a wallet builds, signs and sends the
transactions that carry the messages. This directory models the parts of it whose
correctness depends on order, failure and concurrency. Paths below are relative to
the repository root.

## 1. Inventory

| Component | State | Operations | Talks to |
|---|---|---|---|
| State store, `crates/zalkanes-state` (`RocksState`, `MemoryState`) | `c:`/`s:` entries, `h:<height>` records, `u:<height>` undo journals, cells `m:h` `m:b` `m:r`, `e:<txid>` execution records | `commit_block`, `rollback_to`, `save_executions`, reads, `compute_root` | called by the loop (write lock) and RPC (read lock) |
| Indexing loop, `crates/zalkanes-indexer/src/sync.rs` | volatile position in a tick, tip handle, `IndexerHealth` | `run`, `tick`, `handle_reorg` | chain source (HTTP), store, block processor |
| Block processor, `crates/zalkanes-indexer/src/lib.rs`, `parse.rs` | the pending `BlockCommit`, `BlockLimits`, per-transaction fuel and message counts | `process_parsed_block`, `handle_deploy`, `handle_call`, `handle_call_carrier`, `execute_call`, `apply_write` | store, runtime, carrier codec |
| Contract runtime, `crates/zalkanes-runtime` | the write overlay and fuel of one call | `dispatch`, host functions, `validate_module` | wasmi (external) |
| Chain source, `crates/zalkanes-chain` | none | `tip`, `block_hash`, `block_by_hash` | Zebra JSON-RPC |
| JSON-RPC server, `crates/zalkanes-rpc` | none of its own | `getInfo`, `view`, `getExecution`, health | store (read lock), runtime |
| Wallet journal, `crates/zalkanes-wallet/src/journal.rs` | one SQLite row per plan: stage, txid, inputs, expiry | `create_plan`, `transition`, `set_txid` | every wallet stage |
| Wallet broadcast, `broadcast.rs` | - | `broadcast_verified`, `reconcile` | journal, Zebra, release hook |
| Wallet recovery, `recovery.rs` | - | `startup_recover` | journal, lock store, reconcile |
| Notes and locks, `sqlite.rs`, `shielded.rs` | wallet database: notes, scan position, note locks with a block-height expiry | `scan_to_tip`, `select_for`, `plan_call`, `release` | lightweight chain source |
| Plans and authorization, `plan.rs`, `shielded.rs`, `transparent.rs`, `funding.rs`, `policy.rs` | typed stages of one transaction in memory | `prove`, `sign`, `finalize`, `verify` | librustzcash (external) |
| Keystore, `keystore.rs` | `keystore.age`, its temporary file, the session marker | `create`, `unlock`, `wallet create/restore/unlock/lock` | wallet database |
| CLI, `crates/zalkanes-cli` | stage of one command: PREPARE, DEPLOY, CALL | `contract_deploy`, `contract_call`, `execute_request`, `wallet_*`, `node_serve` | all of the above |
| Readiness, `IndexerHealth` and `readiness` | start, last progress, heights last seen, dead or not | `record_tick_ok`, `record_failure`, `mark_dead`, `assess` | loop, HTTP endpoint |
| Carrier and protocol codecs, `crates/zalkanes-carrier`, `-protocol` | none | encode, parse, reassemble chunks | block processor, wallet |
| Transaction builder, `crates/zalkanes-tx` | none | `split_chunks`, `prepare_plan`, `deploy_plan`, `call_plan`, `build_transparent_tx`, fees and sizes | CLI, plans |
| Core types, SDK, build helper, contracts, test kit | none | pure functions, guest code, tests | - |

### What is hard

* The chain source is asked again for every hash. The best chain may switch branches
  between any two requests of a tick, and one tick may index many blocks.
* `commit_block` is one atomic RocksDB batch. `rollback_to` is one batch *per height*
  and then three separate metadata writes, and `save_executions` is a write of its own
  after the commit: the process may die between any two.
* A block may put and delete one key. The write batch, the projected root, the undo
  journal and the reverse replay of the journal must all agree on what that means.
* Five budgets (fuel per call, transaction and block; messages per transaction and
  block; carrier and deploy bytes per block) are charged at different places.
* The wallet's journal and its note locks are two databases without a common
  transaction. A transaction may be sent and the answer lost; it may be dropped, relayed
  by somebody else, mined late, or taken off the chain by a reorganisation; recovery may
  run next to a live CLI process, acting on rows and locks it read earlier.
* A deployment is two transactions. The first pays for carriers sized from the fee of the
  second, which is planned only when the first is mined; code bytes travel in scriptSigs,
  which a v5 txid does not cover.
* A shielded transaction is planned, built by a third-party builder that places actions at
  random, proven, signed and extracted as a PCZT in between, and only then compared with
  the plan.
* A wallet scan is dozens of requests to a node whose best chain may change between any
  two of them; commands may be killed between any two file operations.

`PROJECT.json` lists these as hazards, each at its line with the properties that cover
it. What makes each component correct:

* store: contents, record and journals agree in every state on disk; after any sequence
  of calls and crashes the state is that of the remaining blocks;
* loop: every root is that of executing the recorded block over the state below; the
  indexed blocks are one chain; the store equals a clean reindex; the tip is reached;
* processor and runtime: no budget is exceeded; only successful calls write, only under
  their own prefix; records describe what was committed;
* RPC: an answer describes one state;
* wallet: a note is never free while a transaction that spends it may be mined; a plan
  reported as failed never turns up on chain; what was sent can always be reconciled; a
  selection is made from blocks of one chain; an account always has its keystore;
* deployment: what is sent is what was planned and passes relay rules; the carriers always
  pay for the DEPLOY; a contract has the bytes its id commits to and the id the CLI printed;
* readiness: a dead or stalled loop is never reported as healthy.

## 2. Modules

| Module | Models | Kind |
|---|---|---|
| `VersionedState` | what the store promises: a stack of versions of the state | abstract specification |
| `StateStore` | `RocksState` | component |
| `Sync` | `run`/`tick`/`handle_reorg` over `StateStore`, chain source, crashes | composition |
| `RpcView` | `zalkanes_view` next to `Sync` | composition |
| `BlockExec` | block processor and runtime over `StateStore` | composition |
| `WalletSpend` | plans, journal, locks, broadcast, recovery, node mempool and chain | component |
| `Carrier` | `zalkanes-carrier`, `zalkanes-protocol` | operators |
| `Messages` | the payloads `parse_op_return` meets, one after the other | component, over `Carrier` |
| `TxPlan` | `zalkanes-tx` | operators |
| `Deployment` | `contract deploy`/`call` end to end: CLI, transparent plans and their verification, mempool, blocks, indexing of deploys | composition, over `TxPlan` and `Carrier` |
| `ShieldedTx` | `ShieldedFunding`, `ShieldedPlan`: selection, fee, PCZT, verification | component, over `TxPlan` |
| `WalletScan` | `scan_to_tip`, `rewind_to_common_ancestor`, what `select_spends` starts from | component |
| `Keystore` | `Keystore::create`/`unlock`, the wallet commands, their files | component |
| `Health` | `IndexerHealth`, `run`, `readiness`, `node_serve` | component |
| `StateStoreProofs`, `SyncProofs`, `BlockExecProofs`, `WalletSpendProofs`, `WalletScanProofs`, `ShieldedTxProofs` | theorems about the module each is named after | proofs |
| `HealthKeystoreProofs` | theorems about `Health` and about `Keystore` | proofs |
| `TransactionProofs` | theorems about `Messages` and `Deployment`, with the lemmas about `Carrier` and `TxPlan` they rest on | proofs |
| `MCSync`, `MCRpcView`, `MCBlockExec`, `MCWalletSpend`, `MCParts` | instances for TLC | model checking |

Operators that stand before the one they are named after and are used nowhere
(`reconstruct_unhashed` before `reconstruct`) are not part of the specification. Each is a
plausible bug in the operator that follows it, and shows that the property it is paired with
in `PROJECT.json` would notice.

### StateStore

`kv` is the database under `c:` and `s:`, `hist` the `h:` records, `undo` the `u:`
journals, `meta` the three cells and `rb` the volatile position of a running
`rollback_to`. Actions: `next_block` (`commit_block` at a height above the indexed one,
which is how the loop calls it), `rollback_to`, `rollback_height` (one batch),
`restore_m_h`, `restore_m_b`, `restore_m_r` (the three puts), `crash`.

Abstractions. A `BlockCommit` in the code is a list of deploys, a list of upserts and a
list of deletes. `RocksState` reads each `prev` from the database and not from the
pending batch, so repeated records of one class for one key are equal and a later put
overrides an earlier one; a commit is therefore the last put per key and the set of
deleted keys. `UndoOf` and `RestoreBatch` keep the order of the classes, which is what
matters: a key put and deleted by one block has two journal records, and the reverse
replay must end with the put's. A state root is the state itself, i.e. BLAKE2b-256 over the
sorted entries is taken to be injective.

### Sync

`best` is the canonical chain, `pc` the position in a tick, `tip` what this tick works
towards, `execs` the `e:` records. `env` counts environment events and remembers two things that
properties depend on: that the best chain switched branches while a tick was indexing
(`switched`), and at which of the two positions that leave work half done, inside a rollback and
before `save_executions`, the process died (`cut`). One action per step
of `tick`: `fetch_tip`, `reorg_agrees` / `reorg_differs` / `rollback_batch` /
`rollback_done` (the loop of `handle_reorg`, one height at a time), `fast_forward` /
`no_seek`, `index_block` (fetch, parse, execute and commit), `save_executions`,
`tick_ok`, `not_served`, `fetch_failed`, `node_crash` (anywhere). `chain_grow` and `chain_reorg`
(at any moment) are the environment. The write lock is not a variable: the store is locked exactly while `pc` is
"rollback" or "save", and readers (`RpcView`) wait for `LockFree`. A stop request during a
tick leaves the same disk state as a crash between two blocks. Executing a block is the
constant operator `ExecBlock`; `BlockExec` is what it stands for.

A block hash commits to height and ancestors (`ChainAssumption`). Two reads inside one
step, the hash and then the block with that hash, are one action: a block fetched by hash
does not change. Fetching the hash and committing the block are one action too: the
best chain may switch in between, but the commit reads nothing of the chain any more, so
the switch and the commit commute.

### BlockExec

A block is begun, transactions and messages are chosen as they are read, and the block is
committed to the store. `message_over_cap`, `deploy_skipped`, `deploy_rejected`,
`handle_deploy`, `handle_call`, `handle_call_carrier` are the branches of the message
loop; `storage_set`, `storage_delete`, `spend_fuel`, `dispatch_ok`, `dispatch_fail` are the
inside of a call: any contract may do any of them in any order while it has fuel. The code
bytes are a function of the contract id, which commits to the code hash. A start function
is refused at deployment, so a module without a `dispatch` export is `dispatch_fail` with
all of its fuel left. Parsing and
reassembly are nondeterministic outcomes.

### WalletSpend

A plan is one run of `execute_request`: `build_source`, `fund_context`, `select_spends`
and `lock_outputs` (rounds of `select_for`: notes are chosen from what the database offers
and then locked, and another run may choose in between), `create_plan`, then `authorize` (prove, sign and finalize, each
after `check_freshness`) alternating with `journal_stage`, then `broadcast_verified`,
`send_raw_transaction`, `broadcast_answer`, `release_rejected`. `end_run` ends it
anywhere. Recovery is `RecoverLocks`, `RecoverRows` (two separate reads), `RecoverRow`,
`RecoverRelease`, `ReconcileStart`, `ReconcileQuery`, `ReconcileApply`, `ReconcileExpire`,
`RecoverFinish`, and `RecoverCrash`. The node is `deliver`, `mempool_drop`,
`mempool_relay`, `mine_block`, `chain_reorg`, modelled from how the wallet uses it and
marked external. A transaction is the set of notes it spends and its expiry height.
`chain_reorg` may come any number of times (`MaxReorgs`) and take off any number of blocks
(`ReorgDepth`). `past` is a history variable: the highest tip so far, and whether a
reorganisation has put the chain more than `EXPIRY_ABSENT_MARGIN` below it. The claims that
rest on the margin are conditional on that (`~past.deep`).

`startup_recover` is exported by the crate but called by its own tests only: no CLI command
runs it. The model lets it run at any time, also next to live CLI runs: what is said of recovery is
said of a caller to come.

### Carrier and TxPlan

Two crates of pure functions each, as operators. A byte string is a sequence of *spans*: a
literal byte, or a stretch of a source nobody looks into (the module, a signature, a key).
Lengths are the real ones, so chunking, push opcodes, size limits and fees are computed
with the constants of the code. `CatAll` joins neighbouring stretches, so two byte strings
are equal exactly when their spans are. A hash is what was hashed. A message payload is a
record with its real size; the integer fields are cut to their width. `ASSUME ChunkSizeFits`
is the relation between the frozen chunk size, the relay limit and the largest module.
`Fold`, `Map`, `Each` and `Sum` are recursive functions and not `RECURSIVE` operators or folds
over sets: TLC walks a sequence once, and the prover can reason about them.

### Deployment

`job` is the running command and its position; `pc` goes through `size_request`,
`build_source` (with `mainnet_guard`, `obtain_funding`, `make_shielded`), `make_plan`,
`confirm`, `prove`, `sign`, `extract_verified`, `broadcast_verified`, `confirm_tx`, for a
deployment once for PREPARE and once for DEPLOY, then `print_contract_id` and
`wait_for_contract`. `sign` may yield a transaction altered in any of the ways of
`tamper_matrix.rs`: that is what `verify_extracted` has to find. `broadcast_verified` may
also end with an unknown outcome, after which the CLI goes on. The node is external:
`new_block` may include a pending transaction with other scriptSigs than were sent, under the same
txid; `chain_reorg` takes one out again. `IndexedFrom` is what `parse_block` and
`handle_deploy` make of a transaction in a block. The PROBE_VALUE of the code is 10^9 zatoshi
per carrier; the model's 10^7 also exceeds every fee and keeps sums within TLC's integers.
Journal and locks of `execute_request` are in `WalletSpend`.

### ShieldedTx

`fund` is a request with the wallet that funds it, `splan` the plan with its stage and
expectations, `pczt` the PCZT until it is taken out, `vtx` the verified transaction.
`plan_shielded` is `plan_call` and `plan_prepare`; `prove_pczt`, `sign_pczt` and
`extract_verified_shielded` are the stages; `tamper` alters one field of the PCZT, up to
`MaxTampers` times, anywhere in between; `move_tip` makes the plan stale. External: note
selection, action counts and the standard fee rule, the random placement of spends and
outputs (`Metadata`: every placement is tried), the signer and the extractor.

### WalletScan

A block is the list of choices that leads to it from genesis; hash, tree state and block at
a height of a chain are the same prefix. Every request of `scan_to_tip` is an action, so
`zebra_switch` can come between any two. `exit` is the end
of the process at any of them; what is in the database stays. `set_canonical_tip` is the
second request for the tip in `build_source`. `select_spends_at_tip` is `select_spends` up to
the selection itself; what it locks is in `WalletSpend`. `world.unseen` is history: a switch has
replaced a block that the wallet had just stored or rewound to, before it asked for its hash
(`UncheckedPoints`, finding 8). That put_blocks compares nothing with the block stored last is
an assumption about zcash_client_sqlite, which is not in this repository (`Follows`).

### Keystore

`keyfile`, `tmpfile`, the accounts in `wallet.sqlite`, the session marker, and what runs in
each terminal. Every file operation of `Keystore::create` is an action (`create_checked`,
`create_tmp`, `write_tmp`, `rename_tmp`), then the account (`no_account`, `create_account`).
`killed` ends a command at any of them. `CreatesAtOnce` bounds how many creations may overlap.

### Health

`status` is `IndexerStatus`, `really` what the loop did and when, which the code does not
record. A tick is `tick_begin`, `tick_rollback`, `tick_agrees`, `tick_block`, `tick_done`, or
ends in `tick_transient` or `tick_fatal`; the clock may advance between any two.
`events.activated` is FALSE on a network without an activation height: there `tick_block` is
never possible and the tick never ends.

### MCParts

`StateStore` on its own, under any caller, and `Deployment`, `ShieldedTx`, `WalletScan`, `Keystore`
and `Health` share no variables. One instance checks them side by side: `side` picks the one that
moves, the others keep one fixed state, so the reachable states are the sum and not the product.
The codec's side is a walk over `Payloads`.

## 3. Runs

| Run | Checks | Shows |
|---|---|---|
| `sync` | `SyncTypeOK`, `RootsAreReplay`, `EventuallyCaughtUp`; `ReadersSeeOneBlock`, `OnOneChain`, `CleanReindexAgrees`, `ExecutionsComplete` | the loop with switches at any moment and crashes anywhere: the first three always hold, the others until a switch while a tick is indexing or a crash at one of the two half-done positions |
| `exec` | `ExecTypeOK`, `WithinBudgets`, `OnlySuccessfulCallsWrite`, `RecordsFrameBlock`, `CallsOwnStorage`, `DeployedWithinCaps` | block execution at the limit of each budget |
| `wallet` | `WalletTypeOK`, `LocksCoverInFlight`, `FailureIsFinal`, `SentIsJournaled`, `ReleaseFollowsJournal` | two plans compete for one note, one run after the other, or both alive and choosing it before either has locked it; one plan selects two notes in several rounds, with a tip that moves between pin and plan |
| `parts`, store side | `StoreTypeOK`, `RootMatches`, `UndoChain`, `MetaNotBehind`, `RollbackRestoresMeta`, `ImplementsVersions` | the store with every commit, rollback and crash |
| `parts`, deployment side | `PublishedIsPlanned`, `IndexedIsCommitted`, `PrintedIdIsIndexed`, `CarriersPayDeploy`, `MeetsRelayPolicy` | deploying and calling end to end, with altered transactions, altered relay, reorganisations and a second run |
| `parts`, codec side | `ParseIsCanonical` | what is parsed is exactly what would be encoded |
| `parts`, shielded side | `VerifiedIsPlanned`, `CleanPlanSucceeds` | no two alterations of a PCZT pass; an unaltered plan always does |
| `parts`, scanning side | `SelectsFromOneChain`, `ScanCatchesUp` | a chain that switches between any two requests of a scan, and processes that stop |
| `parts`, files side | `AccountHasKeystore` | commands killed between file operations |
| `parts`, readiness side | `ReadyIsRecent` | failures, endless ticks, restarts and waits |
| `mid_tick_reorg` | `FollowsOneChain` violated | finding 1 |
| `crash_in_rollback` | `RollbackResumes` violated | finding 2 |
| `stale_executions` | `ExecutionsCanonical` violated | finding 3 |
| `torn_view` | `ViewDescribesState` violated | finding 4 |
| `same_block_calls` | `CallsSeeEarlierCalls` violated | finding 5 |
| `rejected_keeps_locks` | `RejectedHoldsNothing` violated | finding 6 |
| `call_order` | `CallsApplyInOrder` violated | finding 7 |
| `scan_switch` | `SelectsFromOneChainAlways` violated | finding 8 |

A property is checked by one run: what the store's side of `parts` establishes under any caller is not
checked again where `Sync` and `BlockExec` are the caller.

### Bounds and why they suffice

* `parts`, store: one contract key, one storage key, two values, heights 0..2, all commits over
  them (a key can be put, overwritten, deleted, put and deleted), all targets, crashes
  without limit. The operations treat keys independently and compare only neighbouring
  heights; the theorems below remove the bound altogether.
* `sync`: a trunk of three blocks, a fork after the first and a fork from the start, so
  rollbacks of depth 1, 2 and 3 occur; two reorganisations (there and back), one failed
  request, one crash, all at any moment. The blocks of `MCExecBlock` copy, overwrite and delete what they
  find, so a block missed, repeated or executed over the wrong state shows in the root.
  Activation at 2 makes the fast-forward happen.
* `exec`: two contracts, two storage keys, two blocks of two transactions, budgets of 1 to
  3 so that each is exhausted. `CHECK_DEADLOCK` is off because the chain ends at
  `MaxHeight`.
* `wallet`: heights up to 3 with transaction life 1 and margin 1, so a transaction
  expires, its margin passes and a reorganisation lifts it back over its expiry; two
  reorganisations, so that the margin can be crossed in steps (`past.deep`), next to one
  recovery. Finished runs leave their transactions behind. Two runs may be alive (`MaxLiveRuns`).
  The constraint `Scope` keeps to one plan, through two reorganisations over one note or one over
  two notes; or to two plans over one note, since plans interact only through notes they share:
  one after the other through one reorganisation, the second begun once a transaction is out, or
  both alive on a chain that only grows, between two passes of recovery and with one round of
  selection each, which is enough for both to choose the note before either locks it. Deadlock
  checking is off: all plans may have ended at the last height. Plans and notes are symmetric. The
  theorems hold for any number of runs alive at once.
* `parts`, deployment: `Commands` has module lengths of 0, 1, one push (520), one chunk (1400),
  one more (1401), two and more chunks, and one above the largest; all networks and funding
  modes, a wallet that is missing, too poor or locked, too little transparent money, signatures of 71 to 73
  bytes; inputs of 0, 38 and 39 bytes for calls. Two runs of the command, two blocks of the
  network, one reorganisation: enough for PREPARE mined, the command stopped, and PREPARE again
  with a carrier of the first run still there. All alterations of both tamper matrices.
* `parts`, codec: each message at the limits of each field, one byte shorter and longer, wrong
  version, type and magic, and prefixes of a header.
* `parts`, shielded: one and two notes, in one pool and in both, before and after NU6.3 and on a branch
  the circuit does not know, and every reason to refuse; two alterations, so that one may make up for another.
* `parts`, scanning: chains of up to three blocks over two choices with a birthday at 2, so
  equal-height replacements, shorter chains and forks below the birthday occur; two
  switches at any point, one exit.
* `parts`, files: two terminals, four commands, three kills, one creation at a time. Readiness: clock up to 3
  with `stale_after` 1, three heights, one rollback, one restart. Both are proved without bounds.
  Deadlock checking is off: each side may come to its end.

### Fairness

`FairSyncSpec` assumes weak fairness of `LoopStep`: `run` polls on an interval forever, so
a step of its own that stays possible is eventually taken. Nothing is assumed of the chain
or the failures. `EventuallyCaughtUp` is conditional on the best chain settling at its
full length; a shorter chain is a state the loop really waits in (the hash at the indexed
height is not served). It states that the tip *pair* (height, hash) is reached, which
holds even where findings 1 and 2 corrupt what lies below.

`PartsSpec` assumes weak fairness of `ScanStep`: a scan that can go on goes on, and the user
scans again (every spend scans first). `ScanCatchesUp` is conditional on the reorganisation
not crossing the wallet's birthday, where the code gives up by design. Weak fairness is
enough because switches and exits are bounded, as they are in any stretch of time in which the
node's chain settles.

### Findings

Each is checked by a run that ends in a counterexample and is quoted in `PROJECT.json`.

1. `tick` never compares a block's parent with the block below, and `handle_reorg` compares
   the indexed tip only. A branch switch during a tick leaves blocks of two branches in the
   store, and later ticks do not notice (`docs/architecture.md:65`, `docs/operator-guide.md:192`).
2. `rollback_to` has no persisted cursor, contrary to `docs/threat-model/chain-reorg.md:15`.
   After a crash inside it the metadata names an undone block, which is then taken as
   indexed. The *database* stays consistent (`RootMatches`, proved): what is wrong is which
   block it is believed to be at.
3. `e:` records are not rolled back (`docs/developers/calling-contracts.md:82`).
4. `view` takes the read lock three times, so height, root and result may be of different
   states (`docs/developers/calling-contracts.md:105`).
5. Calls of one block all read the store below the block and do not see one another's
   effects (`docs/developers/calling-contracts.md:81`).
6. After a deterministic rejection of a shielded transaction the notes stay locked:
   `execute_request` passes `NoopRelease` (`crates/zalkanes-wallet/src/broadcast.rs:85`).
7. A key that one call of a block deletes and a later one sets is absent afterwards: sets and
   deletes go to two lists, and deletes are applied last (`docs/developers/calling-contracts.md:80`).
   `OnlySuccessfulCallsWrite` says what holds for all other keys.
8. After a block is stored or the database rewound, `scan_to_tip` asks the node for the hash at
   that height (`sqlite.rs:324`, `:341`, `:364`) and takes the answer for that of the block in the
   database. If the chain switches just before, the comparison that follows compares two hashes of
   the new chain, and blocks of two chains are stored one above the other, although
   `sqlite.rs:258` promises a rejection if the chain changed while scanning. The final check
   compares the tip only, and only with this scan's target. `SelectsFromOneChain` says what holds
   until such a switch.

Seen while modelling, not given a run: a recovery that dies between Cancelled and release
does not converge when run again, although `recovery.rs:125` says so (terminal rows are not
revisited; the locks lapse by height). `Signing` is journaled after signing, although
`recovery.rs:20` reads a row before it as unsigned; `FailureIsFinal` holds nonetheless
because the signed transaction exists in memory only. `known_owners` is built from the
non-terminal rows (`recovery.rs:138`) although its comment says every row.

Beyond a property's condition, also without a run of its own: `reconcile` gives an absent transaction
up, and its notes back, six blocks after its expiry, since "it can never be mined"
(`crates/zalkanes-wallet/src/broadcast.rs:243`). After a reorganisation of more blocks than that it
can, and `sqlite.rs:155` of the same crate reckons with 100: `LocksCoverInFlight` and the half of
`FailureIsFinal` about Expired rows say nothing from then on (`past.deep`). Two `wallet create` that
overlap both see no keystore, and the second rename replaces the first's file after the first has
made its account, although `keystore.rs:126` says "Refuses to overwrite an existing file":
`AccountHasKeystore` is checked with one creation at a time and fails with `CreatesAtOnce = 2`.

Also seen: a temporary file left by a killed `create` makes every later `create` fail until it
is removed by hand. In `auto` mode the balance is compared with `carrier_total + 50_000`, which can be less than a
PREPARE with many outputs costs (`wallet_cmd.rs:428`); planning then fails instead of falling
back. An unknown broadcast outcome is treated as accepted (`wallet_cmd.rs:531`), so on testnet
`confirm_tx` may poll for ever. `rpc/src/lib.rs:396` says `/ready` answers 202 while starting; it answers
200 (`:433`). The comment at `tx/src/lib.rs:141` gives `max_standard_carrier_payload(73, 36)` as 1466;
the function computes 1528. `record_failure` updates the indexed height but not
the tip height, so for up to `stale_after` a node may be called caught up with respect to an
older tip. During a long first tick a node that is indexing is called stalled, since progress is
recorded when a tick ends.

`MarginAssumption` in `WalletSpend` records what the wallet's constants have to satisfy, among
themselves: a transaction lives at least as long as the margin (41 and 6 blocks), and a lock (128) outlasts
both and the blocks between a run's two reads of the tip. It says nothing of the chain.

Hazards that the properties reach in part only, as their notes in `PROJECT.json` say: a best chain that
*stays* shorter than the index (H8, `EventuallyCaughtUp` is about a chain at full length); a skipped deploy that
uses up the byte budget of later ones (H17); that a key already in the overlay can still be changed at its
cap (H19). H*n* is the *n*-th hazard of the list.

## 4. Proofs

The proof modules are checked by TLAPS. Their theorems hold for every value of the constants:
all sets of keys, values, hashes, plans and notes, all chains, commands, module lengths, limits
and contracts, any `ExecBlock`, and any number of events. Where a theorem is about some behaviours
only, its condition is part of the property or of the theorem and is named below.

### Assumptions

All are named `ASSUME`s of the component modules, and TLC evaluates them in the runs.

| Assumption | Says | Why the code justifies it |
|---|---|---|
| `AbsentAssumption`, `NoOpAssumption`, `NoneAssumption`, `WalletNoneAssumption`, `RowNoneAssumption`, `NothingAssumption` | a placeholder is none of the values it stands beside | they stand for Rust's `None` |
| `ChainAssumption` | a block hash determines height and ancestors | Zcash headers |
| `CallsOnceAssumption` | a transaction is mined at most once on one chain | a txid cannot be mined twice |
| `ActivationAssumption`, `ExecAssumption` | the activation height is positive; execution yields a `BlockCommit` | `consensus.rs`; the type of `process_parsed_block` |
| `PrefixAssumption`, `OwnerAssumption`, `IdsAssumption` | `c:` and `s:` keys are apart, a storage key has one owner, contract ids are finitely many | `state/src/lib.rs` key layout; 32-byte ids |
| `LimitsAssumption`, `CodeAssumption`, bounds | limits and lengths are natural numbers | `u64` constants |
| `MarginAssumption` | a transaction lives at least as long as the expiry margin; a lock outlasts both and the lag between the two reads of the tip | the constants 6, 41 and 128; `PinLag` bounds the lag |
| `FundingAssumption` | carriers and notes have values, a nullifier belongs to one note of the wallet and to no stranger's, a CALL pays no carriers | `NoteValue` is a `u64`; nullifiers are derived from the note; the CALL request has no carriers (`shielded.rs:195`) |
| `DeployConstants`, `ChunkSizeFits`, `ReceivedAssumption` | commands, alterations and payloads have their shape; the chunk size fits the relay limit | CLI options, `consensus.rs`, the wire format |

### The store and the loop

* `UndoExact`: for every state and commit, replaying the journal over the committed state
  gives the state back. `ApplyMatchesProjected`: the batch and the projected root agree, so
  the cross-check after the write in `commit_block` never fires.
* `StoreTypeCorrect`, `StoreRootMatches`, `StoreUndoChain`, `StoreMetaNotBehind`. Their
  conjunction with `rb.left = {h recorded : h > target}` while a rollback is undoing is
  `StoreInv`, the inductive invariant. The parts need one another: undoing the top
  height restores `RootMatches` only because its journal is exact (`UndoChain`), a commit
  keeps `UndoChain` only if it lands above every record (`MetaNotBehind`), and lowering
  `m:h` at the end of a rollback keeps `MetaNotBehind` only because the last remaining
  record is named.
* `StoreRollbackRestoresMeta`, an action property, from `StoreInv` and `MetaProgress` (the
  cells already written have their final values).
* `StoreImplementsVersions`: `StoreSpec` implements `VersionSpec` under `cur <- kv` and
  `versions <- state roots of the records`; commits are `SaveVersion`, batches are
  `DropVersion`, everything else, crashes included, is a stutter.
* `SyncImplementsStore`: every step of the loop is a step of the store or leaves it alone,
  so all of the above holds of the running node (`SyncImplementsVersions`). The point is that
  the loop commits only above the indexed height, in the fast-forward as well.
* `SyncTypeCorrect`, and `SyncRootsAreReplay`: every recorded root is that of executing its
  block over the state below, under mid-tick reorganisations and crashes anywhere.
* `SyncReadersSeeOneBlock`, until the process dies inside a rollback (finding 2 shows
  the condition is needed).
* `SyncOnOneChain` and `SyncCleanReindexAgrees`, until in addition the best chain switches between
  the comparison at the indexed tip and the end of the tick (finding 1 shows that condition is
  needed). The conditions are part of the properties (`Undisturbed`); what the environment has done
  is never forgotten (`HistoryKept`), so each invariant is carried up to the disturbing step.
  `ChainInv`: the records always lie on some chain, and on the *best* chain from the moment `handle_reorg` found agreement until the tick
  ends; a shared block means shared ancestors (`SharedBelow`), so one comparison at the indexed
  height settles all below it. `ReindexInv`: a record holds what a clean reindex of *any* chain
  through its block holds there. Reindexing is a recursive function; the proof unfolds it one
  height at a time and uses that heights below activation change nothing.
* `SyncExecutionsComplete`, until also a crash falls between a commit and `save_executions`. It
  needs `CallsOnceAssumption`: a later block of the same chain cannot overwrite a record.

### Block execution

`ExecBase` is types, the shape of a running call, and `StoreInv` of the store below the block.
On top of it each theorem has an inductive part of its own:

* `ExecRecordsFrame` from `FrameInv`: inside a block every record starts at the committed root and
  the last one's `root_after` is what the *pending* commit projects to.
* `ExecOnlySuccessfulCallsWrite` from `WriteInv`: the pending commit is, key by key, what the
  recorded writes amount to (`PendingIs`): deleted if some call deleted it, otherwise the value of the
  last call that set it. Unless a call sets a key after another has deleted it (`NotRevived`), that
  is what the last call to write the key wanted; otherwise it is not (finding 7).
* `ExecCallsOwnStorage` from `OwnInv`.
* `ExecWithinBudgets` from `FuelInv`, `CountInv` and `SizeInv`: the counters are the *sums over the
  records* (proved with lemmas on `FuelIn` under append), and a running call's limit
  still fits under every budget, so it cannot overrun when it ends.
* `ExecDeployedWithinCaps` from `DeployInv`, with the lemmas that `CodeBytes`, a sum over a finite
  set, does not depend on the order of summation.

### Wallet

* `WalletInv` is `PlanInv` for every plan and what recovery knows. `WalletLocksCover` says that the
  notes of a transaction that may still be mined are locked by its plan, as long as no reorganisation
  has put the chain more than the margin below its highest tip; any number of reorganisations, of any
  depth above that line, may happen, and a deeper one refutes it. `NotesLocked` is
  why: a lock lasts beyond the expiry plus margin, or the chain has been past the expiry plus margin
  and so cannot come back to it (`past.peak`), or the journal has given the plan up, and then `FailedStages`
  says it was never sent, refused, or expired for good. `RecoveryReads` carries what recovery read
  earlier up to the point where it acts: where the tip it read is past the expiry of a plan still being
  worked on, that plan is bound to another tip than the chain has, and can no longer be sent.
* From it `WalletFailureFinal`, `WalletSentJournaled`, `WalletTypeCorrect`, and the action property
  `WalletReleaseOrdered`.
* `ScanSelectsFromOneChain`, with `ScanInv`, for chains of any length and switches at any point, as
  long as none has replaced a block between its being stored, or rewound to, and the request for its
  hash (`world.unseen`; finding 8 shows the condition is needed). The inductive invariant is `ScanInvIfSeen`.
  The scanned blocks are prefixes of one another (`DbOrdered`) and a scan holds the
  last of them as `prev` (`ScanKnows`), so comparing one hash is comparing all.
* `KeyAccountHasKeystore`, for any number of terminals, commands and kills, if no two
  creations overlap (`CreatesAtOnce = 1`; with two the property fails). The heart of `KeyInv` is
  `CreationAlone`: between the existence check and the rename there is no keystore and the temporary file is the creation's own, so a keystore, once there, stays.
* `HealthReadyIsRecent`, for every `stale_after`. The inductive invariant `HealthInv` relates what
  `IndexerHealth` was told to what the loop did: recorded progress is not later than the last
  real one, and was recorded at the tip.

### Messages and deployment

* `MessagesCanonical`: for every payload. Body by body, the limits the parser enforces are
  the widths the encoder cuts to.
* `DeployIndexedIsCommitted`: only a reassembly that hashes to the id's hash is registered.
* `DeployCarriersPaid`: for *every* module length, pool, run and wallet, planning the DEPLOY succeeds
  and leaves change. The carriers are sized from a probe plan with made-up values; the argument is
  that the fee depends on the sizes of the scriptSigs and outputs only (`FeeBounds`, `DeployPlanIs`),
  that the probe has the same sizes as the DEPLOY (`ProbeFee`), that the ceiling division covers
  the fee plus margin (`CarriersCover`), and that the outpoints DEPLOY names are the outputs PREPARE
  paid (`PreparePays`). The inductive invariant is `DeployBase` (`DeployPlansKept`): a command at
  DEPLOY has sized carriers for this very module, and its PREPARE had a plan in the same pool with the
  same coin. What `Sum`, `Size`, `CatAll` and `Slice` compute for every length is proved by a least
  counterexample on the recursive function (`LeastOf`), since the induction theorems are
  out of the prover's reach.
* `DeployPublishedIsPlanned`: whatever was altered between signing and verification, what reaches the node
  spends the planned coins, pays the planned outputs at the planned fee, and has the module in its
  scriptSigs. The invariant `SendsVerified` says that a command that is sending has a transaction with
  these properties (`GoodFor`); it is established by `verify_extracted` (`VerifiedGood`) and is a function of
  the command, what it was sized to and the reference of the transaction, so it survives what the network
  does meanwhile. The indexer's half: a scriptSig that passes `verify_carrier` is read as that chunk
  (`ChunkRead`), no input is passed over (`GatheredAll`), the message is read back from its
  OP_RETURN (`OpReturnReadBack`) and the change output is not a message (`ChangeIsSkipped`).
* `DeployPrintedIdIsIndexed`: for every number of runs, blocks and reorganisations. `NodeHolds`: mempool and
  chain hold transactions that were verified, each txid once, and the indexer has registered exactly
  what the chain holds. Other scriptSigs in a block leave the outputs alone
  (`RelayKeepsOutputs`), so they may prevent a registration but not change its id. `SizedOnce`: running
  the command again sizes the same module to the same chunks, so references made earlier keep their meaning.
* `DeployMeetsRelayPolicy`: for every module length, every length of call arguments the CLI accepts, every
  signature length up to 73 and every coin, the transaction built, and sent unaltered, pays the ZIP-317 fee of its
  *actual* bytes and stays within the relay limits. Besides `DeployBase`, the invariant `JobSized` says
  that the chunks of a running command are those of its module and that the arguments of a CALL fit a message
  (`JobStep`). The rest is about scripts of any length: `parse_script_pushes` undoes `push_data`, push by
  push (`PushRead`, `PushesRead`); the pieces of a chunk are pushes of at most 520 bytes (`PiecesAre`, `CarrierPushes`);
  a carrier scriptSig is no longer than `carrier_script_sig_len` foresees, and that is at most 1650
  (`CarrierFits`); sizes and fee are monotone (`SumGrows`, `FeeGrows`), so a fee for the foreseen sizes covers the
  actual ones (`TxRelays`), for each of the three plans (`DeployRelays`, `CallRelays`, `PrepareRelays`).
  It speaks of what `build_transparent_tx` builds, not of everything that passes
  verification: `verify_carrier` compares the data pushes joined, so a builder that cut a chunk into more
  pushes (alteration "split") would pass, and `verify_extracted` does not weigh the bytes again. Its fee
  could then be short by one step of ZIP-317 (441 bytes of code with signatures of 73 bytes).

### Shielded plans

* `ShieldedVerifiedIsPlanned`: for every wallet, command and number of alterations. The invariant
  `ShieldedStages` says what each stage may rely on: the plan is what `plan_shielded` made of this funding
  (`PlanHas`); the PCZT, however altered, has its fields and lists of actions and nothing more is known of it
  (`GlobalShape`, `BundleShape`, `ActionShape`); and a transaction came out of both verifications. Those pin it down:
  action by action a spend is the one expected at that index or spends nothing, and an output is the
  expected change or worth nothing (`VerifiedTx`), so what is spent and paid are the planned sets,
  whose values add up as the plan says (`SpentSum`).
* `ShieldedCleanPlanSucceeds` from `CleanInv`, which adds to `ShieldedStages` that an unaltered PCZT is as
  the builder left it: `signing_plans` names every action that is not a dummy (`ToSign`, `CleanSigns`),
  both verifications accept (`CleanVerifies`, `CleanFinalPool`), so no step can fail; the
  sums go across the random placement of spends and outputs among the actions (`SumPlaced`, `BuiltSums`) and across
  the two pools (`PoolValues`); and the fee `select_for` converged on is the one of the actions really built (`BuiltActions`, `ActionCounts`).

### Only model-checked

* `EventuallyCaughtUp`, `ScanCatchesUp`: liveness under fairness is beyond the prover.

## 5. Not modelled

* Cryptography: signatures, proofs, note encryption, hashes (BLAKE2b, SHA-256) and age are what they promise. The
  byte layout of transactions and of the undo journal (`encode_undo`, `decode_undo`), and the intent hash of a
  plan (`commit_plan`), are encodings of data the models keep as records.
* `MemoryState` is a test double of `RocksState`; the SDK, the build helper, the contracts,
  the examples of the wallet crate and the test kit are guest code or tests. A contract in `BlockExec` may do
  anything the host functions allow.
* `validate_module` walks a WASM module with a third-party parser; `BlockExec` takes its answer.
* HTTP clients and servers, argument parsing and output are I/O. The WASM interpreter is wasmi,
  the wallet database zcash_client_sqlite.
* CALL_CARRIER transactions are parsed and executed (`Carrier`, `BlockExec`) but the CLI builds none.
* `Sync` assumes an activation height; what happens without one is in `Health`.

## 6. Plan

Done: all modules of section 2, and the proofs of section 4: of the 36 properties
the passing runs check, all but those under "Only model-checked" are theorems.

Left: `WalletScan` composed with the selection of `WalletSpend`: notes that appear, confirm and vanish.
