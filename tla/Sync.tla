-------------------------------- MODULE Sync --------------------------------
(***************************************************************************)
(* The indexing loop (crates/zalkanes-indexer/src/sync.rs) over the store: *)
(* one tick fetches the tip, undoes a reorganisation, seeks to the block   *)
(* below the activation height and then indexes block by block.  The       *)
(* chain source is asked again for every hash, so the canonical chain may  *)
(* move between any two requests; the process may die between any two      *)
(* writes.                                                                 *)
(*                                                                         *)
(* Executing a block is the constant operator ExecBlock: what it commits   *)
(* depends on the block and on the state below it, and on nothing else.    *)
(* Networks without an activation height (mainnet in this release) are     *)
(* outside this module.                                                    *)
(***************************************************************************)
EXTENDS StateStore, Sequences

CONSTANTS
  Chains,          \* best chains the source may report, as sequences of hashes
  Activation,      \* activation height of the network
  ExecBlock(_, _), \* the BlockCommit of a block executed over a state
  TxId,            \* transactions that make a call
  CallsIn,         \* the calls each block executes
  MaxReorgs, MaxFaults, MaxCrashes  \* bounds on environment events

ASSUME ChainAssumption ==
  /\ Chains \subseteq Seq(Hash)
  /\ \A c \in Chains : Len(c) \in 1..MaxHeight
  \* A block hash commits to the block's height and to all its ancestors.
  /\ \A c, d \in Chains : \A i \in DOMAIN c, j \in DOMAIN d :
       c[i] = d[j] => i = j /\ \A k \in 1..i : c[k] = d[k]
ASSUME ActivationAssumption == Activation \in Nat \ {0}
ASSUME ExecAssumption == \A b \in Hash, m \in State : ExecBlock(b, m) \in BlockCommit
ASSUME CallsAssumption == CallsIn \in [Hash -> SUBSET TxId]
\* A transaction is mined at most once on one chain.
ASSUME CallsOnceAssumption ==
  \A c \in Chains : \A i, j \in DOMAIN c : CallsIn[c[i]] \cap CallsIn[c[j]] # {} => i = j
ASSUME BoundsAssumption == MaxReorgs \in Nat /\ MaxFaults \in Nat /\ MaxCrashes \in Nat

VARIABLES
  best,      \* the canonical chain, as the chain source reports it
  pc,        \* where the loop stands; "ok" and "retry" are between ticks
  tip,       \* the tip height this tick works towards
  execs,     \* e:<txid> execution records
  env        \* what the environment has done: how many reorganisations, faults
             \* and crashes; whether the best chain switched branches while a
             \* tick was indexing; which of the two positions where dying leaves
             \* the work half done the process died at

syncVars == <<kv, hist, undo, meta, rb, best, pc, tip, execs, env>>

Between == {"ok", "retry"}
Indexing == {"seek", "loop", "save"}
HalfDone == {"rollback", "save"}
LoopPc  == Between \union {"reorg", "rollback"} \union Indexing

ExecRecord == [block_height : Height, block_hash : Hash]
----------------------------------------------------------------------------
(* The chain source *)

\* block_hash(h) answers for heights up to the tip and fails above it.
Served(h) == h \in 1..Len(best)
block_hash(h) == best[h]

Extends(c, d) == Len(c) > Len(d) /\ \A i \in 1..Len(d) : c[i] = d[i]

chain_grow ==
  /\ \E c \in Chains : Extends(c, best) /\ best' = c
  /\ UNCHANGED <<storeVars, pc, tip, execs, env>>

chain_reorg ==
  /\ env.reorgs < MaxReorgs
  /\ \E c \in Chains \ {best} : ~Extends(c, best) /\ best' = c
  /\ env' = [env EXCEPT !.reorgs = @ + 1, !.switched = @ \/ pc \in Indexing]
  /\ UNCHANGED <<storeVars, pc, tip, execs>>
----------------------------------------------------------------------------
(* One tick *)

SyncInit ==
  /\ StoreInit
  /\ best \in Chains
  /\ pc = "retry"
  /\ tip = 0
  /\ execs = [t \in TxId |-> None]
  /\ env = [reorgs |-> 0, faults |-> 0, crashes |-> 0, switched |-> FALSE, cut |-> {}]

\* Faulty variant: a count of blocks taken for the tip height.
fetch_tip_off_by_one ==
  /\ pc \in Between
  /\ tip' = Len(best) + 1
  /\ pc' = "reorg"
  /\ UNCHANGED <<storeVars, best, execs, env>>

fetch_tip ==
  /\ pc \in Between
  /\ tip' = Len(best)
  /\ pc' = "reorg"
  /\ UNCHANGED <<storeVars, best, execs, env>>

\* Faulty variant: the hash at the indexed tip is not compared.
reorg_agrees_unchecked ==
  /\ pc = "reorg"
  /\ pc' = "seek"
  /\ UNCHANGED <<storeVars, best, tip, execs, env>>

\* handle_reorg compares ONE hash, the one at the indexed tip.
reorg_agrees ==
  /\ pc = "reorg"
  /\ \/ meta.h = None \/ meta.b = None
     \/ Served(meta.h) /\ block_hash(meta.h) = meta.b
  /\ pc' = "seek"
  /\ UNCHANGED <<storeVars, best, tip, execs, env>>

reorg_differs ==
  /\ pc = "reorg"
  /\ meta.h # None /\ meta.b # None
  /\ Served(meta.h)
  /\ block_hash(meta.h) # meta.b
  /\ rollback_to(meta.h - 1)
  /\ pc' = "rollback"
  /\ UNCHANGED <<best, tip, execs, env>>

rollback_batch ==
  /\ pc = "rollback"
  /\ \/ \E h \in Height : rollback_height(h)
     \/ restore_m_h
     \/ restore_m_b
  /\ UNCHANGED <<best, pc, tip, execs, env>>

\* Faulty variant: the block below is not compared after a rollback.
rollback_done_once ==
  /\ pc = "rollback"
  /\ restore_m_r
  /\ pc' = "seek"
  /\ UNCHANGED <<best, tip, execs, env>>

rollback_done ==
  /\ pc = "rollback"
  /\ restore_m_r
  /\ pc' = "reorg"
  /\ UNCHANGED <<best, tip, execs, env>>

\* Faulty variant: the activation block itself is skipped.
SeekTarget_at_activation == IF Activation <= tip THEN Activation ELSE tip

\* The fast-forward target, clamped to the tip this tick saw.
SeekTarget == IF Activation - 1 <= tip THEN Activation - 1 ELSE tip
NeedsSeek  == Activation > 1 /\ (meta.h # None => meta.h < SeekTarget)

fast_forward ==
  /\ pc = "seek"
  /\ NeedsSeek
  /\ Served(SeekTarget)
  /\ commit_block(SeekTarget, block_hash(SeekTarget), EmptyCommit)
  /\ pc' = "loop"
  /\ UNCHANGED <<best, tip, execs, env>>

no_seek ==
  /\ pc = "seek"
  /\ ~NeedsSeek
  /\ pc' = "loop"
  /\ UNCHANGED <<storeVars, best, tip, execs, env>>

NextHeight == IF meta.h = None THEN 1 ELSE meta.h + 1

\* process_parsed_block: nothing is interpreted below the activation height.
CommitOf(h, hash, m) == IF h < Activation THEN EmptyCommit ELSE ExecBlock(hash, m)

\* Fetch, parse, execute and commit the next block.  No parent hash is
\* compared with the block below.  The execution records are a second write.
index_block ==
  /\ pc = "loop"
  /\ NextHeight <= tip
  /\ Served(NextHeight)
  /\ commit_block(NextHeight, block_hash(NextHeight),
                  CommitOf(NextHeight, block_hash(NextHeight), kv))
  /\ pc' = IF NextHeight < Activation THEN "loop" ELSE "save"
  /\ UNCHANGED <<best, tip, execs, env>>

\* Faulty variant: an execution recorded once is never replaced.
save_executions_once ==
  /\ pc = "save"
  /\ execs' = [t \in TxId |-> IF t \in CallsIn[meta.b] /\ execs[t] = None
                              THEN [block_height |-> meta.h, block_hash |-> meta.b]
                              ELSE execs[t]]
  /\ pc' = "loop"
  /\ UNCHANGED <<storeVars, best, tip, env>>

\* save_executions: records are keyed by txid, and a later one replaces an
\* earlier one.  No rollback ever removes one.
save_executions ==
  /\ pc = "save"
  /\ execs' = [t \in TxId |-> IF t \in CallsIn[meta.b]
                              THEN [block_height |-> meta.h, block_hash |-> meta.b]
                              ELSE execs[t]]
  /\ pc' = "loop"
  /\ UNCHANGED <<storeVars, best, tip, env>>

tick_ok ==
  /\ pc = "loop"
  /\ NextHeight > tip
  /\ pc' = "ok"
  /\ UNCHANGED <<storeVars, best, tip, execs, env>>

\* The source does not know the height asked for: the tick ends, and the
\* next one starts over.
not_served ==
  /\ \/ pc = "reorg" /\ meta.h # None /\ meta.b # None /\ ~Served(meta.h)
     \/ pc = "seek" /\ NeedsSeek /\ ~Served(SeekTarget)
     \/ pc = "loop" /\ NextHeight <= tip /\ ~Served(NextHeight)
  /\ pc' = "retry"
  /\ UNCHANGED <<storeVars, best, tip, execs, env>>

\* Any request may fail, or return a block that does not parse.
fetch_failed ==
  /\ pc \in {"ok", "retry", "reorg", "seek", "loop"}
  /\ env.faults < MaxFaults
  /\ pc' = "retry"
  /\ env' = [env EXCEPT !.faults = @ + 1]
  /\ UNCHANGED <<storeVars, best, tip, execs>>

\* The process dies anywhere, or exits on a failed store write, and is restarted.
node_crash ==
  /\ env.crashes < MaxCrashes
  /\ crash
  /\ pc' = "retry"
  /\ tip' = 0
  /\ env' = [env EXCEPT !.crashes = @ + 1, !.cut = @ \union ({pc} \intersect HalfDone)]
  /\ UNCHANGED <<best, execs>>

LoopStep ==
  \/ fetch_tip
  \/ reorg_agrees
  \/ reorg_differs
  \/ rollback_batch
  \/ rollback_done
  \/ fast_forward
  \/ no_seek
  \/ index_block
  \/ save_executions
  \/ tick_ok
  \/ not_served

SyncNext ==
  \/ LoopStep
  \/ chain_grow
  \/ chain_reorg
  \/ fetch_failed
  \/ node_crash

SyncSpec == SyncInit /\ [][SyncNext]_syncVars

\* run() keeps polling: the loop's own steps are never put off forever.
FairSyncSpec == SyncSpec /\ WF_syncVars(LoopStep)
----------------------------------------------------------------------------
(* Properties *)

(* The type of the loop's state. *)
SyncTypeOK ==
  /\ StoreTypeOK
  /\ best \in Chains
  /\ pc \in LoopPc
  /\ tip \in Height
  /\ execs \in [TxId -> ExecRecord \union {None}]
  /\ env \in [reorgs : 0..MaxReorgs, faults : 0..MaxFaults, crashes : 0..MaxCrashes,
              switched : BOOLEAN, cut : SUBSET HalfDone]

\* The state a block leaves behind when it is executed over m.
AfterBlock(h, hash, m) == ApplyBatch(m, CommitOf(h, hash, m))

\* The root recorded for h is that of executing its block over m.
ExecutedOver(h, m) ==
  hist[h].state_root = compute_root(AfterBlock(h, hist[h].zcash_block_hash, m))

(* Determinism: every recorded root is the root of executing exactly that   *)
(* block over the state the record below it describes (over the empty state *)
(* for the lowest), whatever reorganisations, faults and crashes, at any    *)
(* point, led there.  No block is applied twice and no rollback leaves      *)
(* anything of an undone block behind.                                      *)
RootsAreReplay ==
  \A h \in Recorded :
     \/ (\A g \in Recorded : g >= h) /\ ExecutedOver(h, EmptyState)
     \/ \E g \in Recorded : /\ g < h
                            /\ \A f \in Recorded : f < h => f <= g
                            /\ ExecutedOver(h, hist[g].state_root)

\* The write lock is free: RPC readers can look at the store.
LockFree == pc \notin {"rollback", "save"}

(* What an RPC reader sees under one lock (getInfo's height, hash and root) *)
(* is one block: the metadata names the last height record and the root is  *)
(* that of the database; unless the process has died inside a rollback.     *)
ReadersSeeOneBlock == LockFree /\ "rollback" \notin env.cut => MetaNamesLast

\* The best chain has not switched while blocks were being indexed, and no
\* rollback was cut short.
Undisturbed == ~env.switched /\ "rollback" \notin env.cut

\* After a successful tick every indexed block lies on one chain, whenever the
\* best chain switched: the indexer "rolls back via the undo journal to the
\* common ancestor, then re-indexes" (operator-guide.md:192-193).
FollowsOneChain ==
  pc = "ok" => \E c \in Chains : \A h \in Recorded :
                  h \in DOMAIN c /\ hist[h].zcash_block_hash = c[h]

(* After a successful tick every indexed block lies on one chain, the one   *)
(* the indexed tip belongs to: a reorganisation was undone down to the      *)
(* common ancestor.  The best chain may have switched between ticks, while  *)
(* the tip was compared and while blocks were being undone.                 *)
OnOneChain == Undisturbed => FollowsOneChain

\* What indexing chain c from scratch gives at each height.
Reindex(c) ==
  LET root[n \in 0..Len(c)] == IF n = 0 THEN EmptyState
                               ELSE AfterBlock(n, c[n], root[n - 1])
  IN  root

IsCleanReindex ==
  (pc = "ok" /\ meta.h # None) =>
     \E c \in Chains : /\ meta.h \in DOMAIN c
                       /\ c[meta.h] = meta.b
                       /\ compute_root(kv) = compute_root(Reindex(c)[meta.h])

(* After a successful tick the store holds exactly what a clean reindex of  *)
(* the indexed block's chain would hold at that height.                     *)
CleanReindexAgrees == Undisturbed => IsCleanReindex

\* The same wherever the process died: "After restart, the node detects the
\* incomplete rollback and resumes from the cursor" (chain-reorg.md:16-17).
RollbackResumes == ~env.switched => IsCleanReindex

(* After a successful tick every call of every indexed block has its        *)
(* execution record, naming that block, also when the call was mined in     *)
(* another block first and reorganised away; unless the process has died    *)
(* between a block and its records.                                         *)
ExecutionsComplete ==
  pc = "ok" /\ Undisturbed /\ "save" \notin env.cut =>
     \A h \in Recorded : h >= Activation =>
        \A t \in CallsIn[hist[h].zcash_block_hash] :
           execs[t] = [block_height |-> h, block_hash |-> hist[h].zcash_block_hash]

(* After a successful tick every execution record names an indexed block.   *)
ExecutionsCanonical ==
  pc = "ok" /\ Undisturbed => \A t \in TxId : execs[t] # None =>
     /\ execs[t].block_height \in Recorded
     /\ hist[execs[t].block_height].zcash_block_hash = execs[t].block_hash

CaughtUp == meta.h = Len(best) /\ meta.b = best[Len(best)]

(* Once the best chain has settled at its full length the loop ends up at   *)
(* its tip and stays there, whatever it had indexed before, and after any   *)
(* number of failed requests, crashes and reorganisations.                  *)
EventuallyCaughtUp == <>[](Len(best) = MaxHeight) => <>[]CaughtUp
=============================================================================
