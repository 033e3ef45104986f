----------------------------- MODULE SyncProofs -----------------------------
(***************************************************************************)
(* Proofs about Sync, for every set of chains, every block executor, every *)
(* activation height and every number of reorganisations, failed requests  *)
(* and crashes: the loop drives the store only through the store's own     *)
(* steps, so everything proved in StateStoreProofs holds of the running    *)
(* node, and the roots it records are those of a replay.                   *)
(***************************************************************************)
EXTENDS Sync, StateStoreProofs

\* Between a block's commit and its execution records the metadata names it.
SaveHasBlock == pc = "save" => meta.h # None /\ meta.b # None

SyncInv ==
  /\ SyncTypeOK
  /\ StoreInv
  /\ SaveHasBlock
  /\ RootsAreReplay
----------------------------------------------------------------------------
(* The chain source answers with block hashes at heights the store has.    *)
LEMMA ServedTypes ==
  ASSUME SyncTypeOK, NEW h, Served(h)
  PROVE  h \in Height /\ h \in Int /\ h >= 1 /\ h # None /\ block_hash(h) \in Hash
<1>1. best \in Seq(Hash) /\ Len(best) \in 1..MaxHeight
  BY ChainAssumption DEF SyncTypeOK
<1>2. h \in 1..Len(best)
  BY DEF Served
<1> QED
  BY <1>1, <1>2, MaxHeightAssumption, NoneAssumption DEF Height, block_hash

(* What a tick commits is always a block commit.                           *)
LEMMA CommitOfType ==
  ASSUME NEW h, NEW hash \in Hash, NEW m \in State
  PROVE  CommitOf(h, hash, m) \in BlockCommit
<1>1. EmptyCommit \in BlockCommit
  BY DEF EmptyCommit, BlockCommit
<1> QED
  BY <1>1, ExecAssumption DEF CommitOf

(* The next height to index is above the indexed one.                      *)
LEMMA IndexesAbove ==
  ASSUME SyncTypeOK, index_block
  PROVE  /\ NextHeight \in Height
         /\ block_hash(NextHeight) \in Hash
         /\ CommitOf(NextHeight, block_hash(NextHeight), kv) \in BlockCommit
         /\ next_block(NextHeight, block_hash(NextHeight),
                       CommitOf(NextHeight, block_hash(NextHeight), kv))
<1>1. NextHeight \in Height /\ NextHeight \in Int /\ block_hash(NextHeight) \in Hash
  BY ServedTypes DEF index_block
<1>2. meta.h # None => NextHeight > meta.h
  BY DEF SyncTypeOK, StoreTypeOK, NextHeight, Height
<1>3. kv \in State
  BY DEF SyncTypeOK, StoreTypeOK
<1> QED
  BY <1>1, <1>2, <1>3, CommitOfType DEF index_block, next_block

(* The fast-forward target is above the indexed height, and below the      *)
(* activation height.                                                      *)
LEMMA SeeksAbove ==
  ASSUME SyncTypeOK, fast_forward
  PROVE  /\ SeekTarget \in Height
         /\ SeekTarget < Activation
         /\ block_hash(SeekTarget) \in Hash
         /\ EmptyCommit \in BlockCommit
         /\ next_block(SeekTarget, block_hash(SeekTarget), EmptyCommit)
<1>1. SeekTarget \in Height /\ SeekTarget \in Int /\ block_hash(SeekTarget) \in Hash
  BY ServedTypes DEF fast_forward
<1>2. meta.h # None => SeekTarget > meta.h
  BY <1>1 DEF SyncTypeOK, StoreTypeOK, fast_forward, NeedsSeek, Height
<1>3. SeekTarget < Activation
  BY ActivationAssumption DEF SyncTypeOK, SeekTarget, Height
<1>4. EmptyCommit \in BlockCommit
  BY DEF EmptyCommit, BlockCommit
<1> QED
  BY <1>1, <1>2, <1>3, <1>4 DEF fast_forward, next_block

(* Every step of the node is a step of the store or leaves it alone.       *)
LEMMA SyncStoreStep ==
  ASSUME SyncTypeOK, [SyncNext]_syncVars
  PROVE  [StoreNext]_storeVars
<1>1. CASE index_block
  BY <1>1, IndexesAbove DEF StoreNext
<1>2. CASE fast_forward
  BY <1>2, SeeksAbove DEF StoreNext
<1>3. CASE reorg_differs
  <2>1. meta.h \in Int /\ meta.h >= 1 /\ meta.h \in Height
    BY <1>3, ServedTypes DEF reorg_differs
  <2>2. meta.h - 1 \in Height
    BY <2>1, MaxHeightAssumption DEF Height
  <2> QED
    BY <1>3, <2>2 DEF reorg_differs, StoreNext
<1>4. CASE rollback_batch
  BY <1>4 DEF rollback_batch, StoreNext
<1>5. CASE rollback_done
  BY <1>5 DEF rollback_done, StoreNext
<1>6. CASE node_crash
  BY <1>6 DEF node_crash, StoreNext
<1>7. CASE \/ fetch_tip \/ reorg_agrees \/ no_seek \/ save_executions \/ tick_ok
           \/ not_served \/ chain_grow \/ chain_reorg \/ fetch_failed
           \/ UNCHANGED syncVars
  BY <1>7 DEF fetch_tip, reorg_agrees, no_seek, save_executions, tick_ok, not_served,
     chain_grow, chain_reorg, fetch_failed, syncVars, storeVars
<1> QED
  BY <1>1, <1>2, <1>3, <1>4, <1>5, <1>6, <1>7 DEF SyncNext, LoopStep
----------------------------------------------------------------------------
(* Replay *)

(* Committing a block above the indexed height records the root of         *)
(* executing it over the state below.                                      *)
LEMMA CommitReplays ==
  ASSUME StoreInv, RootsAreReplay, NEW h \in Height, NEW hash \in Hash,
         CommitOf(h, hash, kv) \in BlockCommit,
         next_block(h, hash, CommitOf(h, hash, kv))
  PROVE  RootsAreReplay'
<1> DEFINE c == CommitOf(h, hash, kv)
<1>1. /\ kv \in State
      /\ hist \in [Height -> HeightRecord \union {None}]
      /\ meta.h \in Height \union {None}
      /\ h \in Int
  BY DEF StoreInv, StoreTypeOK, Height
<1>2. kv' = AfterBlock(h, hash, kv) /\ projected_root(kv, c) = kv' /\ kv' \in State
  BY <1>1, ApplyMatchesProjected, ApplyType
  DEF next_block, commit_block, compute_root, AfterBlock
<1>3. hist' = [hist EXCEPT ![h] = [zcash_block_hash |-> hash, state_root |-> kv']]
  BY <1>2 DEF next_block, commit_block
<1>4. hist'[h] = [zcash_block_hash |-> hash, state_root |-> kv'] /\ hist'[h] # None
  BY <1>1, <1>2, <1>3, NoneAssumption DEF HeightRecord, StateRoot
<1>5. Recorded' = Recorded \union {h}
  BY <1>1, <1>3, <1>4 DEF Recorded
<1>6. \A g \in Recorded : g < h /\ g \in Int /\ hist'[g] = hist[g]
  BY <1>1, <1>3, NoneAssumption DEF StoreInv, MetaNotBehind, next_block, Recorded, Height
<1>7. hist'[h].state_root = compute_root(AfterBlock(h, hist'[h].zcash_block_hash, kv))
  BY <1>2, <1>4 DEF compute_root
<1>8. ASSUME NEW g \in Recorded', g = h
      PROVE  RootsAreReplay!(g)'
  <2>1. CASE Recorded = {} /\ kv = EmptyState
    BY <1>1, <1>5, <1>7, <1>8, <2>1 DEF ExecutedOver, AfterBlock, CommitOf
  <2>2. CASE \E f \in Recorded : IsLast(f) /\ hist[f].state_root = kv
    <3>1. PICK f \in Recorded : IsLast(f) /\ hist[f].state_root = kv
      BY <2>2
    <3>2. f \in Recorded' /\ f < h /\ (\A x \in Recorded' : x < h => x <= f)
      BY <1>1, <1>5, <1>6, <3>1 DEF IsLast
    <3>3. hist'[f].state_root = kv
      BY <1>6, <3>1
    <3>4. hist'[h].state_root = compute_root(AfterBlock(h, hist'[h].zcash_block_hash, hist'[f].state_root))
      BY <1>7, <3>3
    <3>5. ExecutedOver(h, hist[f].state_root)'
      BY <3>4 DEF ExecutedOver, AfterBlock, CommitOf
    <3> QED
      BY <1>8, <3>2, <3>5
  <2> QED
    BY <2>1, <2>2 DEF StoreInv, RootMatches, compute_root
<1>9. ASSUME NEW g \in Recorded
      PROVE  RootsAreReplay!(g)'
  <2>2. CASE (\A f \in Recorded : f >= g) /\ ExecutedOver(g, EmptyState)
    <3>1. \A f \in Recorded' : f >= g
      BY <1>1, <1>5, <1>6, <2>2
    <3> QED
      BY <1>6, <2>2, <3>1 DEF ExecutedOver, AfterBlock, CommitOf
  <2>3. CASE \E f \in Recorded : /\ f < g
                                 /\ \A x \in Recorded : x < g => x <= f
                                 /\ ExecutedOver(g, hist[f].state_root)
    <3>1. PICK f \in Recorded : /\ f < g
                                /\ \A x \in Recorded : x < g => x <= f
                                /\ ExecutedOver(g, hist[f].state_root)
      BY <2>3
    <3>2. f \in Recorded' /\ (\A x \in Recorded' : x < g => x <= f)
      BY <1>1, <1>5, <1>6, <3>1
    <3>3. ExecutedOver(g, hist[f].state_root)'
      BY <1>6, <3>1 DEF ExecutedOver, AfterBlock, CommitOf
    <3> QED
      BY <3>1, <3>2, <3>3
  <2> QED
    BY <2>2, <2>3 DEF RootsAreReplay
<1> QED
  BY <1>5, <1>8, <1>9 DEF RootsAreReplay

(* Undoing the highest height leaves the replay of the others intact.      *)
LEMMA RollbackReplays ==
  ASSUME StoreInv, RootsAreReplay, NEW h \in Height, rollback_height(h)
  PROVE  RootsAreReplay'
<1>1. /\ hist \in [Height -> HeightRecord \union {None}]
      /\ rb.left = {g \in Recorded : g > rb.target}
      /\ rb.target \in Int /\ h \in Int /\ Recorded \subseteq Int
  BY DEF StoreInv, StoreTypeOK, WorkListExact, rollback_height, Recorded, Height
<1>2. h \in Recorded /\ undo[h] # None /\ (\A g \in Recorded : g <= h)
  BY <1>1 DEF rollback_height, StoreInv, UndoChain
<1>3. hist' = [hist EXCEPT ![h] = None]
  BY <1>2 DEF rollback_height
<1>4. Recorded' = Recorded \ {h}
  BY <1>1, <1>3 DEF Recorded
<1>5. \A g \in Recorded' : g \in Recorded /\ hist'[g] = hist[g] /\ g < h
  BY <1>1, <1>2, <1>3, <1>4 DEF Recorded
<1>6. ASSUME NEW g \in Recorded'
      PROVE  RootsAreReplay!(g)'
  <2>1. CASE (\A f \in Recorded : f >= g) /\ ExecutedOver(g, EmptyState)
    BY <1>4, <1>5, <2>1 DEF ExecutedOver, AfterBlock, CommitOf
  <2>2. CASE \E f \in Recorded : /\ f < g
                                 /\ \A x \in Recorded : x < g => x <= f
                                 /\ ExecutedOver(g, hist[f].state_root)
    <3>1. PICK f \in Recorded : /\ f < g
                                /\ \A x \in Recorded : x < g => x <= f
                                /\ ExecutedOver(g, hist[f].state_root)
      BY <2>2
    <3>2. f \in Recorded' /\ (\A x \in Recorded' : x < g => x <= f)
      BY <1>1, <1>4, <1>5, <3>1
    <3>3. ExecutedOver(g, hist[f].state_root)'
      BY <1>5, <3>1, <3>2 DEF ExecutedOver, AfterBlock, CommitOf
    <3> QED
      BY <3>1, <3>2, <3>3
  <2> QED
    BY <1>5, <2>1, <2>2 DEF RootsAreReplay
<1> QED
  BY <1>6 DEF RootsAreReplay

(* Steps that leave the height records alone leave the replay alone.       *)
LEMMA SameRecordsReplay ==
  ASSUME RootsAreReplay, hist' = hist
  PROVE  RootsAreReplay'
<1>1. Recorded' = Recorded
  BY DEF Recorded
<1>2. \A h, m : ExecutedOver(h, m)' <=> ExecutedOver(h, m)
  BY DEF ExecutedOver, AfterBlock, CommitOf
<1> QED
  BY <1>1, <1>2 DEF RootsAreReplay
----------------------------------------------------------------------------
(* The invariant *)

LEMMA SyncInitInv == SyncInit => SyncInv
<1> SUFFICES ASSUME SyncInit PROVE SyncInv
  OBVIOUS
<1>1. StoreInv
  BY InitInv DEF SyncInit
<1>2. Recorded = {}
  BY DEF SyncInit, StoreInit, Recorded
<1>3. SyncTypeOK
  BY <1>1, MaxHeightAssumption, BoundsAssumption
  DEF SyncInit, SyncTypeOK, StoreInv, LoopPc, Between, Height
<1>4. SaveHasBlock /\ RootsAreReplay
  BY <1>2 DEF SyncInit, SaveHasBlock, RootsAreReplay
<1> QED
  BY <1>1, <1>3, <1>4 DEF SyncInv

(* The loop's own variables keep their types.                              *)
LEMMA SyncTypeStep ==
  ASSUME SyncInv, StoreInv', [SyncNext]_syncVars
  PROVE  SyncTypeOK'
<1>1. SyncTypeOK /\ StoreTypeOK'
  BY DEF SyncInv, StoreInv
<1>2. best' \in Chains
  BY <1>1 DEF SyncTypeOK, SyncNext, LoopStep, syncVars, chain_grow, chain_reorg,
     fetch_tip, reorg_agrees, reorg_differs, rollback_batch, rollback_done, fast_forward,
     no_seek, index_block, save_executions, tick_ok, not_served, fetch_failed, node_crash
<1>3. pc' \in LoopPc
  BY <1>1 DEF SyncTypeOK, SyncNext, LoopStep, syncVars, chain_grow, chain_reorg,
     fetch_tip, reorg_agrees, reorg_differs, rollback_batch, rollback_done, fast_forward,
     no_seek, index_block, save_executions, tick_ok, not_served, fetch_failed, node_crash,
     LoopPc, Between, Indexing
<1>4. tip' \in Height
  <2>1. Len(best) \in Height /\ 0 \in Height
    BY <1>1, ChainAssumption, MaxHeightAssumption DEF SyncTypeOK, Height
  <2> QED
    BY <1>1, <2>1 DEF SyncTypeOK, SyncNext, LoopStep, syncVars, chain_grow, chain_reorg,
       fetch_tip, reorg_agrees, reorg_differs, rollback_batch, rollback_done, fast_forward,
       no_seek, index_block, save_executions, tick_ok, not_served, fetch_failed, node_crash
<1>5. execs' \in [TxId -> ExecRecord \union {None}]
  <2>1. CASE save_executions
    <3>1. meta.h \in Height /\ meta.b \in Hash
      BY <1>1, <2>1 DEF SyncInv, SaveHasBlock, save_executions, SyncTypeOK, StoreTypeOK
    <3> QED
      BY <1>1, <2>1, <3>1 DEF SyncTypeOK, save_executions, ExecRecord
  <2>2. CASE ~save_executions
    BY <1>1, <2>2 DEF SyncTypeOK, SyncNext, LoopStep, syncVars, chain_grow, chain_reorg,
       fetch_tip, reorg_agrees, reorg_differs, rollback_batch, rollback_done, fast_forward,
       no_seek, index_block, tick_ok, not_served, fetch_failed, node_crash
  <2> QED
    BY <2>1, <2>2
<1>6. env' \in [reorgs : 0..MaxReorgs, faults : 0..MaxFaults, crashes : 0..MaxCrashes,
                switched : BOOLEAN, cut : SUBSET HalfDone]
  <2>1. CASE chain_reorg \/ fetch_failed \/ node_crash
    <3>1. PICK e : e = env
      OBVIOUS
    <3>2. e \in [reorgs : 0..MaxReorgs, faults : 0..MaxFaults, crashes : 0..MaxCrashes,
                 switched : BOOLEAN, cut : SUBSET HalfDone]
      BY <1>1, <3>1 DEF SyncTypeOK
    <3>3. CASE chain_reorg
      <4>1. PICK s \in BOOLEAN : env' = [e EXCEPT !.reorgs = @ + 1, !.switched = s]
        BY <3>1, <3>2, <3>3 DEF chain_reorg
      <4>2. e.reorgs + 1 \in 0..MaxReorgs
        BY <3>1, <3>2, <3>3, BoundsAssumption DEF chain_reorg
      <4> QED
        BY <3>2, <4>1, <4>2
    <3>4. CASE fetch_failed
      BY <3>1, <3>2, <3>4, BoundsAssumption DEF fetch_failed
    <3>5. CASE node_crash
      <4>1. PICK x \in SUBSET HalfDone : env' = [e EXCEPT !.crashes = @ + 1, !.cut = x]
        BY <3>1, <3>2, <3>5 DEF node_crash
      <4>2. e.crashes + 1 \in 0..MaxCrashes
        BY <3>1, <3>2, <3>5, BoundsAssumption DEF node_crash
      <4> QED
        BY <3>2, <4>1, <4>2
    <3> QED
      BY <2>1, <3>3, <3>4, <3>5
  <2>2. CASE ~(chain_reorg \/ fetch_failed \/ node_crash)
    BY <1>1, <2>2 DEF SyncTypeOK, SyncNext, LoopStep, syncVars, chain_grow,
       fetch_tip, reorg_agrees, reorg_differs, rollback_batch, rollback_done, fast_forward,
       no_seek, index_block, save_executions, tick_ok, not_served
  <2> QED
    BY <2>1, <2>2
<1> QED
  BY <1>1, <1>2, <1>3, <1>4, <1>5, <1>6 DEF SyncTypeOK

(* What the environment has done is never forgotten.                       *)
LEMMA HistoryKept ==
  ASSUME SyncTypeOK, [SyncNext]_syncVars
  PROVE  /\ env.cut \subseteq env'.cut
         /\ env.switched => env'.switched
<1>1. env \in [reorgs : 0..MaxReorgs, faults : 0..MaxFaults, crashes : 0..MaxCrashes,
              switched : BOOLEAN, cut : SUBSET HalfDone]
  BY DEF SyncTypeOK
<1>2. CASE chain_reorg \/ fetch_failed \/ node_crash
  BY <1>1, <1>2 DEF chain_reorg, fetch_failed, node_crash
<1>3. CASE ~(chain_reorg \/ fetch_failed \/ node_crash)
  BY <1>3 DEF SyncNext, LoopStep, syncVars, chain_grow,
     fetch_tip, reorg_agrees, reorg_differs, rollback_batch, rollback_done, fast_forward,
     no_seek, index_block, save_executions, tick_ok, not_served
<1> QED
  BY <1>2, <1>3

(* Every step of the node preserves the invariant.                         *)
LEMMA SyncNextInv == SyncInv /\ [SyncNext]_syncVars => SyncInv'
<1> SUFFICES ASSUME SyncInv, [SyncNext]_syncVars PROVE SyncInv'
  OBVIOUS
<1>1. [StoreNext]_storeVars
  BY SyncStoreStep DEF SyncInv
<1>2. StoreInv'
  BY <1>1, NextInv DEF SyncInv
<1>3. SyncTypeOK'
  BY <1>2, SyncTypeStep
<1>4. SaveHasBlock'
  <2>1. CASE index_block
    <3>1. /\ NextHeight \in Height
          /\ block_hash(NextHeight) \in Hash
          /\ next_block(NextHeight, block_hash(NextHeight),
                        CommitOf(NextHeight, block_hash(NextHeight), kv))
      BY <2>1, IndexesAbove DEF SyncInv
    <3>2. meta'.h = NextHeight /\ meta'.b = block_hash(NextHeight)
      BY <3>1 DEF next_block, commit_block
    <3> QED
      BY <3>1, <3>2, NoneAssumption DEF SaveHasBlock
  <2>2. CASE ~index_block
    <3>1. pc' = "save" => pc = "save" /\ meta' = meta
      BY <2>2 DEF SyncNext, LoopStep, syncVars, chain_grow, chain_reorg, storeVars,
         fetch_tip, reorg_agrees, reorg_differs, rollback_batch, rollback_done, fast_forward,
         no_seek, save_executions, tick_ok, not_served, fetch_failed, node_crash, Between
    <3> QED
      BY <3>1 DEF SyncInv, SaveHasBlock
  <2> QED
    BY <2>1, <2>2
<1>5. RootsAreReplay'
  <2>1. CASE index_block
    BY <2>1, IndexesAbove, CommitReplays DEF SyncInv
  <2>2. CASE fast_forward
    <3>1. CommitOf(SeekTarget, block_hash(SeekTarget), kv) = EmptyCommit
      BY <2>2, SeeksAbove DEF SyncInv, CommitOf
    <3> QED
      BY <2>2, <3>1, SeeksAbove, CommitReplays DEF SyncInv
  <2>3. CASE \E h \in Height : rollback_height(h)
    BY <2>3, RollbackReplays DEF SyncInv
  <2>4. CASE hist' = hist
    BY <2>4, SameRecordsReplay DEF SyncInv
  <2> QED
    BY <2>1, <2>2, <2>3, <2>4 DEF SyncNext, LoopStep, syncVars, chain_grow, chain_reorg,
       storeVars, fetch_tip, reorg_agrees, reorg_differs, rollback_batch, rollback_done,
       no_seek, save_executions, tick_ok, not_served, fetch_failed, node_crash,
       rollback_to, restore_m_h, restore_m_b, restore_m_r, crash
<1> QED
  BY <1>2, <1>3, <1>4, <1>5 DEF SyncInv
----------------------------------------------------------------------------
(* Theorems *)

(* The invariant holds in every reachable state of the node.               *)
THEOREM SyncInvariant == SyncSpec => []SyncInv
  BY SyncInitInv, SyncNextInv, PTL DEF SyncSpec

(* tick and handle_reorg drive the store only through steps the store      *)
(* allows: blocks above the indexed height, rollbacks to a height.         *)
THEOREM SyncImplementsStore == SyncSpec => StoreSpec
<1>1. SyncInit => StoreInit
  BY DEF SyncInit
<1>2. SyncInv /\ [SyncNext]_syncVars => [StoreNext]_storeVars
  BY SyncStoreStep DEF SyncInv
<1> QED
  BY <1>1, <1>2, SyncInvariant, PTL DEF SyncSpec, StoreSpec

(* The node, with its store, therefore implements the stack of versions.   *)
THEOREM SyncImplementsVersions == SyncSpec => ImplementsVersions
  BY SyncImplementsStore, StoreImplementsVersions, PTL

(* The loop's variables always have their types.                           *)
THEOREM SyncTypeCorrect == SyncSpec => []SyncTypeOK
<1>1. SyncInv => SyncTypeOK
  BY DEF SyncInv
<1> QED
  BY <1>1, SyncInvariant, PTL

(* Every root a node records is the root of executing that block over the  *)
(* state recorded below it, whatever led there.                            *)
THEOREM SyncRootsAreReplay == SyncSpec => []RootsAreReplay
<1>1. SyncInv => RootsAreReplay
  BY DEF SyncInv
<1> QED
  BY <1>1, SyncInvariant, PTL
----------------------------------------------------------------------------
(* Readers *)

(* A rollback runs exactly while the loop stands in "rollback"; outside it *)
(* the metadata names the last height record.                              *)
ReaderInv ==
  /\ rb.pc # "idle" => pc = "rollback"
  /\ pc # "rollback" => MetaNamesLast
  /\ MetaProgress

(* As long as the process has not died inside a rollback, every step of    *)
(* the node preserves what readers rely on.                                *)
LEMMA ReaderNextInv ==
  ASSUME SyncInv, ReaderInv, [SyncNext]_syncVars, "rollback" \notin env'.cut
  PROVE  ReaderInv'
<1>1. SyncTypeOK /\ StoreInv /\ [StoreNext]_storeVars
  BY SyncStoreStep DEF SyncInv
<1>2. MetaProgress'
  BY <1>1, MetaProgressInv DEF ReaderInv
<1>3. CASE index_block
  <2>1. MetaNamesLast'
    BY <1>1, <1>3, IndexesAbove, CommitNamesLast
  <2>2. rb'.pc = "idle"
    BY <1>3 DEF index_block, commit_block
  <2> QED
    BY <1>2, <2>1, <2>2 DEF ReaderInv
<1>4. CASE fast_forward
  <2>1. MetaNamesLast'
    BY <1>1, <1>4, SeeksAbove, CommitNamesLast
  <2>2. rb'.pc = "idle"
    BY <1>4 DEF fast_forward, commit_block
  <2> QED
    BY <1>2, <2>1, <2>2 DEF ReaderInv
<1>5. CASE rollback_done
  <2>1. MetaNamesLast'
    BY <1>1, <1>5, RestoreDone DEF ReaderInv, rollback_done
  <2>2. rb'.pc = "idle"
    BY <1>5 DEF rollback_done, restore_m_r, Idle
  <2> QED
    BY <1>2, <2>1, <2>2 DEF ReaderInv
<1>6. CASE reorg_differs \/ rollback_batch
  BY <1>2, <1>6 DEF ReaderInv, reorg_differs, rollback_batch
<1>7. CASE node_crash
  <2>0. env'.cut = env.cut \union ({pc} \intersect HalfDone)
    BY <1>1, <1>7 DEF node_crash, SyncTypeOK
  <2>1. pc # "rollback" /\ UNCHANGED <<kv, hist, meta>> /\ rb'.pc = "idle"
    BY <1>7, <2>0 DEF node_crash, crash, Idle, HalfDone
  <2>2. MetaNamesLast'
    BY <2>1 DEF ReaderInv, MetaNamesLast, Recorded, IsLast
  <2> QED
    BY <1>2, <2>1, <2>2 DEF ReaderInv
<1>8. CASE \/ fetch_tip \/ reorg_agrees \/ no_seek \/ save_executions \/ tick_ok
           \/ not_served \/ chain_grow \/ chain_reorg \/ fetch_failed
           \/ UNCHANGED syncVars
  <2>1. UNCHANGED storeVars /\ (pc' = "rollback" <=> pc = "rollback")
    BY <1>8 DEF fetch_tip, reorg_agrees, no_seek, save_executions, tick_ok, not_served,
       chain_grow, chain_reorg, fetch_failed, syncVars, storeVars, Between
  <2>2. MetaNamesLast' <=> MetaNamesLast
    BY <2>1 DEF storeVars, MetaNamesLast, Recorded, IsLast
  <2> QED
    BY <1>2, <2>1, <2>2 DEF ReaderInv, storeVars
<1> QED
  BY <1>3, <1>4, <1>5, <1>6, <1>7, <1>8 DEF SyncNext, LoopStep

ReaderHistory == "rollback" \notin env.cut => ReaderInv

(* getInfo: unless the process has died inside a rollback, height, hash    *)
(* and root read under one lock are those of one block, the last recorded  *)
(* one.                                                                    *)
THEOREM SyncReadersSeeOneBlock == SyncSpec => []ReadersSeeOneBlock
<1>1. SyncInit => ReaderHistory
  BY DEF SyncInit, StoreInit, ReaderHistory, ReaderInv, MetaNamesLast, MetaProgress, Idle,
     Recorded
<1>2. SyncInv /\ ReaderHistory /\ [SyncNext]_syncVars => ReaderHistory'
  BY ReaderNextInv, HistoryKept DEF ReaderHistory, SyncInv
<1>3. ReaderHistory => ReadersSeeOneBlock
  BY DEF ReaderHistory, ReaderInv, ReadersSeeOneBlock, LockFree
<1> QED
  BY <1>1, <1>2, <1>3, SyncInvariant, PTL DEF SyncSpec
----------------------------------------------------------------------------
(* One chain.  From here on the best chain has not switched branches while *)
(* blocks were being indexed and the process has not died inside a         *)
(* rollback; the runs mid_tick_reorg and crash_in_rollback show that       *)
(* neither condition can be dropped.                                       *)

OnChain(c) == \A h \in Recorded : h \in DOMAIN c /\ hist[h].zcash_block_hash = c[h]

(* The records are blocks of one chain at any time, and of the best one    *)
(* from the moment the hash at the indexed tip was found to agree.         *)
ChainInv ==
  /\ \E c \in Chains : OnChain(c)
  /\ pc \in {"seek", "loop", "save"} => OnChain(best)

(* Two chains that share a block share everything below it.                *)
LEMMA SharedBelow ==
  ASSUME NEW c \in Chains, NEW d \in Chains, NEW h \in DOMAIN c, h \in DOMAIN d, c[h] = d[h],
         NEW g \in Nat, g >= 1, g <= h
  PROVE  g \in DOMAIN c /\ g \in DOMAIN d /\ c[g] = d[g]
<1>1. c \in Seq(Hash) /\ d \in Seq(Hash)
  BY ChainAssumption
<1>2. DOMAIN c = 1..Len(c) /\ DOMAIN d = 1..Len(d) /\ Len(c) \in Nat /\ Len(d) \in Nat
  BY <1>1
<1>3. \A k \in 1..h : c[k] = d[k]
  BY ChainAssumption
<1> QED
  BY <1>2, <1>3

(* The single comparison of handle_reorg covers every record: the indexed  *)
(* tip's hash commits to all the blocks below it.                          *)
LEMMA AgreesOnChain ==
  ASSUME SyncInv, ReaderInv, ChainInv, reorg_agrees
  PROVE  OnChain(best)
<1>1. MetaNamesLast /\ best \in Chains /\ pc = "reorg"
  BY DEF ReaderInv, SyncInv, SyncTypeOK, reorg_agrees
<1>2. CASE Recorded = {}
  BY <1>2 DEF OnChain
<1>3. ASSUME NEW l \in Recorded, IsLast(l),
             meta = [h |-> l, b |-> hist[l].zcash_block_hash, r |-> compute_root(kv)]
      PROVE  OnChain(best)
  <2>0. /\ hist \in [Height -> HeightRecord \union {None}]
        /\ l \in Height /\ hist[l] \in HeightRecord
    BY <1>3 DEF SyncInv, SyncTypeOK, StoreTypeOK, Recorded
  <2>1. meta.h = l /\ meta.b = hist[l].zcash_block_hash /\ meta.b \in Hash
    BY <1>3, <2>0 DEF HeightRecord
  <2>2. meta.h # None /\ meta.b # None
    BY <2>0, <2>1, NoneAssumption
  <2>3. l \in 1..Len(best) /\ best[l] = hist[l].zcash_block_hash
    BY <2>1, <2>2 DEF reorg_agrees, Served, block_hash
  <2>4. l \in DOMAIN best
    BY <1>1, <2>3, ChainAssumption
  <2>5. PICK c \in Chains : OnChain(c)
    BY DEF ChainInv
  <2>6. ASSUME NEW h \in Recorded PROVE h \in DOMAIN best /\ hist[h].zcash_block_hash = best[h]
    <3>1. h \in DOMAIN c /\ hist[h].zcash_block_hash = c[h]
      BY <2>5 DEF OnChain
    <3>2. l \in DOMAIN c /\ hist[l].zcash_block_hash = c[l]
      BY <1>3, <2>5 DEF OnChain
    <3>3. h \in Nat /\ h >= 1
      BY <3>1, ChainAssumption
    <3>4. h <= l
      BY <1>3 DEF IsLast
    <3> QED
      BY <1>1, <2>3, <2>4, <3>1, <3>2, <3>3, <3>4, SharedBelow
  <2> QED
    BY <2>6 DEF OnChain
<1> QED
  BY <1>1, <1>2, <1>3 DEF MetaNamesLast

(* Records that are kept or dropped stay on the chain they were on.        *)
LEMMA FewerOnChain ==
  ASSUME NEW c, OnChain(c), \A h \in Height : hist'[h] = hist[h] \/ hist'[h] = None
  PROVE  \A h \in Recorded' : h \in DOMAIN c /\ hist'[h].zcash_block_hash = c[h]
  BY DEF OnChain, Recorded

(* A block of a chain, committed over records of that chain.               *)
LEMMA CommitOnChain ==
  ASSUME StoreTypeOK, NEW c \in Chains, OnChain(c), NEW h \in Height, h \in DOMAIN c,
         NEW u, commit_block(h, c[h], u)
  PROVE  \A g \in Recorded' : g \in DOMAIN c /\ hist'[g].zcash_block_hash = c[g]
  BY DEF StoreTypeOK, OnChain, Recorded, commit_block

LEMMA ChainNextInv ==
  ASSUME SyncInv, ReaderInv, ChainInv, [SyncNext]_syncVars, Undisturbed'
  PROVE  ChainInv'
<1>0. /\ SyncTypeOK /\ StoreTypeOK /\ best \in Chains /\ best \in Seq(Hash)
      /\ DOMAIN best = 1..Len(best)
      /\ hist \in [Height -> HeightRecord \union {None}]
  BY ChainAssumption DEF SyncInv, SyncTypeOK, StoreTypeOK
<1>1. CASE index_block
  <2>1. NextHeight \in Height /\ NextHeight \in DOMAIN best
    BY <1>0, <1>1, IndexesAbove DEF index_block, Served
  <2>2. PICK h \in Height : h = NextHeight /\ h \in DOMAIN best
    BY <2>1
  <2>3. PICK u : commit_block(h, best[h], u)
    BY <1>1, <2>2 DEF index_block, block_hash
  <2>4. OnChain(best) /\ best' = best
    BY <1>1 DEF index_block, ChainInv
  <2>5. OnChain(best)'
    BY <1>0, <2>2, <2>3, <2>4, CommitOnChain DEF OnChain
  <2> QED
    BY <1>0, <2>4, <2>5 DEF ChainInv
<1>2. CASE fast_forward
  <2>1. SeekTarget \in Height /\ SeekTarget \in DOMAIN best
    BY <1>0, <1>2, SeeksAbove DEF fast_forward, Served
  <2>2. PICK h \in Height : h = SeekTarget /\ h \in DOMAIN best
    BY <2>1
  <2>3. PICK u : commit_block(h, best[h], u)
    BY <1>2, <2>2 DEF fast_forward, block_hash
  <2>4. OnChain(best) /\ best' = best
    BY <1>2 DEF fast_forward, ChainInv
  <2>5. OnChain(best)'
    BY <1>0, <2>2, <2>3, <2>4, CommitOnChain DEF OnChain
  <2> QED
    BY <1>0, <2>4, <2>5 DEF ChainInv
<1>3. CASE reorg_differs \/ rollback_batch \/ rollback_done \/ node_crash
  <2>1. \A h \in Height : hist'[h] = hist[h] \/ hist'[h] = None
    BY <1>0, <1>3 DEF reorg_differs, rollback_batch, rollback_done, node_crash, rollback_to,
       rollback_height, restore_m_h, restore_m_b, restore_m_r, crash
  <2>2. PICK c \in Chains : OnChain(c)
    BY DEF ChainInv
  <2>3. OnChain(c)'
    BY <2>1, <2>2, FewerOnChain DEF OnChain
  <2>4. pc' \notin {"seek", "loop", "save"}
    BY <1>3 DEF reorg_differs, rollback_batch, rollback_done, node_crash
  <2> QED
    BY <2>3, <2>4 DEF ChainInv
<1>4. CASE reorg_agrees
  BY <1>0, <1>4, AgreesOnChain DEF reorg_agrees, ChainInv, OnChain, Recorded, storeVars
<1>5. CASE chain_grow
  <2>1. best' \in Chains /\ Len(best') > Len(best) /\ \A i \in 1..Len(best) : best'[i] = best[i]
    BY <1>5 DEF chain_grow, Extends
  <2>2. DOMAIN best' = 1..Len(best') /\ Len(best') \in Nat /\ Len(best) \in Nat
    BY <1>0, <2>1, ChainAssumption
  <2>3. \A i \in DOMAIN best : i \in DOMAIN best' /\ best'[i] = best[i]
    BY <1>0, <2>1, <2>2
  <2>4. OnChain(best) => OnChain(best)'
    BY <1>5, <2>3 DEF OnChain, Recorded, chain_grow, storeVars
  <2> QED
    BY <1>5, <2>4 DEF ChainInv, chain_grow, OnChain, Recorded, storeVars
<1>6. CASE chain_reorg
  <2>1. env' = [env EXCEPT !.reorgs = @ + 1, !.switched = @ \/ pc \in Indexing]
    BY <1>6 DEF chain_reorg
  <2>2. env'.switched = (env.switched \/ pc \in Indexing)
    BY <1>0, <2>1 DEF SyncTypeOK
  <2>3. pc \notin Indexing
    BY <2>2 DEF Undisturbed
  <2> QED
    BY <1>6, <2>3 DEF chain_reorg, ChainInv, OnChain, Recorded, storeVars, Indexing
<1>7. CASE \/ fetch_tip \/ no_seek \/ save_executions \/ tick_ok \/ not_served \/ fetch_failed
           \/ UNCHANGED syncVars
  <2>1. UNCHANGED <<hist, best>>
    BY <1>7 DEF fetch_tip, no_seek, save_executions, tick_ok, not_served, fetch_failed,
       syncVars, storeVars
  <2>2. pc' \in {"seek", "loop", "save"} => pc \in {"seek", "loop", "save"}
    BY <1>7 DEF fetch_tip, no_seek, save_executions, tick_ok, not_served, fetch_failed, syncVars
  <2> QED
    BY <2>1, <2>2 DEF ChainInv, OnChain, Recorded
<1> QED
  BY <1>1, <1>2, <1>3, <1>4, <1>5, <1>6, <1>7 DEF SyncNext, LoopStep

LEMMA ChainInitInv == SyncInit => ChainInv
  BY DEF SyncInit, StoreInit, ChainInv, OnChain, Recorded

\* What holds while nothing has disturbed the loop stays true until something does.
ChainHistory == Undisturbed => ReaderInv /\ ChainInv

LEMMA ChainHistoryInit == SyncInit => ChainHistory
<1>1. SyncInit => ReaderInv
  BY DEF SyncInit, StoreInit, ReaderInv, MetaNamesLast, MetaProgress, Idle, Recorded
<1> QED
  BY <1>1, ChainInitInv DEF ChainHistory

LEMMA UndisturbedBefore ==
  ASSUME SyncTypeOK, [SyncNext]_syncVars, Undisturbed'
  PROVE  Undisturbed /\ "rollback" \notin env'.cut
  BY HistoryKept DEF Undisturbed

LEMMA ChainHistoryNext == SyncInv /\ ChainHistory /\ [SyncNext]_syncVars => ChainHistory'
<1> SUFFICES ASSUME SyncInv, ChainHistory, [SyncNext]_syncVars, Undisturbed'
             PROVE  ReaderInv' /\ ChainInv'
  BY DEF ChainHistory
<1>1. Undisturbed /\ "rollback" \notin env'.cut
  BY UndisturbedBefore DEF SyncInv
<1>2. ReaderInv /\ ChainInv
  BY <1>1 DEF ChainHistory
<1> QED
  BY <1>1, <1>2, ReaderNextInv, ChainNextInv

(* No rollback cut short and a best chain that only grows while blocks are *)
(* being indexed: all that is indexed lies on one chain.                   *)
THEOREM SyncOnOneChain == SyncSpec => []OnOneChain
<1>1. ChainHistory => OnOneChain
  BY DEF ChainHistory, ChainInv, OnOneChain, FollowsOneChain, OnChain
<1> QED
  BY <1>1, ChainHistoryInit, ChainHistoryNext, SyncInvariant, PTL DEF SyncSpec
----------------------------------------------------------------------------
(* Reindexing *)

LEMMA AfterBlockType ==
  ASSUME NEW h, NEW hash \in Hash, NEW m \in State
  PROVE  AfterBlock(h, hash, m) \in State
  BY CommitOfType, ApplyType DEF AfterBlock

LEMMA EmptyStateType == EmptyState \in State
  BY DEF EmptyState, State

(* The clean reindex of a chain is defined: it starts from the empty state *)
(* and applies one block after the other.                                  *)
LEMMA ReindexUnfolds ==
  ASSUME NEW c \in Chains
  PROVE  /\ Reindex(c)[0] = EmptyState
         /\ \A n \in 1..Len(c) : Reindex(c)[n] = AfterBlock(n, c[n], Reindex(c)[n - 1])
<1> DEFINE Good(g, k) == /\ g[0] = EmptyState
                         /\ \A i \in 1..k : g[i] = AfterBlock(i, c[i], g[i - 1])
           T == {k \in 0..Len(c) : ~ \E g \in [0..k -> State] : Good(g, k)}
<1>0. Len(c) \in Nat /\ \A i \in 1..Len(c) : c[i] \in Hash
  BY ChainAssumption
<1>1. T = {}
  <2> SUFFICES ASSUME T # {} PROVE FALSE
    OBVIOUS
  <2>1. T \in SUBSET Nat
    BY <1>0
  <2>2. PICK k \in T : \A j \in T : k <= j
    BY <2>1, LeastNat
  <2>3. k \in 0..Len(c) /\ k \in Nat
    BY <1>0
  <2>4. CASE k = 0
    <3> DEFINE g == [i \in 0..0 |-> EmptyState]
    <3>1. g \in [0..k -> State] /\ Good(g, k)
      BY <2>4, EmptyStateType
    <3> QED
      BY <3>1
  <2>5. CASE k # 0
    <3>1. k - 1 \in 0..Len(c) /\ k - 1 \notin T /\ k \in 1..Len(c)
      <4>1. k - 1 \in 0..Len(c) /\ k \in 1..Len(c) /\ ~(k <= k - 1)
        BY <1>0, <2>3, <2>5
      <4> HIDE DEF T
      <4> QED
        BY <2>2, <4>1
    <3>2. PICK g \in [0..(k - 1) -> State] : Good(g, k - 1)
      BY <3>1
    <3>3. g[k - 1] \in State /\ c[k] \in Hash
      BY <1>0, <2>3, <2>5, <3>1, <3>2
    <3> DEFINE f == [i \in 0..k |-> IF i = k THEN AfterBlock(k, c[k], g[k - 1]) ELSE g[i]]
    <3>4. f \in [0..k -> State]
      <4>1. AfterBlock(k, c[k], g[k - 1]) \in State
        BY <3>3, AfterBlockType
      <4>2. \A i \in 0..k : i # k => g[i] \in State
        BY <2>3, <3>2
      <4> QED
        BY <4>1, <4>2
    <3>5. f[0] = EmptyState
      BY <2>3, <2>5, <3>2
    <3>6. ASSUME NEW i \in 1..k PROVE f[i] = AfterBlock(i, c[i], f[i - 1])
      <4>1. f[i - 1] = g[i - 1]
        BY <2>3, <3>6
      <4>2. i # k => i \in 1..(k - 1) /\ f[i] = g[i]
        BY <2>3, <3>6
      <4>3. i = k => f[i] = AfterBlock(k, c[k], g[k - 1])
        BY <2>3
      <4> QED
        BY <3>2, <4>1, <4>2, <4>3
    <3>7. Good(f, k)
      BY <3>5, <3>6
    <3> QED
      BY <3>4, <3>7
  <2> QED
    BY <2>4, <2>5
<1>2. PICK g \in [0..Len(c) -> State] : Good(g, Len(c))
  BY <1>0, <1>1
<1>3. g = [n \in 0..Len(c) |-> IF n = 0 THEN EmptyState ELSE AfterBlock(n, c[n], g[n - 1])]
  <2>1. ASSUME NEW n \in 0..Len(c)
        PROVE  g[n] = IF n = 0 THEN EmptyState ELSE AfterBlock(n, c[n], g[n - 1])
    BY <1>0, <1>2, <2>1
  <2> QED
    BY <1>2, <2>1
<1>4. Reindex(c) =
        [n \in 0..Len(c) |-> IF n = 0 THEN EmptyState
                             ELSE AfterBlock(n, c[n], Reindex(c)[n - 1])]
  <2> DEFINE Eqn(f) == f = [n \in 0..Len(c) |-> IF n = 0 THEN EmptyState
                                                ELSE AfterBlock(n, c[n], f[n - 1])]
  <2>1. Reindex(c) = CHOOSE f : Eqn(f)
    BY DEF Reindex
  <2>2. Eqn(g)
    BY <1>3
  <2> HIDE DEF Eqn
  <2>3. Eqn(Reindex(c))
    BY <2>1, <2>2
  <2> QED
    BY <2>3 DEF Eqn
<1>5. ASSUME NEW n \in 1..Len(c) PROVE Reindex(c)[n] = AfterBlock(n, c[n], Reindex(c)[n - 1])
  <2>1. n \in 0..Len(c) /\ n # 0
    BY <1>0
  <2> QED
    BY <1>4, <2>1
<1>6. Reindex(c)[0] = EmptyState
  <2>1. 0 \in 0..Len(c)
    BY <1>0
  <2> QED
    BY <1>4, <2>1
<1> QED
  BY <1>5, <1>6

(* Nothing is interpreted below the activation height.                     *)
LEMMA EmptyBelowActivation ==
  ASSUME NEW c \in Chains, NEW n \in 0..Len(c), n < Activation
  PROVE  Reindex(c)[n] = EmptyState
<1> DEFINE T == {k \in 0..Len(c) : k < Activation /\ Reindex(c)[k] # EmptyState}
<1>0. Len(c) \in Nat
  BY ChainAssumption
<1> SUFFICES ASSUME T # {} PROVE FALSE
  OBVIOUS
<1>1. T \in SUBSET Nat
  BY <1>0
<1>2. PICK k \in T : \A j \in T : k <= j
  BY <1>1, LeastNat
<1>3. k # 0 /\ k \in 1..Len(c) /\ k < Activation
  BY <1>0, <1>2, ReindexUnfolds
<1>4. Reindex(c)[k - 1] = EmptyState
  <2>1. k - 1 \in 0..Len(c) /\ k - 1 < Activation /\ k - 1 \notin T
    BY <1>0, <1>2, <1>3, ActivationAssumption
  <2> QED
    BY <2>1
<1>5. Reindex(c)[k] = ApplyBatch(EmptyState, EmptyCommit)
  BY <1>3, <1>4, ReindexUnfolds DEF AfterBlock, CommitOf
<1>6. ApplyBatch(EmptyState, EmptyCommit) = EmptyState
  BY DEF ApplyBatch, EmptyState, EmptyCommit, Effective
<1> QED
  BY <1>2, <1>5, <1>6

(* Every record holds what a clean reindex of any chain through its block  *)
(* holds there.                                                            *)
ReindexInv ==
  \A h \in Recorded : \A c \in Chains :
     h \in DOMAIN c /\ c[h] = hist[h].zcash_block_hash => hist[h].state_root = Reindex(c)[h]

(* Outside a rollback the database is what a clean reindex of any chain    *)
(* that the best chain shares a higher block with holds at the indexed     *)
(* height, or it is empty and nothing is indexed.                          *)
LEMMA DatabaseIsReindex ==
  ASSUME SyncInv, ReaderInv, ChainInv, ReindexInv, pc \in {"seek", "loop"},
         NEW c \in Chains, NEW h \in DOMAIN c, h \in DOMAIN best, c[h] = best[h],
         meta.h # None => meta.h < h
  PROVE  \/ meta.h = None /\ kv = EmptyState
         \/ /\ meta.h # None /\ meta.h \in 1..Len(c) /\ kv \in State
            /\ kv = Reindex(c)[meta.h]
<1>0. /\ MetaNamesLast /\ OnChain(best) /\ best \in Chains /\ RootMatches /\ kv \in State
      /\ hist \in [Height -> HeightRecord \union {None}]
  BY DEF SyncInv, SyncTypeOK, StoreInv, StoreTypeOK, ReaderInv, ChainInv
<1>1. CASE Recorded = {} /\ meta = [h |-> None, b |-> None, r |-> None]
  BY <1>0, <1>1 DEF RootMatches
<1>2. ASSUME NEW l \in Recorded, IsLast(l),
             meta = [h |-> l, b |-> hist[l].zcash_block_hash, r |-> compute_root(kv)]
      PROVE  /\ meta.h # None /\ meta.h \in 1..Len(c) /\ kv \in State
             /\ kv = Reindex(c)[meta.h]
  <2>1. meta.h = l /\ l \in Height /\ l # None
    BY <1>2, NoneAssumption DEF Recorded
  <2>2. hist[l].state_root = kv
    <3>1. PICK x \in Recorded : IsLast(x) /\ hist[x].state_root = compute_root(kv)
      BY <1>0, <1>2 DEF RootMatches
    <3>2. x = l
      BY <1>2, <3>1 DEF IsLast, Recorded, Height
    <3> QED
      BY <3>1, <3>2 DEF compute_root
  <2>3. l \in DOMAIN best /\ hist[l].zcash_block_hash = best[l]
    BY <1>0, <1>2 DEF OnChain
  <2>4. l \in Nat /\ l >= 1 /\ l < h /\ h \in Nat
    BY <1>0, <2>1, <2>3, ChainAssumption
  <2>5. l \in DOMAIN c /\ c[l] = best[l]
    BY <1>0, <2>4, SharedBelow
  <2>6. kv = Reindex(c)[l]
    BY <1>2, <2>2, <2>3, <2>5 DEF ReindexInv
  <2>7. l \in 1..Len(c)
    BY <2>5, ChainAssumption
  <2> QED
    BY <1>0, <2>1, <2>6, <2>7
<1> QED
  BY <1>0, <1>1, <1>2 DEF MetaNamesLast

(* A commit keeps ReindexInv if its own record does.                       *)
LEMMA CommitReindexed ==
  ASSUME StoreTypeOK, ReindexInv, NEW h \in Height, NEW hash \in Hash, NEW u \in BlockCommit,
         commit_block(h, hash, u),
         \A c \in Chains : h \in DOMAIN c /\ c[h] = hash =>
            ApplyBatch(kv, u) = Reindex(c)[h]
  PROVE  ReindexInv'
<1>1. kv \in State /\ hist \in [Height -> HeightRecord \union {None}]
  BY DEF StoreTypeOK
<1>2. projected_root(kv, u) = ApplyBatch(kv, u)
  BY <1>1, ApplyMatchesProjected DEF compute_root
<1>3. hist' = [hist EXCEPT ![h] = [zcash_block_hash |-> hash, state_root |-> ApplyBatch(kv, u)]]
  BY <1>2 DEF commit_block
<1>4. ASSUME NEW g \in Recorded', NEW c \in Chains, g \in DOMAIN c,
             c[g] = hist'[g].zcash_block_hash
      PROVE  hist'[g].state_root = Reindex(c)[g]
  <2>1. CASE g = h
    <3>1. hist'[g].zcash_block_hash = hash /\ hist'[g].state_root = ApplyBatch(kv, u)
      BY <1>1, <1>3, <2>1
    <3> QED
      BY <1>4, <2>1, <3>1
  <2>2. CASE g # h
    <3>1. hist'[g] = hist[g] /\ g \in Recorded
      BY <1>1, <1>3, <2>2 DEF Recorded
    <3> QED
      BY <1>4, <3>1 DEF ReindexInv
  <2> QED
    BY <2>1, <2>2
<1> QED
  BY <1>4 DEF ReindexInv

LEMMA ReindexNextInv ==
  ASSUME SyncInv, ReaderInv, ChainInv, ReindexInv, [SyncNext]_syncVars
  PROVE  ReindexInv'
<1>0. /\ SyncTypeOK /\ StoreTypeOK /\ best \in Chains /\ best \in Seq(Hash)
      /\ DOMAIN best = 1..Len(best) /\ kv \in State
      /\ hist \in [Height -> HeightRecord \union {None}]
  BY ChainAssumption DEF SyncInv, SyncTypeOK, StoreTypeOK
<1>1. CASE index_block
  <2>1. /\ NextHeight \in Height /\ block_hash(NextHeight) \in Hash
        /\ CommitOf(NextHeight, block_hash(NextHeight), kv) \in BlockCommit
        /\ NextHeight \in DOMAIN best
    BY <1>0, <1>1, IndexesAbove DEF index_block, Served
  <2>2. PICK h \in Height : h = NextHeight
    BY <2>1
  <2>3. /\ h \in DOMAIN best /\ block_hash(h) = best[h] /\ best[h] \in Hash
        /\ CommitOf(h, best[h], kv) \in BlockCommit
        /\ commit_block(h, best[h], CommitOf(h, best[h], kv))
    BY <1>1, <2>1, <2>2 DEF block_hash, index_block
  <2>4. ASSUME NEW c \in Chains, h \in DOMAIN c, c[h] = best[h]
        PROVE  ApplyBatch(kv, CommitOf(h, best[h], kv)) = Reindex(c)[h]
    <3>0. h \in 1..Len(c) /\ h \in Int
      BY <2>4, ChainAssumption DEF Height
    <3>1. /\ meta.h = None => h = 1
          /\ meta.h # None => meta.h \in Int /\ h = meta.h + 1 /\ meta.h < h
      BY <1>0, <2>2 DEF NextHeight, StoreTypeOK, Height
    <3>2. \/ meta.h = None /\ kv = EmptyState
          \/ meta.h # None /\ kv = Reindex(c)[meta.h]
      BY <1>1, <2>3, <2>4, <3>1, DatabaseIsReindex DEF index_block
    <3>3. kv = Reindex(c)[h - 1]
      BY <3>1, <3>2, ReindexUnfolds
    <3> QED
      BY <2>4, <3>0, <3>3, ReindexUnfolds DEF AfterBlock
  <2> QED
    BY <1>0, <2>3, <2>4, CommitReindexed
<1>2. CASE fast_forward
  <2>1. /\ SeekTarget \in Height /\ SeekTarget < Activation
        /\ block_hash(SeekTarget) \in Hash
        /\ EmptyCommit \in BlockCommit /\ SeekTarget \in DOMAIN best
        /\ meta.h # None => meta.h < SeekTarget
    BY <1>0, <1>2, SeeksAbove DEF fast_forward, Served, NeedsSeek
  <2>2. PICK h \in Height : h = SeekTarget
    BY <2>1
  <2>3. /\ h \in DOMAIN best /\ block_hash(h) = best[h] /\ best[h] \in Hash
        /\ commit_block(h, best[h], EmptyCommit)
    BY <1>2, <2>1, <2>2 DEF block_hash, fast_forward
  <2>4. ASSUME NEW c \in Chains, h \in DOMAIN c, c[h] = best[h]
        PROVE  ApplyBatch(kv, EmptyCommit) = Reindex(c)[h]
    <3>0. h \in 0..Len(c) /\ h \in Int /\ h < Activation /\ Len(c) \in Nat
      BY <2>1, <2>2, <2>4, ChainAssumption DEF Height
    <3>1. \/ meta.h = None /\ kv = EmptyState
          \/ meta.h # None /\ meta.h \in 1..Len(c) /\ kv = Reindex(c)[meta.h]
      BY <1>2, <2>1, <2>2, <2>3, <2>4, DatabaseIsReindex DEF fast_forward
    <3>2. kv = EmptyState
      <4>1. CASE meta.h # None /\ meta.h \in 1..Len(c) /\ kv = Reindex(c)[meta.h]
        <5>1. meta.h \in 0..Len(c) /\ meta.h < Activation
          BY <2>1, <2>2, <3>0, <4>1, ActivationAssumption
        <5> QED
          BY <4>1, <5>1, EmptyBelowActivation
      <4> QED
        BY <3>1, <4>1
    <3>3. ApplyBatch(EmptyState, EmptyCommit) = EmptyState
      BY DEF ApplyBatch, EmptyState, EmptyCommit, Effective
    <3> QED
      BY <3>0, <3>2, <3>3, EmptyBelowActivation
  <2> QED
    BY <1>0, <2>1, <2>3, <2>4, CommitReindexed
<1>3. CASE ~index_block /\ ~fast_forward
  <2>1. \A h \in Height : hist'[h] = hist[h] \/ hist'[h] = None
    BY <1>0, <1>3 DEF SyncNext, LoopStep, reorg_differs, rollback_batch, rollback_done, node_crash,
       rollback_to, rollback_height, restore_m_h, restore_m_b, restore_m_r, crash, fetch_tip,
       reorg_agrees, no_seek, save_executions, tick_ok, not_served, chain_grow, chain_reorg,
       fetch_failed, syncVars, storeVars
  <2> QED
    BY <2>1 DEF ReindexInv, Recorded
<1> QED
  BY <1>1, <1>2, <1>3

ReindexHistory == Undisturbed => ReindexInv

(* A node that follows the chain, through any number of reorganisations    *)
(* and restarts, holds what a clean reindex of the indexed block's chain   *)
(* holds.                                                                  *)
THEOREM SyncCleanReindexAgrees == SyncSpec => []CleanReindexAgrees
<1>1. SyncInit => ReindexHistory
  BY DEF SyncInit, StoreInit, Recorded, ReindexHistory, ReindexInv
<1>2. SyncInv /\ ChainHistory /\ ReindexHistory /\ [SyncNext]_syncVars => ReindexHistory'
  BY ReindexNextInv, UndisturbedBefore DEF ChainHistory, ReindexHistory, SyncInv
<1>3. ASSUME SyncInv, ChainHistory, ReindexHistory PROVE CleanReindexAgrees
  <2> SUFFICES ASSUME Undisturbed, pc = "ok", meta.h # None
               PROVE  \E c \in Chains : /\ meta.h \in DOMAIN c /\ c[meta.h] = meta.b
                                        /\ compute_root(kv) = compute_root(Reindex(c)[meta.h])
    BY DEF CleanReindexAgrees, IsCleanReindex
  <2>0. ReaderInv /\ ChainInv /\ ReindexInv
    BY <1>3 DEF ChainHistory, ReindexHistory
  <2>1. MetaNamesLast /\ RootMatches
    BY <1>3, <2>0 DEF ReaderInv, SyncInv, StoreInv
  <2>2. PICK l \in Recorded : /\ IsLast(l)
                              /\ meta = [h |-> l, b |-> hist[l].zcash_block_hash,
                                         r |-> compute_root(kv)]
    BY <2>1 DEF MetaNamesLast
  <2>3. hist[l].state_root = kv
    <3>1. PICK x \in Recorded : IsLast(x) /\ hist[x].state_root = compute_root(kv)
      BY <2>1, <2>2 DEF RootMatches
    <3>2. x = l
      BY <2>2, <3>1 DEF IsLast, Recorded, Height
    <3> QED
      BY <3>1, <3>2 DEF compute_root
  <2>4. PICK c \in Chains : OnChain(c)
    BY <2>0 DEF ChainInv
  <2>5. l \in DOMAIN c /\ hist[l].zcash_block_hash = c[l]
    BY <2>2, <2>4 DEF OnChain
  <2>6. kv = Reindex(c)[l]
    BY <2>0, <2>2, <2>3, <2>5 DEF ReindexInv
  <2> QED
    BY <2>2, <2>5, <2>6 DEF compute_root
<1> QED
  BY <1>1, <1>2, <1>3, ChainHistoryInit, ChainHistoryNext, SyncInvariant, PTL DEF SyncSpec
----------------------------------------------------------------------------
(* Execution records *)

(* Every call of every recorded block has its record, except those of a    *)
(* block that was committed a moment ago.                                  *)
ExecInv ==
  \A h \in Recorded : h >= Activation /\ ~(pc = "save" /\ h = meta.h) =>
     \A t \in CallsIn[hist[h].zcash_block_hash] :
        execs[t] = [block_height |-> h, block_hash |-> hist[h].zcash_block_hash]

LEMMA ExecNextInv ==
  ASSUME SyncInv, ReaderInv, ChainInv, ExecInv, [SyncNext]_syncVars, "save" \notin env'.cut
  PROVE  ExecInv'
<1>0. /\ SyncTypeOK /\ StoreTypeOK /\ best \in Chains /\ best \in Seq(Hash)
      /\ DOMAIN best = 1..Len(best) /\ Activation \in Nat
      /\ hist \in [Height -> HeightRecord \union {None}]
      /\ execs \in [TxId -> ExecRecord \union {None}]
  BY ChainAssumption, ActivationAssumption DEF SyncInv, SyncTypeOK, StoreTypeOK
<1>c. ASSUME NEW h \in Height, NEW hash, NEW u, commit_block(h, hash, u), execs' = execs,
             pc # "save", h >= Activation => pc' = "save"
      PROVE  ExecInv'
  <2>1. meta'.h = h /\ \A g \in Recorded' : g # h => g \in Recorded /\ hist'[g] = hist[g]
    BY <1>0, <1>c DEF commit_block, Recorded
  <2> QED
    BY <1>c, <2>1 DEF ExecInv
<1>1. CASE index_block
  <2>1. PICK h \in Height : h = NextHeight
    BY <1>0, <1>1, IndexesAbove
  <2>2. PICK hash, u : commit_block(h, hash, u)
    BY <1>1, <2>1 DEF index_block
  <2>3. execs' = execs /\ pc = "loop" /\ (h >= Activation => pc' = "save")
    BY <1>0, <1>1, <2>1 DEF index_block, Height
  <2> QED
    BY <1>c, <2>2, <2>3
<1>2. CASE fast_forward
  <2>1. PICK h \in Height : h = SeekTarget /\ h < Activation
    BY <1>0, <1>2, SeeksAbove
  <2>2. PICK hash, u : commit_block(h, hash, u)
    BY <1>2, <2>1 DEF fast_forward
  <2>3. execs' = execs /\ pc = "seek" /\ ~(h >= Activation)
    BY <1>0, <1>2, <2>1 DEF fast_forward, Height
  <2> QED
    BY <1>c, <2>2, <2>3
<1>3. CASE save_executions
  <2>0. MetaNamesLast /\ OnChain(best) /\ meta.h # None
    BY <1>3 DEF ReaderInv, ChainInv, SyncInv, SaveHasBlock, save_executions
  <2>1. PICK l \in Recorded : /\ IsLast(l)
                              /\ meta = [h |-> l, b |-> hist[l].zcash_block_hash,
                                         r |-> compute_root(kv)]
    BY <2>0 DEF MetaNamesLast
  <2>2. /\ meta.h = l /\ meta.b = hist[l].zcash_block_hash
        /\ l \in DOMAIN best /\ meta.b = best[l] /\ best[l] \in Hash
    BY <1>0, <2>0, <2>1 DEF OnChain
  <2>3. ASSUME NEW h \in Recorded, h >= Activation,
               NEW t \in CallsIn[hist[h].zcash_block_hash]
        PROVE  execs'[t] = [block_height |-> h, block_hash |-> hist[h].zcash_block_hash]
    <3>1. h \in DOMAIN best /\ hist[h].zcash_block_hash = best[h] /\ best[h] \in Hash
      BY <1>0, <2>0 DEF OnChain
    <3>2. t \in TxId
      BY <2>3, <3>1, CallsAssumption
    <3>3. CASE h = l
      BY <1>3, <2>2, <2>3, <3>2, <3>3 DEF save_executions
    <3>4. CASE h # l
      <4>1. t \notin CallsIn[meta.b]
        BY <1>0, <2>2, <2>3, <3>1, <3>4, CallsOnceAssumption
      <4>2. execs'[t] = execs[t]
        BY <1>3, <3>2, <4>1 DEF save_executions
      <4> QED
        BY <2>2, <2>3, <3>4, <4>2 DEF ExecInv
    <3> QED
      BY <3>3, <3>4
  <2> QED
    BY <1>3, <2>3 DEF ExecInv, save_executions, storeVars, Recorded
<1>4. CASE ~index_block /\ ~fast_forward /\ ~save_executions
  <2>1. execs' = execs /\ \A h \in Height : hist'[h] = hist[h] \/ hist'[h] = None
    BY <1>0, <1>4 DEF SyncNext, LoopStep, reorg_differs, rollback_batch, rollback_done, node_crash,
       rollback_to, rollback_height, restore_m_h, restore_m_b, restore_m_r, crash, fetch_tip,
       reorg_agrees, no_seek, tick_ok, not_served, chain_grow, chain_reorg,
       fetch_failed, syncVars, storeVars
  <2>0. node_crash => pc # "save"
    <3>1. node_crash => env'.cut = env.cut \union ({pc} \intersect HalfDone)
      BY <1>0 DEF node_crash, SyncTypeOK
    <3> QED
      BY <3>1 DEF HalfDone
  <2>2. pc = "save" => pc' = "save" /\ meta' = meta
    BY <1>4, <2>0 DEF SyncNext, LoopStep, reorg_differs, rollback_batch, rollback_done, node_crash,
       fetch_tip, reorg_agrees, no_seek, tick_ok, not_served, chain_grow, chain_reorg,
       fetch_failed, syncVars, storeVars, Between
  <2> QED
    BY <2>1, <2>2 DEF ExecInv, Recorded
<1> QED
  BY <1>1, <1>2, <1>3, <1>4

ExecHistory == Undisturbed /\ "save" \notin env.cut => ExecInv

(* Unless the process has died between a block and its records, every call *)
(* of every indexed block is on record under that block, also after it was *)
(* mined elsewhere first.                                                  *)
THEOREM SyncExecutionsComplete == SyncSpec => []ExecutionsComplete
<1>1. SyncInit => ExecHistory
  BY DEF SyncInit, StoreInit, Recorded, ExecHistory, ExecInv
<1>2. SyncInv /\ ChainHistory /\ ExecHistory /\ [SyncNext]_syncVars => ExecHistory'
  <2> SUFFICES ASSUME SyncInv, ChainHistory, ExecHistory, [SyncNext]_syncVars,
                      Undisturbed', "save" \notin env'.cut
               PROVE  ExecInv'
    BY DEF ExecHistory
  <2>1. Undisturbed /\ "save" \notin env.cut
    BY UndisturbedBefore, HistoryKept DEF SyncInv
  <2>2. ReaderInv /\ ChainInv /\ ExecInv
    BY <2>1 DEF ChainHistory, ExecHistory
  <2> QED
    BY <2>2, ExecNextInv
<1>3. ExecHistory => ExecutionsComplete
  BY DEF ExecHistory, ExecInv, ExecutionsComplete
<1> QED
  BY <1>1, <1>2, <1>3, ChainHistoryInit, ChainHistoryNext, SyncInvariant, PTL DEF SyncSpec
=============================================================================
