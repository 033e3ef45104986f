-------------------------- MODULE StateStoreProofs --------------------------
(***************************************************************************)
(* Proofs about StateStore, for every set of keys, values and hashes and   *)
(* every bound on heights.                                                 *)
(***************************************************************************)
EXTENDS StateStore, WellFoundedInduction, TLAPS

(* The rollback's work list is exactly the recorded heights above its      *)
(* target: no other height is undone, and none is passed over.             *)
WorkListExact ==
  /\ rb.pc = "undo" => rb.left = {h \in Recorded : h > rb.target}
  /\ rb.pc # "undo" => rb.left = {}

(* The inductive invariant: RootMatches needs UndoChain to survive a       *)
(* rollback batch, UndoChain needs MetaNotBehind to survive a commit (the  *)
(* new height is above every record), and the batch order rests on the     *)
(* work list.                                                              *)
StoreInv ==
  /\ StoreTypeOK
  /\ RootMatches
  /\ UndoChain
  /\ MetaNotBehind
  /\ WorkListExact
----------------------------------------------------------------------------
(* Naturals *)

(* A set of naturals that is not empty has a least member: how a statement *)
(* about every height is proved, by its least counterexample.              *)
LEMMA LeastNat ==
  ASSUME NEW T \in SUBSET Nat, T # {}
  PROVE  \E n \in T : \A m \in T : n <= m
<1> DEFINE R == OpToRel(<, Nat)
<1>1. PICK n \in T : \A m \in T : ~(<<m, n>> \in R)
  BY NatLessThanWellFounded, WFMin, Zenon
<1>2. \A m \in T : ~(m < n)
  BY <1>1 DEF OpToRel
<1> QED
  BY <1>2
----------------------------------------------------------------------------
(* Operators *)

(* The batch commit_block writes produces exactly the state whose root it  *)
(* recorded beforehand, so the post-commit cross-check never fires.        *)
LEMMA ApplyMatchesProjected ==
  ASSUME NEW m \in State, NEW c \in BlockCommit
  PROVE  compute_root(ApplyBatch(m, c)) = projected_root(m, c)
  BY NoOpAssumption DEF ApplyBatch, projected_root, compute_root, Effective, State,
     BlockCommit, DbKey

(* A commit maps states to states.                                         *)
LEMMA ApplyType ==
  ASSUME NEW m \in State, NEW c \in BlockCommit
  PROVE  ApplyBatch(m, c) \in State
  BY DEF ApplyBatch, Effective, State, BlockCommit, DbKey

(* The journal of a commit is a journal.                                   *)
LEMMA UndoType ==
  ASSUME NEW m \in State, NEW c \in BlockCommit
  PROVE  UndoOf(m, c) \in UndoJournal
  BY DEF UndoOf, Effective, State, BlockCommit, UndoJournal, DbKey

(* Undoing maps states to states.                                          *)
LEMMA RestoreType ==
  ASSUME NEW m \in State, NEW u \in UndoJournal
  PROVE  RestoreBatch(m, u) \in State
  BY DEF RestoreBatch, State, UndoJournal, DbKey

(* The journal of a commit, applied to the state the commit produced,      *)
(* gives back the state before it, whatever the commit put and deleted.    *)
LEMMA UndoExact ==
  ASSUME NEW m \in State, NEW c \in BlockCommit
  PROVE  RestoreBatch(ApplyBatch(m, c), UndoOf(m, c)) = m
<1> DEFINE a == ApplyBatch(m, c)
           u == UndoOf(m, c)
<1>1. ASSUME NEW k \in DbKey
      PROVE  RestoreBatch(a, u)[k] = m[k]
  <2>1. CASE c.put[k] # NoOp
    <3>1. u.set[k] = m[k]
      BY <2>1 DEF UndoOf
    <3>2. m[k] # NoOp
      BY NoOpAssumption DEF State
    <3> QED
      BY <3>1, <3>2 DEF RestoreBatch
  <2>2. CASE c.put[k] = NoOp
    <3>1. u.set[k] = NoOp
      BY <2>2 DEF UndoOf
    <3>2. Effective(m, c, k) = m[k]
      BY <2>2 DEF Effective
    <3>3. CASE k \in c.del /\ m[k] # Absent
      <4>1. u.del[k] = m[k]
        BY <3>2, <3>3 DEF UndoOf
      <4>2. m[k] # NoOp
        BY NoOpAssumption DEF State
      <4> QED
        BY <3>1, <4>1, <4>2 DEF RestoreBatch
    <3>4. CASE ~(k \in c.del /\ m[k] # Absent)
      <4>1. u.del[k] = NoOp
        BY <3>2, <3>4 DEF UndoOf
      <4>2. a[k] = m[k]
        BY <2>2, <3>2, <3>4 DEF ApplyBatch
      <4> QED
        BY <3>1, <4>1, <4>2 DEF RestoreBatch
    <3> QED
      BY <3>3, <3>4
  <2> QED
    BY <2>1, <2>2
<1>2. RestoreBatch(a, u) = [k \in DbKey |-> RestoreBatch(a, u)[k]]
  BY DEF RestoreBatch
<1>3. m = [k \in DbKey |-> m[k]]
  BY DEF State
<1> QED
  BY <1>1, <1>2, <1>3
----------------------------------------------------------------------------
(* The invariant *)

LEMMA InitInv == StoreInit => StoreInv
<1> SUFFICES ASSUME StoreInit PROVE StoreInv
  OBVIOUS
<1>1. Recorded = {}
  BY DEF StoreInit, Recorded
<1>2. StoreTypeOK
  BY MaxHeightAssumption DEF StoreInit, StoreTypeOK, EmptyState, State, Idle, Height
<1>3. RootMatches
  BY <1>1 DEF StoreInit, RootMatches
<1>4. UndoChain /\ MetaNotBehind
  BY <1>1 DEF UndoChain, MetaNotBehind
<1>5. WorkListExact
  BY DEF StoreInit, WorkListExact, Idle
<1> QED
  BY <1>2, <1>3, <1>4, <1>5 DEF StoreInv

(* A commit above the indexed height preserves the invariant.              *)
LEMMA CommitInv ==
  ASSUME StoreInv, NEW h \in Height, NEW hash \in Hash, NEW c \in BlockCommit,
         next_block(h, hash, c)
  PROVE  StoreInv'
<1> DEFINE rec == [zcash_block_hash |-> hash, state_root |-> projected_root(kv, c)]
<1>1. /\ kv \in State
      /\ hist \in [Height -> HeightRecord \union {None}]
      /\ undo \in [Height -> UndoJournal \union {None}]
      /\ meta.h \in Height \union {None}
  BY DEF StoreInv, StoreTypeOK
<1>2. projected_root(kv, c) = kv' /\ kv' \in State
  BY <1>1, ApplyMatchesProjected, ApplyType DEF next_block, commit_block, compute_root
<1>3. rec \in HeightRecord /\ rec # None /\ rec.state_root = kv'
  BY <1>2, NoneAssumption DEF HeightRecord, StateRoot
<1>4. /\ hist' = [hist EXCEPT ![h] = rec]
      /\ undo' = [undo EXCEPT ![h] = UndoOf(kv, c)]
      /\ meta' = [h |-> h, b |-> hash, r |-> kv']
      /\ rb' = rb
  BY <1>2 DEF next_block, commit_block
<1>5. \A g \in Recorded : g < h /\ g \in Int
  BY <1>1, NoneAssumption DEF StoreInv, MetaNotBehind, next_block, Recorded, Height
<1>6. h \in Int
  BY DEF Height
<1>7. Recorded' = Recorded \union {h}
  BY <1>1, <1>3, <1>4 DEF Recorded
<1>8. StoreTypeOK'
  <2>1. UndoOf(kv, c) \in UndoJournal
    BY <1>1, UndoType
  <2> QED
    BY <1>1, <1>2, <1>3, <1>4, <2>1 DEF StoreInv, StoreTypeOK, StateRoot
<1>9. RootMatches'
  <2>1. IsLast(h)'
    BY <1>5, <1>6, <1>7 DEF IsLast
  <2>2. hist'[h] = rec
    BY <1>1, <1>4
  <2> QED
    BY <1>3, <1>7, <2>1, <2>2 DEF RootMatches, compute_root
<1>10. UndoChain'
  <2>1. \A g \in Recorded : /\ hist'[g] = hist[g] /\ undo'[g] = undo[g]
                            /\ undo[g] # None
    BY <1>1, <1>4, <1>5, <1>6 DEF StoreInv, UndoChain
  <2>2. /\ hist'[h] = rec
        /\ undo'[h] = UndoOf(kv, c)
        /\ undo'[h] # None
    BY <1>1, <1>4, UndoType, NoneAssumption
  <2>3. RestoreBatch(rec.state_root, UndoOf(kv, c)) = kv
    BY <1>1, <1>3, UndoExact DEF next_block, commit_block
  <2>4. ASSUME NEW g \in Recorded', g = h
        PROVE  UndoChain!(g)'
    <3>1. CASE Recorded = {} /\ kv = EmptyState
      BY <1>6, <1>7, <2>2, <2>3, <2>4, <3>1
    <3>2. CASE \E f \in Recorded : IsLast(f) /\ hist[f].state_root = kv
      <4>1. PICK f \in Recorded : IsLast(f) /\ hist[f].state_root = kv
        BY <3>2
      <4>2. \A x \in Recorded' : x < h => x <= f
        BY <1>6, <1>7, <4>1 DEF IsLast
      <4> QED
        BY <1>5, <1>7, <2>1, <2>2, <2>3, <2>4, <4>1, <4>2
    <3> QED
      BY <3>1, <3>2 DEF StoreInv, RootMatches, compute_root
  <2>5. ASSUME NEW g \in Recorded
        PROVE  UndoChain!(g)'
    <3>1. CASE /\ \A x \in Recorded : x >= g
               /\ RestoreBatch(hist[g].state_root, undo[g]) = EmptyState
      BY <1>5, <1>6, <1>7, <2>1, <3>1
    <3>2. CASE \E f \in Recorded :
                  /\ f < g
                  /\ \A x \in Recorded : x < g => x <= f
                  /\ RestoreBatch(hist[g].state_root, undo[g]) = hist[f].state_root
      BY <1>5, <1>6, <1>7, <2>1, <3>2
    <3> QED
      BY <3>1, <3>2 DEF StoreInv, UndoChain
  <2> QED
    BY <1>7, <2>4, <2>5 DEF UndoChain
<1>11. MetaNotBehind'
  BY <1>4, <1>5, <1>6, <1>7, NoneAssumption DEF MetaNotBehind
<1>12. WorkListExact'
  BY <1>4 DEF StoreInv, WorkListExact, next_block, commit_block
<1> QED
  BY <1>8, <1>9, <1>10, <1>11, <1>12 DEF StoreInv

(* A commit leaves the metadata naming its block.                          *)
LEMMA CommitNamesLast ==
  ASSUME StoreInv, NEW h \in Height, NEW hash \in Hash, NEW c \in BlockCommit,
         next_block(h, hash, c)
  PROVE  MetaNamesLast'
<1>1. kv \in State /\ hist \in [Height -> HeightRecord \union {None}]
  BY DEF StoreInv, StoreTypeOK
<1>2. projected_root(kv, c) = kv' /\ kv' \in State
  BY <1>1, ApplyMatchesProjected, ApplyType DEF next_block, commit_block, compute_root
<1>3. /\ hist' = [hist EXCEPT ![h] = [zcash_block_hash |-> hash, state_root |-> kv']]
      /\ meta' = [h |-> h, b |-> hash, r |-> kv']
  BY <1>2 DEF next_block, commit_block
<1>4. hist'[h].zcash_block_hash = hash /\ hist'[h] # None
  BY <1>1, <1>2, <1>3, NoneAssumption DEF HeightRecord, StateRoot
<1>5. Recorded' = Recorded \union {h}
  BY <1>1, <1>3, <1>4 DEF Recorded
<1>6. \A g \in Recorded : g <= h
  BY NoneAssumption
  DEF StoreInv, StoreTypeOK, MetaNotBehind, next_block, Recorded, Height
<1>7. IsLast(h)'
  BY <1>5, <1>6 DEF IsLast, Height
<1> QED
  BY <1>3, <1>4, <1>5, <1>7 DEF MetaNamesLast, compute_root

(* Undoing the highest remaining height preserves the invariant: its       *)
(* journal exists, and the record below it becomes the last one.           *)
LEMMA RollbackHeightInv ==
  ASSUME StoreInv, NEW h \in Height, rollback_height(h)
  PROVE  StoreInv'
<1>1. /\ kv \in State
      /\ hist \in [Height -> HeightRecord \union {None}]
      /\ undo \in [Height -> UndoJournal \union {None}]
      /\ rb \in [pc : {"idle", "undo", "m:b", "m:r"}, target : Height,
                 left : SUBSET Height]
  BY DEF StoreInv, StoreTypeOK
<1>2. rb.left = {g \in Recorded : g > rb.target}
  BY DEF StoreInv, WorkListExact, rollback_height
<1>3. h \in Recorded /\ h > rb.target
  BY <1>2 DEF rollback_height
<1>4. undo[h] # None
  BY <1>3 DEF StoreInv, UndoChain
<1>5. /\ kv' = RestoreBatch(kv, undo[h])
      /\ hist' = [hist EXCEPT ![h] = None]
      /\ undo' = [undo EXCEPT ![h] = None]
      /\ meta' = meta
      /\ rb' = [rb EXCEPT !.left = rb.left \ {h}]
  BY <1>4 DEF rollback_height
<1>6. Recorded' = Recorded \ {h}
  BY <1>1, <1>5 DEF Recorded
<1>7. Recorded \subseteq Int /\ h \in Int /\ rb.target \in Int
  BY <1>1 DEF Recorded, Height
<1>8. IsLast(h)
  BY <1>2, <1>3, <1>7 DEF IsLast, rollback_height
<1>9. hist[h].state_root = kv
  <2>1. Recorded # {}
    BY <1>3
  <2>2. PICK g \in Recorded : IsLast(g) /\ hist[g].state_root = kv
    BY <2>1 DEF StoreInv, RootMatches, compute_root
  <2>3. g = h
    BY <1>7, <1>8, <2>2 DEF IsLast
  <2> QED
    BY <2>2, <2>3
<1>10. \A g \in Recorded' : hist'[g] = hist[g] /\ undo'[g] = undo[g] /\ g < h
  BY <1>1, <1>5, <1>6, <1>7, <1>8 DEF IsLast
<1>11. StoreTypeOK'
  <2>1. kv' \in State
    BY <1>1, <1>4, <1>5, RestoreType
  <2> QED
    BY <1>1, <1>5, <2>1 DEF StoreInv, StoreTypeOK
<1>12. RootMatches'
  <2>1. CASE /\ \A g \in Recorded : g >= h
             /\ RestoreBatch(hist[h].state_root, undo[h]) = EmptyState
    <3>1. Recorded' = {}
      BY <1>6, <1>7, <1>8, <2>1 DEF IsLast
    <3> QED
      BY <1>5, <1>9, <2>1, <3>1 DEF RootMatches
  <2>2. CASE \E g \in Recorded :
                /\ g < h
                /\ \A f \in Recorded : f < h => f <= g
                /\ RestoreBatch(hist[h].state_root, undo[h]) = hist[g].state_root
    <3>1. PICK g \in Recorded :
                /\ g < h
                /\ \A f \in Recorded : f < h => f <= g
                /\ RestoreBatch(hist[h].state_root, undo[h]) = hist[g].state_root
      BY <2>2
    <3>2. g \in Recorded' /\ IsLast(g)'
      BY <1>6, <1>7, <1>10, <3>1 DEF IsLast
    <3> QED
      BY <1>5, <1>9, <1>10, <3>1, <3>2 DEF RootMatches, compute_root
  <2> QED
    BY <1>3, <2>1, <2>2 DEF StoreInv, UndoChain
<1>13. UndoChain'
  <2>1. ASSUME NEW g \in Recorded'
        PROVE  UndoChain!(g)'
    <3>1. g \in Recorded /\ undo[g] # None
      BY <1>6 DEF StoreInv, UndoChain
    <3>2. CASE /\ \A x \in Recorded : x >= g
               /\ RestoreBatch(hist[g].state_root, undo[g]) = EmptyState
      BY <1>6, <1>10, <3>1, <3>2
    <3>3. CASE \E f \in Recorded :
                  /\ f < g
                  /\ \A x \in Recorded : x < g => x <= f
                  /\ RestoreBatch(hist[g].state_root, undo[g]) = hist[f].state_root
      <4>1. PICK f \in Recorded :
                  /\ f < g
                  /\ \A x \in Recorded : x < g => x <= f
                  /\ RestoreBatch(hist[g].state_root, undo[g]) = hist[f].state_root
        BY <3>3
      <4>2. f \in Recorded'
        BY <1>6, <1>7, <1>10, <3>1, <4>1
      <4> QED
        BY <1>6, <1>10, <3>1, <4>1, <4>2
    <3> QED
      BY <3>1, <3>2, <3>3 DEF StoreInv, UndoChain
  <2> QED
    BY <2>1 DEF UndoChain
<1>14. MetaNotBehind'
  BY <1>5, <1>6 DEF StoreInv, MetaNotBehind
<1>15. WorkListExact'
  BY <1>1, <1>2, <1>3, <1>5, <1>6 DEF WorkListExact, rollback_height
<1> QED
  BY <1>11, <1>12, <1>13, <1>14, <1>15 DEF StoreInv

(* The record rollback_to restores the metadata from exists and is typed.  *)
LEMMA TargetMetaLast ==
  ASSUME StoreInv
  PROVE  \/ Recorded = {} /\ TargetMeta = [h |-> None, b |-> None, r |-> None]
         \/ \E h \in Recorded :
              /\ IsLast(h)
              /\ TargetMeta = [h |-> h, b |-> hist[h].zcash_block_hash,
                              r |-> hist[h].state_root]
              /\ hist[h] \in HeightRecord
              /\ hist[h].state_root = kv
<1>1. CASE Recorded = {}
  BY <1>1 DEF TargetMeta
<1>2. CASE Recorded # {}
  <2>1. PICK g \in Recorded : IsLast(g) /\ hist[g].state_root = kv
    BY <1>2 DEF StoreInv, RootMatches, compute_root
  <2>2. (CHOOSE x \in Recorded : IsLast(x)) = g
    BY <2>1 DEF IsLast, Recorded, Height
  <2>3. TargetMeta = [h |-> g, b |-> hist[g].zcash_block_hash, r |-> hist[g].state_root]
    BY <1>2, <2>2 DEF TargetMeta
  <2>4. hist[g] \in HeightRecord
    BY DEF StoreInv, StoreTypeOK, Recorded
  <2> QED
    BY <2>1, <2>3, <2>4
<1> QED
  BY <1>1, <1>2

(* Each of the three metadata writes preserves the invariant.              *)
LEMMA RestoreMetaInv ==
  ASSUME StoreInv, restore_m_h \/ restore_m_b \/ restore_m_r
  PROVE  StoreInv'
<1>1. /\ kv' = kv /\ hist' = hist /\ undo' = undo
      /\ rb.left = {}
  BY DEF restore_m_h, restore_m_b, restore_m_r, StoreInv, WorkListExact
<1>2. Recorded' = Recorded
  BY <1>1 DEF Recorded
<1>3. RootMatches' /\ UndoChain'
  <2>1. \A h : IsLast(h)' <=> IsLast(h)
    BY <1>2 DEF IsLast
  <2> QED
    BY <1>1, <1>2, <2>1 DEF StoreInv, RootMatches, UndoChain
<1>4. /\ TargetMeta.h \in Height \union {None}
      /\ TargetMeta.b \in Hash \union {None}
      /\ TargetMeta.r \in StateRoot \union {None}
      /\ \A h \in Recorded : TargetMeta.h # None /\ h <= TargetMeta.h
  <2>1. CASE Recorded = {} /\ TargetMeta = [h |-> None, b |-> None, r |-> None]
    BY <2>1
  <2>2. CASE Recorded # {}
    <3>1. PICK g \in Recorded :
              /\ IsLast(g)
              /\ TargetMeta = [h |-> g, b |-> hist[g].zcash_block_hash,
                              r |-> hist[g].state_root]
              /\ hist[g] \in HeightRecord
      BY TargetMetaLast, <2>2
    <3> QED
      BY <3>1, NoneAssumption DEF IsLast, Recorded, HeightRecord
  <2> QED
    BY TargetMetaLast, <2>1, <2>2
<1>5. StoreTypeOK'
  <2>1. rb' \in [pc : {"idle", "undo", "m:b", "m:r"}, target : Height,
                 left : SUBSET Height]
    BY MaxHeightAssumption
    DEF StoreInv, StoreTypeOK, restore_m_h, restore_m_b, restore_m_r, Idle, Height
  <2>2. meta' \in [h : Height \union {None}, b : Hash \union {None},
                   r : StateRoot \union {None}]
    BY <1>4 DEF StoreInv, StoreTypeOK, restore_m_h, restore_m_b, restore_m_r
  <2> QED
    BY <1>1, <2>1, <2>2 DEF StoreInv, StoreTypeOK
<1>6. MetaNotBehind'
  <2>1. meta'.h = meta.h \/ meta'.h = TargetMeta.h
    BY DEF StoreInv, StoreTypeOK, restore_m_h, restore_m_b, restore_m_r
  <2> QED
    BY <1>2, <1>4, <2>1 DEF StoreInv, MetaNotBehind
<1>7. WorkListExact'
  BY <1>1 DEF StoreInv, StoreTypeOK, WorkListExact, restore_m_h, restore_m_b,
     restore_m_r, Idle
<1> QED
  BY <1>3, <1>5, <1>6, <1>7 DEF StoreInv

(* Every step of the store preserves the invariant.                        *)
LEMMA NextInv == StoreInv /\ [StoreNext]_storeVars => StoreInv'
<1> SUFFICES ASSUME StoreInv, [StoreNext]_storeVars PROVE StoreInv'
  OBVIOUS
<1>1. CASE \E h \in Height, hash \in Hash, c \in BlockCommit : next_block(h, hash, c)
  BY <1>1, CommitInv
<1>2. CASE \E target \in Height : rollback_to(target)
  <2>1. PICK target \in Height : rollback_to(target)
    BY <1>2
  <2>2. /\ UNCHANGED <<kv, hist, undo, meta>>
        /\ Recorded' = Recorded
        /\ Recorded \subseteq Height
    BY <2>1 DEF rollback_to, Recorded
  <2>3. StoreTypeOK'
    BY <2>1, <2>2 DEF StoreInv, StoreTypeOK, rollback_to
  <2>4. RootMatches' /\ UndoChain' /\ MetaNotBehind'
    BY <2>2 DEF StoreInv, RootMatches, UndoChain, MetaNotBehind, IsLast
  <2>5. WorkListExact'
    BY <2>1, <2>2 DEF WorkListExact, rollback_to
  <2> QED
    BY <2>3, <2>4, <2>5 DEF StoreInv
<1>3. CASE \E h \in Height : rollback_height(h)
  BY <1>3, RollbackHeightInv
<1>4. CASE restore_m_h \/ restore_m_b \/ restore_m_r
  BY <1>4, RestoreMetaInv
<1>5. CASE crash
  <2>1. UNCHANGED <<kv, hist, undo, meta>> /\ Recorded' = Recorded /\ rb' = Idle
    BY <1>5 DEF crash, Recorded
  <2>2. StoreTypeOK'
    BY <2>1, MaxHeightAssumption DEF StoreInv, StoreTypeOK, Idle, Height
  <2>3. RootMatches' /\ UndoChain' /\ MetaNotBehind' /\ WorkListExact'
    BY <2>1 DEF StoreInv, RootMatches, UndoChain, MetaNotBehind, IsLast, WorkListExact, Idle
  <2> QED
    BY <2>2, <2>3 DEF StoreInv
<1>6. CASE UNCHANGED storeVars
  <2>1. UNCHANGED <<kv, hist, undo, meta, rb>> /\ Recorded' = Recorded
    BY <1>6 DEF storeVars, Recorded
  <2> QED
    BY <2>1 DEF StoreInv, StoreTypeOK, RootMatches, UndoChain, MetaNotBehind, IsLast,
       WorkListExact
<1> QED
  BY <1>1, <1>2, <1>3, <1>4, <1>5, <1>6 DEF StoreNext
----------------------------------------------------------------------------
(* Theorems *)

(* The invariant holds in every reachable state of the store, through any  *)
(* sequence of commits, rollbacks and crashes.                             *)
THEOREM StoreInvariant == StoreSpec => []StoreInv
  BY InitInv, NextInv, PTL DEF StoreSpec

(* RocksState: the store's variables always have their types.              *)
THEOREM StoreTypeCorrect == StoreSpec => []StoreTypeOK
<1>1. StoreInv => StoreTypeOK
  BY DEF StoreInv
<1> QED
  BY <1>1, StoreInvariant, PTL

(* commit_block and rollback_to: the database is at all times, crashes     *)
(* included, the state whose root the last height record carries.          *)
THEOREM StoreRootMatches == StoreSpec => []RootMatches
<1>1. StoreInv => RootMatches
  BY DEF StoreInv
<1> QED
  BY <1>1, StoreInvariant, PTL

(* commit_block: every journal on disk undoes its block exactly.           *)
THEOREM StoreUndoChain == StoreSpec => []UndoChain
<1>1. StoreInv => UndoChain
  BY DEF StoreInv
<1> QED
  BY <1>1, StoreInvariant, PTL

(* rollback_to: m:h is never below a height record.                        *)
THEOREM StoreMetaNotBehind == StoreSpec => []MetaNotBehind
<1>1. StoreInv => MetaNotBehind
  BY DEF StoreInv
<1> QED
  BY <1>1, StoreInvariant, PTL
----------------------------------------------------------------------------
(* A completed rollback *)

(* The cells already written by a rollback in its last phase hold their    *)
(* final values.                                                           *)
MetaProgress ==
  /\ rb.pc \in {"m:b", "m:r"} => meta.h = TargetMeta.h
  /\ rb.pc = "m:r" => meta.b = TargetMeta.b

LEMMA MetaProgressInv ==
  StoreInv /\ MetaProgress /\ [StoreNext]_storeVars => MetaProgress'
<1> SUFFICES ASSUME StoreInv, MetaProgress, [StoreNext]_storeVars
             PROVE  MetaProgress'
  OBVIOUS
<1>1. /\ meta \in [h : Height \union {None}, b : Hash \union {None},
                  r : StateRoot \union {None}]
      /\ rb \in [pc : {"idle", "undo", "m:b", "m:r"}, target : Height,
                 left : SUBSET Height]
  BY DEF StoreInv, StoreTypeOK
<1>2. ASSUME hist' = hist PROVE TargetMeta' = TargetMeta
  BY <1>2 DEF TargetMeta, Recorded, IsLast
<1>3. CASE \E h \in Height, hash \in Hash, c \in BlockCommit : next_block(h, hash, c)
  BY <1>3 DEF next_block, commit_block, MetaProgress
<1>4. CASE \E target \in Height : rollback_to(target)
  BY <1>4 DEF rollback_to, MetaProgress
<1>5. CASE \E h \in Height : rollback_height(h)
  BY <1>1, <1>5 DEF rollback_height, MetaProgress
<1>6. CASE restore_m_h \/ restore_m_b \/ restore_m_r
  <2>1. TargetMeta' = TargetMeta
    BY <1>2, <1>6 DEF restore_m_h, restore_m_b, restore_m_r
  <2>2. CASE restore_m_h
    BY <1>1, <2>1, <2>2 DEF restore_m_h, MetaProgress
  <2>3. CASE restore_m_b
    BY <1>1, <2>1, <2>3 DEF restore_m_b, MetaProgress
  <2>4. CASE restore_m_r
    BY <1>1, <2>1, <2>4 DEF restore_m_r, MetaProgress, Idle
  <2> QED
    BY <1>6, <2>2, <2>3, <2>4
<1>7. CASE crash
  BY <1>7 DEF crash, MetaProgress, Idle
<1>8. CASE UNCHANGED storeVars
  BY <1>2, <1>8 DEF storeVars, MetaProgress
<1> QED
  BY <1>3, <1>4, <1>5, <1>6, <1>7, <1>8 DEF StoreNext

(* The last of the three metadata writes completes the picture.            *)
LEMMA RestoreDone ==
  ASSUME StoreInv, MetaProgress, restore_m_r
  PROVE  MetaNamesLast'
<1>1. /\ kv' = kv /\ hist' = hist /\ Recorded' = Recorded
      /\ \A h : IsLast(h)' <=> IsLast(h)
  BY DEF restore_m_r, Recorded, IsLast
<1>2. /\ meta.h = TargetMeta.h /\ meta.b = TargetMeta.b
      /\ meta' = [meta EXCEPT !.r = TargetMeta.r]
      /\ meta \in [h : Height \union {None}, b : Hash \union {None},
                   r : StateRoot \union {None}]
  BY DEF MetaProgress, restore_m_r, StoreInv, StoreTypeOK
<1>3. meta' = [h |-> TargetMeta.h, b |-> TargetMeta.b, r |-> TargetMeta.r]
  BY <1>2
<1>4. CASE Recorded = {} /\ TargetMeta = [h |-> None, b |-> None, r |-> None]
  BY <1>1, <1>3, <1>4 DEF MetaNamesLast
<1>5. CASE Recorded # {}
  <2>1. PICK g \in Recorded :
            /\ IsLast(g)
            /\ TargetMeta = [h |-> g, b |-> hist[g].zcash_block_hash,
                            r |-> hist[g].state_root]
            /\ hist[g].state_root = kv
    BY <1>5, TargetMetaLast
  <2> QED
    BY <1>1, <1>3, <2>1 DEF compute_root, MetaNamesLast
<1> QED
  BY <1>4, <1>5, TargetMetaLast

(* rollback_to: when its last write is made, the three cells name the last *)
(* height record and the root of the database.                             *)
THEOREM StoreRollbackRestoresMeta == StoreSpec => RollbackRestoresMeta
<1>1. StoreInit => MetaProgress
  BY DEF StoreInit, MetaProgress, Idle
<1>2. StoreInv /\ MetaProgress /\ [StoreNext]_storeVars
        => [restore_m_r => MetaNamesLast']_storeVars
  BY RestoreDone
<1> QED
  BY <1>1, <1>2, StoreInvariant, MetaProgressInv, PTL DEF StoreSpec, RollbackRestoresMeta
----------------------------------------------------------------------------
(* Refinement *)

VersionsOf == [h \in Height |-> IF hist[h] = None THEN None ELSE hist[h].state_root]

(* In a typed state the saved versions are exactly the height records.     *)
LEMMA SavedIsRecorded ==
  ASSUME StoreTypeOK
  PROVE  /\ Versions!Saved = Recorded
         /\ \A h \in Recorded : VersionsOf[h] = hist[h].state_root
<1>1. \A h \in Recorded : hist[h].state_root \in State /\ hist[h].state_root # None
  BY NoneAssumption DEF StoreTypeOK, HeightRecord, StateRoot, Recorded
<1> QED
  BY <1>1 DEF Versions!Saved, Recorded, VersionsOf

(* RocksState implements the stack of versions: a commit saves a version,  *)
(* each rollback batch drops the top one and the database is then the      *)
(* version below, and every other step, a crash included, changes nothing. *)
THEOREM StoreImplementsVersions == StoreSpec => ImplementsVersions
<1>1. StoreInit => Versions!VersionInit
  BY DEF StoreInit, Versions!VersionInit
<1>2. ASSUME StoreInv, StoreInv', [StoreNext]_storeVars
      PROVE  [Versions!VersionNext]_(Versions!versionVars)
  <2>1. Versions!Saved = Recorded /\ (\A h \in Recorded : VersionsOf[h] = hist[h].state_root)
    BY <1>2, SavedIsRecorded DEF StoreInv
  <2>2. ASSUME NEW h \in Height, NEW hash \in Hash, NEW c \in BlockCommit,
               next_block(h, hash, c)
        PROVE  Versions!VersionNext
    <3>1. kv \in State /\ kv' \in State /\ projected_root(kv, c) = kv'
      BY <1>2, <2>2, ApplyMatchesProjected
      DEF StoreInv, StoreTypeOK, next_block, commit_block, compute_root
    <3>2. hist' = [hist EXCEPT ![h] = [zcash_block_hash |-> hash, state_root |-> kv']]
      BY <2>2, <3>1 DEF next_block, commit_block
    <3>3. VersionsOf' = [VersionsOf EXCEPT ![h] = kv']
      <4>1. hist'[h] # None
        BY <1>2, <3>1, <3>2, NoneAssumption DEF StoreInv, StoreTypeOK, HeightRecord, StateRoot
      <4> QED
        BY <1>2, <3>2, <4>1 DEF VersionsOf, StoreInv, StoreTypeOK
    <3>4. \A g \in Recorded : g < h
      BY <1>2, <2>2, NoneAssumption
      DEF StoreInv, StoreTypeOK, MetaNotBehind, next_block, Recorded, Height
    <3>5. kv' # None
      BY <3>1, NoneAssumption
    <3> QED
      BY <2>1, <3>3, <3>4, <3>5
      DEF Versions!VersionNext, Versions!SaveVersion, VersionsOf
  <2>3. ASSUME NEW h \in Height, rollback_height(h)
        PROVE  Versions!VersionNext
    <3>1. /\ hist \in [Height -> HeightRecord \union {None}]
          /\ Recorded \subseteq Int
          /\ rb.left = {g \in Recorded : g > rb.target}
          /\ h \in Int /\ rb.target \in Int
      BY <1>2, <2>3 DEF StoreInv, StoreTypeOK, WorkListExact, rollback_height, Recorded, Height
    <3>2. h \in Recorded /\ IsLast(h) /\ undo[h] # None
      BY <1>2, <2>3, <3>1 DEF rollback_height, IsLast, StoreInv, UndoChain
    <3>3. hist[h].state_root = kv
      <4>1. PICK g \in Recorded : IsLast(g) /\ hist[g].state_root = kv
        BY <1>2, <3>2 DEF StoreInv, RootMatches, compute_root
      <4>2. g = h
        BY <3>1, <3>2, <4>1 DEF IsLast
      <4> QED
        BY <4>1, <4>2
    <3>4. /\ kv' = RestoreBatch(hist[h].state_root, undo[h])
          /\ hist' = [hist EXCEPT ![h] = None]
      BY <2>3, <3>2, <3>3 DEF rollback_height
    <3>5. VersionsOf' = [VersionsOf EXCEPT ![h] = None]
      BY <3>1, <3>4 DEF VersionsOf
    <3>6. Versions!IsTopVersion(h)
      BY <2>1, <3>2 DEF Versions!IsTopVersion, IsLast
    <3>7. \/ Recorded = {h} /\ kv' = EmptyState
          \/ \E g \in Recorded : /\ g < h
                                 /\ \A f \in Recorded : f < h => f <= g
                                 /\ kv' = VersionsOf[g]
      <4>1. CASE /\ \A g \in Recorded : g >= h
                 /\ RestoreBatch(hist[h].state_root, undo[h]) = EmptyState
        <5>1. ASSUME NEW g \in Recorded PROVE g = h
          <6>1. g \in Int /\ h \in Int
            BY <3>1
          <6>2. g <= h /\ g >= h
            BY <3>2, <4>1 DEF IsLast
          <6> QED
            BY <6>1, <6>2
        <5>2. Recorded = {h}
          BY <3>2, <5>1
        <5> QED
          BY <3>4, <4>1, <5>2
      <4>2. CASE \E g \in Recorded :
                    /\ g < h
                    /\ \A f \in Recorded : f < h => f <= g
                    /\ RestoreBatch(hist[h].state_root, undo[h]) = hist[g].state_root
        BY <2>1, <3>4, <4>2
      <4> QED
        BY <1>2, <3>2, <4>1, <4>2 DEF StoreInv, UndoChain
    <3>8. Versions!DropVersion(h)
      BY <2>1, <3>5, <3>6, <3>7 DEF Versions!DropVersion, VersionsOf
    <3> QED
      BY <3>8 DEF Versions!VersionNext
  <2>4. ASSUME UNCHANGED <<kv, hist>>
        PROVE  UNCHANGED Versions!versionVars
    BY <2>4 DEF Versions!versionVars
  <2> QED
    BY <1>2, <2>2, <2>3, <2>4
    DEF StoreNext, storeVars, rollback_to, restore_m_h, restore_m_b, restore_m_r, crash
<1> QED
  BY <1>1, <1>2, StoreInvariant, PTL DEF StoreSpec, ImplementsVersions, Versions!VersionSpec
=============================================================================
