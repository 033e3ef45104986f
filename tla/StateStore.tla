----------------------------- MODULE StateStore -----------------------------
(***************************************************************************)
(* RocksState, the persistent contract-state store                         *)
(* (crates/zalkanes-state/src/lib.rs): the database contents, one height   *)
(* record and one undo journal per indexed block, and the three metadata   *)
(* cells m:h, m:b, m:r.  commit_block lands in one atomic write batch;     *)
(* rollback_to is one batch per undone height followed by three separate   *)
(* metadata writes, and the process may die between any two of them.       *)
(*                                                                         *)
(* Data abstraction.  c:<contract> and s:<contract><key> entries are the   *)
(* members of DbKey.  A BlockCommit is the value each key is last put to   *)
(* (deploys and upserts; NoOp where none) and the set of deleted storage   *)
(* keys: RocksState reads every `prev` from the database and never from    *)
(* the pending batch, so all records of one class for one key are equal    *)
(* and only the order of the classes matters.  A state root is the state   *)
(* it hashes (the hash is taken to be collision-free).                     *)
(***************************************************************************)
EXTENDS Integers

CONSTANTS
  ContractKey,   \* c:<contract> database keys
  StorageKey,    \* s:<contract><key> database keys
  Value,         \* code and storage values
  Absent,        \* no entry under this key
  NoOp,          \* a commit or a journal does not mention this key
  Hash,          \* Zcash block hashes
  None,          \* an absent metadata cell, height record or journal
  MaxHeight      \* bound on block heights (u32::MAX in the program)

ASSUME MaxHeightAssumption == MaxHeight \in Nat
ASSUME AbsentAssumption == Absent \notin Value
ASSUME NoOpAssumption == NoOp \notin Value \union {Absent}
VARIABLES
  kv,      \* database contents under the c: and s: prefixes
  hist,    \* h:<height> records
  undo,    \* u:<height> journals
  meta,    \* the cells m:h, m:b, m:r
  rb       \* where a running rollback_to stands; volatile

storeVars == <<kv, hist, undo, meta, rb>>
----------------------------------------------------------------------------
Height == 0..MaxHeight
DbKey  == ContractKey \union StorageKey
State  == [DbKey -> Value \union {Absent}]

\* Every root a store can report is some state.
StateRoot == State

HeightRecord == [zcash_block_hash : Hash, state_root : StateRoot]

BlockCommit == [put : [DbKey -> Value \union {NoOp}], del : SUBSET StorageKey]

\* The commit of a block that writes nothing.
EmptyCommit == [put |-> [k \in DbKey |-> NoOp], del |-> {}]

UndoJournal == [set : [DbKey -> Value \union {Absent, NoOp}],
                del : [DbKey -> Value \union {NoOp}]]

EmptyState == [k \in DbKey |-> Absent]

ASSUME NoneAssumption ==
  None \notin Height \union Hash \union State \union HeightRecord \union UndoJournal
----------------------------------------------------------------------------
(* The root of a state, and the root the state would have after a commit:  *)
(* deploys and upserts first, then deletes.                                *)

compute_root(m) == m

projected_root(m, c) ==
  compute_root([k \in DbKey |-> IF k \in c.del THEN Absent
                                ELSE IF c.put[k] # NoOp THEN c.put[k]
                                ELSE m[k]])

\* The value a delete removes: the same commit's put if it has one, else
\* what the database holds.
Effective(m, c, k) == IF c.put[k] # NoOp THEN c.put[k] ELSE m[k]

\* The write batch itself: a delete that would remove nothing is not in it.
ApplyBatch(m, c) ==
  [k \in DbKey |-> IF k \in c.del /\ Effective(m, c, k) # Absent THEN Absent
                   ELSE IF c.put[k] # NoOp THEN c.put[k]
                   ELSE m[k]]

\* Faulty variant: deletes are not journaled.
UndoOf_no_deletes(m, c) ==
  [set |-> [k \in DbKey |-> IF c.put[k] # NoOp THEN m[k] ELSE NoOp],
   del |-> [k \in DbKey |-> NoOp]]

\* The journal of a commit: puts remember what the DATABASE held, deletes
\* remember the effective value.
UndoOf(m, c) ==
  [set |-> [k \in DbKey |-> IF c.put[k] # NoOp THEN m[k] ELSE NoOp],
   del |-> [k \in DbKey |-> IF k \in c.del /\ Effective(m, c, k) # Absent
                            THEN Effective(m, c, k) ELSE NoOp]]

\* Faulty variant: the journal is applied in forward order.
RestoreBatch_forward(m, u) ==
  [k \in DbKey |-> IF u.del[k] # NoOp THEN u.del[k]
                   ELSE IF u.set[k] # NoOp THEN u.set[k]
                   ELSE m[k]]

\* The journal applied in reverse order: deletes are put back first, then
\* puts are undone, so for a key in both the put's record wins.
RestoreBatch(m, u) ==
  [k \in DbKey |-> IF u.set[k] # NoOp THEN u.set[k]
                   ELSE IF u.del[k] # NoOp THEN u.del[k]
                   ELSE m[k]]
----------------------------------------------------------------------------
Recorded == {h \in Height : hist[h] # None}

\* height_history().last(): the highest height record.
IsLast(h) == h \in Recorded /\ \A g \in Recorded : g <= h

Idle == [pc |-> "idle", target |-> 0, left |-> {}]

StoreInit ==
  /\ kv = EmptyState
  /\ hist = [h \in Height |-> None]
  /\ undo = [h \in Height |-> None]
  /\ meta = [h |-> None, b |-> None, r |-> None]
  /\ rb = Idle

\* commit_block: data, journal, height record and metadata in one batch.
\* The projected root is recorded; the cross-check after the write compares
\* it with what was applied (ApplyMatchesProjected: they never differ).
commit_block(h, hash, c) ==
  /\ rb.pc = "idle"
  /\ kv' = ApplyBatch(kv, c)
  /\ undo' = [undo EXCEPT ![h] = UndoOf(kv, c)]
  /\ hist' = [hist EXCEPT ![h] = [zcash_block_hash |-> hash,
                                  state_root |-> projected_root(kv, c)]]
  /\ meta' = [h |-> h, b |-> hash, r |-> projected_root(kv, c)]
  /\ UNCHANGED rb

\* Faulty variant: m:h is lowered before the first batch.
rollback_to_meta_first(target) ==
  /\ rb.pc = "idle"
  /\ rb' = [pc |-> "undo", target |-> target,
            left |-> {h \in Recorded : h > target}]
  /\ meta' = [meta EXCEPT !.h = target]
  /\ UNCHANGED <<kv, hist, undo>>

\* rollback_to: the heights to undo are listed once, before the first batch.
rollback_to(target) ==
  /\ rb.pc = "idle"
  /\ rb' = [pc |-> "undo", target |-> target,
            left |-> {h \in Recorded : h > target}]
  /\ UNCHANGED <<kv, hist, undo, meta>>

\* Faulty variant: the lowest height is undone first.
rollback_height_lowest(h) ==
  /\ rb.pc = "undo"
  /\ h \in rb.left
  /\ \A g \in rb.left : h <= g
  /\ rb' = [rb EXCEPT !.left = rb.left \ {h}]
  /\ undo[h] # None
  /\ kv' = RestoreBatch(kv, undo[h])
  /\ hist' = [hist EXCEPT ![h] = None]
  /\ undo' = [undo EXCEPT ![h] = None]
  /\ UNCHANGED meta

\* One iteration of its loop, highest height first: the journal is applied
\* and deleted together with the height record, in one batch.  A height with
\* no journal is passed over.
rollback_height(h) ==
  /\ rb.pc = "undo"
  /\ h \in rb.left
  /\ \A g \in rb.left : g <= h
  /\ rb' = [rb EXCEPT !.left = rb.left \ {h}]
  /\ IF undo[h] # None
     THEN /\ kv' = RestoreBatch(kv, undo[h])
          /\ hist' = [hist EXCEPT ![h] = None]
          /\ undo' = [undo EXCEPT ![h] = None]
     ELSE UNCHANGED <<kv, hist, undo>>
  /\ UNCHANGED meta

\* What the three metadata writes at the end of rollback_to restore: the
\* last remaining height record, or no cell at all.
TargetMeta == IF Recorded = {} THEN [h |-> None, b |-> None, r |-> None]
              ELSE LET h == CHOOSE x \in Recorded : IsLast(x)
                   IN [h |-> h, b |-> hist[h].zcash_block_hash,
                       r |-> hist[h].state_root]

\* Faulty variant: the target height is stored, with a record there or not.
restore_m_h_target ==
  /\ rb.pc = "undo" /\ rb.left = {}
  /\ meta' = [meta EXCEPT !.h = rb.target]
  /\ rb' = [rb EXCEPT !.pc = "m:b"]
  /\ UNCHANGED <<kv, hist, undo>>

restore_m_h ==
  /\ rb.pc = "undo" /\ rb.left = {}
  /\ meta' = [meta EXCEPT !.h = TargetMeta.h]
  /\ rb' = [rb EXCEPT !.pc = "m:b"]
  /\ UNCHANGED <<kv, hist, undo>>

\* Faulty variant: the root goes into the hash cell.
restore_m_b_root ==
  /\ rb.pc = "m:b"
  /\ meta' = [meta EXCEPT !.b = TargetMeta.r]
  /\ rb' = [rb EXCEPT !.pc = "m:r"]
  /\ UNCHANGED <<kv, hist, undo>>

restore_m_b ==
  /\ rb.pc = "m:b"
  /\ meta' = [meta EXCEPT !.b = TargetMeta.b]
  /\ rb' = [rb EXCEPT !.pc = "m:r"]
  /\ UNCHANGED <<kv, hist, undo>>

\* Faulty variant: the root cell is forgotten.
restore_m_r_forgotten ==
  /\ rb.pc = "m:r"
  /\ rb' = Idle
  /\ UNCHANGED <<kv, hist, undo, meta>>

restore_m_r ==
  /\ rb.pc = "m:r"
  /\ meta' = [meta EXCEPT !.r = TargetMeta.r]
  /\ rb' = Idle
  /\ UNCHANGED <<kv, hist, undo>>

\* The process dies (or a write fails and the node exits): the database
\* keeps every batch and every put that was made.
crash ==
  /\ rb' = Idle
  /\ UNCHANGED <<kv, hist, undo, meta>>

\* The store's caller, the sync loop: it commits above the indexed height and
\* rolls back to any height.
next_block(h, hash, c) ==
  /\ meta.h # None => h > meta.h
  /\ commit_block(h, hash, c)

StoreNext ==
  \/ \E h \in Height, hash \in Hash, c \in BlockCommit : next_block(h, hash, c)
  \/ \E target \in Height : rollback_to(target)
  \/ \E h \in Height : rollback_height(h)
  \/ restore_m_h
  \/ restore_m_b
  \/ restore_m_r
  \/ crash

StoreSpec == StoreInit /\ [][StoreNext]_storeVars
----------------------------------------------------------------------------
(* The type of the store's state. *)
StoreTypeOK ==
  /\ kv \in State
  /\ hist \in [Height -> HeightRecord \union {None}]
  /\ undo \in [Height -> UndoJournal \union {None}]
  /\ meta \in [h : Height \union {None}, b : Hash \union {None},
               r : StateRoot \union {None}]
  /\ rb \in [pc : {"idle", "undo", "m:b", "m:r"}, target : Height,
             left : SUBSET Height]

(* In every state, also in the middle of a rollback and after a crash at    *)
(* any point of it, the database is exactly the state whose root the last   *)
(* height record carries (empty if there is none): commit_block and each    *)
(* batch of rollback_to move data and record together.                      *)
RootMatches ==
  \/ Recorded = {} /\ kv = EmptyState
  \/ \E h \in Recorded : IsLast(h) /\ hist[h].state_root = compute_root(kv)

(* Every journal on disk undoes its block exactly: applied to the state the *)
(* block left behind it yields the state below it, for puts, overwrites,    *)
(* deletes and keys a single block both put and deleted.                    *)
UndoChain ==
  \A h \in Recorded :
    /\ undo[h] # None
    /\ \/ /\ \A g \in Recorded : g >= h
          /\ RestoreBatch(hist[h].state_root, undo[h]) = EmptyState
       \/ \E g \in Recorded :
             /\ g < h
             /\ \A f \in Recorded : f < h => f <= g
             /\ RestoreBatch(hist[h].state_root, undo[h]) = hist[g].state_root

(* The indexed height in m:h is never below a height record, so the next    *)
(* block the loop commits can never overwrite a record and its journal,     *)
(* however a rollback was interrupted.                                      *)
MetaNotBehind ==
  \A h \in Recorded : meta.h # None /\ h <= meta.h

\* The metadata names the last height record: its height, its block hash
\* and the root of the database.
MetaNamesLast ==
  \/ Recorded = {} /\ meta = [h |-> None, b |-> None, r |-> None]
  \/ \E h \in Recorded :
        /\ IsLast(h)
        /\ meta = [h |-> h, b |-> hist[h].zcash_block_hash, r |-> compute_root(kv)]

(* A rollback_to that runs to its end leaves the metadata naming the last   *)
(* height record, whatever an earlier interrupted rollback had left there.  *)
RollbackRestoresMeta == [][restore_m_r => MetaNamesLast']_storeVars

(* The store implements a stack of versions, one per indexed height.        *)
Versions == INSTANCE VersionedState WITH
  Empty <- EmptyState, NoVersion <- None, cur <- kv,
  versions <- [h \in Height |-> IF hist[h] = None THEN None ELSE hist[h].state_root]

ImplementsVersions == Versions!VersionSpec
=============================================================================
