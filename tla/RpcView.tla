------------------------------ MODULE RpcView ------------------------------
(***************************************************************************)
(* zalkanes_view (crates/zalkanes-rpc/src/lib.rs) next to the indexing     *)
(* loop.  A view takes the state's read lock three times: for the height   *)
(* it reports, for the root it reports, and for the execution itself.  The *)
(* loop holds the write lock from the start of a commit or rollback to its *)
(* end, so it can run in between.  The contract that is run is left out:   *)
(* what matters is the state it reads.                                     *)
(***************************************************************************)
EXTENDS Sync

VARIABLE view    \* one client request: where it stands and what it has read

rpcVars == <<syncVars, view>>

NoView == [pc |-> "idle", height |-> None, root |-> None, ran_on |-> None]

RpcInit == SyncInit /\ view = NoView

view_height ==
  /\ view.pc = "idle"
  /\ LockFree
  /\ view' = [view EXCEPT !.pc = "root", !.height = meta.h]
  /\ UNCHANGED syncVars

view_root ==
  /\ view.pc = "root"
  /\ LockFree
  /\ view' = [view EXCEPT !.pc = "execute", !.root = compute_root(kv)]
  /\ UNCHANGED syncVars

view_execute ==
  /\ view.pc = "execute"
  /\ LockFree
  /\ view' = [view EXCEPT !.pc = "reply", !.ran_on = kv]
  /\ UNCHANGED syncVars

view_reply ==
  /\ view.pc = "reply"
  /\ view' = NoView
  /\ UNCHANGED syncVars

ViewStep == view_height \/ view_root \/ view_execute \/ view_reply

\* A crash drops the connection and the request with it.
RpcNext ==
  \/ ViewStep
  \/ (LoopStep \/ chain_grow \/ chain_reorg \/ fetch_failed) /\ UNCHANGED view
  \/ node_crash /\ view' = NoView

RpcSpec == RpcInit /\ [][RpcNext]_rpcVars
----------------------------------------------------------------------------
(* The root in a view's reply is the root of the state the contract was run *)
(* on.                                                                      *)
ViewDescribesState ==
  view.pc = "reply" => view.root = compute_root(view.ran_on)
=============================================================================
