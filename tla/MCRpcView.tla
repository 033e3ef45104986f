----------------------------- MODULE MCRpcView -----------------------------
(***************************************************************************)
(* RpcView on the chains and contracts of MCSync.                          *)
(***************************************************************************)
EXTENDS RpcView, MCSync
=============================================================================
