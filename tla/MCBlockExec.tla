---------------------------- MODULE MCBlockExec ----------------------------
(***************************************************************************)
(* Two contracts, the first with two storage keys; budgets so small that   *)
(* each of them is reached by a block of two transactions.                 *)
(***************************************************************************)
EXTENDS BlockExec

CONSTANTS c1, c2, s1, s2, v1, v2

MCContractKey == {c1, c2}
MCStorageKey == {s1, s2}
MCOwner == [k \in MCStorageKey |-> c1]
MCCodeOf == [c \in MCContractKey |-> v1]
MCCodeLength == [c \in MCContractKey |-> IF c = c1 THEN 1 ELSE 2]
=============================================================================
