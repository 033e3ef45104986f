--------------------------- MODULE MCWalletSpend ---------------------------
(***************************************************************************)
(* WalletSpend for TLC: plans and notes are interchangeable.               *)
(***************************************************************************)
EXTENDS WalletSpend, TLC

WalletSymmetry == Permutations(Plan) \union Permutations(Note)

\* Plans interact through the notes they share.  One plan is taken through two
\* reorganisations, and through one when it spends two notes; a second plan over
\* the same note, begun once a transaction is out, through one; and two plans
\* select the same note at once on a chain that only grows, between two passes
\* of recovery.
Begun == {p \in Plan : run[p].pc # "idle"}
Alive == {p \in Plan : run[p].pc \notin OverPcs}
OneNote ==
  Cardinality({n \in Note : locks[n].owner # None \/ \E p \in Plan : n \in run[p].inputs}) <= 1

Scope ==
  \/ Cardinality(Begun) <= 1 /\ (OneNote \/ tip.b <= 1)
  \/ Cardinality(Alive) <= 1 /\ OneNote /\ tip.b <= 1 /\ \E p \in Plan : net[p].at # "none"
  \/ OneNote /\ tip.b = 0 /\ rec.pc = "idle" /\ \A p \in Plan : run[p].rounds <= 1
=============================================================================
