------------------------------- MODULE MCSync -------------------------------
(***************************************************************************)
(* A small instance of Sync: a trunk a1-a2-a3, a fork b2-b3 above a1 and a *)
(* fork d1-d2-d3 from the start; the second block of a chain writes s1,    *)
(* the third copies what it finds there and may delete it, so a block      *)
(* missed, repeated or executed over the wrong state shows in the state.   *)
(***************************************************************************)
EXTENDS Sync

CONSTANTS a1, a2, a3, b2, b3, d1, d2, d3, s1, s2, v1, v2, v3, t1, t2

MCHash == {a1, a2, a3, b2, b3, d1, d2, d3}
MCChains == {<<a1>>, <<a1, a2>>, <<a1, a2, a3>>, <<a1, b2>>, <<a1, b2, b3>>,
             <<d1>>, <<d1, d2>>, <<d1, d2, d3>>}
MCStorageKey == {s1, s2}
MCValue == {v1, v2, v3}
MCTxId == {t1, t2}

\* t1 is mined in a2 and again in b2; t2 only on the trunk and in d3.
MCCallsIn == [b \in MCHash |-> CASE b \in {a2, b2} -> {t1}
                                 [] b \in {a3, d3} -> {t2}
                                 [] OTHER -> {}]

Put(k, v) == [x \in MCStorageKey |-> IF x = k THEN v ELSE NoOp]

MCExecBlock(b, m) ==
  CASE b = a2 -> [put |-> Put(s1, v1), del |-> {}]
    [] b = b2 -> [put |-> Put(s1, v2), del |-> {s1, s2}]
    [] b = d2 -> [put |-> Put(s1, v3), del |-> {s2}]
    [] b = a3 -> [put |-> IF m[s1] = Absent THEN Put(s2, v3) ELSE Put(s2, m[s1]),
                  del |-> {s1}]
    [] b = b3 -> [put |-> IF m[s1] = Absent THEN Put(s2, v1) ELSE Put(s2, m[s1]),
                  del |-> {}]
    [] b = d3 -> [put |-> IF m[s1] = Absent THEN Put(s1, v1) ELSE Put(s2, m[s1]),
                  del |-> {s1}]
    [] OTHER -> [put |-> [x \in MCStorageKey |-> NoOp], del |-> {}]
=============================================================================
