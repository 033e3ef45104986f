------------------------- MODULE TransactionProofs --------------------------
(***************************************************************************)
(* Messages, deployments and their transactions, for every payload, every  *)
(* command and every length of module.                                     *)
(***************************************************************************)
EXTENDS Deployment, Messages, SequenceTheorems, WellFoundedInduction, TLAPS

(***************************************************************************)
(* The message codec.                                                      *)
(***************************************************************************)
\* A byte and a u16 are not changed by being cut to their width.
LEMMA Narrow ==
  /\ \A n \in 0..(U8 - 1) : n \in Nat /\ n % U8 = n
  /\ \A n \in 0..(U16 - 1) : n \in Nat /\ n % U16 = n
  BY DEF U8, U16

LEMMA DeployCanonical ==
  ASSUME NEW p, IsPayload(p), p.magic = 4, p.version = PROTOCOL_V0, p.type = MSG_DEPLOY,
         parse_deploy(p.body, p.size - HEADER) # Malformed
  PROVE  encode(parse_deploy(p.body, p.size - HEADER)) = p
<1> DEFINE b == p.body
<1>1. /\ p.size - HEADER = DEPLOY_BODY
      /\ parse_deploy(p.body, p.size - HEADER) = Message("deploy", b)
  BY DEF parse_deploy
<1>2. encode(Message("deploy", b)) = encode_deploy(b)
  BY DEF encode, Message
<1>3. /\ b = [hash |-> b.hash, length |-> b.length, count |-> b.count, index |-> b.index]
      /\ b.count % U8 = b.count /\ b.index % U16 = b.index
  <2>1. /\ b = [hash |-> b.hash, length |-> b.length, count |-> b.count, index |-> b.index]
        /\ b.count \in 0..(U8 - 1) /\ b.index \in 0..(U16 - 1)
    BY Zenon DEF IsPayload
  <2> QED
    BY <2>1, Narrow
<1>4. HEADER + DEPLOY_BODY = p.size
  BY <1>1 DEF IsPayload, HEADER, DEPLOY_BODY
<1>5. p = [magic |-> 4, version |-> PROTOCOL_V0, type |-> MSG_DEPLOY, body |-> b, size |-> p.size]
  BY Zenon DEF IsPayload
<1>6. encode_deploy(b) = p
  BY <1>3, <1>4, <1>5 DEF encode_deploy, Payload
<1> QED
  BY <1>1, <1>2, <1>6

LEMMA CallCanonical ==
  ASSUME NEW p, IsPayload(p), p.magic = 4, p.version = PROTOCOL_V0, p.type = MSG_CALL,
         parse_call(p.body, p.size - HEADER) # Malformed
  PROVE  encode(parse_call(p.body, p.size - HEADER)) = p
<1> DEFINE b == p.body
<1>1. /\ p.size - HEADER - CALL_BODY = b.length
      /\ parse_call(p.body, p.size - HEADER) = Message("call", b)
  BY DEF parse_call
<1>2. encode(Message("call", b)) = encode_call(b)
  BY DEF encode, Message
<1>3. /\ b = [id |-> b.id, opcode |-> b.opcode, length |-> b.length]
      /\ b.opcode % U16 = b.opcode /\ b.length % U16 = b.length /\ b.length \in Nat
  <2>1. /\ b = [id |-> b.id, opcode |-> b.opcode, length |-> b.length]
        /\ {b.opcode, b.length} \subseteq 0..(U16 - 1)
    BY Zenon DEF IsPayload
  <2>2. b.opcode \in 0..(U16 - 1) /\ b.length \in 0..(U16 - 1)
    BY <2>1, Zenon
  <2> QED
    BY <2>1, <2>2, Narrow
<1>4. HEADER + (CALL_BODY + b.length) = p.size
  BY <1>1, <1>3 DEF IsPayload, HEADER, CALL_BODY
<1>5. p = [magic |-> 4, version |-> PROTOCOL_V0, type |-> MSG_CALL, body |-> b, size |-> p.size]
  BY Zenon DEF IsPayload
<1>6. encode_call(b) = p
  BY <1>3, <1>4, <1>5 DEF encode_call, Payload
<1> QED
  BY <1>1, <1>2, <1>6

LEMMA CallCarrierCanonical ==
  ASSUME NEW p, IsPayload(p), p.magic = 4, p.version = PROTOCOL_V0, p.type = MSG_CALL_CARRIER,
         parse_call_carrier(p.body, p.size - HEADER) # Malformed
  PROVE  encode(parse_call_carrier(p.body, p.size - HEADER)) = p
<1> DEFINE b == p.body
<1>1. /\ p.size - HEADER = CALL_CARRIER_BODY
      /\ parse_call_carrier(p.body, p.size - HEADER) = Message("call_carrier", b)
  BY DEF parse_call_carrier
<1>2. encode(Message("call_carrier", b)) = encode_call_carrier(b)
  BY DEF encode, Message
<1>3. /\ b = [id |-> b.id, opcode |-> b.opcode, hash |-> b.hash, length |-> b.length,
              count |-> b.count]
      /\ b.opcode % U16 = b.opcode /\ b.count % U8 = b.count
  <2>1. /\ b = [id |-> b.id, opcode |-> b.opcode, hash |-> b.hash, length |-> b.length,
                count |-> b.count]
        /\ b.opcode \in 0..(U16 - 1) /\ b.count \in 0..(U8 - 1)
    BY Zenon DEF IsPayload
  <2> QED
    BY <2>1, Narrow
<1>4. HEADER + CALL_CARRIER_BODY = p.size
  BY <1>1 DEF IsPayload, HEADER, CALL_CARRIER_BODY
<1>5. p = [magic |-> 4, version |-> PROTOCOL_V0, type |-> MSG_CALL_CARRIER, body |-> b,
           size |-> p.size]
  BY Zenon DEF IsPayload
<1>6. encode_call_carrier(b) = p
  BY <1>3, <1>4, <1>5 DEF encode_call_carrier, Payload
<1> QED
  BY <1>1, <1>2, <1>6

\* What the parser does with a payload, up to its type byte.
LEMMA ParseCases ==
  ASSUME NEW p
  PROVE  \/ parse_op_return(p) \in {Skip, Malformed}
         \/ /\ p.magic = 4 /\ p.version = PROTOCOL_V0
            /\ \/ /\ p.type = MSG_DEPLOY
                  /\ parse_op_return(p) = parse_deploy(p.body, p.size - HEADER)
               \/ /\ p.type = MSG_CALL
                  /\ parse_op_return(p) = parse_call(p.body, p.size - HEADER)
               \/ /\ p.type = MSG_CALL_CARRIER
                  /\ parse_op_return(p) = parse_call_carrier(p.body, p.size - HEADER)
  BY DEF parse_op_return, MSG_DEPLOY, MSG_CALL, MSG_CALL_CARRIER

\* Every payload the parser accepts is the encoding of the message it returns
\* (parse_op_return and the three encoders, protocol lib.rs:97-290).
THEOREM MessagesCanonical == MessagesSpec => []ParseIsCanonical
<1>1. MessagesInit => payload \in Received
  BY DEF MessagesInit
<1>2. payload \in Received /\ [next_payload]_payload => (payload \in Received)'
  BY DEF next_payload
<1>3. ASSUME payload \in Received PROVE ParseIsCanonical
  <2>1. PICK p : p = payload
    OBVIOUS
  <2>2. IsPayload(p)
    BY <1>3, <2>1, ReceivedAssumption
  <2>3. Skip.is = "skip" /\ Malformed.is = "malformed"
    BY DEF Skip, Malformed
  <2>4. ASSUME parse_op_return(p).is \notin {"skip", "malformed"}
        PROVE  encode(parse_op_return(p)) = p
    <3>1. parse_op_return(p) # Skip /\ parse_op_return(p) # Malformed
      BY <2>3, <2>4
    <3> QED
      BY <2>2, <3>1, ParseCases, DeployCanonical, CallCanonical, CallCarrierCanonical
  <2> QED
    BY <2>1, <2>4 DEF ParseIsCanonical
<1> QED
  BY <1>1, <1>2, <1>3, PTL DEF MessagesSpec

(***************************************************************************)
(* What the indexer registers.                                             *)
(***************************************************************************)
\* A module that is put together again is the one the hash commits to.
LEMMA ReconstructedIsCommitted ==
  ASSUME NEW chunks, NEW count, NEW length, NEW hash, reconstruct(chunks, count, length, hash).ok
  PROVE  reconstruct(chunks, count, length, hash).wasm = hash
  BY DEF reconstruct, Refused

LEMMA HandledIsCommitted ==
  ASSUME NEW txid, NEW tx, NEW m, NEW c \in handle_deploy(txid, tx, m)
  PROVE  c.code = c.id.hash
<1>1. PICK r : r = reconstruct(CarriedChunks(tx), m.count, m.length, m.hash)
  OBVIOUS
<1>2. r.ok /\ c = [id |-> ContractId(txid, m.index, m.hash), code |-> r.wasm]
  BY <1>1 DEF handle_deploy
<1>3. r.wasm = m.hash
  BY <1>1, <1>2, ReconstructedIsCommitted
<1>4. c.code = r.wasm /\ c.id = ContractId(txid, m.index, m.hash)
  BY <1>2
<1> QED
  BY <1>3, <1>4 DEF ContractId

LEMMA IndexedHashes ==
  ASSUME NEW t, NEW c \in IndexedFrom(t)
  PROVE  c.code = c.id.hash
<1>1. PICK tx : tx = InBlock(t)
  OBVIOUS
<1>2. \E i \in DOMAIN tx.vout : \E m : c \in handle_deploy(Txid(t), tx, m)
  BY <1>1 DEF IndexedFrom
<1> QED
  BY <1>2, HandledIsCommitted

\* What a step registers comes from transactions in a block.
LEMMA Registers ==
  DeployNext => \A c \in contracts' : c \in contracts \/ \E t : c \in IndexedFrom(t)
<1> SUFFICES ASSUME DeployNext, NEW c \in contracts'
             PROVE  c \in contracts \/ \E t : c \in IndexedFrom(t)
  OBVIOUS
<1>1. CASE generate_to_address
  BY <1>1 DEF generate_to_address
<1>2. CASE new_block
  BY <1>2 DEF new_block
<1>3. CASE chain_reorg
  BY <1>3 DEF chain_reorg
<1>4. CASE UNCHANGED contracts
  BY <1>4
<1>5. generate_to_address \/ new_block \/ chain_reorg \/ UNCHANGED contracts
  <2>1. build_source => generate_to_address \/ UNCHANGED contracts
    BY DEF build_source, obtain_funding, make_shielded
  <2>2. confirm_tx => generate_to_address \/ UNCHANGED contracts
    BY DEF confirm_tx
  <2>3. (\/ size_request \/ make_plan \/ confirm \/ prove \/ sign \/ extract_verified
         \/ broadcast_verified \/ print_contract_id \/ wait_for_contract \/ run_again
         \/ disarm_session) => UNCHANGED contracts
    BY DEF size_request, make_plan, confirm, prove, sign, extract_verified,
           broadcast_verified, print_contract_id, wait_for_contract, run_again,
           disarm_session, nodeVars
  <2> QED
    BY <2>1, <2>2, <2>3 DEF DeployNext
<1> QED
  BY <1>1, <1>2, <1>3, <1>4, <1>5

\* A contract is registered under an id only with the bytes the id commits to,
\* whatever scriptSigs a block carries (handle_deploy and reconstruct).
THEOREM DeployIndexedIsCommitted == DeploySpec => []IndexedIsCommitted
<1>1. DeployInit => IndexedIsCommitted
  BY DEF DeployInit, IndexedIsCommitted
<1>2. IndexedIsCommitted /\ [DeployNext]_deployVars => IndexedIsCommitted'
  <2> SUFFICES ASSUME IndexedIsCommitted, [DeployNext]_deployVars, NEW c \in contracts'
               PROVE  c.code = c.id.hash
    BY DEF IndexedIsCommitted
  <2>1. c \in contracts \/ \E t : c \in IndexedFrom(t)
    BY Registers DEF deployVars
  <2> QED
    BY <2>1, IndexedHashes DEF IndexedIsCommitted
<1> QED
  BY <1>1, <1>2, PTL DEF DeploySpec
(***************************************************************************)
(* Sequences.                                                              *)
(***************************************************************************)
\* A set of naturals that is not empty has a least member.
LEMMA LeastOf ==
  ASSUME NEW T \in SUBSET Nat, T # {}
  PROVE  \E n \in T : \A m \in T : n <= m
<1> DEFINE R == OpToRel(<, Nat)
<1>1. PICK n \in T : \A m \in T : ~(<<m, n>> \in R)
  BY NatLessThanWellFounded, WFMin, Zenon
<1>2. \A m \in T : ~(m < n)
  BY <1>1 DEF OpToRel
<1> QED
  BY <1>2

\* Map and Each: the concatenation changes nothing.
LEMMA Listed ==
  ASSUME NEW n \in Nat, NEW f, f = [i \in 1..n |-> f[i]]
  PROVE  f \in Seq({f[i] : i \in 1..n}) /\ Len(f) = n /\ DOMAIN f = 1..n /\ <<>> \o f = f
<1> DEFINE S == {f[i] : i \in 1..n}
<1>1. f \in [1..n -> S]
  OBVIOUS
<1>2. f \in Seq(S) /\ Len(f) = n
  BY <1>1
<1> HIDE DEF S
<1>3. <<>> \o f = f
  BY <1>2
<1> QED
  BY <1>2, <1>3 DEF S

\* g adds up s, element by element.
Adds(g, s) == g[0] = 0 /\ \A i \in 1..Len(s) : g[i] = g[i - 1] + s[i]

LEMMA AddsExists ==
  ASSUME NEW s, Len(s) \in Nat
  PROVE  \E g : Adds(g, s) /\ g = [i \in 0..Len(s) |-> g[i]]
<1> DEFINE Good(g, k) == /\ g = [i \in 0..k |-> g[i]]
                         /\ g[0] = 0
                         /\ \A i \in 1..k : g[i] = g[i - 1] + s[i]
           B == {k \in 0..Len(s) : ~ \E g : Good(g, k)}
<1>1. B = {}
  <2> SUFFICES ASSUME B # {} PROVE FALSE
    OBVIOUS
  <2>1. B \in SUBSET Nat
    OBVIOUS
  <2>2. PICK k \in B : \A j \in B : k <= j
    BY <2>1, LeastOf
  <2>3. k \in 0..Len(s) /\ k \in Nat /\ ~ \E g : Good(g, k)
    OBVIOUS
  <2>4. CASE k = 0
    <3> DEFINE g == [i \in 0..0 |-> 0]
    <3>1. Good(g, k)
      BY <2>4
    <3> QED
      BY <2>3, <3>1
  <2>5. CASE k # 0
    <3>1. k - 1 \in 0..Len(s) /\ k - 1 \notin B /\ k \in 1..Len(s)
      <4>1. k - 1 \in 0..Len(s) /\ k \in 1..Len(s) /\ ~(k <= k - 1)
        BY <2>3, <2>5
      <4> HIDE DEF B
      <4> QED
        BY <2>2, <4>1
    <3>2. PICK g : Good(g, k - 1)
      BY <3>1
    <3> DEFINE f == [i \in 0..k |-> IF i = k THEN g[k - 1] + s[k] ELSE g[i]]
    <3>3. f[0] = 0
      BY <2>3, <2>5, <3>2
    <3>4. ASSUME NEW i \in 1..k PROVE f[i] = f[i - 1] + s[i]
      <4>1. f[i - 1] = g[i - 1]
        BY <2>3, <3>4
      <4>2. i # k => i \in 1..(k - 1) /\ f[i] = g[i]
        BY <2>3, <3>4
      <4>3. i = k => f[i] = g[k - 1] + s[k]
        BY <2>3
      <4> QED
        BY <3>2, <4>1, <4>2, <4>3
    <3>5. f = [i \in 0..k |-> f[i]]
      OBVIOUS
    <3> HIDE DEF f
    <3>6. Good(f, k)
      BY <3>3, <3>4, <3>5
    <3> QED
      BY <2>3, <3>6
  <2> QED
    BY <2>4, <2>5
<1>2. PICK g : Good(g, Len(s))
  BY <1>1
<1> QED
  BY <1>2 DEF Adds

\* Sum adds up.
LEMMA SumAdds ==
  ASSUME NEW s, Len(s) \in Nat
  PROVE  \E g : Adds(g, s) /\ Sum(s) = g[Len(s)]
<1> DEFINE Eqn(g) == g = [i \in 0..Len(s) |-> IF i = 0 THEN 0 ELSE g[i - 1] + s[i]]
           F == CHOOSE g : Eqn(g)
<1>1. Sum(s) = F[Len(s)]
  BY DEF Sum
<1>2. PICK g : Adds(g, s) /\ g = [i \in 0..Len(s) |-> g[i]]
  BY AddsExists
<1>3. Eqn(g)
  <2>1. \A i \in 0..Len(s) : g[i] = IF i = 0 THEN 0 ELSE g[i - 1] + s[i]
    <3>1. \A i \in 0..Len(s) : i # 0 => i \in 1..Len(s)
      OBVIOUS
    <3> QED
      BY <1>2, <3>1 DEF Adds
  <2> QED
    BY <1>2, <2>1
<1> HIDE DEF Eqn
<1>4. Eqn(F)
  BY <1>3
<1> HIDE DEF F
<1>5. Adds(F, s)
  <2>1. F = [i \in 0..Len(s) |-> IF i = 0 THEN 0 ELSE F[i - 1] + s[i]]
    BY <1>4 DEF Eqn
  <2>2. \A i \in 1..Len(s) : i \in 0..Len(s) /\ i # 0
    OBVIOUS
  <2>3. 0 \in 0..Len(s)
    OBVIOUS
  <2> QED
    BY <2>1, <2>2, <2>3 DEF Adds
<1> QED
  BY <1>1, <1>5

\* The sum of integers between two bounds.
LEMMA SumBounds ==
  ASSUME NEW n \in Nat, NEW s, Len(s) = n, NEW lo \in Int, NEW hi \in Int,
         \A i \in 1..n : s[i] \in Int /\ lo <= s[i] /\ s[i] <= hi
  PROVE  Sum(s) \in Int /\ n * lo <= Sum(s) /\ Sum(s) <= n * hi
<1>1. PICK g : Adds(g, s) /\ Sum(s) = g[n]
  BY SumAdds
<1> DEFINE B == {k \in 0..n : ~(g[k] \in Int /\ k * lo <= g[k] /\ g[k] <= k * hi)}
<1>2. B = {}
  <2> SUFFICES ASSUME B # {} PROVE FALSE
    OBVIOUS
  <2>1. B \in SUBSET Nat
    OBVIOUS
  <2>2. PICK k \in B : \A j \in B : k <= j
    BY <2>1, LeastOf
  <2>3. k \in 0..n /\ ~(g[k] \in Int /\ k * lo <= g[k] /\ g[k] <= k * hi)
    OBVIOUS
  <2>4. k # 0
    BY <1>1, <2>3 DEF Adds
  <2>5. k - 1 \in 0..n /\ k \in 1..n /\ ~(k <= k - 1)
    BY <2>3, <2>4
  <2>6. g[k - 1] \in Int /\ (k - 1) * lo <= g[k - 1] /\ g[k - 1] <= (k - 1) * hi
    <3>1. k - 1 \notin B
      <4> HIDE DEF B
      <4> QED
        BY <2>2, <2>5
    <3> QED
      BY <2>5, <3>1
  <2>7. g[k] = g[k - 1] + s[k] /\ s[k] \in Int /\ lo <= s[k] /\ s[k] <= hi
    BY <1>1, <2>5 DEF Adds
  <2>8. k * lo = (k - 1) * lo + lo /\ k * hi = (k - 1) * hi + hi
    BY <2>5
  <2>9. PICK a \in Int, b \in Int : a = (k - 1) * lo /\ b = (k - 1) * hi
    BY <2>5
  <2> QED
    BY <2>3, <2>6, <2>7, <2>8, <2>9
<1>3. n \in 0..n /\ n \notin B
  BY <1>2
<1>4. g[n] \in Int /\ n * lo <= g[n] /\ g[n] <= n * hi
  BY <1>3
<1> QED
  BY <1>1, <1>4, Zenon


\* g puts the spans of b behind a, one by one.
Joins(g, a, b) == g[0] = a /\ \A i \in 1..Len(b) : g[i] = Join(g[i - 1], b[i])

LEMMA JoinsExists ==
  ASSUME NEW a, NEW b, Len(b) \in Nat
  PROVE  \E g : Joins(g, a, b) /\ g = [i \in 0..Len(b) |-> g[i]]
<1> DEFINE Good(g, k) == /\ g = [i \in 0..k |-> g[i]]
                         /\ g[0] = a
                         /\ \A i \in 1..k : g[i] = Join(g[i - 1], b[i])
           B == {k \in 0..Len(b) : ~ \E g : Good(g, k)}
<1>1. B = {}
  <2> SUFFICES ASSUME B # {} PROVE FALSE
    OBVIOUS
  <2>1. B \in SUBSET Nat
    OBVIOUS
  <2>2. PICK k \in B : \A j \in B : k <= j
    BY <2>1, LeastOf
  <2>3. k \in 0..Len(b) /\ k \in Nat /\ ~ \E g : Good(g, k)
    OBVIOUS
  <2>4. CASE k = 0
    <3> DEFINE g == [i \in 0..0 |-> a]
    <3>1. Good(g, k)
      BY <2>4
    <3> QED
      BY <2>3, <3>1
  <2>5. CASE k # 0
    <3>1. k - 1 \in 0..Len(b) /\ k - 1 \notin B /\ k \in 1..Len(b)
      <4>1. k - 1 \in 0..Len(b) /\ k \in 1..Len(b) /\ ~(k <= k - 1)
        BY <2>3, <2>5
      <4> HIDE DEF B
      <4> QED
        BY <2>2, <4>1
    <3>2. PICK g : Good(g, k - 1)
      BY <3>1
    <3>3. PICK e : e = Join(g[k - 1], b[k])
      OBVIOUS
    <3> DEFINE f == [i \in 0..k |-> IF i = k THEN e ELSE g[i]]
    <3>4. f[0] = a
      BY <2>3, <2>5, <3>2
    <3>5. ASSUME NEW i \in 1..k PROVE f[i] = Join(f[i - 1], b[i])
      <4>1. f[i - 1] = g[i - 1]
        BY <2>3, <3>5
      <4>2. i # k => i \in 1..(k - 1) /\ f[i] = g[i]
        BY <2>3, <3>5
      <4>3. i = k => f[i] = e
        BY <2>3
      <4> HIDE DEF f
      <4> QED
        BY <3>2, <3>3, <4>1, <4>2, <4>3
    <3>6. f = [i \in 0..k |-> f[i]]
      OBVIOUS
    <3> HIDE DEF f
    <3>7. Good(f, k)
      BY <3>4, <3>5, <3>6
    <3> QED
      BY <2>3, <3>7
  <2> QED
    BY <2>4, <2>5
<1>2. PICK g : Good(g, Len(b))
  BY <1>1
<1> QED
  BY <1>2 DEF Joins

LEMMA CatJoins ==
  ASSUME NEW a, NEW b, Len(b) \in Nat
  PROVE  \E g : Joins(g, a, b) /\ Cat(a, b) = g[Len(b)]
<1> DEFINE Eqn(g) == g = [i \in 0..Len(b) |-> IF i = 0 THEN a ELSE Join(g[i - 1], b[i])]
           F == CHOOSE g : Eqn(g)
<1>1. Cat(a, b) = F[Len(b)]
  BY DEF Cat, Fold
<1>2. PICK g : Joins(g, a, b) /\ g = [i \in 0..Len(b) |-> g[i]]
  BY JoinsExists
<1>3. Eqn(g)
  <2>1. \A i \in 0..Len(b) : g[i] = IF i = 0 THEN a ELSE Join(g[i - 1], b[i])
    <3>1. \A i \in 0..Len(b) : i # 0 => i \in 1..Len(b)
      OBVIOUS
    <3> QED
      BY <1>2, <3>1 DEF Joins
  <2> QED
    BY <1>2, <2>1
<1> HIDE DEF Eqn
<1>4. Eqn(F)
  BY <1>3
<1> HIDE DEF F
<1>5. Joins(F, a, b)
  <2>1. F = [i \in 0..Len(b) |-> IF i = 0 THEN a ELSE Join(F[i - 1], b[i])]
    BY <1>4 DEF Eqn
  <2>2. \A i \in 1..Len(b) : i \in 0..Len(b) /\ i # 0
    OBVIOUS
  <2>3. 0 \in 0..Len(b)
    OBVIOUS
  <2> QED
    BY <2>1, <2>2, <2>3 DEF Joins
<1> QED
  BY <1>1, <1>5

\* g puts the parts together, one by one.
Collects(g, s) == g[0] = <<>> /\ \A i \in 1..Len(s) : g[i] = Cat(g[i - 1], s[i])

LEMMA CollectsExists ==
  ASSUME NEW s, Len(s) \in Nat
  PROVE  \E g : Collects(g, s) /\ g = [i \in 0..Len(s) |-> g[i]]
<1> DEFINE Good(g, k) == /\ g = [i \in 0..k |-> g[i]]
                         /\ g[0] = <<>>
                         /\ \A i \in 1..k : g[i] = Cat(g[i - 1], s[i])
           B == {k \in 0..Len(s) : ~ \E g : Good(g, k)}
<1>1. B = {}
  <2> SUFFICES ASSUME B # {} PROVE FALSE
    OBVIOUS
  <2>1. B \in SUBSET Nat
    OBVIOUS
  <2>2. PICK k \in B : \A j \in B : k <= j
    BY <2>1, LeastOf
  <2>3. k \in 0..Len(s) /\ k \in Nat /\ ~ \E g : Good(g, k)
    OBVIOUS
  <2>4. CASE k = 0
    <3> DEFINE g == [i \in 0..0 |-> <<>>]
    <3>1. Good(g, k)
      BY <2>4
    <3> QED
      BY <2>3, <3>1
  <2>5. CASE k # 0
    <3>1. k - 1 \in 0..Len(s) /\ k - 1 \notin B /\ k \in 1..Len(s)
      <4>1. k - 1 \in 0..Len(s) /\ k \in 1..Len(s) /\ ~(k <= k - 1)
        BY <2>3, <2>5
      <4> HIDE DEF B
      <4> QED
        BY <2>2, <4>1
    <3>2. PICK g : Good(g, k - 1)
      BY <3>1
    <3>3. PICK e : e = Cat(g[k - 1], s[k])
      OBVIOUS
    <3> DEFINE f == [i \in 0..k |-> IF i = k THEN e ELSE g[i]]
    <3>4. f[0] = <<>>
      BY <2>3, <2>5, <3>2
    <3>5. ASSUME NEW i \in 1..k PROVE f[i] = Cat(f[i - 1], s[i])
      <4>1. f[i - 1] = g[i - 1]
        BY <2>3, <3>5
      <4>2. i # k => i \in 1..(k - 1) /\ f[i] = g[i]
        BY <2>3, <3>5
      <4>3. i = k => f[i] = e
        BY <2>3
      <4> HIDE DEF f
      <4> QED
        BY <3>2, <3>3, <4>1, <4>2, <4>3
    <3>6. f = [i \in 0..k |-> f[i]]
      OBVIOUS
    <3> HIDE DEF f
    <3>7. Good(f, k)
      BY <3>4, <3>5, <3>6
    <3> QED
      BY <2>3, <3>7
  <2> QED
    BY <2>4, <2>5
<1>2. PICK g : Good(g, Len(s))
  BY <1>1
<1> QED
  BY <1>2 DEF Collects

LEMMA CatAllCollects ==
  ASSUME NEW s, Len(s) \in Nat
  PROVE  \E g : Collects(g, s) /\ CatAll(s) = g[Len(s)]
<1> DEFINE Eqn(g) == g = [i \in 0..Len(s) |-> IF i = 0 THEN <<>> ELSE Cat(g[i - 1], s[i])]
           F == CHOOSE g : Eqn(g)
<1>1. CatAll(s) = F[Len(s)]
  BY DEF CatAll, Fold
<1>2. PICK g : Collects(g, s) /\ g = [i \in 0..Len(s) |-> g[i]]
  BY CollectsExists
<1>3. Eqn(g)
  <2>1. \A i \in 0..Len(s) : g[i] = IF i = 0 THEN <<>> ELSE Cat(g[i - 1], s[i])
    <3>1. \A i \in 0..Len(s) : i # 0 => i \in 1..Len(s)
      OBVIOUS
    <3> QED
      BY <1>2, <3>1 DEF Collects
  <2> QED
    BY <1>2, <2>1
<1> HIDE DEF Eqn
<1>4. Eqn(F)
  BY <1>3
<1> HIDE DEF F
<1>5. Collects(F, s)
  <2>1. F = [i \in 0..Len(s) |-> IF i = 0 THEN <<>> ELSE Cat(F[i - 1], s[i])]
    BY <1>4 DEF Eqn
  <2>2. \A i \in 1..Len(s) : i \in 0..Len(s) /\ i # 0
    OBVIOUS
  <2>3. 0 \in 0..Len(s)
    OBVIOUS
  <2> QED
    BY <2>1, <2>2, <2>3 DEF Collects
<1> QED
  BY <1>1, <1>5

\* What Slice keeps after one more span.
After(acc, s, from, to) ==
  [pos |-> acc.pos + s.len, out |-> acc.out \o Clip(s, acc.pos, from, to)]

\* g walks over the spans of b.
Walks(g, b, from, to) == g[0] = [pos |-> 0, out |-> <<>>] /\ \A i \in 1..Len(b) : g[i] = After(g[i - 1], b[i], from, to)

LEMMA WalksExists ==
  ASSUME NEW b, NEW from, NEW to, Len(b) \in Nat
  PROVE  \E g : Walks(g, b, from, to) /\ g = [i \in 0..Len(b) |-> g[i]]
<1> DEFINE Good(g, k) == /\ g = [i \in 0..k |-> g[i]]
                         /\ g[0] = [pos |-> 0, out |-> <<>>]
                         /\ \A i \in 1..k : g[i] = After(g[i - 1], b[i], from, to)
           B == {k \in 0..Len(b) : ~ \E g : Good(g, k)}
<1>1. B = {}
  <2> SUFFICES ASSUME B # {} PROVE FALSE
    OBVIOUS
  <2>1. B \in SUBSET Nat
    OBVIOUS
  <2>2. PICK k \in B : \A j \in B : k <= j
    BY <2>1, LeastOf
  <2>3. k \in 0..Len(b) /\ k \in Nat /\ ~ \E g : Good(g, k)
    OBVIOUS
  <2>4. CASE k = 0
    <3> DEFINE g == [i \in 0..0 |-> [pos |-> 0, out |-> <<>>]]
    <3>1. Good(g, k)
      BY <2>4
    <3> QED
      BY <2>3, <3>1
  <2>5. CASE k # 0
    <3>1. k - 1 \in 0..Len(b) /\ k - 1 \notin B /\ k \in 1..Len(b)
      <4>1. k - 1 \in 0..Len(b) /\ k \in 1..Len(b) /\ ~(k <= k - 1)
        BY <2>3, <2>5
      <4> HIDE DEF B
      <4> QED
        BY <2>2, <4>1
    <3>2. PICK g : Good(g, k - 1)
      BY <3>1
    <3>3. PICK e : e = After(g[k - 1], b[k], from, to)
      OBVIOUS
    <3> DEFINE f == [i \in 0..k |-> IF i = k THEN e ELSE g[i]]
    <3>4. f[0] = [pos |-> 0, out |-> <<>>]
      BY <2>3, <2>5, <3>2
    <3>5. ASSUME NEW i \in 1..k PROVE f[i] = After(f[i - 1], b[i], from, to)
      <4>1. f[i - 1] = g[i - 1]
        BY <2>3, <3>5
      <4>2. i # k => i \in 1..(k - 1) /\ f[i] = g[i]
        BY <2>3, <3>5
      <4>3. i = k => f[i] = e
        BY <2>3
      <4> HIDE DEF f
      <4> QED
        BY <3>2, <3>3, <4>1, <4>2, <4>3
    <3>6. f = [i \in 0..k |-> f[i]]
      OBVIOUS
    <3> HIDE DEF f
    <3>7. Good(f, k)
      BY <3>4, <3>5, <3>6
    <3> QED
      BY <2>3, <3>7
  <2> QED
    BY <2>4, <2>5
<1>2. PICK g : Good(g, Len(b))
  BY <1>1
<1> QED
  BY <1>2 DEF Walks

LEMMA SliceWalks ==
  ASSUME NEW b, NEW from, NEW to, Len(b) \in Nat
  PROVE  \E g : Walks(g, b, from, to) /\ Slice(b, from, to) = g[Len(b)].out
<1> DEFINE Eqn(g) == g = [i \in 0..Len(b) |-> IF i = 0 THEN [pos |-> 0, out |-> <<>>] ELSE After(g[i - 1], b[i], from, to)]
           F == CHOOSE g : Eqn(g)
<1>1. Slice(b, from, to) = F[Len(b)].out
  BY DEF Slice, Fold, After
<1>2. PICK g : Walks(g, b, from, to) /\ g = [i \in 0..Len(b) |-> g[i]]
  BY WalksExists
<1>3. Eqn(g)
  <2>1. \A i \in 0..Len(b) : g[i] = IF i = 0 THEN [pos |-> 0, out |-> <<>>] ELSE After(g[i - 1], b[i], from, to)
    <3>1. \A i \in 0..Len(b) : i # 0 => i \in 1..Len(b)
      OBVIOUS
    <3> QED
      BY <1>2, <3>1 DEF Walks
  <2> QED
    BY <1>2, <2>1
<1> HIDE DEF Eqn
<1>4. Eqn(F)
  BY <1>3
<1> HIDE DEF F
<1>5. Walks(F, b, from, to)
  <2>1. F = [i \in 0..Len(b) |-> IF i = 0 THEN [pos |-> 0, out |-> <<>>] ELSE After(F[i - 1], b[i], from, to)]
    BY <1>4 DEF Eqn
  <2>2. \A i \in 1..Len(b) : i \in 0..Len(b) /\ i # 0
    OBVIOUS
  <2>3. 0 \in 0..Len(b)
    OBVIOUS
  <2> QED
    BY <2>1, <2>2, <2>3 DEF Walks
<1> QED
  BY <1>1, <1>5

(***************************************************************************)
(* Byte strings of a few spans.                                            *)
(***************************************************************************)
ByteSpan(v) == [src |-> <<"byte">>, at |-> v, len |-> 1]

IsSpan(s) == /\ s = [src |-> s.src, at |-> s.at, len |-> s.len]
             /\ s.at \in Int /\ s.len \in Nat \ {0}

LEMMA ByteIs ==
  ASSUME NEW v \in Int
  PROVE  Byte(v) = <<ByteSpan(v)>> /\ IsSpan(ByteSpan(v)) /\ ByteSpan(v).len = 1
  BY DEF Byte, ByteSpan, IsSpan

\* A byte string's size is the sum of the lengths of its spans.
LEMMA SizeIs ==
  ASSUME NEW n \in Nat, NEW b, Len(b) = n
  PROVE  \E f : f = [i \in 1..n |-> b[i].len] /\ Len(f) = n /\ Size(b) = Sum(f)
<1>1. PICK f : f = [i \in 1..n |-> b[i].len]
  OBVIOUS
<1>2. f = [i \in 1..n |-> f[i]]
  BY <1>1
<1>3. Len(f) = n /\ <<>> \o f = f
  BY <1>2, Listed
<1>4. Size(b) = Sum(<<>> \o f)
  BY <1>1 DEF Size, Map
<1> QED
  BY <1>1, <1>3, <1>4

LEMMA SizeSmall ==
  /\ \A s : IsSpan(s) => Size(<<s>>) = s.len
  /\ \A s, t : IsSpan(s) /\ IsSpan(t) => Size(<<s, t>>) = s.len + t.len
  /\ \A s, t, u : IsSpan(s) /\ IsSpan(t) /\ IsSpan(u)
                    => Size(<<s, t, u>>) = s.len + t.len + u.len
<1>1. ASSUME NEW s, IsSpan(s) PROVE Size(<<s>>) = s.len
  <2>1. PICK b : b = <<s>>
    OBVIOUS
  <2>2. Len(b) = 1 /\ b[1] = s /\ s.len \in Nat
    BY <1>1, <2>1 DEF IsSpan
  <2>3. PICK f : f = [i \in 1..1 |-> b[i].len] /\ Len(f) = 1 /\ Size(b) = Sum(f)
    BY <2>2, SizeIs
  <2>4. PICK g : Adds(g, f) /\ Sum(f) = g[1]
    <3>1. Len(f) \in Nat
      BY <2>3
    <3>2. \E g : Adds(g, f) /\ Sum(f) = g[Len(f)]
      BY <3>1, SumAdds
    <3> QED
      BY <2>3, <3>2
  <2>5. f[1] = s.len
    BY <2>2, <2>3
  <2>6. g[0] = 0 /\ g[1] = g[0] + f[1]
    BY <2>3, <2>4 DEF Adds
  <2> QED
    BY <2>1, <2>2, <2>3, <2>4, <2>5, <2>6
<1>2. ASSUME NEW s, NEW t, IsSpan(s), IsSpan(t) PROVE Size(<<s, t>>) = s.len + t.len
  <2>1. PICK b : b = <<s, t>>
    OBVIOUS
  <2>2. Len(b) = 2 /\ b[1] = s /\ b[2] = t /\ s.len \in Nat /\ t.len \in Nat
    BY <1>2, <2>1 DEF IsSpan
  <2>3. PICK f : f = [i \in 1..2 |-> b[i].len] /\ Len(f) = 2 /\ Size(b) = Sum(f)
    BY <2>2, SizeIs
  <2>4. PICK g : Adds(g, f) /\ Sum(f) = g[2]
    <3>1. Len(f) \in Nat
      BY <2>3
    <3>2. \E g : Adds(g, f) /\ Sum(f) = g[Len(f)]
      BY <3>1, SumAdds
    <3> QED
      BY <2>3, <3>2
  <2>5. f[1] = s.len /\ f[2] = t.len
    BY <2>2, <2>3
  <2>6. g[0] = 0 /\ g[1] = g[0] + f[1] /\ g[2] = g[1] + f[2]
    BY <2>3, <2>4 DEF Adds
  <2> QED
    BY <2>1, <2>2, <2>3, <2>4, <2>5, <2>6
<1>3. ASSUME NEW s, NEW t, NEW u, IsSpan(s), IsSpan(t), IsSpan(u)
      PROVE  Size(<<s, t, u>>) = s.len + t.len + u.len
  <2>1. PICK b : b = <<s, t, u>>
    OBVIOUS
  <2>2. /\ Len(b) = 3 /\ b[1] = s /\ b[2] = t /\ b[3] = u
        /\ s.len \in Nat /\ t.len \in Nat /\ u.len \in Nat
    BY <1>3, <2>1 DEF IsSpan
  <2>3. PICK f : f = [i \in 1..3 |-> b[i].len] /\ Len(f) = 3 /\ Size(b) = Sum(f)
    BY <2>2, SizeIs
  <2>4. PICK g : Adds(g, f) /\ Sum(f) = g[3]
    <3>1. Len(f) \in Nat
      BY <2>3
    <3>2. \E g : Adds(g, f) /\ Sum(f) = g[Len(f)]
      BY <3>1, SumAdds
    <3> QED
      BY <2>3, <3>2
  <2>5. f[1] = s.len /\ f[2] = t.len /\ f[3] = u.len
    BY <2>2, <2>3
  <2>6. g[0] = 0 /\ g[1] = g[0] + f[1] /\ g[2] = g[1] + f[2] /\ g[3] = g[2] + f[3]
    BY <2>3, <2>4 DEF Adds
  <2> QED
    BY <2>1, <2>2, <2>3, <2>4, <2>5, <2>6
<1> QED
  BY <1>1, <1>2, <1>3

\* A span that does not continue the last one is put behind it.
LEMMA JoinApart ==
  ASSUME NEW acc, NEW s, acc = <<>> \/ ~Continues(Last(acc), s)
  PROVE  Join(acc, s) = Append(acc, s)
  BY DEF Join

\* A literal byte is never continued.
LEMMA ByteApart ==
  ASSUME NEW v, NEW s
  PROVE  ~Continues(ByteSpan(v), s)
  BY DEF Continues, ByteSpan

LEMMA CatSmall ==
  ASSUME NEW a
  PROVE  /\ \A s : Cat(a, <<s>>) = Join(a, s)
         /\ \A s, t : Cat(a, <<s, t>>) = Join(Join(a, s), t)
<1>1. ASSUME NEW s PROVE Cat(a, <<s>>) = Join(a, s)
  <2>1. PICK b : b = <<s>>
    OBVIOUS
  <2>2. Len(b) = 1 /\ b[1] = s
    BY <2>1
  <2>3. PICK g : Joins(g, a, b) /\ Cat(a, b) = g[1]
    BY <2>2, CatJoins
  <2>4. g[0] = a /\ g[1] = Join(g[0], b[1])
    BY <2>2, <2>3 DEF Joins
  <2> QED
    BY <2>1, <2>2, <2>3, <2>4
<1>2. ASSUME NEW s, NEW t PROVE Cat(a, <<s, t>>) = Join(Join(a, s), t)
  <2>1. PICK b : b = <<s, t>>
    OBVIOUS
  <2>2. Len(b) = 2 /\ b[1] = s /\ b[2] = t
    BY <2>1
  <2>3. PICK g : Joins(g, a, b) /\ Cat(a, b) = g[2]
    <3>1. Len(b) \in Nat
      BY <2>2
    <3>2. \E g : Joins(g, a, b) /\ Cat(a, b) = g[Len(b)]
      BY <3>1, CatJoins
    <3> QED
      BY <2>2, <3>2
  <2>4. g[0] = a /\ g[1] = Join(g[0], b[1]) /\ g[2] = Join(g[1], b[2])
    BY <2>2, <2>3 DEF Joins
  <2> QED
    BY <2>1, <2>2, <2>3, <2>4
<1> QED
  BY <1>1, <1>2

\* The parts of a span: all of it, none of it.
LEMMA ClipAll ==
  ASSUME NEW s, IsSpan(s), NEW pos \in Int, NEW from \in Int, NEW to \in Int,
         from <= pos, pos + s.len <= to
  PROVE  Clip(s, pos, from, to) = <<s>>
<1>1. s.at \in Int /\ s.len \in Nat /\ s.len > 0
  BY DEF IsSpan
<1>2. Greater(from - pos, 0) = 0
  BY DEF Greater
<1>3. Lesser(to - pos, s.len) = s.len
  BY <1>1 DEF Lesser
<1>4. [s EXCEPT !.at = IF s.src = <<"byte">> THEN s.at ELSE s.at + 0, !.len = s.len - 0] = s
  <2>1. s.at + 0 = s.at /\ s.len - 0 = s.len
    BY <1>1
  <2>2. [s EXCEPT !.at = s.at, !.len = s.len] = s
    BY DEF IsSpan
  <2> QED
    BY <2>1, <2>2
<1>5. ~(0 >= s.len)
  BY <1>1
<1> QED
  BY <1>2, <1>3, <1>4, <1>5, Zenon DEF Clip

LEMMA ClipNone ==
  ASSUME NEW s, IsSpan(s), NEW pos \in Int, NEW from \in Int, NEW to \in Int,
         pos + s.len <= from \/ to <= pos
  PROVE  Clip(s, pos, from, to) = <<>>
<1>1. s.len \in Nat /\ s.len > 0
  BY DEF IsSpan
<1>2. Greater(from - pos, 0) >= Lesser(to - pos, s.len)
  BY <1>1 DEF Greater, Lesser
<1> QED
  BY <1>2 DEF Clip

LEMMA SliceSmall ==
  ASSUME NEW from, NEW to
  PROVE  /\ \A s : IsSpan(s) => Slice(<<s>>, from, to) = <<>> \o Clip(s, 0, from, to)
         /\ \A s, t : IsSpan(s) /\ IsSpan(t) =>
              Slice(<<s, t>>, from, to)
                = (<<>> \o Clip(s, 0, from, to)) \o Clip(t, s.len, from, to)
         /\ \A s, t, u : IsSpan(s) /\ IsSpan(t) /\ IsSpan(u) =>
              Slice(<<s, t, u>>, from, to)
                = ((<<>> \o Clip(s, 0, from, to)) \o Clip(t, s.len, from, to))
                    \o Clip(u, s.len + t.len, from, to)
<1>1. ASSUME NEW s, IsSpan(s)
      PROVE  Slice(<<s>>, from, to) = <<>> \o Clip(s, 0, from, to)
  <2>1. PICK b : b = <<s>>
    OBVIOUS
  <2>2. Len(b) = 1 /\ b[1] = s /\ Len(b) \in Nat
    BY <2>1
  <2>3. \E g : Walks(g, b, from, to) /\ Slice(b, from, to) = g[Len(b)].out
    BY <2>2, SliceWalks
  <2>4. PICK g : Walks(g, b, from, to) /\ Slice(b, from, to) = g[1].out
    BY <2>2, <2>3
  <2>5. g[0] = [pos |-> 0, out |-> <<>>] /\ g[1] = After(g[0], s, from, to)
    BY <2>2, <2>4 DEF Walks
  <2>6. g[0].pos = 0 /\ g[0].out = <<>>
    BY <2>5
  <2>7. g[1].out = <<>> \o Clip(s, 0, from, to)
    BY <2>5, <2>6 DEF After
  <2> QED
    BY <2>1, <2>4, <2>7
<1>2. ASSUME NEW s, NEW t, IsSpan(s), IsSpan(t)
      PROVE  Slice(<<s, t>>, from, to)
               = (<<>> \o Clip(s, 0, from, to)) \o Clip(t, s.len, from, to)
  <2>1. PICK b : b = <<s, t>>
    OBVIOUS
  <2>2. Len(b) = 2 /\ b[1] = s /\ b[2] = t /\ Len(b) \in Nat
    BY <2>1
  <2>3. \E g : Walks(g, b, from, to) /\ Slice(b, from, to) = g[Len(b)].out
    BY <2>2, SliceWalks
  <2>4. PICK g : Walks(g, b, from, to) /\ Slice(b, from, to) = g[2].out
    BY <2>2, <2>3
  <2>5. /\ g[0] = [pos |-> 0, out |-> <<>>] /\ g[1] = After(g[0], s, from, to)
        /\ g[2] = After(g[1], t, from, to)
    BY <2>2, <2>4 DEF Walks
  <2>6. g[0].pos = 0 /\ g[0].out = <<>> /\ s.len \in Nat
    BY <1>2, <2>5 DEF IsSpan
  <2>7. g[1].out = <<>> \o Clip(s, 0, from, to) /\ g[1].pos = s.len
    BY <2>5, <2>6 DEF After
  <2>8. g[2].out = (<<>> \o Clip(s, 0, from, to)) \o Clip(t, s.len, from, to)
    <3>1. g[2].out = g[1].out \o Clip(t, g[1].pos, from, to)
      BY <2>5 DEF After
    <3> QED
      BY <2>7, <3>1, Zenon
  <2> QED
    BY <2>1, <2>4, <2>8
<1>3. ASSUME NEW s, NEW t, NEW u, IsSpan(s), IsSpan(t), IsSpan(u)
      PROVE  Slice(<<s, t, u>>, from, to)
               = ((<<>> \o Clip(s, 0, from, to)) \o Clip(t, s.len, from, to))
                    \o Clip(u, s.len + t.len, from, to)
  <2>1. PICK b : b = <<s, t, u>>
    OBVIOUS
  <2>2. Len(b) = 3 /\ b[1] = s /\ b[2] = t /\ b[3] = u /\ Len(b) \in Nat
    BY <2>1
  <2>3. \E g : Walks(g, b, from, to) /\ Slice(b, from, to) = g[Len(b)].out
    BY <2>2, SliceWalks
  <2>4. PICK g : Walks(g, b, from, to) /\ Slice(b, from, to) = g[3].out
    BY <2>2, <2>3
  <2>5. /\ g[0] = [pos |-> 0, out |-> <<>>] /\ g[1] = After(g[0], s, from, to)
        /\ g[2] = After(g[1], t, from, to) /\ g[3] = After(g[2], u, from, to)
    BY <2>2, <2>4 DEF Walks
  <2>6. g[0].pos = 0 /\ g[0].out = <<>> /\ s.len \in Nat /\ t.len \in Nat
    BY <1>3, <2>5 DEF IsSpan
  <2>7. g[1].out = <<>> \o Clip(s, 0, from, to) /\ g[1].pos = s.len
    BY <2>5, <2>6 DEF After
  <2>8. /\ g[2].out = (<<>> \o Clip(s, 0, from, to)) \o Clip(t, s.len, from, to)
        /\ g[2].pos = s.len + t.len
    BY <2>5, <2>7 DEF After
  <2>9. g[3].out = ((<<>> \o Clip(s, 0, from, to)) \o Clip(t, s.len, from, to))
                      \o Clip(u, s.len + t.len, from, to)
    <3>1. g[3].out = g[2].out \o Clip(u, g[2].pos, from, to)
      BY <2>5 DEF After
    <3> QED
      BY <2>8, <3>1, Zenon
  <2> QED
    BY <2>1, <2>4, <2>9
<1> QED
  BY <1>1, <1>2, <1>3

\* Concatenations of nothing and single spans.
LEMMA Puts ==
  ASSUME NEW s, NEW t
  PROVE  /\ <<>> \o <<>> = <<>> /\ <<>> \o <<s>> = <<s>> /\ <<s>> \o <<t>> = <<s, t>>
         /\ <<s>> \o <<>> = <<s>>
<1> DEFINE S == {s, t}
<1>1. <<>> \in Seq(S) /\ <<s>> \in Seq(S) /\ <<t>> \in Seq(S) /\ <<s, t>> \in Seq(S)
  OBVIOUS
<1>2. PICK a \in Seq(S), b \in Seq(S), c \in Seq(S) : a = <<s>> /\ b = <<t>> /\ c = <<s, t>>
  BY <1>1
<1>3. a[1] = s /\ b[1] = t /\ c[1] = s /\ c[2] = t /\ Len(a) = 1 /\ Len(b) = 1 /\ Len(c) = 2
  BY <1>2
<1> HIDE DEF S
<1>4. <<>> \o <<>> = <<>> /\ <<>> \o a = a /\ a \o <<>> = a
  OBVIOUS
<1>5. a \o b = c
  <2>1. a \o b \in Seq(S) /\ Len(a \o b) = 2 /\ (a \o b)[1] = s /\ (a \o b)[2] = t
    <3>1. a \o b \in Seq(S) /\ Len(a \o b) = Len(a) + Len(b)
      OBVIOUS
    <3>2. \A i \in 1..(Len(a) + Len(b)) :
             (a \o b)[i] = IF i <= Len(a) THEN a[i] ELSE b[i - Len(a)]
      OBVIOUS
    <3>3. PICK i \in 1..(Len(a) + Len(b)), j \in 1..(Len(a) + Len(b)) :
             i = 1 /\ j = 2 /\ i <= Len(a) /\ ~(j <= Len(a)) /\ j - Len(a) = 1
      BY <1>3
    <3>4. (a \o b)[i] = a[i]
      BY <3>2, <3>3
    <3>5. (a \o b)[j] = b[j - Len(a)]
      BY <3>2, <3>3
    <3> QED
      BY <1>3, <3>1, <3>3, <3>4, <3>5
  <2>2. PICK x \in Seq(S) : x = a \o b
    BY <2>1
  <2>3. \A i \in 1..Len(x) : x[i] = c[i]
    <3>1. \A i \in 1..Len(x) : i = 1 \/ i = 2
      BY <2>1, <2>2
    <3> QED
      BY <1>3, <2>1, <2>2, <3>1
  <2>4. Len(x) = Len(c)
    BY <1>3, <2>1, <2>2
  <2>5. x = c
    BY <2>3, <2>4, SeqEqual
  <2> QED
    BY <2>2, <2>5
<1> QED
  BY <1>2, <1>4, <1>5

\* The first byte, when it is a literal one.
LEMMA FirstByte ==
  ASSUME NEW v \in Int, NEW S, NEW b \in Seq(S), Len(b) >= 1, b[1] = ByteSpan(v)
  PROVE  ByteAt(b, 0) = v
<1>1. Lesser(Len(b), 0 + 1) = 1
  BY DEF Lesser
<1>2. SubSeq(b, 1, 1) = <<ByteSpan(v)>>
  <2>1. b[1] \in S
    OBVIOUS
  <2>2. SubSeq(b, 1, 1) \in Seq(S) /\ Len(SubSeq(b, 1, 1)) = 1 /\ SubSeq(b, 1, 1)[1] = b[1]
    OBVIOUS
  <2>3. PICK c \in Seq(S) : c = <<b[1]>> /\ Len(c) = 1 /\ c[1] = b[1]
    <3>1. PICK e \in S : e = b[1]
      BY <2>1
    <3>2. <<e>> \in Seq(S) /\ Len(<<e>>) = 1 /\ <<e>>[1] = e
      OBVIOUS
    <3> QED
      BY <3>1, <3>2
  <2>4. PICK x \in Seq(S) : x = SubSeq(b, 1, 1)
    BY <2>2
  <2>5. Len(x) = Len(c) /\ \A i \in 1..Len(x) : x[i] = c[i]
    BY <2>2, <2>3, <2>4
  <2>6. x = c
    BY <2>5, SeqEqual
  <2> QED
    BY <2>3, <2>4, <2>6
<1>3. Clip(ByteSpan(v), 0, 0, 0 + 1) = <<ByteSpan(v)>>
  <2>1. PICK w : w = ByteSpan(v)
    OBVIOUS
  <2>2. IsSpan(w) /\ w.len = 1
    BY <2>1, ByteIs
  <2>3. PICK z \in Int, o \in Int : z = 0 /\ o = 0 + 1
    OBVIOUS
  <2>4. Clip(w, z, z, o) = <<w>>
    <3>1. z <= z /\ z + w.len <= o
      BY <2>2, <2>3
    <3> QED
      BY <2>2, <3>1, ClipAll
  <2> QED
    BY <2>1, <2>3, <2>4
<1>4. Slice(<<ByteSpan(v)>>, 0, 0 + 1) = <<ByteSpan(v)>>
  <2>1. IsSpan(ByteSpan(v))
    BY ByteIs
  <2>2. Slice(<<ByteSpan(v)>>, 0, 0 + 1) = <<>> \o Clip(ByteSpan(v), 0, 0, 0 + 1)
    BY <2>1, SliceSmall
  <2> QED
    BY <1>3, <2>2, Puts
<1>5. Head(Slice(SubSeq(b, 1, Lesser(Len(b), 0 + 1)), 0, 0 + 1)) = ByteSpan(v)
  <2>1. Slice(SubSeq(b, 1, Lesser(Len(b), 0 + 1)), 0, 0 + 1) = <<ByteSpan(v)>>
    BY <1>1, <1>2, <1>4, Zenon
  <2>2. Head(<<ByteSpan(v)>>) = ByteSpan(v)
    OBVIOUS
  <2> QED
    BY <2>1, <2>2
<1>6. ByteSpan(v).src = <<"byte">> /\ ByteSpan(v).at = v
  BY DEF ByteSpan
<1> QED
  BY <1>5, <1>6 DEF ByteAt

LEMMA OneByte ==
  ASSUME NEW v \in Int
  PROVE  ByteAt(Byte(v), 0) = v /\ Size(Byte(v)) = 1
<1>1. PICK b : b = <<ByteSpan(v)>>
  OBVIOUS
<1>2. b \in Seq({ByteSpan(v)}) /\ Len(b) = 1 /\ b[1] = ByteSpan(v)
  BY <1>1
<1>3. ByteAt(b, 0) = v
  BY <1>2, FirstByte
<1>4. Size(<<ByteSpan(v)>>) = 1
  BY ByteIs, SizeSmall
<1> QED
  BY <1>1, <1>3, <1>4, ByteIs

\* One more span behind one or none.
LEMMA Appends ==
  ASSUME NEW s, NEW t, NEW u
  PROVE  Append(<<s>>, t) = <<s, t>> /\ Append(<<s, t>>, u) = <<s, t, u>> /\ Append(<<>>, s) = <<s>>
<1> DEFINE S == {s, t, u}
<1>1. <<>> \in Seq(S) /\ <<s>> \in Seq(S) /\ <<s, t>> \in Seq(S) /\ <<s, t, u>> \in Seq(S)
  OBVIOUS
<1>2. PICK a \in Seq(S), b \in Seq(S), c \in Seq(S), e \in Seq(S) :
         a = <<s>> /\ b = <<s, t>> /\ c = <<s, t, u>> /\ e = <<>>
  BY <1>1
<1>3. /\ Len(a) = 1 /\ Len(b) = 2 /\ Len(c) = 3 /\ Len(e) = 0
      /\ a[1] = s /\ b[1] = s /\ b[2] = t /\ c[1] = s /\ c[2] = t /\ c[3] = u
  BY <1>2
<1>4. s \in S /\ t \in S /\ u \in S
  OBVIOUS
<1> HIDE DEF S
<1>5. Append(e, s) = a
  <2>1. PICK x \in Seq(S) : x = Append(e, s) /\ Len(x) = Len(e) + 1 /\ x[Len(e) + 1] = s
    BY <1>4, AppendProperties
  <2>2. Len(x) = Len(a) /\ \A i \in 1..Len(x) : x[i] = a[i]
    BY <1>3, <2>1
  <2> QED
    BY <2>1, <2>2, SeqEqual
<1>6. Append(a, t) = b
  <2>1. PICK x \in Seq(S) : /\ x = Append(a, t) /\ Len(x) = Len(a) + 1 /\ x[Len(a) + 1] = t
                            /\ \A i \in 1..Len(a) : x[i] = a[i]
    <3>1. Append(a, t) \in Seq(S) /\ Len(Append(a, t)) = Len(a) + 1
      BY <1>4, AppendProperties
    <3>2. Append(a, t)[Len(a) + 1] = t
      BY <1>4, AppendProperties
    <3>3. ASSUME NEW i \in 1..Len(a) PROVE Append(a, t)[i] = a[i]
      BY <1>4, AppendProperties
    <3> QED
      BY <3>1, <3>2, <3>3, Zenon
  <2>2. x[1] = s /\ x[2] = t /\ Len(x) = 2
    BY <1>3, <2>1
  <2>3. Len(x) = Len(b) /\ \A i \in 1..Len(x) : x[i] = b[i]
    <3>1. \A i \in 1..Len(x) : i = 1 \/ i = 2
      BY <2>2
    <3> QED
      BY <1>3, <2>2, <3>1
  <2> QED
    BY <2>1, <2>3, SeqEqual
<1>7. Append(b, u) = c
  <2>1. PICK x \in Seq(S) : /\ x = Append(b, u) /\ Len(x) = Len(b) + 1 /\ x[Len(b) + 1] = u
                            /\ \A i \in 1..Len(b) : x[i] = b[i]
    <3>1. Append(b, u) \in Seq(S) /\ Len(Append(b, u)) = Len(b) + 1
      BY <1>4, AppendProperties
    <3>2. Append(b, u)[Len(b) + 1] = u
      BY <1>4, AppendProperties
    <3>3. ASSUME NEW i \in 1..Len(b) PROVE Append(b, u)[i] = b[i]
      BY <1>4, AppendProperties
    <3> QED
      BY <3>1, <3>2, <3>3, Zenon
  <2>2. x[1] = s /\ x[2] = t /\ x[3] = u /\ Len(x) = 3
    BY <1>3, <2>1
  <2>3. Len(x) = Len(c) /\ \A i \in 1..Len(x) : x[i] = c[i]
    <3>1. \A i \in 1..Len(x) : i = 1 \/ i = 2 \/ i = 3
      BY <2>2
    <3> QED
      BY <1>3, <2>2, <3>1
  <2> QED
    BY <2>1, <2>3, SeqEqual
<1> QED
  BY <1>2, <1>5, <1>6, <1>7

(***************************************************************************)
(* The message in an OP_RETURN output.                                     *)
(***************************************************************************)
MessageSpan(p) == [src |-> <<"message", p>>, at |-> 0, len |-> p.size]

LEMMA OpReturnIs ==
  ASSUME NEW p, p.size \in 1..75
  PROVE  /\ IsSpan(MessageSpan(p)) /\ MessageSpan(p).len = p.size
         /\ op_return_script(p) = <<ByteSpan(OP_RETURN), ByteSpan(p.size), MessageSpan(p)>>
<1>1. PICK n \in 1..75 : n = p.size
  OBVIOUS
<1>2. PICK m : m = MessageSpan(p)
  OBVIOUS
<1>3. IsSpan(m) /\ m.len = n
  BY <1>1, <1>2 DEF MessageSpan, IsSpan
<1>4. Stretch(<<"message", p>>, p.size) = <<m>>
  <2>1. p.size # 0
    BY <1>1
  <2> QED
    BY <1>2, <2>1, Zenon DEF Stretch, MessageSpan
<1>5. Size(<<m>>) = n
  BY <1>3, SizeSmall
<1>6. push_data(<<m>>) = Cat(Byte(n), <<m>>)
  <2>1. n < 76
    BY <1>1
  <2> QED
    BY <1>5, <2>1 DEF push_data
<1>7. Cat(Byte(n), <<m>>) = <<ByteSpan(n), m>>
  <2>1. Cat(Byte(n), <<m>>) = Join(<<ByteSpan(n)>>, m)
    BY <1>1, ByteIs, CatSmall
  <2>2. Last(<<ByteSpan(n)>>) = ByteSpan(n)
    BY DEF Last
  <2>3. Join(<<ByteSpan(n)>>, m) = Append(<<ByteSpan(n)>>, m)
    BY <2>2, JoinApart, ByteApart
  <2> QED
    BY <2>1, <2>3, Appends
<1>8. Cat(Byte(OP_RETURN), <<ByteSpan(n), m>>) = <<ByteSpan(OP_RETURN), ByteSpan(n), m>>
  <2>1. Byte(OP_RETURN) = <<ByteSpan(OP_RETURN)>>
    BY ByteIs DEF OP_RETURN
  <2>2. PICK o : o = ByteSpan(OP_RETURN)
    OBVIOUS
  <2>3. Cat(<<o>>, <<ByteSpan(n), m>>) = Join(Join(<<o>>, ByteSpan(n)), m)
    BY CatSmall
  <2>4. Last(<<o>>) = o /\ Last(<<o, ByteSpan(n)>>) = ByteSpan(n)
    BY DEF Last
  <2>5. Join(<<o>>, ByteSpan(n)) = <<o, ByteSpan(n)>>
    <3>1. Join(<<o>>, ByteSpan(n)) = Append(<<o>>, ByteSpan(n))
      BY <2>2, <2>4, JoinApart, ByteApart
    <3> QED
      BY <3>1, Appends
  <2>6. Join(<<o, ByteSpan(n)>>, m) = <<o, ByteSpan(n), m>>
    <3>1. Join(<<o, ByteSpan(n)>>, m) = Append(<<o, ByteSpan(n)>>, m)
      BY <2>4, JoinApart, ByteApart
    <3> QED
      BY <3>1, Appends
  <2> QED
    BY <2>1, <2>2, <2>3, <2>5, <2>6
<1> QED
  BY <1>1, <1>2, <1>3, <1>4, <1>6, <1>7, <1>8 DEF op_return_script

\* The script is read back to the message it was made from.
LEMMA OpReturnReadBack ==
  ASSUME NEW p, p.size \in 1..75
  PROVE  /\ extract_op_return_data(op_return_script(p)).ok
         /\ extract_op_return_data(op_return_script(p)).data = <<MessageSpan(p)>>
         /\ Size(op_return_script(p)) = p.size + 2
<1>1. PICK n \in 1..75 : n = p.size
  OBVIOUS
<1>2. PICK m : m = MessageSpan(p)
  OBVIOUS
<1>3. PICK o, c : o = ByteSpan(OP_RETURN) /\ c = ByteSpan(n)
  OBVIOUS
<1>4. IsSpan(m) /\ m.len = n /\ IsSpan(o) /\ o.len = 1 /\ IsSpan(c) /\ c.len = 1
  BY <1>1, <1>2, <1>3, OpReturnIs, ByteIs DEF OP_RETURN
<1>5. PICK script : script = <<o, c, m>> /\ script = op_return_script(p)
  BY <1>1, <1>2, <1>3, OpReturnIs
<1>6. Size(script) = n + 2
  <2>1. Size(script) = 1 + 1 + n
    BY <1>4, <1>5, SizeSmall
  <2> QED
    BY <1>1, <2>1
<1>7. script # <<>> /\ ByteAt(script, 0) = OP_RETURN
  <2>1. script \in Seq({o, c, m}) /\ Len(script) = 3 /\ script[1] = o
    BY <1>5
  <2>2. OP_RETURN \in Int /\ Len(script) >= 1
    BY <2>1 DEF OP_RETURN
  <2> QED
    BY <1>3, <2>1, <2>2, FirstByte
<1>8. Slice(script, 1, n + 2) = <<c, m>>
  <2>1. PICK z \in Int, i \in Int, j \in Int : z = 0 /\ i = 1 /\ j = n + 2
    OBVIOUS
  <2>2. Clip(o, z, i, j) = <<>>
    <3>1. z + o.len <= i
      BY <1>4, <2>1
    <3> QED
      BY <1>4, <3>1, ClipNone
  <2>3. Clip(c, i, i, j) = <<c>>
    <3>1. i <= i /\ i + c.len <= j
      BY <1>4, <2>1
    <3> QED
      BY <1>4, <3>1, ClipAll
  <2>4. PICK k \in Int : k = i + i
    OBVIOUS
  <2>5. Clip(m, k, i, j) = <<m>>
    <3>1. i <= k /\ k + m.len <= j
      BY <1>1, <1>4, <2>1, <2>4
    <3> QED
      BY <1>4, <3>1, ClipAll
  <2>6. Slice(<<o, c, m>>, i, j)
          = ((<<>> \o Clip(o, 0, i, j)) \o Clip(c, o.len, i, j)) \o Clip(m, o.len + c.len, i, j)
    <3>1. \A s, t, u : IsSpan(s) /\ IsSpan(t) /\ IsSpan(u) =>
            Slice(<<s, t, u>>, i, j)
              = ((<<>> \o Clip(s, 0, i, j)) \o Clip(t, s.len, i, j)) \o Clip(u, s.len + t.len, i, j)
      BY SliceSmall, Zenon
    <3> QED
      BY <1>4, <3>1, Zenon
  <2>7. o.len = i /\ o.len + c.len = k
    BY <1>4, <2>1, <2>4
  <2>8. Slice(<<o, c, m>>, i, j) = ((<<>> \o <<>>) \o <<c>>) \o <<m>>
    BY <2>1, <2>2, <2>3, <2>5, <2>6, <2>7
  <2>9. ((<<>> \o <<>>) \o <<c>>) \o <<m>> = <<c, m>>
    BY Puts
  <2> QED
    BY <1>5, <2>1, <2>8, <2>9
<1>9. PICK rest : rest = <<c, m>>
  OBVIOUS
<1>10. rest # <<>> /\ Size(rest) = n + 1 /\ ByteAt(rest, 0) = n
  <2>1. rest \in Seq({c, m}) /\ Len(rest) = 2 /\ rest[1] = c
    BY <1>9
  <2>2. Size(rest) = 1 + n
    BY <1>4, <1>9, SizeSmall
  <2>3. ByteAt(rest, 0) = n
    BY <1>3, <2>1, FirstByte
  <2>4. rest # <<>>
    BY <2>1
  <2>5. 1 + n = n + 1
    BY <1>1
  <2> QED
    BY <2>2, <2>3, <2>4, <2>5
<1>11. Slice(rest, 1, n + 1) = <<m>>
  <2>1. PICK z \in Int, i \in Int, j \in Int : z = 0 /\ i = 1 /\ j = n + 1
    OBVIOUS
  <2>2. Clip(c, z, i, j) = <<>>
    <3>1. z + c.len <= i
      BY <1>4, <2>1
    <3> QED
      BY <1>4, <3>1, ClipNone
  <2>3. Clip(m, i, i, j) = <<m>>
    <3>1. i <= i /\ i + m.len <= j
      BY <1>4, <2>1
    <3> QED
      BY <1>4, <3>1, ClipAll
  <2>4. Slice(<<c, m>>, i, j) = (<<>> \o Clip(c, 0, i, j)) \o Clip(m, c.len, i, j)
    BY <1>4, SliceSmall
  <2>5. Slice(<<c, m>>, i, j) = (<<>> \o <<>>) \o <<m>>
    BY <1>4, <2>1, <2>2, <2>3, <2>4
  <2>6. (<<>> \o <<>>) \o <<m>> = <<m>>
    BY Puts
  <2> QED
    BY <1>9, <2>1, <2>5, <2>6
<1>12. PushHeader(n) = 1 /\ PushLength(rest, n) = n
  <2>1. n <= 75 /\ n # 76 /\ n # 77 /\ n # 78
    BY <1>1
  <2> QED
    BY <2>1, Zenon DEF PushHeader, PushLength
<1>13. parse_push(rest) = [ok |-> TRUE, data |-> <<m>>, used |-> n + 1]
  <2>1. /\ ~(n \notin 0..78 \/ Size(rest) < 1)
        /\ ~(Size(rest) < 1 + n) /\ 1 + n = n + 1
    <3>1. PICK k \in Int : k = Size(rest) /\ k = n + 1
      BY <1>1, <1>10
    <3>2. ~(k < 1) /\ ~(k < 1 + n) /\ 1 + n = n + 1 /\ n \in 0..78
      BY <1>1, <3>1
    <3> QED
      BY <3>1, <3>2, Zenon
  <2> QED
    BY <1>10, <1>11, <1>12, <2>1, Zenon DEF parse_push
<1>14. extract_op_return_data(script) = parse_push(rest)
  <2>1. parse_push(rest).ok /\ parse_push(rest).used = Size(rest)
    BY <1>10, <1>13
  <2>2. Slice(script, 1, Size(script)) = rest
    BY <1>6, <1>8, <1>9
  <2> QED
    BY <1>7, <1>10, <2>1, <2>2, Zenon DEF extract_op_return_data
<1>15. parse_push(rest).ok /\ parse_push(rest).data = <<m>>
  BY <1>13
<1> QED
  BY <1>1, <1>2, <1>5, <1>6, <1>14, <1>15, Zenon

(***************************************************************************)
(* Scripts of the outputs.                                                 *)
(***************************************************************************)
\* Parts of one span each, none of which continues the one before it.
LEMMA CatAllApart ==
  ASSUME NEW n \in Nat, NEW s, Len(s) = n, NEW S, NEW x \in Seq(S), Len(x) = n,
         \A i \in 1..n : s[i] = <<x[i]>>,
         \A i \in 2..n : ~Continues(x[i - 1], x[i])
  PROVE  CatAll(s) = x
<1>1. PICK g : Collects(g, s) /\ CatAll(s) = g[n]
  <2>1. Len(s) \in Nat
    OBVIOUS
  <2>2. \E g : Collects(g, s) /\ CatAll(s) = g[Len(s)]
    BY <2>1, CatAllCollects
  <2> QED
    BY <2>2
<1> DEFINE Is(k) == g[k] \in Seq(S) /\ Len(g[k]) = k /\ \A i \in 1..k : g[k][i] = x[i]
           B == {k \in 0..n : ~Is(k)}
<1>2. B = {}
  <2> SUFFICES ASSUME B # {} PROVE FALSE
    OBVIOUS
  <2>1. B \in SUBSET Nat
    OBVIOUS
  <2>2. PICK k \in B : \A j \in B : k <= j
    BY <2>1, LeastOf
  <2>3. k \in 0..n /\ ~Is(k)
    OBVIOUS
  <2>4. k # 0
    <3>1. g[0] = <<>>
      BY <1>1 DEF Collects
    <3>2. Is(0)
      BY <3>1
    <3> HIDE DEF Is
    <3> QED
      BY <2>3, <3>2
  <2>5. k - 1 \in 0..n /\ k \in 1..n /\ ~(k <= k - 1)
    BY <2>3, <2>4
  <2>6. PICK j \in 0..n : j = k - 1
    BY <2>5
  <2>7. Is(j)
    <3>1. j \notin B
      <4> HIDE DEF B
      <4> QED
        BY <2>2, <2>5, <2>6
    <3> QED
      BY <3>1
  <2>8. PICK a \in Seq(S) : a = g[j]
    BY <2>7
  <2>9. Len(a) = j /\ \A i \in 1..j : a[i] = x[i]
    BY <2>7, <2>8
  <2>10. PICK c \in S : c = x[k]
    BY <2>5
  <2>11. g[k] = Join(a, c)
    <3>1. g[k] = Cat(g[k - 1], s[k])
      BY <1>1, <2>5 DEF Collects
    <3>2. s[k] = <<c>>
      BY <2>5, <2>10
    <3> QED
      BY <2>6, <2>8, <3>1, <3>2, CatSmall
  <2>12. a = <<>> \/ ~Continues(Last(a), c)
    <3>1. CASE j = 0
      BY <2>9, <3>1
    <3>2. CASE j # 0
      <4>1. k \in 2..n /\ j \in 1..j
        BY <2>5, <2>6, <3>2
      <4>2. Last(a) = x[k - 1]
        BY <2>6, <2>9, <4>1 DEF Last
      <4> QED
        BY <2>10, <4>1, <4>2
    <3> QED
      BY <3>1, <3>2
  <2>13. g[k] = Append(a, c)
    BY <2>11, <2>12, JoinApart
  <2>14. Append(a, c) \in Seq(S) /\ Len(Append(a, c)) = k
    BY <2>5, <2>6, <2>9, AppendProperties
  <2>15. ASSUME NEW i \in 1..k PROVE Append(a, c)[i] = x[i]
    <3>1. CASE i = k
      BY <2>6, <2>9, <2>10, <3>1, AppendProperties
    <3>2. CASE i # k
      <4>1. i \in 1..Len(a)
        BY <2>5, <2>6, <2>9, <3>2
      <4>2. Append(a, c)[i] = a[i]
        BY <4>1, AppendProperties
      <4> QED
        BY <2>9, <4>1, <4>2
    <3> QED
      BY <3>1, <3>2
  <2> QED
    BY <2>3, <2>13, <2>14, <2>15
<1>3. Is(n)
  <2>1. n \in 0..n /\ n \notin B
    BY <1>2
  <2> QED
    BY <2>1
<1>4. PICK y \in Seq(S) : y = g[n] /\ Len(y) = n /\ \A i \in 1..n : y[i] = x[i]
  BY <1>3
<1>5. y = x
  BY <1>4, SeqEqual
<1> QED
  BY <1>1, <1>4, <1>5

LEMMA SizeBounds ==
  ASSUME NEW n \in Nat, NEW b, Len(b) = n, NEW hi \in Nat, \A i \in 1..n : b[i].len \in 1..hi
  PROVE  Size(b) \in Nat /\ n <= Size(b) /\ Size(b) <= n * hi
<1>1. PICK f : f = [i \in 1..n |-> b[i].len] /\ Len(f) = n /\ Size(b) = Sum(f)
  BY SizeIs
<1>2. PICK lo \in Int, h \in Int : lo = 1 /\ h = hi
  OBVIOUS
<1>3. \A i \in 1..n : f[i] \in Int /\ lo <= f[i] /\ f[i] <= h
  BY <1>1, <1>2
<1>4. Sum(f) \in Int /\ n * lo <= Sum(f) /\ Sum(f) <= n * h
  BY <1>1, <1>3, SumBounds
<1>5. n * lo = n /\ n * h = n * hi
  BY <1>2
<1>6. PICK z \in Int, q \in Int : z = Sum(f) /\ q = n * hi
  <2>1. n * hi \in Int /\ Sum(f) \in Int
    BY <1>4
  <2> QED
    BY <2>1, Zenon
<1>7. n <= z /\ z <= q /\ z \in Nat
  <2>1. n <= z
    BY <1>4, <1>5, <1>6, Zenon
  <2>2. z <= q
    BY <1>4, <1>5, <1>6, Zenon
  <2> QED
    BY <2>1, <2>2
<1> QED
  BY <1>1, <1>6, <1>7, Zenon

\* The script of the change output: six spans, and OP_DUP in front.
LEMMA ChangeScript ==
  /\ \E S : p2pkh_script_pubkey \in Seq(S)
  /\ Len(p2pkh_script_pubkey) = 6
  /\ p2pkh_script_pubkey[1] = ByteSpan(118)
  /\ Size(p2pkh_script_pubkey) \in 1..120
<1>1. PICK h : h = [src |-> <<"hash of pubkey">>, at |-> 0, len |-> 20]
  OBVIOUS
<1>2. Stretch(<<"hash of pubkey">>, 20) = <<h>>
  <2>1. 20 # 0
    OBVIOUS
  <2> QED
    BY <1>1, <2>1, Zenon DEF Stretch
<1>3. PICK a, b, c, d, e : /\ a = ByteSpan(118) /\ b = ByteSpan(169) /\ c = ByteSpan(20)
                           /\ d = ByteSpan(136) /\ e = ByteSpan(172)
  OBVIOUS
<1>4. PICK x : x = <<a, b, c, h, d, e>>
  OBVIOUS
<1>5. PICK s : s = <<<<a>>, <<b>>, <<c>>, <<h>>, <<d>>, <<e>>>>
  OBVIOUS
<1>6. p2pkh_script_pubkey = CatAll(s)
  <2>1. /\ Byte(118) = <<a>> /\ Byte(169) = <<b>> /\ Byte(20) = <<c>>
        /\ Byte(136) = <<d>> /\ Byte(172) = <<e>>
    BY <1>3, ByteIs
  <2> QED
    BY <1>2, <1>5, <2>1 DEF p2pkh_script_pubkey
<1>7. PICK S : x \in Seq(S)
  <2>1. x \in Seq({a, b, c, h, d, e})
    BY <1>4
  <2> QED
    BY <2>1
<1>8. /\ Len(x) = 6 /\ Len(s) = 6
      /\ x[1] = a /\ x[2] = b /\ x[3] = c /\ x[4] = h /\ x[5] = d /\ x[6] = e
      /\ s[1] = <<a>> /\ s[2] = <<b>> /\ s[3] = <<c>> /\ s[4] = <<h>> /\ s[5] = <<d>> /\ s[6] = <<e>>
  BY <1>4, <1>5
<1>9. \A i \in 1..6 : i = 1 \/ i = 2 \/ i = 3 \/ i = 4 \/ i = 5 \/ i = 6
  OBVIOUS
<1>10. PICK n \in Nat : n = 6
  OBVIOUS
<1>11. \A i \in 1..n : s[i] = <<x[i]>>
  BY <1>8, <1>9, <1>10
<1>12. \A i \in 2..n : ~Continues(x[i - 1], x[i])
  <2>1. ~Continues(a, b) /\ ~Continues(b, c) /\ ~Continues(c, h) /\ ~Continues(d, e)
    BY <1>3, ByteApart
  <2>2. ~Continues(h, d)
    BY <1>1, <1>3 DEF Continues, ByteSpan
  <2>3. \A i \in 2..6 : i = 2 \/ i = 3 \/ i = 4 \/ i = 5 \/ i = 6
    OBVIOUS
  <2>4. 2 - 1 = 1 /\ 3 - 1 = 2 /\ 4 - 1 = 3 /\ 5 - 1 = 4 /\ 6 - 1 = 5
    OBVIOUS
  <2> QED
    BY <1>8, <1>10, <2>1, <2>2, <2>3, <2>4
<1>13. CatAll(s) = x
  BY <1>7, <1>8, <1>10, <1>11, <1>12, CatAllApart
<1>14. Size(x) \in Nat /\ n <= Size(x) /\ Size(x) <= n * 20
  <2>1. PICK hi \in Nat : hi = 20
    OBVIOUS
  <2>2. a.len = 1 /\ b.len = 1 /\ c.len = 1 /\ h.len = 20 /\ d.len = 1 /\ e.len = 1
    BY <1>1, <1>3 DEF ByteSpan
  <2>3. \A i \in 1..n : x[i].len \in 1..hi
    BY <1>8, <1>9, <1>10, <2>1, <2>2
  <2>4. Size(x) \in Nat /\ n <= Size(x) /\ Size(x) <= n * hi
    BY <1>8, <1>10, <2>3, SizeBounds
  <2> QED
    BY <2>1, <2>4
<1>15. p2pkh_script_pubkey = x
  BY <1>6, <1>13
<1>16. Size(x) \in 1..120
  BY <1>10, <1>14
<1> QED
  BY <1>3, <1>7, <1>8, <1>15, <1>16, Zenon

\* The script of a carrier output.
LEMMA CarrierScript ==
  /\ \E S : p2sh_script_pubkey \in Seq(S)
  /\ Len(p2sh_script_pubkey) = 4
  /\ p2sh_script_pubkey[1] = ByteSpan(169)
  /\ Size(p2sh_script_pubkey) \in 1..80
<1>1. PICK h : h = [src |-> <<"hash of redeem">>, at |-> 0, len |-> 20]
  OBVIOUS
<1>2. Stretch(<<"hash of redeem">>, 20) = <<h>>
  <2>1. 20 # 0
    OBVIOUS
  <2> QED
    BY <1>1, <2>1, Zenon DEF Stretch
<1>3. PICK a, b, d : a = ByteSpan(169) /\ b = ByteSpan(20) /\ d = ByteSpan(135)
  OBVIOUS
<1>4. PICK x : x = <<a, b, h, d>>
  OBVIOUS
<1>5. PICK s : s = <<<<a>>, <<b>>, <<h>>, <<d>>>>
  OBVIOUS
<1>6. p2sh_script_pubkey = CatAll(s)
  <2>1. Byte(169) = <<a>> /\ Byte(20) = <<b>> /\ Byte(135) = <<d>>
    BY <1>3, ByteIs
  <2> QED
    BY <1>2, <1>5, <2>1 DEF p2sh_script_pubkey
<1>7. PICK S : x \in Seq(S)
  <2>1. x \in Seq({a, b, h, d})
    BY <1>4
  <2> QED
    BY <2>1
<1>8. /\ Len(x) = 4 /\ Len(s) = 4
      /\ x[1] = a /\ x[2] = b /\ x[3] = h /\ x[4] = d
      /\ s[1] = <<a>> /\ s[2] = <<b>> /\ s[3] = <<h>> /\ s[4] = <<d>>
  BY <1>4, <1>5
<1>9. \A i \in 1..4 : i = 1 \/ i = 2 \/ i = 3 \/ i = 4
  OBVIOUS
<1>10. PICK n \in Nat : n = 4
  OBVIOUS
<1>11. \A i \in 1..n : s[i] = <<x[i]>>
  BY <1>8, <1>9, <1>10
<1>12. \A i \in 2..n : ~Continues(x[i - 1], x[i])
  <2>1. ~Continues(a, b) /\ ~Continues(b, h)
    BY <1>3, ByteApart
  <2>2. ~Continues(h, d)
    BY <1>1, <1>3 DEF Continues, ByteSpan
  <2>3. \A i \in 2..4 : i = 2 \/ i = 3 \/ i = 4
    OBVIOUS
  <2>4. 2 - 1 = 1 /\ 3 - 1 = 2 /\ 4 - 1 = 3
    OBVIOUS
  <2> QED
    BY <1>8, <1>10, <2>1, <2>2, <2>3, <2>4
<1>13. CatAll(s) = x
  BY <1>7, <1>8, <1>10, <1>11, <1>12, CatAllApart
<1>14. Size(x) \in Nat /\ n <= Size(x) /\ Size(x) <= n * 20
  <2>1. PICK hi \in Nat : hi = 20
    OBVIOUS
  <2>2. a.len = 1 /\ b.len = 1 /\ h.len = 20 /\ d.len = 1
    BY <1>1, <1>3 DEF ByteSpan
  <2>3. \A i \in 1..n : x[i].len \in 1..hi
    BY <1>8, <1>9, <1>10, <2>1, <2>2
  <2>4. Size(x) \in Nat /\ n <= Size(x) /\ Size(x) <= n * hi
    BY <1>8, <1>10, <2>3, SizeBounds
  <2> QED
    BY <2>1, <2>4
<1>15. p2sh_script_pubkey = x
  BY <1>6, <1>13
<1>16. Size(x) \in 1..80
  BY <1>10, <1>14
<1> QED
  BY <1>3, <1>7, <1>8, <1>15, <1>16, Zenon

\* The indexer skips the change output.
LEMMA ChangeIsSkipped ==
  ASSUME NEW v
  PROVE  MessageIn(Pay(v, p2pkh_script_pubkey)) = Skip
<1>1. PICK S : p2pkh_script_pubkey \in Seq(S)
  BY ChangeScript
<1>2. PICK w \in Int : w = 118
  OBVIOUS
<1>3. PICK b \in Seq(S) : b = p2pkh_script_pubkey
  BY <1>1
<1>4. Len(b) >= 1 /\ b[1] = ByteSpan(w)
  BY <1>2, <1>3, ChangeScript
<1>5. ByteAt(b, 0) = w
  BY <1>4, FirstByte
<1>6. ByteAt(b, 0) # OP_RETURN
  BY <1>2, <1>5 DEF OP_RETURN
<1>7. extract_op_return_data(b) = NoPush
  BY <1>6, Zenon DEF extract_op_return_data
<1>8. ~NoPush.ok
  BY DEF NoPush
<1>9. Pay(v, p2pkh_script_pubkey).script = b
  BY <1>3 DEF Pay
<1> QED
  BY <1>7, <1>8, <1>9, Zenon DEF MessageIn

(***************************************************************************)
(* Fees and plans.                                                         *)
(***************************************************************************)
LEMMA CeilDivBounds ==
  ASSUME NEW m \in Nat, NEW n \in Nat \ {0}
  PROVE  CeilDiv(m, n) \in Nat /\ n * CeilDiv(m, n) >= m /\ n * CeilDiv(m, n) < m + n
<1>1. PICK a \in Nat : a = m + n - 1
  OBVIOUS
<1>2. PICK d \in Int, r \in 0..(n - 1) : a = n * d + r /\ a \div n = d
  OBVIOUS
<1>3. PICK q \in Int : q = n * d
  OBVIOUS
<1>4. q >= m /\ q < m + n
  BY <1>1, <1>2, <1>3
<1>5. d >= 0
  <2> SUFFICES ASSUME d < 0 PROVE FALSE
    BY <1>2
  <2>1. n * d <= n * (0 - 1)
    BY <1>2
  <2> QED
    BY <1>3, <1>4, <2>1
<1>6. CeilDiv(m, n) = d
  BY <1>1, <1>2 DEF CeilDiv
<1> QED
  BY <1>2, <1>3, <1>4, <1>5, <1>6

LEMMA ConstIs ==
  ASSUME NEW n \in Nat, NEW v \in Int
  PROVE  /\ Const(n, v) = [i \in 1..n |-> v]
         /\ Len(Const(n, v)) = n
         /\ Sum(Const(n, v)) = n * v
<1>1. PICK f : f = [i \in 1..n |-> v]
  OBVIOUS
<1>2. f = [i \in 1..n |-> f[i]]
  BY <1>1
<1>3. Len(f) = n /\ <<>> \o f = f
  BY <1>2, Listed
<1>4. Const(n, v) = f
  BY <1>1, <1>3 DEF Const, Each
<1>5. \A i \in 1..n : f[i] \in Int /\ v <= f[i] /\ f[i] <= v
  BY <1>1
<1>6. Sum(f) \in Int /\ n * v <= Sum(f) /\ Sum(f) <= n * v
  BY <1>3, <1>5, SumBounds
<1>7. PICK q \in Int, z \in Int : q = n * v /\ z = Sum(f)
  <2>1. n * v \in Int
    OBVIOUS
  <2> QED
    BY <1>6, <2>1, Zenon
<1>8. q <= z /\ z <= q
  BY <1>6, <1>7, Zenon
<1>9. q = z
  BY <1>8
<1> QED
  BY <1>1, <1>3, <1>4, <1>7, <1>9, Zenon

\* What DEPLOY costs.
Fee(chunks, p) ==
  zip317_fee_from_sizes(
    Sum(Map(LAMBDA c : input_serialized_size(carrier_script_sig_len(Size(c))), chunks)),
    output_serialized_size(Size(op_return_script(p))) + P2PKH_OUT)

\* Chunks as split_chunks makes them.
Chunked(chunks, n) ==
  /\ n \in 1..MAX_CHUNKS
  /\ Len(chunks) = n
  /\ \A i \in 1..n : /\ Size(chunks[i]) \in Nat \ {0}
                      /\ Size(chunks[i]) <= CHUNK_PAYLOAD_SIZE

LEMMA InputSize ==
  ASSUME NEW k \in Nat \ {0}, k <= CHUNK_PAYLOAD_SIZE
  PROVE  /\ input_serialized_size(carrier_script_sig_len(k)) \in Nat \ {0}
         /\ input_serialized_size(carrier_script_sig_len(k)) <= 2100
<1>0. k <= 1400
  BY DEF CHUNK_PAYLOAD_SIZE
<1>1. PICK full \in Int, part \in 0..519 :
         full = k \div 520 /\ part = k % 520 /\ k = 520 * full + part
  OBVIOUS
<1>2. full \in 0..2
  BY <1>0, <1>1
<1>3. push_overhead(520) = 3
  BY DEF push_overhead
<1>4. push_overhead(36) = 1
  BY DEF push_overhead
<1>5. push_overhead(part) \in 1..3
  BY <1>1 DEF push_overhead
<1>6. PICK p \in 0..522 : p = IF part = 0 THEN 0 ELSE push_overhead(part) + part
  <2>1. PICK o \in 1..3 : o = push_overhead(part)
    BY <1>5
  <2>2. (IF part = 0 THEN 0 ELSE o + part) \in 0..522
    <3>1. CASE part = 0
      BY <3>1
    <3>2. CASE part # 0
      BY <1>1, <3>2
    <3> QED
      BY <3>1, <3>2
  <2> QED
    BY <2>1, <2>2
<1>7. carrier_script_sig_len(k) = 2 + full * 523 + p + (1 + 73) + (1 + 36)
  BY <1>1, <1>3, <1>4, <1>6
     DEF carrier_script_sig_len, MAX_PUSH_SIZE, REDEEM_SCRIPT_LEN, MAX_SIGNATURE_LEN
<1>8. PICK q \in Nat \ {0} : q = carrier_script_sig_len(k) /\ q <= 1700
  BY <1>2, <1>7
<1>9. input_serialized_size(q) \in Nat \ {0} /\ input_serialized_size(q) <= 2100
  BY <1>8 DEF serialized_script_size, input_serialized_size
<1> QED
  BY <1>8, <1>9

LEMMA FeeBounds ==
  ASSUME NEW n, NEW chunks, Chunked(chunks, n), NEW p, p.size \in 1..75
  PROVE  Fee(chunks, p) \in Nat /\ Fee(chunks, p) <= n * PROBE_VALUE
<1>1. n \in Nat \ {0} /\ Len(chunks) = n
  BY DEF Chunked, MAX_CHUNKS
<1>2. PICK f : f = [i \in 1..n |-> input_serialized_size(carrier_script_sig_len(Size(chunks[i])))]
  OBVIOUS
<1>3. Len(f) = n /\ <<>> \o f = f
  <2>1. f = [i \in 1..n |-> f[i]]
    BY <1>2
  <2> QED
    BY <1>1, <2>1, Listed
<1>4. Sum(Map(LAMBDA c : input_serialized_size(carrier_script_sig_len(Size(c))), chunks)) = Sum(f)
  BY <1>1, <1>2, <1>3 DEF Map
<1>5. PICK z \in Nat : z = Sum(f) /\ z <= n * 2100
  <2>1. PICK lo \in Int, hi \in Int : lo = 1 /\ hi = 2100
    OBVIOUS
  <2>2. ASSUME NEW i \in 1..n PROVE f[i] \in Int /\ lo <= f[i] /\ f[i] <= hi
    <3>1. PICK k \in Nat \ {0} : k = Size(chunks[i]) /\ k <= CHUNK_PAYLOAD_SIZE
      BY DEF Chunked
    <3>2. f[i] = input_serialized_size(carrier_script_sig_len(k))
      BY <1>2, <3>1
    <3>3. PICK e \in Nat \ {0} : e = input_serialized_size(carrier_script_sig_len(k)) /\ e <= 2100
      BY <3>1, InputSize
    <3> QED
      BY <2>1, <3>2, <3>3
  <2>3. Sum(f) \in Int /\ n * lo <= Sum(f) /\ Sum(f) <= n * hi
    BY <1>1, <1>3, <2>2, SumBounds
  <2>4. PICK u \in Int, v \in Int : u = n * lo /\ v = n * hi
    <3>1. n * lo \in Int /\ n * hi \in Int
      BY <1>1
    <3> QED
      BY <3>1, Zenon
  <2>8. u = n /\ v = n * 2100
    BY <1>1, <2>1, <2>4
  <2>5. PICK y \in Int : y = Sum(f)
    BY <2>3
  <2>6. u <= y /\ y <= v
    BY <2>3, <2>4, <2>5, Zenon
  <2>7. y \in Nat /\ y <= n * 2100
    BY <1>1, <2>6, <2>8
  <2> QED
    BY <2>5, <2>7
<1>6. PICK w \in Nat : w = output_serialized_size(Size(op_return_script(p))) + P2PKH_OUT /\ w <= 400
  <2>1. PICK a \in 1..120 : a = Size(op_return_script(p))
    <3>1. Size(op_return_script(p)) = p.size + 2
      BY OpReturnReadBack
    <3> QED
      BY <3>1
  <2>2. PICK b \in 1..120 : b = Size(p2pkh_script_pubkey)
    BY ChangeScript
  <2>3. PICK u \in Nat : u = output_serialized_size(a) /\ u <= 200
    BY DEF output_serialized_size, serialized_script_size
  <2>4. PICK v \in Nat : v = output_serialized_size(b) /\ v <= 200
    BY DEF output_serialized_size, serialized_script_size
  <2>5. v = P2PKH_OUT
    BY <2>2, <2>4 DEF P2PKH_OUT
  <2>6. PICK w \in Nat : w = u + v /\ w <= 400
    BY <2>3, <2>4
  <2> QED
    BY <2>1, <2>3, <2>5, <2>6
<1>7. PICK c \in Nat : c = CeilDiv(z, 150) /\ c <= n * 14 + 1
  <2>1. PICK k \in Nat \ {0} : k = 150
    OBVIOUS
  <2>2. CeilDiv(z, k) \in Nat /\ k * CeilDiv(z, k) < z + k
    BY <2>1, CeilDivBounds
  <2>3. PICK c \in Nat : c = CeilDiv(z, k)
    BY <2>2
  <2>4. 150 * c < z + 150
    BY <2>1, <2>2, <2>3
  <2>5. c <= n * 14 + 1
    BY <1>1, <1>5, <2>4
  <2> QED
    BY <2>1, <2>3, <2>5
<1>8. PICK d \in Nat : d = CeilDiv(w, 34) /\ d <= 13
  <2>1. PICK k \in Nat \ {0}, x \in Nat : k = 34 /\ x = w
    OBVIOUS
  <2>2. CeilDiv(x, k) \in Nat /\ k * CeilDiv(x, k) < x + k
    BY <2>1, CeilDivBounds
  <2>3. PICK d \in Nat : d = CeilDiv(x, k)
    BY <2>2
  <2>4. 34 * d < w + 34
    BY <2>1, <2>2, <2>3
  <2>5. d <= 13
    BY <1>6, <2>4
  <2> QED
    BY <2>1, <2>3, <2>5
<1>9. Fee(chunks, p) = 5000 * Greater(Greater(c, d), 2)
  <2>1. Fee(chunks, p) = zip317_fee_from_sizes(z, w)
    BY <1>4, <1>5, <1>6 DEF Fee
  <2> QED
    BY <1>7, <1>8, <2>1 DEF zip317_fee_from_sizes, MARGINAL_FEE, GRACE_ACTIONS
<1>10. PICK g \in Nat : g = Greater(Greater(c, d), 2) /\ g <= n * 14 + 14
  BY <1>1, <1>7, <1>8 DEF Greater
<1>11. 5000 * g \in Nat /\ 5000 * g <= n * 10000000
  BY <1>1, <1>10
<1> QED
  BY <1>9, <1>10, <1>11 DEF PROBE_VALUE

\* A stretch of a span.
LEMMA ClipPart ==
  ASSUME NEW w, IsSpan(w), w.src # <<"byte">>,
         NEW lo \in Nat, NEW hi \in Nat, lo < hi, hi <= w.len
  PROVE  \E v : IsSpan(v) /\ v.len = hi - lo /\ v.src = w.src /\ Clip(w, 0, lo, hi) = <<v>>
<1>1. w.at \in Int /\ w.len \in Nat
  BY DEF IsSpan
<1>2. Greater(lo - 0, 0) = lo
  BY DEF Greater
<1>3. Lesser(hi - 0, w.len) = hi
  BY <1>1 DEF Lesser
<1>4. ~(lo >= hi)
  OBVIOUS
<1>5. PICK v : v = [w EXCEPT !.at = w.at + lo, !.len = hi - lo]
  OBVIOUS
<1>6. Clip(w, 0, lo, hi) = <<v>>
  BY <1>2, <1>3, <1>4, <1>5, Zenon DEF Clip
<1>7. PICK a \in Int, l \in Nat \ {0} : a = w.at + lo /\ l = hi - lo
  BY <1>1
<1>8. v = [src |-> w.src, at |-> a, len |-> l]
  BY <1>5, <1>7 DEF IsSpan
<1>9. IsSpan(v) /\ v.len = hi - lo /\ v.src = w.src
  BY <1>7, <1>8 DEF IsSpan
<1> QED
  BY <1>6, <1>9

\* split_chunks cuts a module into at least one and at most MAX_CHUNKS chunks
\* that fit a carrier.
LEMMA SplitIs ==
  ASSUME NEW len \in Nat, NEW b, b = Stretch(<<"wasm">>, len), split_chunks(b).ok
  PROVE  \E n : Chunked(split_chunks(b).chunks, n)
<1>1. /\ Size(b) \in 1..MAX_CODE_BYTES
      /\ CeilDiv(Size(b), CHUNK_PAYLOAD_SIZE) <= MAX_CHUNKS
      /\ split_chunks(b).chunks = Pieces(b, CHUNK_PAYLOAD_SIZE)
  BY DEF split_chunks, carrier_input_count
<1>2. len # 0
  <2> SUFFICES ASSUME len = 0 PROVE FALSE
    OBVIOUS
  <2>1. PICK z \in Nat : z = 0
    OBVIOUS
  <2>2. b = <<>> /\ Len(b) = z
    BY <2>1 DEF Stretch
  <2>3. PICK hi \in Nat : hi = 1
    OBVIOUS
  <2>4. \A i \in 1..z : b[i].len \in 1..hi
    BY <2>1
  <2>5. Size(b) \in Nat /\ Size(b) <= z * hi
    BY <2>2, <2>4, SizeBounds
  <2> QED
    BY <1>1, <2>1, <2>3, <2>5
<1>3. PICK w : w = [src |-> <<"wasm">>, at |-> 0, len |-> len]
  OBVIOUS
<1>4. b = <<w>>
  BY <1>2, <1>3, Zenon DEF Stretch
<1>5. IsSpan(w) /\ w.src # <<"byte">> /\ w.len = len
  BY <1>2, <1>3 DEF IsSpan
<1>6. Size(b) = len
  BY <1>4, <1>5, SizeSmall
<1>7. PICK c \in Nat \ {0} : c = CHUNK_PAYLOAD_SIZE
  BY DEF CHUNK_PAYLOAD_SIZE
<1>8. PICK n \in Nat : n = CeilDiv(len, c) /\ c * n >= len /\ c * n < len + c
  BY CeilDivBounds
<1>9. n \in 1..MAX_CHUNKS
  <2>1. n # 0
    <3>1. c * 0 = 0
      OBVIOUS
    <3> QED
      BY <1>2, <1>8, <3>1
  <2> QED
    BY <1>1, <1>6, <1>7, <1>8, <2>1 DEF MAX_CHUNKS
<1>10. PICK f : f = [i \in 1..n |-> Slice(b, (i - 1) * c, Lesser(i * c, len))]
  OBVIOUS
<1>11. Len(f) = n /\ <<>> \o f = f
  <2>1. f = [i \in 1..n |-> f[i]]
    BY <1>10
  <2> QED
    BY <2>1, Listed
<1>12. split_chunks(b).chunks = f
  BY <1>1, <1>6, <1>7, <1>8, <1>10, <1>11 DEF Pieces, Each
<1>13. ASSUME NEW i \in 1..n
       PROVE  Size(f[i]) \in Nat \ {0} /\ Size(f[i]) <= CHUNK_PAYLOAD_SIZE
  <2>1. PICK lo \in Nat, up \in Nat : lo = (i - 1) * c /\ up = i * c
    <3>1. (i - 1) * c \in Nat /\ i * c \in Nat
      OBVIOUS
    <3> QED
      BY <3>1, Zenon
  <2>2. up = lo + c
    BY <2>1
  <2>3. lo < len
    <3>1. up <= c * n
      BY <2>1
    <3>2. PICK q \in Int : q = c * n
      OBVIOUS
    <3> QED
      BY <1>8, <2>2, <3>1, <3>2
  <2>4. PICK hi \in Nat : hi = Lesser(up, len) /\ lo < hi /\ hi <= len /\ hi - lo <= c
    BY <2>2, <2>3 DEF Lesser
  <2>5. PICK v : IsSpan(v) /\ v.len = hi - lo /\ Clip(w, 0, lo, hi) = <<v>>
    BY <1>5, <2>4, ClipPart
  <2>6. Slice(<<w>>, lo, hi) = <<>> \o Clip(w, 0, lo, hi)
    BY <1>5, SliceSmall
  <2>7. Slice(<<w>>, lo, hi) = <<v>>
    BY <2>5, <2>6, Puts
  <2>8. f[i] = <<v>>
    BY <1>4, <1>10, <2>1, <2>4, <2>7
  <2>9. Size(f[i]) = hi - lo
    BY <2>5, <2>8, SizeSmall
  <2> QED
    BY <1>7, <2>4, <2>9
<1> QED
  BY <1>9, <1>11, <1>12, <1>13 DEF Chunked

\* A DEPLOY whose carriers pay its fee is planned: one input for each chunk, the
\* message, and the change if there is any.
DeployInputs(outpoints, values, chunks) ==
  [i \in 1..Len(outpoints) |-> Coin(outpoints[i], values[i], CarrierSpend(i - 1, chunks[i]))]

DeployOutputs(p, change) ==
  <<Pay(0, op_return_script(p))>>
    \o (IF change > 0 THEN <<Pay(change, p2pkh_script_pubkey)>> ELSE <<>>)

LEMMA DeployPlanIs ==
  ASSUME NEW n \in Nat, NEW chunks, Len(chunks) = n, NEW p,
         NEW outpoints, Len(outpoints) = n, NEW values, Len(values) = n,
         NEW fee \in Nat, fee = Fee(chunks, p), NEW total \in Int, total = Sum(values), fee <= total
  PROVE  deploy_plan(outpoints, values, chunks, p)
           = PreparedTx(DeployInputs(outpoints, values, chunks), DeployOutputs(p, total - fee),
                        fee, total - fee)
<1>1. PICK f : f = DeployInputs(outpoints, values, chunks)
  OBVIOUS
<1>2. f = [i \in 1..n |-> f[i]]
  BY <1>1 DEF DeployInputs
<1>3. <<>> \o f = f
  BY <1>2, Listed
<1>4. ~(Len(outpoints) # Len(chunks) \/ Len(outpoints) # Len(values) \/ total - fee < 0)
  OBVIOUS
<1>5. /\ fee = zip317_fee_from_sizes(
                 Sum(Map(LAMBDA c : input_serialized_size(carrier_script_sig_len(Size(c))), chunks)),
                 output_serialized_size(Size(op_return_script(p))) + P2PKH_OUT)
  BY DEF Fee
<1>6. Each(Len(outpoints), LAMBDA i :
              Coin(outpoints[i], values[i], CarrierSpend(i - 1, chunks[i]))) = <<>> \o f
  BY <1>1 DEF Each, DeployInputs
<1> QED
  BY <1>1, <1>3, <1>4, <1>5, <1>6, Zenon DEF deploy_plan, DeployOutputs

LEMMA DeployMessageSize ==
  ASSUME NEW chunks
  PROVE  deploy_op_return(chunks).size = 45 /\ deploy_op_return(chunks).size \in 1..75
  BY DEF deploy_op_return, encode_deploy, Payload, HEADER, DEPLOY_BODY

\* The probe plan is there, and has the fee DEPLOY will have.
LEMMA ProbeFee ==
  ASSUME NEW n, NEW chunks, Chunked(chunks, n)
  PROVE  deploy_fee(chunks) = Fee(chunks, deploy_op_return(chunks))
<1>1. PICK p : p = deploy_op_return(chunks)
  OBVIOUS
<1>2. p.size \in 1..75
  BY <1>1, DeployMessageSize
<1>3. n \in Nat /\ Len(chunks) = n
  BY DEF Chunked
<1>4. PICK fee \in Nat : fee = Fee(chunks, p) /\ fee <= n * PROBE_VALUE
  BY <1>2, FeeBounds
<1>5. PICK outpoints : /\ outpoints = Each(Len(chunks), LAMBDA i : <<"probe", "transparent", 0, i - 1>>)
                       /\ Len(outpoints) = n
  <2>1. PICK f : f = [i \in 1..n |-> <<"probe", "transparent", 0, i - 1>>]
    OBVIOUS
  <2>2. f = [i \in 1..n |-> f[i]]
    BY <2>1
  <2>3. <<>> \o f = f /\ Len(f) = n
    BY <1>3, <2>2, Listed
  <2> QED
    BY <1>3, <2>1, <2>3 DEF Each
<1>6. PICK v \in Int : v = PROBE_VALUE
  BY DEF PROBE_VALUE
<1>7. PICK values : values = Const(n, v) /\ Len(values) = n /\ Sum(values) = n * v
  BY <1>3, ConstIs
<1>8. PICK total \in Int : total = Sum(values) /\ fee <= total
  <2>1. n * v \in Int
    BY <1>3
  <2>2. fee <= n * v
    BY <1>4, <1>6
  <2> QED
    BY <1>7, <2>1, <2>2
<1>9. deploy_plan(outpoints, values, chunks, p)
        = PreparedTx(DeployInputs(outpoints, values, chunks), DeployOutputs(p, total - fee),
                     fee, total - fee)
  <2>1. /\ n \in Nat /\ Len(chunks) = n /\ Len(outpoints) = n /\ Len(values) = n
        /\ fee = Fee(chunks, p) /\ total = Sum(values) /\ fee <= total
    BY <1>3, <1>4, <1>5, <1>7, <1>8, Zenon
  <2> QED
    BY <2>1, DeployPlanIs
<1>10. deploy_plan(outpoints, values, chunks, p).fee = fee
  BY <1>9 DEF PreparedTx
<1>11. deploy_fee(chunks) = deploy_plan(outpoints, values, chunks, p).fee
  BY <1>1, <1>3, <1>5, <1>6, <1>7, Zenon DEF deploy_fee
<1> QED
  BY <1>1, <1>4, <1>10, <1>11

\* The carriers hold the fee of DEPLOY and the margin.
LEMMA CarriersCover ==
  ASSUME NEW n, NEW chunks, Chunked(chunks, n)
  PROVE  \E each \in Nat, fee \in Nat :
            /\ each = carrier_each(chunks)
            /\ fee = Fee(chunks, deploy_op_return(chunks))
            /\ n * each >= fee + CARRIER_MARGIN
<1>1. n \in Nat \ {0} /\ Len(chunks) = n
  BY DEF Chunked, MAX_CHUNKS
<1>2. PICK p : p = deploy_op_return(chunks) /\ p.size \in 1..75
  BY DeployMessageSize
<1>3. PICK fee \in Nat : fee = Fee(chunks, p)
  BY <1>2, FeeBounds
<1>4. deploy_fee(chunks) = fee
  BY <1>2, <1>3, ProbeFee
<1>5. PICK m \in Nat : m = fee + CARRIER_MARGIN
  BY DEF CARRIER_MARGIN
<1>6. CeilDiv(m, n) \in Nat /\ n * CeilDiv(m, n) >= m
  BY <1>1, CeilDivBounds
<1>7. carrier_each(chunks) = CeilDiv(m, n)
  BY <1>1, <1>4, <1>5 DEF carrier_each
<1> QED
  BY <1>2, <1>3, <1>5, <1>6, <1>7

\* PREPARE pays the carriers first.
LEMMA PreparePays ==
  ASSUME NEW n \in Nat, NEW v, NEW values, values = [i \in 1..n |-> v], Len(values) = n,
         NEW utxos, prepare_plan(utxos, values).ok
  PROVE  \A i \in 1..n : prepare_plan(utxos, values).outputs[i] = Pay(v, p2sh_script_pubkey)
<1>1. PICK f : f = [i \in 1..n |-> Pay(values[i], p2sh_script_pubkey)]
  OBVIOUS
<1>2. f = [i \in 1..n |-> f[i]]
  BY <1>1
<1>3. <<>> \o f = f /\ Len(f) = n /\ f \in Seq({f[i] : i \in 1..n})
  BY <1>2, Listed
<1>4. Map(LAMBDA x : Pay(x, p2sh_script_pubkey), values) = f
  BY <1>1, <1>3 DEF Map
<1>5. \E change : prepare_plan(utxos, values).outputs
                    = f \o (IF change > 0 THEN <<Pay(change, p2pkh_script_pubkey)>> ELSE <<>>)
  <2>1. ~NoPlan.ok
    BY DEF NoPlan
  <2> QED
    BY <1>4, <2>1 DEF prepare_plan, PreparedTx
<1>6. PICK change : prepare_plan(utxos, values).outputs
                    = f \o (IF change > 0 THEN <<Pay(change, p2pkh_script_pubkey)>> ELSE <<>>)
  BY <1>5
<1>7. PICK e : e = IF change > 0 THEN <<Pay(change, p2pkh_script_pubkey)>> ELSE <<>>
  OBVIOUS
<1>8. PICK S : f \in Seq(S) /\ e \in Seq(S)
  <2>1. PICK c : c = Pay(change, p2pkh_script_pubkey)
    OBVIOUS
  <2> DEFINE S == {f[i] : i \in 1..n} \cup {c}
  <2>2. f \in [1..n -> S]
    BY <1>2
  <2>3. c \in S
    OBVIOUS
  <2> HIDE DEF S
  <2>4. f \in Seq(S)
    BY <2>2
  <2>5. <<>> \in Seq(S) /\ <<c>> \in Seq(S)
    BY <2>3
  <2> QED
    BY <1>7, <2>1, <2>4, <2>5
<1>9. ASSUME NEW i \in 1..n PROVE (f \o e)[i] = Pay(v, p2sh_script_pubkey)
  <2>1. i \in 1..Len(f)
    BY <1>3
  <2>2. (f \o e)[i] = f[i]
    BY <1>8, <2>1, ConcatProperties
  <2> QED
    BY <1>1, <2>2
<1> QED
  BY <1>6, <1>7, <1>9

(***************************************************************************)
(* The plans of a command, as functions of the command c, what it was      *)
(* sized to (s) and the fields of a transaction.                           *)
(***************************************************************************)
ModuleOf(c) == Stretch(<<"wasm">>, c.len)

DeployMessage(c, chunks) ==
  encode_deploy([hash |-> ModuleOf(c), length |-> c.len, count |-> Len(chunks), index |-> 0])

Outpoints(s, pool, coin) ==
  <<>> \o [i \in 1..Len(s.chunks) |-> <<"prepare", pool, coin, i - 1>>]

ValuesOf(s) == Const(Len(s.chunks), s.each)

UtxoOf(c, coin) == [outpoint |-> FundingCoin(coin), value |-> c.funds]

CallMessage(c) == encode_call([id |-> "contract", opcode |-> 7, length |-> c.len])

PlanFor(c, s, kind, pool, coin) ==
  CASE kind = "deploy" ->
         deploy_plan(Outpoints(s, pool, coin), ValuesOf(s), s.chunks, DeployMessage(c, s.chunks))
    [] kind = "prepare" /\ pool = "transparent" -> prepare_plan(<<UtxoOf(c, coin)>>, ValuesOf(s))
    [] kind = "call" /\ pool = "transparent" -> call_plan(UtxoOf(c, coin), CallMessage(c))
    [] kind = "prepare" /\ pool = "shielded" ->
         PreparedTx(<<>>, Map(LAMBDA v : Pay(v, p2sh_script_pubkey), ValuesOf(s)), 0, 0)
    [] kind = "call" /\ pool = "shielded" ->
         PreparedTx(<<>>, <<Pay(0, op_return_script(CallMessage(c)))>>, 0, 0)

LEMMA PlanIs ==
  ASSUME NEW t
  PROVE  PlanOf(t) = PlanFor(cmd, sized, t.kind, t.pool, t.coin)
  BY Zenon DEF PlanOf, PlanFor, CarrierOutpoints, Outpoints, Each, Chunks, carrier_values, ValuesOf,
         deploy_op_return, DeployMessage, Wasm, ModuleOf, UtxoOf, call_op_return, CallMessage

LEMMA MessageIs ==
  ASSUME NEW chunks
  PROVE  deploy_op_return(chunks) = DeployMessage(cmd, chunks)
  BY DEF deploy_op_return, DeployMessage, Wasm, ModuleOf

\* What contract_deploy has computed before PREPARE: the chunks, and carriers
\* that hold the fee of DEPLOY and the margin.
SizedRight(c, s) ==
  \E n, each \in Nat, fee \in Nat :
    /\ Chunked(s.chunks, n)
    /\ s.each = each
    /\ fee = Fee(s.chunks, DeployMessage(c, s.chunks))
    /\ n * each >= fee + CARRIER_MARGIN

LEMMA SizedIs ==
  ASSUME NEW s, cmd.len \in Nat, split_chunks(Wasm).ok,
         s = [chunks |-> split_chunks(Wasm).chunks, each |-> carrier_each(split_chunks(Wasm).chunks)]
  PROVE  SizedRight(cmd, s)
<1>1. PICK chunks : chunks = split_chunks(Wasm).chunks
  OBVIOUS
<1>2. PICK n : Chunked(chunks, n)
  <2>0. PICK len \in Nat : len = cmd.len
    OBVIOUS
  <2>1. PICK b : len = cmd.len /\ b = Wasm
    BY <2>0
  <2>2. b = Stretch(<<"wasm">>, len)
    BY <2>1 DEF Wasm
  <2>3. \E n : Chunked(split_chunks(b).chunks, n)
    BY <2>1, <2>2, SplitIs
  <2> QED
    BY <1>1, <2>1, <2>3
<1>3. PICK each \in Nat, fee \in Nat : /\ each = carrier_each(chunks)
                                       /\ fee = Fee(chunks, deploy_op_return(chunks))
                                       /\ n * each >= fee + CARRIER_MARGIN
  BY <1>2, CarriersCover
<1>4. s.chunks = chunks /\ s.each = each
  BY <1>1, <1>3
<1>5. fee = Fee(chunks, DeployMessage(cmd, chunks))
  BY <1>3, MessageIs
<1>6. n \in Nat
  BY <1>2 DEF Chunked
<1>7. /\ Chunked(s.chunks, n) /\ s.each = each /\ n * each >= fee + CARRIER_MARGIN
      /\ fee = Fee(s.chunks, DeployMessage(cmd, s.chunks))
  BY <1>2, <1>3, <1>4, <1>5, Zenon
<1> QED
  BY <1>6, <1>7, Zenon DEF SizedRight

\* The plan of DEPLOY: n carriers of the same value, the message and the change.
DeployPlanned(c, s, pool, coin, n, each, fee, change) ==
  /\ Chunked(s.chunks, n)
  /\ s.each = each
  /\ fee = Fee(s.chunks, DeployMessage(c, s.chunks))
  /\ ValuesOf(s) = [i \in 1..n |-> each]
  /\ Len(ValuesOf(s)) = n
  /\ Outpoints(s, pool, coin) = [i \in 1..n |-> <<"prepare", pool, coin, i - 1>>]
  /\ change >= CARRIER_MARGIN
  /\ n * each = fee + change
  /\ PlanFor(c, s, "deploy", pool, coin)
       = PreparedTx([i \in 1..n |-> Coin(<<"prepare", pool, coin, i - 1>>, each,
                                         CarrierSpend(i - 1, s.chunks[i]))],
                    DeployOutputs(DeployMessage(c, s.chunks), change), fee, change)

LEMMA DeployIsPlanned ==
  ASSUME NEW c, NEW s, SizedRight(c, s), NEW pool, NEW coin
  PROVE  \E n \in Nat, each \in Nat, fee \in Nat, change \in Nat :
           DeployPlanned(c, s, pool, coin, n, each, fee, change)
<1>1. PICK n, each \in Nat, fee \in Nat :
         /\ Chunked(s.chunks, n)
         /\ s.each = each
         /\ fee = Fee(s.chunks, DeployMessage(c, s.chunks))
         /\ n * each >= fee + CARRIER_MARGIN
  BY DEF SizedRight
<1>2. n \in Nat /\ Len(s.chunks) = n
  BY <1>1 DEF Chunked
<1>3. PICK outpoints : /\ outpoints = Outpoints(s, pool, coin) /\ Len(outpoints) = n
                       /\ outpoints = [i \in 1..n |-> <<"prepare", pool, coin, i - 1>>]
  <2>1. PICK f : f = [i \in 1..n |-> <<"prepare", pool, coin, i - 1>>]
    OBVIOUS
  <2>2. f = [i \in 1..n |-> f[i]]
    BY <2>1
  <2>3. <<>> \o f = f /\ Len(f) = n
    BY <1>2, <2>2, Listed
  <2> QED
    BY <1>2, <2>1, <2>3 DEF Outpoints
<1>4. PICK v \in Int : v = each
  OBVIOUS
<1>5. PICK values : /\ values = ValuesOf(s) /\ Len(values) = n /\ values = [i \in 1..n |-> v]
                    /\ Sum(values) = n * v
  <2>1. Const(n, v) = [i \in 1..n |-> v] /\ Len(Const(n, v)) = n /\ Sum(Const(n, v)) = n * v
    BY <1>2, ConstIs
  <2>2. ValuesOf(s) = Const(n, v)
    BY <1>1, <1>2, <1>4 DEF ValuesOf
  <2> QED
    BY <2>1, <2>2
<1>6. PICK total \in Int : total = n * each
  <2>1. n * each \in Int
    BY <1>2
  <2> QED
    BY <2>1, Zenon
<1>7. total = Sum(values) /\ fee + CARRIER_MARGIN <= total /\ fee <= total
  BY <1>1, <1>4, <1>5, <1>6 DEF CARRIER_MARGIN
<1>8. PICK change \in Nat : change = total - fee /\ change >= CARRIER_MARGIN
  BY <1>7 DEF CARRIER_MARGIN
<1>9. PICK p : p = DeployMessage(c, s.chunks)
  OBVIOUS
<1>10. deploy_plan(outpoints, values, s.chunks, p)
         = PreparedTx(DeployInputs(outpoints, values, s.chunks), DeployOutputs(p, total - fee),
                      fee, total - fee)
  <2>1. /\ n \in Nat /\ Len(s.chunks) = n /\ Len(outpoints) = n /\ Len(values) = n
        /\ fee = Fee(s.chunks, p) /\ total = Sum(values) /\ fee <= total
    BY <1>1, <1>2, <1>3, <1>5, <1>7, <1>9, Zenon
  <2>2. PICK chunks : chunks = s.chunks
    OBVIOUS
  <2>3. deploy_plan(outpoints, values, chunks, p)
         = PreparedTx(DeployInputs(outpoints, values, chunks), DeployOutputs(p, total - fee),
                      fee, total - fee)
    BY <2>1, <2>2, DeployPlanIs
  <2> QED
    BY <2>2, <2>3
<1>11. DeployInputs(outpoints, values, s.chunks)
         = [i \in 1..n |-> Coin(<<"prepare", pool, coin, i - 1>>, each, CarrierSpend(i - 1, s.chunks[i]))]
  BY <1>3, <1>4, <1>5 DEF DeployInputs
<1>12. PlanFor(c, s, "deploy", pool, coin) = deploy_plan(outpoints, values, s.chunks, p)
  BY <1>3, <1>5, <1>9, Zenon DEF PlanFor
<1>13. n * each = fee + change
  BY <1>6, <1>8
<1>14. PlanFor(c, s, "deploy", pool, coin)
         = PreparedTx([i \in 1..n |-> Coin(<<"prepare", pool, coin, i - 1>>, each,
                                           CarrierSpend(i - 1, s.chunks[i]))],
                      DeployOutputs(DeployMessage(c, s.chunks), change), fee, change)
  BY <1>8, <1>9, <1>10, <1>11, <1>12, Zenon
<1>15. ValuesOf(s) = [i \in 1..n |-> each] /\ Len(ValuesOf(s)) = n
  BY <1>4, <1>5
<1>16. /\ n \in Nat /\ Chunked(s.chunks, n) /\ s.each = each
       /\ Outpoints(s, pool, coin) = [i \in 1..n |-> <<"prepare", pool, coin, i - 1>>]
       /\ change >= CARRIER_MARGIN
  BY <1>1, <1>2, <1>3, <1>8
<1>17. DeployPlanned(c, s, pool, coin, n, each, fee, change)
  BY <1>1, <1>13, <1>14, <1>15, <1>16, Zenon DEF DeployPlanned
<1> QED
  BY <1>16, <1>17, Zenon

(***************************************************************************)
(* The running command.                                                    *)
(***************************************************************************)
Planning == {"confirm", "prove", "sign", "extract", "broadcast", "confirm_tx"}
Sourced == {"plan", "print", "wait"} \cup Planning
Pools == {"transparent", "shielded"}
AnyAlteration == {"none"} \cup EffectAlteration \cup SigAlteration

Shape(j) == j = [run |-> j.run, pc |-> j.pc, req |-> j.req, pool |-> j.pool, coin |-> j.coin,
                 pin |-> j.pin, alter |-> j.alter]

\* A request that has been planned has a plan; DEPLOY also has the plan of the
\* PREPARE before it, which had the same pool and coin.
BaseFor(c, s, j) ==
  /\ Shape(j)
  /\ j.req \in {"none", "prepare", "deploy", "call"}
  /\ j.req = "none" <=> j.pc \in {"size", "ended", "failed"}
  /\ j.req \in {"prepare", "deploy"} => SizedRight(c, s)
  /\ j.pc \in Sourced \/ j.req = "deploy" => j.pool \in Pools
  /\ j.pc \in Planning => PlanFor(c, s, j.req, j.pool, j.coin).ok
  /\ j.req = "deploy" => PlanFor(c, s, "prepare", j.pool, j.coin).ok
  /\ j.pc \in {"extract", "broadcast", "confirm_tx"} =>
       /\ j.alter \in AnyAlteration
       /\ j.pool = "shielded" /\ j.req # "deploy" => j.alter = "none"

DeployBase == cmd \in Command /\ BaseFor(cmd, sized, job)

LEMMA CommandLength == cmd \in Command => cmd.len \in Nat /\ cmd.funds \in Nat
  BY DeployConstants DEF DeployConstants, CommandOK

LEMMA Moved ==
  ASSUME NEW j, Shape(j), NEW k, NEW pc, k = [j EXCEPT !.pc = pc]
  PROVE  /\ Shape(k) /\ k.pc = pc /\ k.req = j.req /\ k.pool = j.pool /\ k.coin = j.coin
         /\ k.alter = j.alter
  BY DEF Shape

LEMMA Started ==
  ASSUME NEW run, NEW k, NEW pc, k = [Start(run) EXCEPT !.pc = pc] \/ (k = Start(run) /\ pc = "size")
  PROVE  Shape(k) /\ k.pc = pc /\ k.req = "none"
  BY DEF Shape, Start

LEMMA OverIs ==
  ASSUME NEW c, NEW s, NEW run, NEW k, NEW pc \in {"size", "ended", "failed"},
         k = [Start(run) EXCEPT !.pc = pc] \/ (k = Start(run) /\ pc = "size")
  PROVE  BaseFor(c, s, k)
<1>1. Shape(k) /\ k.pc = pc /\ k.req = "none"
  BY Started
<1>2. pc \notin Sourced /\ pc \notin Planning /\ pc \notin {"extract", "broadcast", "confirm_tx"}
  BY DEF Sourced, Planning
<1> QED
  BY <1>1, <1>2, Zenon DEF BaseFor

\* The next step of a request that is under way.
LEMMA MovedBase ==
  ASSUME NEW c, NEW s, NEW j, BaseFor(c, s, j), NEW k, NEW pc, k = [j EXCEPT !.pc = pc],
         j.req # "none", pc \notin {"size", "ended", "failed"},
         pc \in Sourced => j.pool \in Pools,
         pc \in Planning => j.pc \in Planning,
         pc \in {"extract", "broadcast", "confirm_tx"} => j.pc \in {"extract", "broadcast", "confirm_tx"}
  PROVE  BaseFor(c, s, k)
<1>1. /\ Shape(k) /\ k.pc = pc /\ k.req = j.req /\ k.pool = j.pool /\ k.coin = j.coin
      /\ k.alter = j.alter
  BY Moved DEF BaseFor
<1> QED
  BY <1>1 DEF BaseFor

LEMMA BaseSize ==
  ASSUME DeployBase, size_request
  PROVE  DeployBase'
<1>1. cmd' = cmd /\ cmd \in Command /\ BaseFor(cmd, sized, job) /\ job.pc = "size"
  BY DEF size_request, DeployBase, At
<1>2. PICK c, j, k : c = cmd /\ j = job /\ k = job'
  OBVIOUS
<1>3. Shape(j)
  BY <1>1, <1>2 DEF BaseFor
<1>4. CASE Failed
  <2>1. k = [Start(j.run) EXCEPT !.pc = "failed"]
    BY <1>2, <1>4 DEF Failed, Over
  <2>2. PICK s : s = sized'
    OBVIOUS
  <2>3. BaseFor(c, s, k)
    BY <2>1, OverIs
  <2> QED
    BY <1>1, <1>2, <2>2, <2>3 DEF DeployBase
<1>5. CASE ~Failed
  <2>0. PICK s : s = sized'
    OBVIOUS
  <2>1. PICK req \in {"prepare", "call"} :
           /\ k = [j EXCEPT !.pc = "source", !.req = req]
           /\ req = "prepare" =>
                /\ split_chunks(Wasm).ok
                /\ s = [chunks |-> split_chunks(Wasm).chunks,
                        each |-> carrier_each(split_chunks(Wasm).chunks)]
    <3>1. CASE cmd.verb = "deploy"
      <4>1. /\ split_chunks(Wasm).ok
            /\ job' = [job EXCEPT !.pc = "source", !.req = "prepare"]
            /\ sized' = [chunks |-> split_chunks(Wasm).chunks,
                         each |-> carrier_each(split_chunks(Wasm).chunks)]
        BY <1>5, <3>1, Zenon DEF size_request
      <4> QED
        BY <1>2, <2>0, <4>1
    <3>2. CASE cmd.verb # "deploy"
      <4>1. job' = [job EXCEPT !.pc = "source", !.req = "call"]
        BY <1>5, <3>2, Zenon DEF size_request
      <4> QED
        BY <1>2, <2>0, <4>1
    <3> QED
      BY <3>1, <3>2
  <2>2. req = "prepare" => SizedRight(c, s)
    BY <1>1, <1>2, <2>1, CommandLength, SizedIs
  <2>3. Shape(k) /\ k.pc = "source" /\ k.req = req
    BY <1>3, <2>1 DEF Shape
  <2>4. "source" \notin Sourced /\ "source" \notin Planning
    BY DEF Sourced, Planning
  <2>5. BaseFor(c, s, k)
    BY <2>1, <2>2, <2>3, <2>4 DEF BaseFor
  <2> QED
    BY <1>1, <1>2, <2>0, <2>5 DEF DeployBase
<1> QED
  BY <1>4, <1>5

\* A command that is over, or starts again.
LEMMA BaseOver ==
  ASSUME DeployBase, UNCHANGED <<cmd, sized>>,
         Over("ended") \/ Over("failed") \/ Failed \/ (\E run : job' = Start(run))
  PROVE  DeployBase'
<1>1. PICK c, s, k : c = cmd' /\ s = sized' /\ k = job'
  OBVIOUS
<1>2. PICK pc \in {"size", "ended", "failed"} :
         \E run : k = [Start(run) EXCEPT !.pc = pc] \/ (k = Start(run) /\ pc = "size")
  BY <1>1 DEF Over, Failed
<1>3. BaseFor(c, s, k)
  BY <1>2, OverIs
<1> QED
  BY <1>1, <1>3 DEF DeployBase

\* A command that goes on with the same request.
LEMMA BaseGoto ==
  ASSUME DeployBase, UNCHANGED <<cmd, sized>>, NEW pc, Goto(pc),
         job.pc \notin {"size", "ended", "failed"}, pc \notin {"size", "ended", "failed"},
         pc \in Sourced => job.pool \in Pools,
         pc \in Planning => job.pc \in Planning,
         pc \in {"extract", "broadcast", "confirm_tx"} =>
           job.pc \in {"extract", "broadcast", "confirm_tx"}
  PROVE  DeployBase'
<1>1. PICK c, s, j, k : c = cmd /\ s = sized /\ j = job /\ k = job'
  OBVIOUS
<1>2. BaseFor(c, s, j) /\ k = [j EXCEPT !.pc = pc]
  BY <1>1 DEF DeployBase, Goto
<1>3. j.req # "none"
  BY <1>1, <1>2 DEF BaseFor
<1>4. BaseFor(c, s, k)
  BY <1>1, <1>2, <1>3, MovedBase
<1> QED
  BY <1>1, <1>4 DEF DeployBase

LEMMA BaseSource ==
  ASSUME DeployBase, build_source
  PROVE  DeployBase'
<1>1. cmd' = cmd /\ sized' = sized /\ job.pc = "source" /\ BaseFor(cmd, sized, job)
  BY DEF build_source, DeployBase, At
<1>2. CASE Failed
  BY <1>1, <1>2, BaseOver
<1>3. CASE Goto("plan") /\ job.req = "deploy"
  <2>1. job.pool \in Pools
    BY <1>1, <1>3 DEF BaseFor
  <2> QED
    BY <1>1, <1>3, <2>1, BaseGoto DEF Planning
<1>4. CASE /\ job.req # "deploy"
           /\ \E pool \in Pools : \E coin : job' = [job EXCEPT !.pc = "plan", !.pool = pool, !.coin = coin]
  <2>1. PICK c, s, j, k : c = cmd /\ s = sized /\ j = job /\ k = job'
    OBVIOUS
  <2>2. PICK pool \in Pools : \E coin : k = [j EXCEPT !.pc = "plan", !.pool = pool, !.coin = coin]
    BY <1>4, <2>1
  <2>3. BaseFor(c, s, j) /\ j.pc = "source"
    BY <1>1, <2>1
  <2>4. Shape(k) /\ k.pc = "plan" /\ k.req = j.req /\ k.pool = pool
    BY <2>2, <2>3 DEF BaseFor, Shape
  <2>5. "plan" \notin Planning
    BY DEF Planning
  <2>6. BaseFor(c, s, k)
    BY <1>4, <2>1, <2>3, <2>4, <2>5 DEF BaseFor
  <2> QED
    BY <1>1, <2>1, <2>6 DEF DeployBase
<1>5. \/ Failed
      \/ Goto("plan") /\ job.req = "deploy"
      \/ /\ job.req # "deploy"
         /\ \E pool \in Pools : \E coin : job' = [job EXCEPT !.pc = "plan", !.pool = pool, !.coin = coin]
  <2>1. CASE obtain_funding
    BY <2>1 DEF obtain_funding, Pools
  <2>2. CASE make_shielded
    <3>1. job.req # "deploy"
      BY <2>2 DEF make_shielded, Mode
    <3> QED
      BY <2>2, <3>1 DEF make_shielded, Pools
  <2>3. CASE ~mainnet_guard
    BY <2>3 DEF build_source
  <2> QED
    BY <2>1, <2>2, <2>3 DEF build_source
<1> QED
  BY <1>2, <1>3, <1>4, <1>5

LEMMA BasePlan ==
  ASSUME DeployBase, make_plan
  PROVE  DeployBase'
<1>1. cmd' = cmd /\ sized' = sized /\ job.pc = "plan" /\ BaseFor(cmd, sized, job)
  BY DEF make_plan, DeployBase, At
<1>2. CASE Failed
  BY <1>1, <1>2, BaseOver
<1>3. CASE /\ PlanOf(Here).ok
           /\ job' = [job EXCEPT !.pc = "confirm", !.pin = tip, !.alter = "none"]
  <2>1. PICK c, s, j, k : c = cmd /\ s = sized /\ j = job /\ k = job'
    OBVIOUS
  <2>2. PlanFor(c, s, j.req, j.pool, j.coin).ok
    <3>1. PICK t : t = Here
      OBVIOUS
    <3>2. t.kind = j.req /\ t.pool = j.pool /\ t.coin = j.coin
      BY <2>1, <3>1 DEF Here
    <3>3. PlanOf(t) = PlanFor(c, s, t.kind, t.pool, t.coin)
      BY <2>1, PlanIs
    <3>4. PlanOf(t).ok
      BY <1>3, <3>1
    <3> QED
      BY <3>2, <3>3, <3>4, Zenon
  <2>3. BaseFor(c, s, j) /\ j.pc = "plan"
    BY <1>1, <2>1
  <2>4. PICK pin : k = [j EXCEPT !.pc = "confirm", !.pin = pin, !.alter = "none"]
    BY <1>3, <2>1
  <2>5. Shape(k) /\ k.pc = "confirm" /\ k.req = j.req /\ k.pool = j.pool /\ k.coin = j.coin
    BY <2>3, <2>4 DEF BaseFor, Shape
  <2>6. j.pool \in Pools
    BY <2>3 DEF BaseFor, Sourced
  <2>7. BaseFor(c, s, k)
    BY <2>2, <2>3, <2>5, <2>6 DEF BaseFor
  <2> QED
    BY <1>1, <2>1, <2>7 DEF DeployBase
<1> QED
  BY <1>2, <1>3 DEF make_plan

LEMMA BaseSign ==
  ASSUME DeployBase, sign
  PROVE  DeployBase'
<1>1. cmd' = cmd /\ sized' = sized /\ job.pc = "sign" /\ BaseFor(cmd, sized, job)
  BY DEF sign, DeployBase, At
<1>2. CASE Failed
  BY <1>1, <1>2, BaseOver
<1>3. CASE \E a \in Alteration : Applies(a, Here) /\ job' = [job EXCEPT !.pc = "extract", !.alter = a]
  <2>1. PICK c, s, j, k : c = cmd /\ s = sized /\ j = job /\ k = job'
    OBVIOUS
  <2>2. PICK a \in Alteration : Applies(a, Here) /\ k = [j EXCEPT !.pc = "extract", !.alter = a]
    BY <1>3, <2>1
  <2>3. BaseFor(c, s, j) /\ j.pc = "sign"
    BY <1>1, <2>1
  <2>4. /\ Shape(k) /\ k.pc = "extract" /\ k.req = j.req /\ k.pool = j.pool /\ k.coin = j.coin
        /\ k.alter = a
    BY <2>2, <2>3 DEF BaseFor, Shape
  <2>5. a \in AnyAlteration
    BY DeployConstants DEF DeployConstants, AnyAlteration
  <2>6. j.pool = "shielded" /\ j.req # "deploy" => a = "none"
    BY <2>1, <2>2 DEF Applies, Here
  <2>7. "sign" \in Planning /\ "sign" \in Sourced
    BY DEF Sourced, Planning
  <2>8. BaseFor(c, s, k)
    BY <2>3, <2>4, <2>5, <2>6, <2>7 DEF BaseFor
  <2> QED
    BY <1>1, <2>1, <2>8 DEF DeployBase
<1> QED
  BY <1>2, <1>3 DEF sign

\* DEPLOY has the plan of the PREPARE that was confirmed.
LEMMA BaseConfirmed ==
  ASSUME DeployBase, UNCHANGED <<cmd, sized>>, job.pc = "confirm_tx", NextStage
  PROVE  DeployBase'
<1>1. cmd' = cmd /\ sized' = sized /\ BaseFor(cmd, sized, job) /\ job.req \in {"prepare", "deploy", "call"}
  BY DEF DeployBase, BaseFor
<1>2. job.pool \in Pools /\ "confirm_tx" \in Planning
  BY <1>1 DEF BaseFor, Sourced, Planning
<1>3. CASE job.req = "call"
  <2>1. Over("ended")
    BY <1>3 DEF NextStage
  <2> QED
    BY <1>1, <2>1, BaseOver
<1>4. CASE job.req = "deploy"
  <2>1. Goto("print")
    BY <1>4 DEF NextStage
  <2> QED
    BY <1>1, <1>2, <2>1, BaseGoto DEF Planning
<1>5. CASE job.req = "prepare"
  <2>1. job' = [job EXCEPT !.pc = "source", !.req = "deploy"]
    BY <1>5 DEF NextStage
  <2>2. PICK c, s, j, k : c = cmd /\ s = sized /\ j = job /\ k = job'
    OBVIOUS
  <2>3. BaseFor(c, s, j) /\ j.pc = "confirm_tx" /\ j.req = "prepare" /\ j.pool \in Pools
    BY <1>1, <1>2, <1>5, <2>2
  <2>4. Shape(k) /\ k.pc = "source" /\ k.req = "deploy" /\ k.pool = j.pool /\ k.coin = j.coin
    BY <2>1, <2>2, <2>3 DEF BaseFor, Shape
  <2>5. "source" \notin Planning
    BY DEF Planning
  <2>6. BaseFor(c, s, k)
    BY <1>2, <2>3, <2>4, <2>5 DEF BaseFor
  <2> QED
    BY <1>1, <2>2, <2>6 DEF DeployBase
<1> QED
  BY <1>1, <1>3, <1>4, <1>5

LEMMA BaseStep == DeployBase /\ [DeployNext]_deployVars => DeployBase'
<1> SUFFICES ASSUME DeployBase, [DeployNext]_deployVars PROVE DeployBase'
  OBVIOUS
<1>1. CASE UNCHANGED <<cmd, job, sized>>
  BY <1>1 DEF DeployBase
<1>2. CASE size_request
  BY <1>2, BaseSize
<1>3. CASE build_source
  BY <1>3, BaseSource
<1>4. CASE make_plan
  BY <1>4, BasePlan
<1>5. CASE sign
  BY <1>5, BaseSign
<1>6. job.pc \in Planning => job.pool \in Pools
  BY DEF DeployBase, BaseFor, Sourced
<1>7. CASE confirm
  <2>1. cmd' = cmd /\ sized' = sized /\ job.pc = "confirm" /\ (Goto("prove") \/ Over("ended"))
    BY <1>7 DEF confirm, At
  <2>2. CASE Goto("prove")
    <3>1. "confirm" \in Planning
      BY DEF Planning
    <3> QED
      BY <1>6, <2>1, <2>2, <3>1, BaseGoto
  <2> QED
    BY <2>1, <2>2, BaseOver
<1>8. CASE prove
  <2>1. cmd' = cmd /\ sized' = sized /\ job.pc = "prove" /\ (Goto("sign") \/ Failed)
    BY <1>8 DEF prove, At
  <2>2. CASE Goto("sign")
    <3>1. "prove" \in Planning
      BY DEF Planning
    <3> QED
      BY <1>6, <2>1, <2>2, <3>1, BaseGoto
  <2> QED
    BY <2>1, <2>2, BaseOver
<1>9. CASE extract_verified
  <2>1. cmd' = cmd /\ sized' = sized /\ job.pc = "extract" /\ (Goto("broadcast") \/ Failed)
    BY <1>9 DEF extract_verified, At
  <2>2. CASE Goto("broadcast")
    <3>1. "extract" \in Planning
      BY DEF Planning
    <3> QED
      BY <1>6, <2>1, <2>2, <3>1, BaseGoto
  <2> QED
    BY <2>1, <2>2, BaseOver
<1>10. CASE broadcast_verified
  <2>1. cmd' = cmd /\ sized' = sized /\ job.pc = "broadcast" /\ (Goto("confirm_tx") \/ Failed)
    BY <1>10 DEF broadcast_verified, At
  <2>2. CASE Goto("confirm_tx")
    <3>1. "broadcast" \in Planning
      BY DEF Planning
    <3> QED
      BY <1>6, <2>1, <2>2, <3>1, BaseGoto
  <2> QED
    BY <2>1, <2>2, BaseOver
<1>11. CASE confirm_tx
  <2>1. cmd' = cmd /\ sized' = sized /\ job.pc = "confirm_tx" /\ (NextStage \/ Failed)
    BY <1>11 DEF confirm_tx, At
  <2> QED
    BY <2>1, BaseConfirmed, BaseOver
<1>12. CASE print_contract_id
  <2>1. cmd' = cmd /\ sized' = sized /\ job.pc = "print" /\ Goto("wait")
    BY <1>12 DEF print_contract_id, At
  <2>2. job.pool \in Pools /\ "wait" \notin Planning
    BY <2>1 DEF DeployBase, BaseFor, Sourced, Planning
  <2> QED
    BY <2>1, <2>2, BaseGoto
<1>13. CASE wait_for_contract
  <2>1. cmd' = cmd /\ sized' = sized /\ (Over("ended") \/ Failed)
    BY <1>13 DEF wait_for_contract
  <2> QED
    BY <2>1, BaseOver
<1>14. CASE run_again
  <2>1. cmd' = cmd /\ sized' = sized /\ \E run : job' = Start(run)
    BY <1>14 DEF run_again
  <2> QED
    BY <2>1, BaseOver
<1>15. CASE disarm_session \/ new_block \/ chain_reorg
  BY <1>1, <1>15 DEF disarm_session, new_block, chain_reorg
<1> QED
  BY <1>1, <1>2, <1>3, <1>4, <1>5, <1>7, <1>8, <1>9, <1>10, <1>11, <1>12, <1>13, <1>14, <1>15
     DEF DeployNext, deployVars

LEMMA BaseInit == DeployInit => DeployBase
<1> SUFFICES ASSUME DeployInit PROVE DeployBase
  OBVIOUS
<1>1. PICK c, s, j, run : c = cmd /\ s = sized /\ j = job /\ run = 1
  OBVIOUS
<1>2. c \in Command /\ j = Start(run)
  BY <1>1 DEF DeployInit
<1>3. PICK pc \in {"size", "ended", "failed"} : pc = "size"
  OBVIOUS
<1>4. BaseFor(c, s, j)
  BY <1>2, <1>3, OverIs
<1> QED
  BY <1>1, <1>2, <1>4 DEF DeployBase

\* A command that has planned a request has its plan, and one that is at DEPLOY
\* has sized its carriers and had a plan for the PREPARE it has paid
\* (contract_deploy and execute_request).
THEOREM DeployPlansKept == DeploySpec => []DeployBase
<1>1. DeployInit => DeployBase
  BY BaseInit
<1>2. DeployBase /\ [DeployNext]_deployVars => DeployBase'
  BY BaseStep
<1> QED
  BY <1>1, <1>2, PTL DEF DeploySpec

LEMMA CarriersPaid == DeployBase => CarriersPayDeploy
<1> SUFFICES ASSUME DeployBase, job.pc = "plan", job.req = "deploy",
                    NEW plan, plan = PlanOf(Here),
                    NEW paid, paid = PlanOf([Here EXCEPT !.kind = "prepare"]).outputs
             PROVE  /\ plan.ok
                    /\ plan.change > 0
                    /\ \A i \in DOMAIN plan.inputs :
                          LET o == plan.inputs[i].outpoint
                          IN  /\ paid[o[4] + 1].value = plan.inputs[i].value
                              /\ paid[o[4] + 1].script = p2sh_script_pubkey
  BY DEF CarriersPayDeploy, At
<1>1. PICK c, s, pool, coin : c = cmd /\ s = sized /\ pool = job.pool /\ coin = job.coin
  OBVIOUS
<1>2. SizedRight(c, s) /\ pool \in Pools /\ PlanFor(c, s, "prepare", pool, coin).ok
  BY <1>1 DEF DeployBase, BaseFor
<1>3. PICK n \in Nat, each \in Nat, fee \in Nat, change \in Nat :
         DeployPlanned(c, s, pool, coin, n, each, fee, change)
  BY <1>2, DeployIsPlanned
<1>4. plan = PlanFor(c, s, "deploy", pool, coin)
  <2>1. PICK t : t = Here
    OBVIOUS
  <2>2. t.kind = "deploy" /\ t.pool = pool /\ t.coin = coin
    BY <1>1, <2>1 DEF Here
  <2>3. PlanOf(t) = PlanFor(c, s, t.kind, t.pool, t.coin)
    BY <1>1, PlanIs
  <2> QED
    BY <2>1, <2>2, <2>3
<1>5. paid = PlanFor(c, s, "prepare", pool, coin).outputs
  <2>1. PICK t : t = [Here EXCEPT !.kind = "prepare"]
    OBVIOUS
  <2>2. t.kind = "prepare" /\ t.pool = pool /\ t.coin = coin
    BY <1>1, <2>1 DEF Here
  <2>3. PlanOf(t) = PlanFor(c, s, t.kind, t.pool, t.coin)
    BY <1>1, PlanIs
  <2> QED
    BY <2>1, <2>2, <2>3
<1>6. PICK inputs : inputs = [i \in 1..n |-> Coin(<<"prepare", pool, coin, i - 1>>, each,
                                                  CarrierSpend(i - 1, s.chunks[i]))]
  OBVIOUS
<1>7. plan.ok /\ plan.change = change /\ plan.inputs = inputs /\ change > 0
  <2>1. plan = PreparedTx(inputs, DeployOutputs(DeployMessage(c, s.chunks), change), fee, change)
    BY <1>3, <1>4, <1>6 DEF DeployPlanned
  <2>2. change >= CARRIER_MARGIN
    BY <1>3 DEF DeployPlanned
  <2> QED
    BY <2>1, <2>2 DEF PreparedTx, CARRIER_MARGIN
<1>8. PICK values : /\ values = ValuesOf(s) /\ values = [i \in 1..n |-> each] /\ Len(values) = n
  BY <1>3 DEF DeployPlanned
<1>9. \A i \in 1..n : paid[i] = Pay(each, p2sh_script_pubkey)
  <2>1. CASE pool = "transparent"
    <3>1. PICK utxos : PlanFor(c, s, "prepare", pool, coin) = prepare_plan(utxos, values)
      BY <1>8, <2>1 DEF PlanFor
    <3> QED
      BY <1>2, <1>5, <1>8, <3>1, PreparePays
  <2>2. CASE pool = "shielded"
    <3>1. PlanFor(c, s, "prepare", pool, coin)
            = PreparedTx(<<>>, Map(LAMBDA v : Pay(v, p2sh_script_pubkey), values), 0, 0)
      BY <1>8, <2>2, Zenon DEF PlanFor
    <3>2. PICK f : f = [i \in 1..n |-> Pay(values[i], p2sh_script_pubkey)]
      OBVIOUS
    <3>3. f = [i \in 1..n |-> f[i]]
      BY <3>2
    <3>4. <<>> \o f = f
      BY <3>3, Listed
    <3>5. Map(LAMBDA v : Pay(v, p2sh_script_pubkey), values) = f
      BY <1>8, <3>2, <3>4 DEF Map
    <3>6. paid = f
      BY <1>5, <3>1, <3>5 DEF PreparedTx
    <3> QED
      BY <1>8, <3>2, <3>6
  <2> QED
    BY <1>2, <2>1, <2>2 DEF Pools
<1>10. ASSUME NEW i \in 1..n
       PROVE  /\ paid[inputs[i].outpoint[4] + 1].value = inputs[i].value
              /\ paid[inputs[i].outpoint[4] + 1].script = p2sh_script_pubkey
  <2>1. PICK o : o = <<"prepare", pool, coin, i - 1>>
    OBVIOUS
  <2>2. inputs[i].outpoint = o /\ inputs[i].value = each
    BY <1>6, <2>1 DEF Coin
  <2>3. o[4] + 1 = i
    BY <2>1
  <2>4. paid[i].value = each /\ paid[i].script = p2sh_script_pubkey
    BY <1>9 DEF Pay
  <2> QED
    BY <2>2, <2>3, <2>4
<1>11. DOMAIN inputs = 1..n
  BY <1>6
<1> QED
  BY <1>7, <1>10, <1>11

\* The carriers PREPARE pays for are what DEPLOY spends: planning DEPLOY never
\* fails for lack of value and leaves change, for every module, pool and run
\* (main.rs:796, plan.rs:697).
THEOREM DeployCarriersPaid == DeploySpec => []CarriersPayDeploy
  BY DeployPlansKept, CarriersPaid, PTL

(***************************************************************************)
(* What a plan spends, pays and costs.                                     *)
(***************************************************************************)
LEMMA SumInt ==
  ASSUME NEW n \in Nat, NEW s, Len(s) = n, \A i \in 1..n : s[i] \in Int
  PROVE  Sum(s) \in Int
<1>1. PICK g : Adds(g, s) /\ Sum(s) = g[n]
  BY SumAdds
<1> DEFINE B == {k \in 0..n : g[k] \notin Int}
<1>2. B = {}
  <2> SUFFICES ASSUME B # {} PROVE FALSE
    OBVIOUS
  <2>1. B \in SUBSET Nat
    OBVIOUS
  <2>2. PICK k \in B : \A j \in B : k <= j
    BY <2>1, LeastOf
  <2>3. k \in 0..n /\ g[k] \notin Int
    OBVIOUS
  <2>4. k # 0
    BY <1>1, <2>3 DEF Adds
  <2>5. k - 1 \in 0..n /\ k \in 1..n /\ ~(k <= k - 1)
    BY <2>3, <2>4
  <2>6. g[k - 1] \in Int
    <3>1. k - 1 \notin B
      <4> HIDE DEF B
      <4> QED
        BY <2>2, <2>5
    <3> QED
      BY <2>5, <3>1
  <2>7. g[k] = g[k - 1] + s[k] /\ s[k] \in Int
    BY <1>1, <2>5 DEF Adds
  <2> QED
    BY <2>3, <2>6, <2>7
<1>3. g[n] \in Int
  BY <1>2
<1> QED
  BY <1>1, <1>3

Valued(S) == \A x \in S : x.value \in Int

LEMMA ValueInt ==
  ASSUME NEW S, Valued(S), NEW coins \in Seq(S)
  PROVE  TotalValue(coins) \in Int
<1>1. PICK n \in Nat : n = Len(coins)
  OBVIOUS
<1>2. PICK f : f = [i \in 1..n |-> coins[i].value]
  OBVIOUS
<1>3. <<>> \o f = f /\ Len(f) = n
  <2>1. f = [i \in 1..n |-> f[i]]
    BY <1>2
  <2> QED
    BY <2>1, Listed
<1>4. \A i \in 1..n : f[i] \in Int
  <2>1. \A i \in 1..n : coins[i] \in S
    BY <1>1
  <2> QED
    BY <1>2, <2>1 DEF Valued
<1>5. Sum(f) \in Int
  BY <1>3, <1>4, SumInt
<1>6. TotalValue(coins) = Sum(f)
  BY <1>1, <1>2, <1>3 DEF TotalValue, Map
<1> QED
  BY <1>5, <1>6

LEMMA FeeInt ==
  ASSUME NEW a \in Int, NEW b \in Int
  PROVE  zip317_fee_from_sizes(a, b) \in Int
<1>1. PICK x \in Int, y \in Int : x = CeilDiv(a, 150) /\ y = CeilDiv(b, 34)
  BY DEF CeilDiv
<1>2. 5000 * Greater(Greater(x, y), 2) \in Int
  BY DEF Greater
<1> QED
  BY <1>1, <1>2 DEF zip317_fee_from_sizes, MARGINAL_FEE, GRACE_ACTIONS

\* A byte string: a sequence of spans.
IsBytes(b) == \E S : b \in Seq(S) /\ \A x \in S : IsSpan(x)

LEMMA JoinBytes ==
  ASSUME NEW acc, IsBytes(acc), NEW s, IsSpan(s)
  PROVE  IsBytes(Join(acc, s))
<1>1. PICK S : acc \in Seq(S) /\ \A x \in S : IsSpan(x)
  BY DEF IsBytes
<1>2. CASE acc # <<>> /\ Continues(Last(acc), s)
  <2>1. PICK n \in Nat \ {0} : n = Len(acc)
    BY <1>1, <1>2
  <2>2. PICK w : w = acc[n] /\ IsSpan(w)
    BY <1>1, <2>1
  <2>3. PICK v : v = [w EXCEPT !.len = w.len + s.len]
    OBVIOUS
  <2>4. IsSpan(v)
    <3>1. PICK l \in Nat \ {0} : l = w.len + s.len
      BY <2>2 DEF IsSpan
    <3>2. v = [src |-> w.src, at |-> w.at, len |-> l]
      BY <2>2, <2>3, <3>1 DEF IsSpan
    <3> QED
      BY <2>2, <3>1, <3>2 DEF IsSpan
  <2>5. Join(acc, s) = [acc EXCEPT ![n] = v]
    BY <1>2, <2>1, <2>2, <2>3, Zenon DEF Join
  <2> DEFINE T == S \cup {v}
  <2>6. \A x \in T : IsSpan(x)
    BY <1>1, <2>4
  <2>7. acc \in [1..n -> T] /\ v \in T /\ n \in 1..n
    <3>1. \A i \in 1..n : acc[i] \in S
      BY <1>1, <2>1
    <3>2. acc = [i \in 1..n |-> acc[i]]
      BY <1>1, <2>1
    <3> QED
      BY <3>1, <3>2
  <2> HIDE DEF T
  <2>8. [acc EXCEPT ![n] = v] \in Seq(T)
    <3>1. PICK D : D = 1..n
      OBVIOUS
    <3>2. [acc EXCEPT ![n] = v] \in [D -> T]
      BY <2>7, <3>1
    <3>3. [acc EXCEPT ![n] = v] \in [1..n -> T]
      BY <3>1, <3>2, Zenon
    <3>4. PICK e : e = [acc EXCEPT ![n] = v]
      OBVIOUS
    <3>5. e \in Seq(T)
      <4>1. e \in [1..n -> T]
        BY <3>3, <3>4, Zenon
      <4> QED
        BY <4>1
    <3> QED
      BY <3>4, <3>5, Zenon
  <2> QED
    BY <2>5, <2>6, <2>8 DEF IsBytes
<1>3. CASE acc = <<>> \/ ~Continues(Last(acc), s)
  <2>1. Join(acc, s) = Append(acc, s)
    BY <1>3, JoinApart
  <2> DEFINE T == S \cup {s}
  <2>2. \A x \in T : IsSpan(x)
    BY <1>1
  <2>3. PICK n \in Nat : n = Len(acc)
    BY <1>1
  <2>4. acc \in Seq(T) /\ s \in T
    <3>1. \A i \in 1..n : acc[i] \in S
      BY <1>1, <2>3
    <3>2. acc = [i \in 1..n |-> acc[i]]
      BY <1>1, <2>3
    <3>3. acc \in [1..n -> T]
      BY <3>1, <3>2
    <3> HIDE DEF T
    <3>4. acc \in Seq(T)
      BY <3>3
    <3> QED
      BY <3>4 DEF T
  <2> HIDE DEF T
  <2>5. Append(acc, s) \in Seq(T)
    BY <2>4
  <2> QED
    BY <2>1, <2>2, <2>5 DEF IsBytes
<1> QED
  BY <1>2, <1>3

LEMMA CatBytes ==
  ASSUME NEW a, IsBytes(a), NEW b, IsBytes(b)
  PROVE  IsBytes(Cat(a, b))
<1>1. PICK S : b \in Seq(S) /\ \A x \in S : IsSpan(x)
  BY DEF IsBytes
<1>2. PICK n \in Nat : n = Len(b)
  BY <1>1
<1>3. PICK g : Joins(g, a, b) /\ Cat(a, b) = g[n]
  <2>1. Len(b) \in Nat
    BY <1>2
  <2>2. \E g : Joins(g, a, b) /\ Cat(a, b) = g[Len(b)]
    BY <2>1, CatJoins
  <2> QED
    BY <1>2, <2>2
<1> DEFINE B == {k \in 0..n : ~IsBytes(g[k])}
<1>4. B = {}
  <2> SUFFICES ASSUME B # {} PROVE FALSE
    OBVIOUS
  <2>1. B \in SUBSET Nat
    OBVIOUS
  <2>2. PICK k \in B : \A j \in B : k <= j
    BY <2>1, LeastOf
  <2>3. k \in 0..n /\ ~IsBytes(g[k])
    OBVIOUS
  <2>4. k # 0
    BY <1>3, <2>3 DEF Joins
  <2>5. k - 1 \in 0..n /\ k \in 1..n /\ ~(k <= k - 1)
    BY <2>3, <2>4
  <2>6. IsBytes(g[k - 1])
    <3>1. k - 1 \notin B
      <4> HIDE DEF B
      <4> QED
        BY <2>2, <2>5
    <3> QED
      BY <2>5, <3>1
  <2>7. g[k] = Join(g[k - 1], b[k]) /\ IsSpan(b[k])
    BY <1>1, <1>2, <1>3, <2>5 DEF Joins
  <2> QED
    BY <2>3, <2>6, <2>7, JoinBytes
<1>5. IsBytes(g[n])
  BY <1>4
<1> QED
  BY <1>3, <1>5

LEMMA SizeInt ==
  ASSUME NEW b, IsBytes(b)
  PROVE  Size(b) \in Int
<1>1. PICK S : b \in Seq(S) /\ \A x \in S : IsSpan(x)
  BY DEF IsBytes
<1>2. PICK n \in Nat : n = Len(b)
  BY <1>1
<1>3. PICK f : f = [i \in 1..n |-> b[i].len] /\ Len(f) = n /\ Size(b) = Sum(f)
  BY <1>2, SizeIs
<1>4. \A i \in 1..n : f[i] \in Int
  <2>1. \A i \in 1..n : IsSpan(b[i])
    BY <1>1, <1>2
  <2>2. ASSUME NEW i \in 1..n PROVE b[i].len \in Int
    <3>1. PICK x : x = b[i] /\ IsSpan(x)
      BY <2>1
    <3>2. x.len \in Int
      BY <3>1 DEF IsSpan
    <3> QED
      BY <3>1, <3>2
  <2> QED
    BY <1>3, <2>2
<1> QED
  BY <1>3, <1>4, SumInt

LEMMA FewSpans ==
  /\ \A s : IsSpan(s) => IsBytes(<<s>>)
  /\ \A s, t : IsSpan(s) /\ IsSpan(t) => IsBytes(<<s, t>>)
<1>1. ASSUME NEW s, IsSpan(s) PROVE IsBytes(<<s>>)
  <2>1. PICK b, T : b = <<s>> /\ T = {s}
    OBVIOUS
  <2>2. b \in Seq(T)
    BY <2>1
  <2>3. \A x \in T : IsSpan(x)
    BY <1>1, <2>1
  <2>4. IsBytes(b)
    BY <2>2, <2>3 DEF IsBytes
  <2> QED
    BY <2>1, <2>4
<1>2. ASSUME NEW s, NEW t, IsSpan(s), IsSpan(t) PROVE IsBytes(<<s, t>>)
  <2>1. PICK b, T : b = <<s, t>> /\ T = {s, t}
    OBVIOUS
  <2>2. b \in Seq(T)
    BY <2>1
  <2>3. \A x \in T : IsSpan(x)
    BY <1>2, <2>1
  <2>4. IsBytes(b)
    BY <2>2, <2>3 DEF IsBytes
  <2> QED
    BY <2>1, <2>4
<1> QED
  BY <1>1, <1>2

\* The script of a message, however long it is.
LEMMA OpReturnBytes ==
  ASSUME NEW p, p.size \in Nat \ {0}
  PROVE  IsBytes(op_return_script(p))
<1>1. \A v \in Int : IsBytes(Byte(v))
  BY ByteIs, FewSpans
<1>0. PICK n \in Nat \ {0} : n = p.size
  OBVIOUS
<1>2. PICK m : n = p.size /\ m = [src |-> <<"message", p>>, at |-> 0, len |-> n]
  BY <1>0
<1>3. IsSpan(m)
  BY <1>2 DEF IsSpan
<1>4. IsBytes(<<m>>)
  BY <1>3, FewSpans
<1>5. Stretch(<<"message", p>>, p.size) = <<m>>
  <2>1. p.size # 0
    BY <1>2
  <2> QED
    BY <1>2, <2>1, Zenon DEF Stretch
<1>6. PICK h : IsBytes(h) /\ push_data(<<m>>) = Cat(h, <<m>>)
  <2>1. Size(<<m>>) = n
    BY <1>2, <1>3, SizeSmall
  <2>2. ASSUME NEW v \in Int, NEW w \in Int
        PROVE  IsBytes(Byte(v) \o Byte(w)) /\ Byte(v) \o Byte(w) = <<ByteSpan(v), ByteSpan(w)>>
    <3>1. Byte(v) \o Byte(w) = <<ByteSpan(v), ByteSpan(w)>>
      BY ByteIs, Puts
    <3>2. IsBytes(<<ByteSpan(v), ByteSpan(w)>>)
      BY ByteIs, FewSpans
    <3> QED
      BY <3>1, <3>2
  <2>3. CASE n < 76
    <3>1. push_data(<<m>>) = Cat(Byte(n), <<m>>)
      BY <2>1, <2>3 DEF push_data
    <3> QED
      BY <1>1, <3>1
  <2>4. CASE ~(n < 76) /\ n \in 76..255
    <3>1. push_data(<<m>>) = Cat(Byte(76) \o Byte(n), <<m>>)
      BY <2>1, <2>4, Zenon DEF push_data
    <3>2. PICK v \in Int : v = 76
      OBVIOUS
    <3>3. IsBytes(Byte(v) \o Byte(n))
      BY <2>2
    <3> QED
      BY <3>1, <3>2, <3>3
  <2>5. CASE ~(n < 76) /\ n \notin 76..255
    <3>1. push_data(<<m>>) = Cat((Byte(77) \o Byte(n % 256)) \o Byte(n \div 256), <<m>>)
      BY <2>1, <2>5, Zenon DEF push_data
    <3>2. PICK v \in Int, w \in Int, x \in Int : v = 77 /\ w = n % 256 /\ x = n \div 256
      OBVIOUS
    <3>3. (Byte(v) \o Byte(w)) \o Byte(x) = <<ByteSpan(v), ByteSpan(w)>> \o <<ByteSpan(x)>>
      BY <2>2, ByteIs
    <3>4. PICK s, t, u : s = ByteSpan(v) /\ t = ByteSpan(w) /\ u = ByteSpan(x)
      OBVIOUS
    <3>5. IsSpan(s) /\ IsSpan(t) /\ IsSpan(u)
      BY <3>4, ByteIs
    <3> DEFINE T == {s, t, u}
    <3>6. \A y \in T : IsSpan(y)
      BY <3>5
    <3>7. <<s, t>> \in Seq(T) /\ <<u>> \in Seq(T)
      OBVIOUS
    <3> HIDE DEF T
    <3>8. <<s, t>> \o <<u>> \in Seq(T)
      BY <3>7, ConcatProperties
    <3>9. IsBytes((Byte(v) \o Byte(w)) \o Byte(x))
      BY <3>3, <3>4, <3>6, <3>8 DEF IsBytes
    <3> QED
      BY <3>1, <3>2, <3>9
  <2> QED
    BY <2>3, <2>4, <2>5
<1>7. IsBytes(push_data(<<m>>))
  BY <1>4, <1>6, CatBytes
<1>8. IsBytes(Byte(OP_RETURN))
  BY <1>1 DEF OP_RETURN
<1> QED
  BY <1>5, <1>7, <1>8, CatBytes DEF op_return_script

\* Sizes of the inputs and outputs of PREPARE and CALL.
LEMMA PartSizes ==
  /\ P2PKH_IN \in Int /\ P2PKH_OUT \in Int
  /\ output_serialized_size(Size(p2sh_script_pubkey)) \in Int
  /\ \A p : p.size \in Nat \ {0} => output_serialized_size(Size(op_return_script(p))) \in Int
<1>1. \A q \in Int : output_serialized_size(q) \in Int
  BY DEF output_serialized_size, serialized_script_size
<1>2. P2PKH_IN \in Int
  BY DEF P2PKH_IN, input_serialized_size, serialized_script_size, p2pkh_script_sig_len,
         MAX_SIGNATURE_LEN
<1>3. P2PKH_OUT \in Int
  <2>1. PICK q \in Int : q = Size(p2pkh_script_pubkey)
    BY ChangeScript
  <2> QED
    BY <1>1, <2>1 DEF P2PKH_OUT
<1>4. output_serialized_size(Size(p2sh_script_pubkey)) \in Int
  <2>1. PICK q \in Int : q = Size(p2sh_script_pubkey)
    BY CarrierScript
  <2> QED
    BY <1>1, <2>1
<1>5. ASSUME NEW p, p.size \in Nat \ {0} PROVE output_serialized_size(Size(op_return_script(p))) \in Int
  <2>1. PICK q \in Int : q = Size(op_return_script(p))
    BY <1>5, OpReturnBytes, SizeInt
  <2> QED
    BY <1>1, <2>1
<1> QED
  BY <1>2, <1>3, <1>4, <1>5

\* A plan that spends exactly these coins, with values that can be added up.
SoundPlan(plan, spends) ==
  /\ plan.fee \in Int
  /\ \E S : Valued(S) /\ plan.inputs \in Seq(S)
  /\ \E S : Valued(S) /\ plan.outputs \in Seq(S)
  /\ {plan.inputs[i].outpoint : i \in DOMAIN plan.inputs} = spends

LEMMA OneCoin ==
  ASSUME NEW u, u.value \in Int
  PROVE  /\ Map(LAMBDA x : Coin(x.outpoint, x.value, P2pkh), <<u>>) = <<Coin(u.outpoint, u.value, P2pkh)>>
         /\ Sum(Map(LAMBDA x : x.value, <<u>>)) \in Int
<1>1. PICK s : s = <<u>>
  OBVIOUS
<1>2. Len(s) = 1 /\ s[1] = u /\ s \in Seq({u})
  BY <1>1
<1>3. PICK f : f = [i \in 1..1 |-> Coin(s[i].outpoint, s[i].value, P2pkh)]
  OBVIOUS
<1>4. PICK n \in Nat : n = 1
  OBVIOUS
<1>5. <<>> \o f = f
  <2>1. f = [i \in 1..n |-> f[i]]
    BY <1>3, <1>4
  <2> QED
    BY <2>1, Listed
<1>6. f = <<Coin(u.outpoint, u.value, P2pkh)>>
  <2>1. PICK c : c = Coin(u.outpoint, u.value, P2pkh)
    OBVIOUS
  <2>2. f = [i \in 1..1 |-> c]
    BY <1>2, <1>3, <2>1
  <2> QED
    BY <2>1, <2>2
<1>7. Map(LAMBDA x : Coin(x.outpoint, x.value, P2pkh), s) = f
  BY <1>2, <1>3, <1>5 DEF Map
<1>8. Valued({u})
  BY DEF Valued
<1>9. TotalValue(s) \in Int
  BY <1>2, <1>8, ValueInt
<1>10. Sum(Map(LAMBDA x : x.value, s)) \in Int
  BY <1>9 DEF TotalValue
<1> QED
  BY <1>1, <1>6, <1>7, <1>10

LEMMA Prepared ==
  ASSUME NEW inputs, NEW outputs, NEW fee, NEW change
  PROVE  /\ PreparedTx(inputs, outputs, fee, change).ok
         /\ PreparedTx(inputs, outputs, fee, change).fee = fee
         /\ PreparedTx(inputs, outputs, fee, change).change = change
         /\ PreparedTx(inputs, outputs, fee, change).inputs = inputs
         /\ PreparedTx(inputs, outputs, fee, change).outputs = outputs
  BY DEF PreparedTx

LEMMA PrepareSound ==
  ASSUME NEW n \in Nat, NEW each \in Int, NEW values, values = [i \in 1..n |-> each],
         Len(values) = n, NEW u, u.value \in Int, prepare_plan(<<u>>, values).ok
  PROVE  SoundPlan(prepare_plan(<<u>>, values), {u.outpoint})
<1>1. PICK f : f = [i \in 1..n |-> Pay(values[i], p2sh_script_pubkey)]
  OBVIOUS
<1>2. <<>> \o f = f /\ Len(f) = n
  <2>1. f = [i \in 1..n |-> f[i]]
    BY <1>1
  <2> QED
    BY <2>1, Listed
<1>3. Map(LAMBDA x : Pay(x, p2sh_script_pubkey), values) = f
  BY <1>1, <1>2 DEF Map
<1>4. PICK a \in Int, b \in Int :
         /\ a = Len(<<u>>) * P2PKH_IN
         /\ b = Len(values) * output_serialized_size(Size(p2sh_script_pubkey)) + P2PKH_OUT
  <2>1. PICK x \in Int, y \in Int, z \in Int :
           x = P2PKH_IN /\ y = P2PKH_OUT /\ z = output_serialized_size(Size(p2sh_script_pubkey))
    BY PartSizes
  <2>2. 1 * x \in Int /\ n * z + y \in Int /\ Len(<<u>>) = 1
    OBVIOUS
  <2> QED
    BY <2>1, <2>2
<1>5. PICK fee \in Int : fee = zip317_fee_from_sizes(a, b)
  BY FeeInt
<1>6. PICK funds \in Int : funds = Sum(Map(LAMBDA x : x.value, <<u>>))
  BY OneCoin
<1>7. PICK total \in Int : total = Sum(values)
  <2>1. \A i \in 1..n : values[i] \in Int
    OBVIOUS
  <2> QED
    BY <2>1, SumInt
<1>8. PICK change \in Int : change = funds - total - fee
  OBVIOUS
<1>9. PICK coin, pay, e : /\ coin = Coin(u.outpoint, u.value, P2pkh)
                          /\ pay = Pay(change, p2pkh_script_pubkey)
                          /\ e = IF change > 0 THEN <<pay>> ELSE <<>>
  OBVIOUS
<1>10. prepare_plan(<<u>>, values) = PreparedTx(<<coin>>, f \o e, fee, change)
  <2>1. ~NoPlan.ok
    BY DEF NoPlan
  <2>2. Map(LAMBDA x : Coin(x.outpoint, x.value, P2pkh), <<u>>) = <<coin>>
    BY <1>9, OneCoin
  <2>3. prepare_plan(<<u>>, values) \in {NoPlan, PreparedTx(<<coin>>, f \o e, fee, change)}
    BY <1>3, <1>4, <1>5, <1>6, <1>7, <1>8, <1>9, <2>2, Zenon DEF prepare_plan
  <2> QED
    BY <2>1, <2>3
<1>11. /\ prepare_plan(<<u>>, values).fee = fee
       /\ prepare_plan(<<u>>, values).inputs = <<coin>>
       /\ prepare_plan(<<u>>, values).outputs = f \o e
  <2>1. PICK ins, outs, plan : ins = <<coin>> /\ outs = f \o e /\ plan = prepare_plan(<<u>>, values)
    OBVIOUS
  <2>2. plan = PreparedTx(ins, outs, fee, change)
    BY <1>10, <2>1
  <2>3. plan.fee = fee /\ plan.inputs = ins /\ plan.outputs = outs
    BY <2>2, Prepared
  <2> QED
    BY <2>1, <2>3
<1>12. <<coin>> \in Seq({coin}) /\ coin.value \in Int /\ coin.outpoint = u.outpoint
  BY <1>9 DEF Coin
<1>13. {<<coin>>[i].outpoint : i \in DOMAIN <<coin>>} = {u.outpoint}
  BY <1>12
<1>14. PICK paid : paid = Pay(each, p2sh_script_pubkey)
  OBVIOUS
<1> DEFINE S == {paid, pay}
<1>15. Valued(S)
  BY <1>9, <1>14 DEF Valued, Pay
<1>16. paid \in S /\ pay \in S
  OBVIOUS
<1> HIDE DEF S
<1>17. f \o e \in Seq(S)
  <2>1. f \in [1..n -> S]
    BY <1>1, <1>14, <1>16
  <2>2. f \in Seq(S)
    BY <2>1
  <2>3. e \in Seq(S)
    BY <1>9, <1>16
  <2> QED
    BY <2>2, <2>3, ConcatProperties
<1>18. Valued({coin})
  BY <1>12 DEF Valued
<1>19. PICK plan : plan = prepare_plan(<<u>>, values)
  OBVIOUS
<1>20. plan.fee = fee /\ plan.inputs = <<coin>> /\ plan.outputs = f \o e
  BY <1>11, <1>19
<1>21. SoundPlan(plan, {u.outpoint})
  <2>1. \E T : Valued(T) /\ plan.inputs \in Seq(T)
    BY <1>12, <1>18, <1>20
  <2>2. \E T : Valued(T) /\ plan.outputs \in Seq(T)
    BY <1>15, <1>17, <1>20
  <2>3. {plan.inputs[i].outpoint : i \in DOMAIN plan.inputs} = {u.outpoint}
    BY <1>13, <1>20, Zenon
  <2> QED
    BY <1>20, <2>1, <2>2, <2>3 DEF SoundPlan
<1> QED
  BY <1>19, <1>21

LEMMA CallSound ==
  ASSUME NEW u, u.value \in Int, NEW p, p.size \in Nat \ {0}, call_plan(u, p).ok
  PROVE  SoundPlan(call_plan(u, p), {u.outpoint})
<1>1. PICK a \in Int, b \in Int :
         /\ a = P2PKH_IN
         /\ b = output_serialized_size(Size(op_return_script(p))) + P2PKH_OUT
  <2>1. PICK x \in Int, y \in Int, z \in Int :
           x = P2PKH_IN /\ y = P2PKH_OUT /\ z = output_serialized_size(Size(op_return_script(p)))
    BY PartSizes
  <2> QED
    BY <2>1
<1>2. PICK fee \in Int : fee = zip317_fee_from_sizes(a, b)
  BY FeeInt
<1>3. PICK change \in Int : change = u.value - fee
  OBVIOUS
<1>4. PICK coin, pay, msg : /\ coin = Coin(u.outpoint, u.value, P2pkh)
                            /\ pay = Pay(change, p2pkh_script_pubkey)
                            /\ msg = Pay(0, op_return_script(p))
  OBVIOUS
<1>5. call_plan(u, p) = PreparedTx(<<coin>>, <<msg, pay>>, fee, change)
  <2>1. ~NoPlan.ok
    BY DEF NoPlan
  <2>2. call_plan(u, p) \in {NoPlan, PreparedTx(<<coin>>, <<msg, pay>>, fee, change)}
    BY <1>1, <1>2, <1>3, <1>4, Zenon DEF call_plan
  <2> QED
    BY <2>1, <2>2
<1>6. /\ call_plan(u, p).fee = fee
      /\ call_plan(u, p).inputs = <<coin>>
      /\ call_plan(u, p).outputs = <<msg, pay>>
  BY <1>5 DEF PreparedTx
<1>7. <<coin>> \in Seq({coin}) /\ coin.value \in Int /\ coin.outpoint = u.outpoint
  BY <1>4 DEF Coin
<1>8. {<<coin>>[i].outpoint : i \in DOMAIN <<coin>>} = {u.outpoint}
  BY <1>7
<1>9. Valued({coin})
  BY <1>7 DEF Valued
<1>10. <<msg, pay>> \in Seq({msg, pay}) /\ Valued({msg, pay})
  <2>1. msg.value = 0 /\ pay.value = change
    BY <1>4 DEF Pay
  <2> QED
    BY <2>1 DEF Valued
<1> QED
  BY <1>6, <1>7, <1>8, <1>9, <1>10 DEF SoundPlan

\* The transparent side of a shielded plan spends no coin.
LEMMA ShieldedSound ==
  ASSUME NEW S, Valued(S), NEW outputs \in Seq(S)
  PROVE  SoundPlan(PreparedTx(<<>>, outputs, 0, 0), {})
<1>1. PICK plan : plan = PreparedTx(<<>>, outputs, 0, 0)
  OBVIOUS
<1>2. plan.fee = 0 /\ plan.inputs = <<>> /\ plan.outputs = outputs
  BY <1>1 DEF PreparedTx
<1>3. {plan.inputs[i].outpoint : i \in DOMAIN plan.inputs} = {}
  BY <1>2
<1>4. <<>> \in Seq(S)
  OBVIOUS
<1>5. \E T : Valued(T) /\ plan.inputs \in Seq(T)
  BY <1>2, <1>4
<1>6. \E T : Valued(T) /\ plan.outputs \in Seq(T)
  BY <1>2
<1>7. plan.fee \in Int
  BY <1>2
<1>8. SoundPlan(plan, {})
  BY <1>3, <1>5, <1>6, <1>7, Zenon DEF SoundPlan
<1> QED
  BY <1>1, <1>8

(***************************************************************************)
(* What happens to a transaction between signing and verification leaves   *)
(* its inputs a list.                                                      *)
(***************************************************************************)
IsList(s) == \E n \in Nat : s = [i \in 1..n |-> s[i]]

LEMMA SequenceIsList ==
  ASSUME NEW S, NEW s \in Seq(S)
  PROVE  IsList(s)
<1>1. PICK n \in Nat : n = Len(s)
  OBVIOUS
<1>2. s = [i \in 1..n |-> s[i]]
  BY <1>1
<1> QED
  BY <1>2 DEF IsList

LEMMA ListUpdated ==
  ASSUME NEW s, IsList(s), NEW e
  PROVE  IsList([s EXCEPT ![1] = e])
<1>1. PICK n \in Nat : s = [i \in 1..n |-> s[i]]
  BY DEF IsList
<1>2. PICK D : D = 1..n
  OBVIOUS
<1>3. PICK t : t = [s EXCEPT ![1] = e]
  OBVIOUS
<1>4. s = [i \in D |-> s[i]]
  BY <1>1, <1>2
<1>5. t = [i \in D |-> t[i]]
  BY <1>3, <1>4
<1> QED
  BY <1>2, <1>3, <1>5 DEF IsList

LEMMA SwappedIsList ==
  ASSUME NEW n \in Nat, NEW s, s = [i \in 1..n |-> s[i]]
  PROVE  IsList(Swap(s))
<1> DEFINE S == {s[i] : i \in 1..n}
<1>1. s \in Seq(S) /\ Len(s) = n
  BY Listed
<1>2. CASE n < 2
  <2>1. Swap(s) = s
    BY <1>1, <1>2 DEF Swap
  <2> QED
    BY <2>1 DEF IsList
<1>3. CASE ~(n < 2)
  <2>1. s[1] \in S /\ s[2] \in S
    BY <1>3
  <2> HIDE DEF S
  <2>2. <<s[2], s[1]>> \in Seq(S)
    BY <2>1
  <2>3. SubSeq(s, 3, n) \in Seq(S)
    BY <1>1, <1>3
  <2>4. <<s[2], s[1]>> \o SubSeq(s, 3, n) \in Seq(S)
    BY <2>2, <2>3, ConcatProperties
  <2>5. Swap(s) = <<s[2], s[1]>> \o SubSeq(s, 3, n)
    BY <1>1, <1>3 DEF Swap
  <2> QED
    BY <2>4, <2>5, SequenceIsList
<1> QED
  BY <1>2, <1>3

LEMMA AlteredIsList ==
  ASSUME NEW n \in Nat \ {0}, NEW vin, vin = [i \in 1..n |-> vin[i]], NEW outs,
         NEW tx, tx = [version |-> 5, expiry |-> 0, vin |-> vin, vout |-> outs],
         NEW a \in AnyAlteration
  PROVE  IsList(Altered(a, tx).vin)
<1>1. IsList(vin) /\ tx.vin = vin
  BY DEF IsList
<1>2. CASE a = "none"
  BY <1>1, <1>2, Zenon DEF Altered
<1>3. CASE a = "version"
  <2>1. Altered(a, tx) = [tx EXCEPT !.version = 4]
    BY <1>3, Zenon DEF Altered
  <2>2. Altered(a, tx).vin = vin
    BY <2>1
  <2> QED
    BY <1>1, <2>2
<1>4. CASE a = "expiry"
  <2>1. Altered(a, tx) = [tx EXCEPT !.expiry = 1]
    BY <1>4, Zenon DEF Altered
  <2>2. Altered(a, tx).vin = vin
    BY <2>1
  <2> QED
    BY <1>1, <2>2
<1>5. CASE a \in {"value", "script", "drop_output", "extra_output", "swap_outputs"}
  <2>1. \E w : Altered(a, tx) = [tx EXCEPT !.vout = w]
    <3>1. CASE a = "value"
      BY <3>1, Zenon DEF Altered
    <3>2. CASE a = "script"
      BY <3>2, Zenon DEF Altered
    <3>3. CASE a = "drop_output"
      BY <3>3, Zenon DEF Altered
    <3>4. CASE a = "extra_output"
      BY <3>4, Zenon DEF Altered
    <3>5. CASE a = "swap_outputs"
      BY <3>5, Zenon DEF Altered
    <3> QED
      BY <1>5, <3>1, <3>2, <3>3, <3>4, <3>5
  <2>2. Altered(a, tx).vin = vin
    BY <2>1
  <2> QED
    BY <1>1, <2>2
<1>6. CASE a = "drop_input"
  <2>1. Altered(a, tx) = [tx EXCEPT !.vin = Tail(tx.vin)]
    BY <1>6, Zenon DEF Altered
  <2>2. Altered(a, tx).vin = Tail(vin)
    BY <1>1, <2>1
  <2>3. vin \in Seq({vin[i] : i \in 1..n}) /\ Len(vin) = n
    BY Listed
  <2>4. PICK S : vin \in Seq(S)
    BY <2>3
  <2>5. Tail(vin) \in Seq(S)
    BY <2>3, <2>4
  <2> QED
    BY <2>2, <2>5, SequenceIsList
<1>7. CASE a = "swap_inputs"
  <2>1. Altered(a, tx) = [tx EXCEPT !.vin = Swap(tx.vin)]
    BY <1>7, Zenon DEF Altered
  <2>2. Altered(a, tx).vin = Swap(vin)
    BY <1>1, <2>1
  <2> QED
    BY <2>2, SwappedIsList
<1>8. CASE a = "swap_sigs"
  <2>1. PICK f : f = [i \in DOMAIN tx.vin |-> [tx.vin[i] EXCEPT !.script_sig = Swap(tx.vin)[i].script_sig]]
    OBVIOUS
  <2>2. Altered(a, tx) = [tx EXCEPT !.vin = f]
    BY <1>8, <2>1, Zenon DEF Altered
  <2>3. Altered(a, tx).vin = f
    BY <2>2
  <2>4. DOMAIN vin = 1..n
    OBVIOUS
  <2>5. f = [i \in 1..n |-> f[i]]
    BY <1>1, <2>1, <2>4
  <2> QED
    BY <2>3, <2>5 DEF IsList
<1>9. CASE a \in {"prevout", "pubkey", "no_sig", "index", "redeem", "data", "short", "split",
                  "extra_push"}
  <2>1. \E e : Altered(a, tx) = [tx EXCEPT !.vin = [tx.vin EXCEPT ![1] = e]]
    <3>1. CASE a = "prevout"
      BY <3>1, Zenon DEF Altered
    <3>2. CASE a # "prevout"
      <4>1. /\ a # "none" /\ a # "version" /\ a # "expiry" /\ a # "drop_input" /\ a # "prevout"
            /\ a # "swap_inputs" /\ a # "value" /\ a # "script" /\ a # "drop_output"
            /\ a # "extra_output" /\ a # "swap_outputs" /\ a # "swap_sigs"
        BY <1>9, <3>2
      <4> QED
        BY <4>1, Zenon DEF Altered
    <3> QED
      BY <3>1, <3>2
  <2>2. PICK e : Altered(a, tx) = [tx EXCEPT !.vin = [tx.vin EXCEPT ![1] = e]]
    BY <2>1
  <2>3. Altered(a, tx).vin = [vin EXCEPT ![1] = e]
    BY <1>1, <2>2
  <2>4. IsList([vin EXCEPT ![1] = e])
    BY <1>1, ListUpdated
  <2> QED
    BY <2>3, <2>4
<1> QED
  BY <1>2, <1>3, <1>4, <1>5, <1>6, <1>7, <1>8, <1>9 DEF AnyAlteration, EffectAlteration, SigAlteration

\* The coins a transaction names.
SpendsFor(s, kind, pool, coin) ==
  IF kind = "deploy" THEN Range(Outpoints(s, pool, coin))
  ELSE IF pool = "transparent" THEN {FundingCoin(coin)} ELSE {}

LEMMA SpendsIs ==
  ASSUME NEW t
  PROVE  Spends(t) = SpendsFor(sized, t.kind, t.pool, t.coin)
  BY Zenon DEF Spends, SpendsFor, CarrierOutpoints, Outpoints, Each, Chunks

LEMMA DeploySound ==
  ASSUME NEW c, NEW s, SizedRight(c, s), NEW pool, NEW coin
  PROVE  SoundPlan(PlanFor(c, s, "deploy", pool, coin), SpendsFor(s, "deploy", pool, coin))
<1>1. PICK n \in Nat, each \in Nat, fee \in Nat, change \in Nat :
         DeployPlanned(c, s, pool, coin, n, each, fee, change)
  BY DeployIsPlanned
<1>2. PICK ins, outs, plan :
         /\ ins = [i \in 1..n |-> Coin(<<"prepare", pool, coin, i - 1>>, each,
                                       CarrierSpend(i - 1, s.chunks[i]))]
         /\ outs = DeployOutputs(DeployMessage(c, s.chunks), change)
         /\ plan = PlanFor(c, s, "deploy", pool, coin)
  OBVIOUS
<1>3. plan = PreparedTx(ins, outs, fee, change)
  BY <1>1, <1>2, Zenon DEF DeployPlanned
<1>4. plan.fee = fee /\ plan.inputs = ins /\ plan.outputs = outs
  BY <1>3, Prepared
<1>5. \E T : Valued(T) /\ plan.inputs \in Seq(T)
  <2>1. ins = [i \in 1..n |-> ins[i]]
    BY <1>2
  <2> DEFINE T == {ins[i] : i \in 1..n}
  <2>2. ins \in Seq(T)
    BY <2>1, Listed
  <2>3. \A i \in 1..n : ins[i].value = each
    BY <1>2 DEF Coin
  <2>4. Valued(T)
    BY <2>3 DEF Valued
  <2> HIDE DEF T
  <2> QED
    BY <1>4, <2>2, <2>4
<1>6. \E T : Valued(T) /\ plan.outputs \in Seq(T)
  <2>1. PICK msg, pay : /\ msg = Pay(0, op_return_script(DeployMessage(c, s.chunks)))
                        /\ pay = Pay(change, p2pkh_script_pubkey)
    OBVIOUS
  <2>2. PICK e : e = IF change > 0 THEN <<pay>> ELSE <<>>
    OBVIOUS
  <2>3. outs = <<msg>> \o e
    BY <1>2, <2>1, <2>2 DEF DeployOutputs
  <2>4. msg.value \in Int /\ pay.value \in Int
    BY <2>1 DEF Pay
  <2> DEFINE T == {msg, pay}
  <2>5. Valued(T) /\ msg \in T /\ pay \in T
    BY <2>4 DEF Valued
  <2> HIDE DEF T
  <2>6. <<msg>> \in Seq(T) /\ e \in Seq(T)
    BY <2>2, <2>5
  <2>7. outs \in Seq(T)
    BY <2>3, <2>6, ConcatProperties
  <2> QED
    BY <1>4, <2>5, <2>7
<1>7. {plan.inputs[i].outpoint : i \in DOMAIN plan.inputs} = SpendsFor(s, "deploy", pool, coin)
  <2>1. PICK outpoints : outpoints = Outpoints(s, pool, coin)
    OBVIOUS
  <2>2. outpoints = [i \in 1..n |-> <<"prepare", pool, coin, i - 1>>]
    BY <1>1, <2>1 DEF DeployPlanned
  <2>3. SpendsFor(s, "deploy", pool, coin) = Range(outpoints)
    <3>1. PICK kind : kind = "deploy"
      OBVIOUS
    <3>2. SpendsFor(s, kind, pool, coin) = Range(outpoints)
      BY <2>1, <3>1, Zenon DEF SpendsFor
    <3> QED
      BY <3>1, <3>2, Zenon
  <2>4. DOMAIN ins = 1..n /\ DOMAIN outpoints = 1..n
    BY <1>2, <2>2
  <2>5. \A i \in 1..n : ins[i].outpoint = outpoints[i]
    BY <1>2, <2>2 DEF Coin
  <2>6. {ins[i].outpoint : i \in DOMAIN ins} = Range(outpoints)
    <3>1. {ins[i].outpoint : i \in DOMAIN ins} = {ins[i].outpoint : i \in 1..n}
      BY <2>4
    <3>2. Range(outpoints) = {outpoints[i] : i \in 1..n}
      BY <2>4 DEF Range
    <3>3. {ins[i].outpoint : i \in 1..n} = {outpoints[i] : i \in 1..n}
      BY <2>5
    <3> QED
      BY <3>1, <3>2, <3>3
  <2> QED
    BY <1>4, <2>3, <2>6
<1>8. SoundPlan(plan, SpendsFor(s, "deploy", pool, coin))
  BY <1>4, <1>5, <1>6, <1>7 DEF SoundPlan
<1> QED
  BY <1>2, <1>8

LEMMA PlanSound ==
  ASSUME NEW c, c.funds \in Nat, c.len \in Nat, NEW s, NEW kind \in {"prepare", "deploy", "call"},
         NEW pool \in Pools, NEW coin, kind \in {"prepare", "deploy"} => SizedRight(c, s),
         PlanFor(c, s, kind, pool, coin).ok
  PROVE  SoundPlan(PlanFor(c, s, kind, pool, coin), SpendsFor(s, kind, pool, coin))
<1>1. CASE kind = "deploy"
  BY <1>1, DeploySound
<1>2. PICK u : u = UtxoOf(c, coin) /\ u.value \in Int /\ u.outpoint = FundingCoin(coin)
  <2>1. PICK u : u = UtxoOf(c, coin)
    OBVIOUS
  <2>2. u.value = c.funds /\ u.outpoint = FundingCoin(coin)
    BY <2>1 DEF UtxoOf
  <2> QED
    BY <2>1, <2>2
<1>3. CallMessage(c).size \in Nat \ {0}
  <2>1. PICK k \in Nat : k = c.len
    OBVIOUS
  <2>2. CallMessage(c).size = HEADER + (CALL_BODY + k)
    BY <2>1, Zenon DEF CallMessage, encode_call, Payload
  <2> QED
    BY <2>2 DEF HEADER, CALL_BODY
<1>4. CASE kind = "prepare" /\ pool = "transparent"
  <2>1. PICK n \in Nat, each \in Nat, fee \in Nat, change \in Nat :
           DeployPlanned(c, s, pool, coin, n, each, fee, change)
    BY <1>4, DeployIsPlanned
  <2>a. PICK v \in Int : v = each
    OBVIOUS
  <2>2. PICK values : values = ValuesOf(s) /\ v = each
    BY <2>a
  <2>3. values = [i \in 1..n |-> v] /\ Len(values) = n
    BY <2>1, <2>2 DEF DeployPlanned
  <2>4. PlanFor(c, s, kind, pool, coin) = prepare_plan(<<u>>, values)
    BY <1>2, <1>4, <2>2, Zenon DEF PlanFor
  <2>5. SoundPlan(prepare_plan(<<u>>, values), {u.outpoint})
    BY <1>2, <2>3, <2>4, PrepareSound
  <2>6. SpendsFor(s, kind, pool, coin) = {u.outpoint}
    BY <1>2, <1>4, Zenon DEF SpendsFor
  <2> QED
    BY <2>4, <2>5, <2>6
<1>5. CASE kind = "call" /\ pool = "transparent"
  <2>1. PICK p : p = CallMessage(c)
    OBVIOUS
  <2>2. PlanFor(c, s, kind, pool, coin) = call_plan(u, p)
    BY <1>2, <1>5, <2>1, Zenon DEF PlanFor
  <2>3. SoundPlan(call_plan(u, p), {u.outpoint})
    BY <1>2, <1>3, <2>1, <2>2, CallSound
  <2>4. SpendsFor(s, kind, pool, coin) = {u.outpoint}
    BY <1>2, <1>5, Zenon DEF SpendsFor
  <2> QED
    BY <2>2, <2>3, <2>4
<1>6. CASE kind = "prepare" /\ pool = "shielded"
  <2>1. PICK n \in Nat, each \in Nat, fee \in Nat, change \in Nat :
           DeployPlanned(c, s, pool, coin, n, each, fee, change)
    BY <1>6, DeployIsPlanned
  <2>2. PICK values : values = ValuesOf(s)
    OBVIOUS
  <2>3. values = [i \in 1..n |-> each] /\ Len(values) = n
    BY <2>1, <2>2 DEF DeployPlanned
  <2>4. PICK f : f = [i \in 1..n |-> Pay(values[i], p2sh_script_pubkey)]
    OBVIOUS
  <2>5. f = [i \in 1..n |-> f[i]]
    BY <2>4
  <2>6. <<>> \o f = f
    BY <2>5, Listed
  <2>7. Map(LAMBDA x : Pay(x, p2sh_script_pubkey), values) = f
    BY <2>3, <2>4, <2>6 DEF Map
  <2>8. PlanFor(c, s, kind, pool, coin) = PreparedTx(<<>>, f, 0, 0)
    BY <1>6, <2>2, <2>7, Zenon DEF PlanFor
  <2> DEFINE T == {f[i] : i \in 1..n}
  <2>9. \A i \in 1..n : f[i].value = each
    BY <2>3, <2>4 DEF Pay
  <2>10. Valued(T)
    BY <2>9 DEF Valued
  <2>11. f \in Seq(T)
    BY <2>5, Listed
  <2> HIDE DEF T
  <2>12. SoundPlan(PreparedTx(<<>>, f, 0, 0), {})
    BY <2>10, <2>11, ShieldedSound
  <2>13. SpendsFor(s, kind, pool, coin) = {}
    BY <1>6, Zenon DEF SpendsFor
  <2> QED
    BY <2>8, <2>12, <2>13
<1>7. CASE kind = "call" /\ pool = "shielded"
  <2>1. PICK msg : msg = Pay(0, op_return_script(CallMessage(c)))
    OBVIOUS
  <2>2. PlanFor(c, s, kind, pool, coin) = PreparedTx(<<>>, <<msg>>, 0, 0)
    BY <1>7, <2>1, Zenon DEF PlanFor
  <2>3. msg.value = 0
    BY <2>1 DEF Pay
  <2>4. Valued({msg}) /\ <<msg>> \in Seq({msg})
    BY <2>3 DEF Valued
  <2>5. SoundPlan(PreparedTx(<<>>, <<msg>>, 0, 0), {})
    BY <2>4, ShieldedSound
  <2>6. SpendsFor(s, kind, pool, coin) = {}
    BY <1>7, Zenon DEF SpendsFor
  <2> QED
    BY <2>2, <2>5, <2>6
<1> QED
  BY <1>1, <1>4, <1>5, <1>6, <1>7 DEF Pools

(***************************************************************************)
(* What the wallet verifies in the scriptSigs is what the indexer reads from*)
(* them, and one DEPLOY registers one contract.                            *)
(***************************************************************************)
\* g gathers chunks, passing over the inputs that carry none.
Gathers(g, s) == g[0] = <<>> /\ \A i \in 1..Len(s) : g[i] = Push(g[i - 1], s[i])

Gathered(s) == Fold(Push, <<>>, s)

LEMMA GathersExists ==
  ASSUME NEW s, Len(s) \in Nat
  PROVE  \E g : Gathers(g, s) /\ g = [i \in 0..Len(s) |-> g[i]]
<1> DEFINE Good(g, k) == /\ g = [i \in 0..k |-> g[i]]
                         /\ g[0] = <<>>
                         /\ \A i \in 1..k : g[i] = Push(g[i - 1], s[i])
           B == {k \in 0..Len(s) : ~ \E g : Good(g, k)}
<1>1. B = {}
  <2> SUFFICES ASSUME B # {} PROVE FALSE
    OBVIOUS
  <2>1. B \in SUBSET Nat
    OBVIOUS
  <2>2. PICK k \in B : \A j \in B : k <= j
    BY <2>1, LeastOf
  <2>3. k \in 0..Len(s) /\ k \in Nat /\ ~ \E g : Good(g, k)
    OBVIOUS
  <2>4. CASE k = 0
    <3> DEFINE g == [i \in 0..0 |-> <<>>]
    <3>1. Good(g, k)
      BY <2>4
    <3> QED
      BY <2>3, <3>1
  <2>5. CASE k # 0
    <3>1. k - 1 \in 0..Len(s) /\ k - 1 \notin B /\ k \in 1..Len(s)
      <4>1. k - 1 \in 0..Len(s) /\ k \in 1..Len(s) /\ ~(k <= k - 1)
        BY <2>3, <2>5
      <4> HIDE DEF B
      <4> QED
        BY <2>2, <4>1
    <3>2. PICK g : Good(g, k - 1)
      BY <3>1
    <3>3. PICK e : e = Push(g[k - 1], s[k])
      OBVIOUS
    <3> DEFINE f == [i \in 0..k |-> IF i = k THEN e ELSE g[i]]
    <3>4. f[0] = <<>>
      BY <2>3, <2>5, <3>2
    <3>5. ASSUME NEW i \in 1..k PROVE f[i] = Push(f[i - 1], s[i])
      <4>1. f[i - 1] = g[i - 1]
        BY <2>3, <3>5
      <4>2. i # k => i \in 1..(k - 1) /\ f[i] = g[i]
        BY <2>3, <3>5
      <4>3. i = k => f[i] = e
        BY <2>3
      <4> HIDE DEF f
      <4> QED
        BY <3>2, <3>3, <4>1, <4>2, <4>3
    <3>6. f = [i \in 0..k |-> f[i]]
      OBVIOUS
    <3> HIDE DEF f
    <3>7. Good(f, k)
      BY <3>4, <3>5, <3>6
    <3> QED
      BY <2>3, <3>7
  <2> QED
    BY <2>4, <2>5
<1>2. PICK g : Good(g, Len(s))
  BY <1>1
<1> QED
  BY <1>2 DEF Gathers

LEMMA GatheredIs ==
  ASSUME NEW s, Len(s) \in Nat
  PROVE  \E g : Gathers(g, s) /\ Gathered(s) = g[Len(s)]
<1> DEFINE Eqn(g) == g = [i \in 0..Len(s) |-> IF i = 0 THEN <<>> ELSE Push(g[i - 1], s[i])]
           F == CHOOSE g : Eqn(g)
<1>1. Gathered(s) = F[Len(s)]
  BY DEF Gathered, Fold
<1>2. PICK g : Gathers(g, s) /\ g = [i \in 0..Len(s) |-> g[i]]
  BY GathersExists
<1>3. Eqn(g)
  <2>1. \A i \in 0..Len(s) : g[i] = IF i = 0 THEN <<>> ELSE Push(g[i - 1], s[i])
    <3>1. \A i \in 0..Len(s) : i # 0 => i \in 1..Len(s)
      OBVIOUS
    <3> QED
      BY <1>2, <3>1 DEF Gathers
  <2> QED
    BY <1>2, <2>1
<1> HIDE DEF Eqn
<1>4. Eqn(F)
  BY <1>3
<1> HIDE DEF F
<1>5. Gathers(F, s)
  <2>1. F = [i \in 0..Len(s) |-> IF i = 0 THEN <<>> ELSE Push(F[i - 1], s[i])]
    BY <1>4 DEF Eqn
  <2>2. \A i \in 1..Len(s) : i \in 0..Len(s) /\ i # 0
    OBVIOUS
  <2>3. 0 \in 0..Len(s)
    OBVIOUS
  <2> QED
    BY <2>1, <2>2, <2>3 DEF Gathers
<1> QED
  BY <1>1, <1>5

\* Every input carries a chunk, and f lists the chunks.
AllCarried(n, s, f) ==
  /\ Len(s) = n
  /\ \A i \in 1..n : s[i].ok = TRUE
  /\ f = [i \in 1..n |-> f[i]]
  /\ \A i \in 1..n : f[i] = [index |-> s[i].index, data |-> s[i].data]

LEMMA GatheredAll ==
  ASSUME NEW n \in Nat, NEW s, NEW f, AllCarried(n, s, f)
  PROVE  Gathered(s) = f
<1> USE DEF AllCarried
<1>1. PICK g : Gathers(g, s) /\ Gathered(s) = g[n]
  BY GatheredIs
<1>2. f = [i \in 1..n |-> f[i]]
  OBVIOUS
<1> DEFINE S == {f[i] : i \in 1..n}
           Upto(k) == [i \in 1..k |-> f[i]]
           B == {k \in 0..n : g[k] # Upto(k)}
<1>3. \A i \in 1..n : f[i] \in S
  OBVIOUS
<1> HIDE DEF S
<1>4. ASSUME NEW k \in 0..n PROVE Upto(k) \in Seq(S) /\ Len(Upto(k)) = k
  <2>1. PICK u : u = Upto(k)
    OBVIOUS
  <2>2. u \in [1..k -> S]
    BY <1>3, <2>1
  <2>3. k \in Nat
    OBVIOUS
  <2> HIDE DEF Upto
  <2>4. u \in Seq(S) /\ Len(u) = k
    BY <2>2, <2>3
  <2> QED
    BY <2>1, <2>4
<1>5. B = {}
  <2> SUFFICES ASSUME B # {} PROVE FALSE
    OBVIOUS
  <2>1. B \in SUBSET Nat
    OBVIOUS
  <2>2. PICK k \in B : \A j \in B : k <= j
    BY <2>1, LeastOf
  <2>3. k \in 0..n /\ g[k] # Upto(k)
    OBVIOUS
  <2>4. k # 0
    <3>1. Len(Upto(0)) = 0 /\ Upto(0) \in Seq(S)
      BY <1>4
    <3>2. Upto(0) = <<>>
      <4> HIDE DEF Upto
      <4> QED
        BY <3>1
    <3> QED
      BY <1>1, <2>3, <3>2 DEF Gathers
  <2>5. k - 1 \in 0..n /\ k \in 1..n /\ ~(k <= k - 1)
    BY <2>3, <2>4
  <2>6. g[k - 1] = Upto(k - 1)
    <3>1. k - 1 \notin B
      <4> HIDE DEF B
      <4> QED
        BY <2>2, <2>5
    <3> QED
      BY <2>5, <3>1
  <2>7. g[k] = Append(Upto(k - 1), f[k])
    <3>1. g[k] = Push(Upto(k - 1), s[k]) /\ s[k].ok = TRUE
      BY <1>1, <2>5, <2>6 DEF Gathers
    <3>2. f[k] = [index |-> s[k].index, data |-> s[k].data]
      BY <2>5
    <3> QED
      BY <3>1, <3>2 DEF Push
  <2>8. Append(Upto(k - 1), f[k]) = Upto(k)
    <3>1. PICK a, b, e : a = Upto(k - 1) /\ b = Upto(k) /\ e = f[k]
      OBVIOUS
    <3>3. \A i \in 1..k : b[i] = IF i = k THEN e ELSE a[i]
      <4> SUFFICES ASSUME NEW i \in 1..k PROVE b[i] = IF i = k THEN e ELSE a[i]
        OBVIOUS
      <4>1. b[i] = f[i]
        BY <3>1
      <4>2. i # k => i \in 1..(k - 1)
        BY <2>5
      <4>3. i # k => a[i] = f[i]
        BY <3>1, <4>2
      <4> QED
        BY <3>1, <4>1, <4>3
    <3>2. a \in Seq(S) /\ b \in Seq(S) /\ Len(a) = k - 1 /\ Len(b) = k /\ e \in S
      <4> HIDE DEF Upto
      <4>1. a \in Seq(S) /\ Len(a) = k - 1
        BY <1>4, <2>5, <3>1
      <4>2. k \in 0..n
        BY <2>5
      <4>3. b \in Seq(S) /\ Len(b) = k
        BY <1>4, <4>2, <3>1
      <4> QED
        BY <1>3, <2>5, <3>1, <4>1, <4>3
    <3> HIDE DEF Upto
    <3>8. Append(a, e) \in Seq(S)
      BY <3>2
    <3>4. PICK c \in Seq(S) : c = Append(a, e)
      BY <3>8
    <3>5. Len(c) = k /\ \A i \in 1..k : c[i] = IF i = k THEN e ELSE a[i]
      BY <2>5, <3>2, <3>4
    <3>6. b \in Seq(S) /\ Len(c) = Len(b) /\ \A i \in 1..Len(c) : c[i] = b[i]
      BY <3>2, <3>3, <3>5
    <3>7. c = b
      BY <3>6, SeqEqual
    <3> QED
      BY <3>1, <3>4, <3>7
  <2> QED
    <3> HIDE DEF Upto, B
    <3> QED
      BY <2>3, <2>7, <2>8
<1>6. g[n] = Upto(n)
  <2>1. n \in 0..n /\ n \notin B
    <3> HIDE DEF B
    <3> QED
      BY <1>5
  <2> QED
    BY <2>1
<1> QED
  BY <1>1, <1>2, <1>6

\* The data pushes of a carrier scriptSig, put together.
DataOf(pushes) == CatAll(SubSeq(pushes, 2, Len(pushes) - 2))

\* What the wallet has verified in a scriptSig is what the indexer reads from it.
LEMMA ChunkRead ==
  ASSUME NEW sig, NEW kind, kind.index \in Int, verify_carrier(parse_script_pushes(sig), kind)
  PROVE  /\ chunk_from_script_sig(sig).ok = TRUE
         /\ chunk_from_script_sig(sig).index = kind.index
         /\ chunk_from_script_sig(sig).data = DataOf(parse_script_pushes(sig))
<1>1. PICK pushes : pushes = parse_script_pushes(sig)
  OBVIOUS
<1>2. ~(Len(pushes) < 4) /\ pushes[1] = Byte(kind.index)
  BY <1>1 DEF verify_carrier
<1>3. PICK v : v = kind.index
  OBVIOUS
<1>4. ByteAt(Byte(v), 0) = v /\ Size(Byte(v)) = 1
  BY <1>3, OneByte
<1>5. ByteAt(pushes[1], 0) = v /\ Size(pushes[1]) = 1
  BY <1>2, <1>3, <1>4
<1>6. PICK d : d = DataOf(pushes)
  OBVIOUS
<1>7. chunk_from_script_sig(sig) = [ok |-> TRUE, index |-> v, data |-> d]
  BY <1>1, <1>2, <1>5, <1>6, Zenon DEF chunk_from_script_sig, DataOf
<1> QED
  BY <1>1, <1>3, <1>6, <1>7

\* The scriptSigs of tx pass verify_carrier, and f lists the chunks in them.
CarriersHold(n, tx, inputs, f) ==
  /\ tx.vin = [i \in 1..n |-> tx.vin[i]]
  /\ \A i \in 1..n : /\ inputs[i].kind.index \in Int
                     /\ verify_carrier(parse_script_pushes(tx.vin[i].script_sig), inputs[i].kind)
  /\ f = [i \in 1..n |-> f[i]]
  /\ \A i \in 1..n : f[i] = [index |-> inputs[i].kind.index,
                             data |-> DataOf(parse_script_pushes(tx.vin[i].script_sig))]

LEMMA CarriedAre ==
  ASSUME NEW n \in Nat, NEW tx, NEW inputs, NEW f, CarriersHold(n, tx, inputs, f)
  PROVE  CarriedChunks(tx) = f
<1> USE DEF CarriersHold
<1>1. PICK vin : vin = tx.vin
  OBVIOUS
<1>2. vin = [i \in 1..n |-> vin[i]]
  BY <1>1
<1>3. Len(vin) = n
  BY <1>2, Listed
<1>4. PICK s : s = [i \in 1..n |-> chunk_from_script_sig(vin[i].script_sig)]
  OBVIOUS
<1>5. s = [i \in 1..n |-> s[i]]
  BY <1>4
<1>6. Len(s) = n /\ <<>> \o s = s
  BY <1>5, Listed
<1>7. CarriedChunks(tx) = Gathered(s)
  <2>1. Map(LAMBDA x : chunk_from_script_sig(x.script_sig), vin) = s
    BY <1>3, <1>4, <1>6 DEF Map
  <2> QED
    BY <1>1, <2>1 DEF CarriedChunks, Gathered
<1>8. \A i \in 1..n : /\ s[i].ok = TRUE
                      /\ s[i].index = inputs[i].kind.index
                      /\ s[i].data = DataOf(parse_script_pushes(vin[i].script_sig))
  <2> SUFFICES ASSUME NEW i \in 1..n
               PROVE  /\ s[i].ok = TRUE
                      /\ s[i].index = inputs[i].kind.index
                      /\ s[i].data = DataOf(parse_script_pushes(vin[i].script_sig))
    OBVIOUS
  <2>1. PICK sig, kind : sig = vin[i].script_sig /\ kind = inputs[i].kind
    OBVIOUS
  <2>2. kind.index \in Int /\ verify_carrier(parse_script_pushes(sig), kind)
    BY <1>1, <2>1
  <2>3. /\ chunk_from_script_sig(sig).ok = TRUE
        /\ chunk_from_script_sig(sig).index = kind.index
        /\ chunk_from_script_sig(sig).data = DataOf(parse_script_pushes(sig))
    BY <2>2, ChunkRead
  <2>4. s[i] = chunk_from_script_sig(sig)
    BY <1>4, <2>1
  <2> QED
    BY <2>1, <2>3, <2>4
<1>9. \A i \in 1..n : f[i] = [index |-> s[i].index, data |-> s[i].data]
  BY <1>1, <1>8
<1>10. \A i \in 1..n : s[i].ok = TRUE
  BY <1>8
<1>11. AllCarried(n, s, f)
  BY <1>6, <1>9, <1>10 DEF AllCarried
<1>12. Gathered(s) = f
  BY <1>11, GatheredAll
<1> QED
  BY <1>7, <1>12

\* The indexer puts the module of a DEPLOY together from the scriptSigs of tx.
Carries(c, s, tx) ==
  /\ parse_op_return(DeployMessage(c, s.chunks)).is = "deploy"
  /\ reconstruct(CarriedChunks(tx), parse_op_return(DeployMessage(c, s.chunks)).m.count,
                 parse_op_return(DeployMessage(c, s.chunks)).m.length,
                 parse_op_return(DeployMessage(c, s.chunks)).m.hash).ok

FinalChunks(plan, tx, pushes) ==
  Each(Len(tx.vin), LAMBDA i : [index |-> plan.inputs[i].kind.index,
                                data  |-> CatAll(SubSeq(pushes[i], 2, Len(pushes[i]) - 2))])

\* What verify_script_sigs asks of the pushes of each input.
GoodSigs(plan, t, tx, pushes) ==
  /\ \A i \in DOMAIN tx.vin : IF plan.inputs[i].kind.carrier
                                THEN verify_carrier(pushes[i], plan.inputs[i].kind)
                                ELSE verify_p2pkh(pushes[i])
  /\ t.kind = "deploy" =>
       /\ parse_op_return(deploy_op_return(Chunks)).is = "deploy"
       /\ reconstruct(FinalChunks(plan, tx, pushes), parse_op_return(deploy_op_return(Chunks)).m.count,
                      parse_op_return(deploy_op_return(Chunks)).m.length,
                      parse_op_return(deploy_op_return(Chunks)).m.hash).ok

LEMMA VerifiedCarries ==
  ASSUME NEW n \in Nat, NEW tx, tx.vin = [i \in 1..n |-> tx.vin[i]], NEW plan,
         \A i \in 1..n : plan.inputs[i].kind.carrier /\ plan.inputs[i].kind.index \in Int,
         NEW t, t.kind = "deploy", verify_script_sigs(plan, t, tx)
  PROVE  Carries(cmd, sized, tx)
<1>1. PICK vin : vin = tx.vin
  OBVIOUS
<1>2. vin = [i \in 1..n |-> vin[i]]
  BY <1>1
<1>3. Len(vin) = n /\ DOMAIN vin = 1..n
  BY <1>2, Listed
<1>4. PICK pushes : pushes = [i \in 1..n |-> parse_script_pushes(vin[i].script_sig)]
  OBVIOUS
<1>5. pushes = [i \in 1..n |-> pushes[i]]
  BY <1>4
<1>6. <<>> \o pushes = pushes
  BY <1>5, Listed
<1>7. Map(LAMBDA in : parse_script_pushes(in.script_sig), vin) = pushes
  BY <1>3, <1>4, <1>6 DEF Map
<1>8. PICK f : f = [i \in 1..n |-> [index |-> plan.inputs[i].kind.index, data |-> DataOf(pushes[i])]]
  OBVIOUS
<1>9. f = [i \in 1..n |-> f[i]]
  BY <1>8
<1>10. <<>> \o f = f
  BY <1>9, Listed
<1>11. PICK parsed : parsed = parse_op_return(DeployMessage(cmd, sized.chunks))
  OBVIOUS
<1>12. /\ \A i \in 1..n : IF plan.inputs[i].kind.carrier
                            THEN verify_carrier(pushes[i], plan.inputs[i].kind)
                            ELSE verify_p2pkh(pushes[i])
       /\ parsed.is = "deploy"
       /\ reconstruct(<<>> \o f, parsed.m.count, parsed.m.length, parsed.m.hash).ok
  <2>1. parse_op_return(deploy_op_return(Chunks)) = parsed
    BY <1>11, MessageIs DEF Chunks
  <2>2. FinalChunks(plan, tx, pushes) = <<>> \o f
    BY <1>1, <1>3, <1>8 DEF FinalChunks, Each, DataOf
  <2>3. PICK m : m = Map(LAMBDA in : parse_script_pushes(in.script_sig), tx.vin)
    OBVIOUS
  <2>4. GoodSigs(plan, t, tx, m)
    <3>1. GoodSigs(plan, t, tx, Map(LAMBDA in : parse_script_pushes(in.script_sig), tx.vin))
      BY Zenon DEF verify_script_sigs, GoodSigs, FinalChunks
    <3> QED
      BY <2>3, <3>1
  <2>5. GoodSigs(plan, t, tx, pushes)
    BY <1>1, <1>7, <2>3, <2>4
  <2>6. DOMAIN tx.vin = 1..n
    BY <1>1, <1>3
  <2> QED
    BY <2>1, <2>2, <2>5, <2>6 DEF GoodSigs
<1>13. \A i \in 1..n : verify_carrier(parse_script_pushes(vin[i].script_sig), plan.inputs[i].kind)
  BY <1>4, <1>12
<1>14. PICK inputs : inputs = plan.inputs
  OBVIOUS
<1>15. /\ tx.vin = [i \in 1..n |-> tx.vin[i]]
       /\ \A i \in 1..n : /\ inputs[i].kind.index \in Int
                          /\ verify_carrier(parse_script_pushes(tx.vin[i].script_sig), inputs[i].kind)
  BY <1>1, <1>13, <1>14, Zenon
<1>16. \A i \in 1..n : f[i] = [index |-> inputs[i].kind.index,
                               data |-> DataOf(parse_script_pushes(tx.vin[i].script_sig))]
  BY <1>1, <1>4, <1>8, <1>14
<1>17. CarriersHold(n, tx, inputs, f)
  BY <1>9, <1>15, <1>16 DEF CarriersHold
<1>18. CarriedChunks(tx) = f
  BY <1>17, CarriedAre
<1> QED
  BY <1>10, <1>11, <1>12, <1>18 DEF Carries

SpendsInOrder(vin, inputs) == Map(LAMBDA x : x.prevout, vin) = Map(LAMBDA x : x.outpoint, inputs)

SameCoins(vin, inputs, n) ==
  /\ vin = [i \in 1..n |-> vin[i]]
  /\ Len(inputs) = n
  /\ {vin[i].prevout : i \in DOMAIN vin} = {inputs[i].outpoint : i \in DOMAIN inputs}

\* Inputs that spend, in order, the coins of a plan are as many and spend the same set.
LEMMA SamePrevouts ==
  ASSUME NEW vin, IsList(vin), NEW S, NEW inputs \in Seq(S),
         SpendsInOrder(vin, inputs)
  PROVE  \E n \in Nat : SameCoins(vin, inputs, n)
<1>1. PICK n \in Nat : vin = [i \in 1..n |-> vin[i]]
  BY DEF IsList
<1>2. Len(vin) = n /\ DOMAIN vin = 1..n
  BY <1>1, Listed
<1>3. PICK m \in Nat : m = Len(inputs)
  OBVIOUS
<1>4. DOMAIN inputs = 1..m
  BY <1>3
<1>5. PICK f : f = [i \in 1..n |-> vin[i].prevout]
  OBVIOUS
<1>6. PICK g : g = [i \in 1..m |-> inputs[i].outpoint]
  OBVIOUS
<1>7. Len(f) = n /\ <<>> \o f = f
  <2>1. f = [i \in 1..n |-> f[i]]
    BY <1>5
  <2> QED
    BY <2>1, Listed
<1>8. Len(g) = m /\ <<>> \o g = g
  <2>1. g = [i \in 1..m |-> g[i]]
    BY <1>6
  <2> QED
    BY <2>1, Listed
<1>9. f = g
  <2>1. Map(LAMBDA x : x.prevout, vin) = f
    BY <1>2, <1>5, <1>7 DEF Map
  <2>2. Map(LAMBDA x : x.outpoint, inputs) = g
    BY <1>3, <1>6, <1>8 DEF Map
  <2> QED
    BY <2>1, <2>2 DEF SpendsInOrder
<1>10. m = n
  BY <1>7, <1>8, <1>9
<1>11. \A i \in 1..n : vin[i].prevout = inputs[i].outpoint
  BY <1>5, <1>6, <1>9, <1>10
<1>12. {vin[i].prevout : i \in DOMAIN vin} = {inputs[i].outpoint : i \in DOMAIN inputs}
  BY <1>2, <1>4, <1>10, <1>11
<1> QED
  BY <1>1, <1>3, <1>10, <1>12 DEF SameCoins

\* The message of a DEPLOY names the module, and itself as the first output.
LEMMA OneMessage ==
  ASSUME NEW c, NEW s, NEW m, m = parse_op_return(DeployMessage(c, s.chunks)), m.is = "deploy"
  PROVE  m.m.hash = ModuleOf(c) /\ m.m.index = 0
<1>1. PICK p : p = DeployMessage(c, s.chunks)
  OBVIOUS
<1>2. PICK body : body = p.body
  OBVIOUS
<1>3. p.type = MSG_DEPLOY /\ body.hash = ModuleOf(c) /\ body.index = 0
  BY <1>1, <1>2 DEF DeployMessage, encode_deploy, Payload, U16
<1>4. m \in {Malformed, Message("deploy", body)}
  <2>1. m \notin {Skip, Malformed}
    BY DEF Skip, Malformed
  <2>2. m = parse_deploy(p.body, p.size - HEADER)
    BY <1>1, <1>3, <2>1, ParseCases DEF MSG_DEPLOY, MSG_CALL, MSG_CALL_CARRIER
  <2> QED
    BY <1>2, <2>2 DEF parse_deploy
<1>5. m = Message("deploy", body)
  BY <1>4 DEF Malformed
<1> QED
  BY <1>3, <1>5 DEF Message

LEMMA MessageRead ==
  ASSUME NEW p, p.size \in 1..75, NEW v
  PROVE  MessageIn(Pay(v, op_return_script(p))) = parse_op_return(p)
<1>1. PICK r : r = extract_op_return_data(op_return_script(p))
  OBVIOUS
<1>2. r.ok /\ r.data = <<MessageSpan(p)>>
  BY <1>1, OpReturnReadBack
<1>3. r.data # <<>> /\ Head(r.data) = MessageSpan(p)
  <2>1. PICK x : x = MessageSpan(p)
    OBVIOUS
  <2>2. <<x>> # <<>> /\ Head(<<x>>) = x
    OBVIOUS
  <2> QED
    BY <1>2, <2>1, <2>2
<1>4. MessageSpan(p).src[1] = "message" /\ MessageSpan(p).src[2] = p
  BY DEF MessageSpan
<1>5. Pay(v, op_return_script(p)).script = op_return_script(p)
  BY DEF Pay
<1> QED
  BY <1>1, <1>2, <1>3, <1>4, <1>5, Zenon DEF MessageIn

LEMMA TwoOutputs ==
  ASSUME NEW p, NEW change \in Nat, change > 0
  PROVE  /\ DeployOutputs(p, change)
              = <<Pay(0, op_return_script(p)), Pay(change, p2pkh_script_pubkey)>>
<1>1. PICK a, b : a = Pay(0, op_return_script(p)) /\ b = Pay(change, p2pkh_script_pubkey)
  OBVIOUS
<1>2. <<a>> \o <<b>> = <<a, b>>
  BY Puts
<1> QED
  BY <1>1, <1>2, Zenon DEF DeployOutputs

\* What the indexer registers for transaction tx of a block, command c being ours.
Registration(c, txid, m, wasm) ==
  [id |-> [net |-> c.net, txid |-> txid, index |-> m.index, hash |-> m.hash], code |-> wasm]

Rebuilt(tx, m) == reconstruct(CarriedChunks(tx), m.count, m.length, m.hash)

HandledFor(c, txid, tx, i, m) ==
  IF m.is = "deploy" /\ m.m.index = i - 1 /\ Rebuilt(tx, m.m).ok
    THEN {Registration(c, txid, m.m, Rebuilt(tx, m.m).wasm)} ELSE {}

IndexedTx(c, txid, tx) ==
  UNION {HandledFor(c, txid, tx, i, MessageIn(tx.vout[i])) : i \in DOMAIN tx.vout}

LEMMA IndexedIs ==
  ASSUME NEW t
  PROVE  IndexedFrom(t) = IndexedTx(cmd, Txid(t), InBlock(t))
<1>1. PICK tx, txid : tx = InBlock(t) /\ txid = Txid(t)
  OBVIOUS
<1> DEFINE H(i, m) == IF m.is = "deploy" /\ m.m.index = i - 1 THEN handle_deploy(txid, tx, m.m) ELSE {}
<1>2. IndexedFrom(t) = UNION {H(i, MessageIn(tx.vout[i])) : i \in DOMAIN tx.vout}
  BY <1>1 DEF IndexedFrom
<1>3. \A i, m : H(i, m) = HandledFor(cmd, txid, tx, i, m)
  BY Zenon DEF HandledFor, handle_deploy, Rebuilt, Registration, ContractId
<1> HIDE DEF H
<1> QED
  BY <1>1, <1>2, <1>3 DEF IndexedTx

\* The outputs of a DEPLOY hold one message, and that one is for the module.
LEMMA DeployIndexed ==
  ASSUME NEW c, NEW s, SizedRight(c, s), NEW pool, NEW coin, NEW txid, NEW tx,
         tx.vout = PlanFor(c, s, "deploy", pool, coin).outputs,
         NEW m, m = parse_op_return(DeployMessage(c, s.chunks)), m.is = "deploy"
  PROVE  /\ m.m.hash = ModuleOf(c) /\ m.m.index = 0
         /\ ~Rebuilt(tx, m.m).ok => IndexedTx(c, txid, tx) = {}
         /\ Rebuilt(tx, m.m).ok => IndexedTx(c, txid, tx) = {Registration(c, txid, m.m, ModuleOf(c))}
<1>2. PICK n \in Nat, each \in Nat, fee \in Nat, change \in Nat :
        DeployPlanned(c, s, pool, coin, n, each, fee, change)
  BY DeployIsPlanned
<1>3. PICK p : p = DeployMessage(c, s.chunks)
  OBVIOUS
<1>4. change > 0
  BY <1>2 DEF DeployPlanned, CARRIER_MARGIN
<1>5. PICK a, b : a = Pay(0, op_return_script(p)) /\ b = Pay(change, p2pkh_script_pubkey)
  OBVIOUS
<1>6. tx.vout = <<a, b>>
  <2>1. PlanFor(c, s, "deploy", pool, coin).outputs = DeployOutputs(p, change)
    BY <1>2, <1>3, Prepared DEF DeployPlanned
  <2> QED
    BY <1>4, <1>5, <2>1, TwoOutputs
<1>7. DOMAIN tx.vout = {1, 2} /\ tx.vout[1] = a /\ tx.vout[2] = b
  BY <1>6
<1>8. p.size \in 1..75
  BY <1>3 DEF DeployMessage, encode_deploy, Payload, HEADER, DEPLOY_BODY
<1>10. MessageIn(a) = m /\ MessageIn(b) = Skip
  BY <1>3, <1>5, <1>8, MessageRead, ChangeIsSkipped
<1>12. m.m.hash = ModuleOf(c) /\ m.m.index = 0
  BY OneMessage
<1>13. PICK H : H = HandledFor(c, txid, tx, 1, m)
  OBVIOUS
<1>15. HandledFor(c, txid, tx, 2, Skip) = {}
  <2>1. Skip.is # "deploy"
    BY DEF Skip
  <2> QED
    BY <2>1, Zenon DEF HandledFor
<1>17. IndexedTx(c, txid, tx) = H
  <2>1. {HandledFor(c, txid, tx, i, MessageIn(tx.vout[i])) : i \in DOMAIN tx.vout} = {H, {}}
    BY <1>7, <1>10, <1>13, <1>15
  <2> QED
    BY <2>1 DEF IndexedTx
<1>18. 1 - 1 = 0
  OBVIOUS
<1>19. ~Rebuilt(tx, m.m).ok => H = {}
  BY <1>13, Zenon DEF HandledFor
<1>20. Rebuilt(tx, m.m).ok => H = {Registration(c, txid, m.m, Rebuilt(tx, m.m).wasm)}
  BY <1>12, <1>13, <1>18, Zenon DEF HandledFor
<1>21. Rebuilt(tx, m.m).ok => Rebuilt(tx, m.m).wasm = ModuleOf(c)
  BY <1>12, ReconstructedIsCommitted DEF Rebuilt
<1> QED
  BY <1>12, <1>17, <1>19, <1>20, <1>21

\* A DEPLOY whose scriptSigs carry its module is indexed with that module, once.
LEMMA CarriedIsIndexed ==
  ASSUME NEW c, NEW s, c = cmd, s = sized, SizedRight(c, s),
         NEW t, t.kind = "deploy", t.relay = "none", NEW tx, tx = Built(t),
         tx.vout = PlanFor(c, s, "deploy", t.pool, t.coin).outputs, Carries(c, s, tx)
  PROVE  {x.code : x \in IndexedFrom(t)} = {Wasm}
<1>1. PICK pool, coin, txid : pool = t.pool /\ coin = t.coin /\ txid = Txid(t)
  OBVIOUS
<1>2. PICK m : m = parse_op_return(DeployMessage(c, s.chunks))
  OBVIOUS
<1>3. m.is = "deploy" /\ Rebuilt(tx, m.m).ok
  BY <1>2 DEF Carries, Rebuilt
<1>4. IndexedTx(c, txid, tx) = {Registration(c, txid, m.m, ModuleOf(c))}
  BY <1>1, <1>2, <1>3, DeployIndexed
<1>5. InBlock(t) = tx
  BY Zenon DEF InBlock, Altered
<1>6. IndexedFrom(t) = {Registration(c, txid, m.m, ModuleOf(c))}
  BY <1>1, <1>4, <1>5, IndexedIs
<1>7. Registration(c, txid, m.m, ModuleOf(c)).code = Wasm
  BY DEF Registration, ModuleOf, Wasm
<1> QED
  BY <1>6, <1>7

(***************************************************************************)
(* What passes verify_extracted, and reaches the node.                     *)
(***************************************************************************)
BuiltFor(c, s, kind, pool, coin, alter) ==
  Altered(alter, build_transparent_tx(PlanFor(c, s, kind, pool, coin), c.sig))

LEMMA BuiltIs ==
  ASSUME NEW t
  PROVE  Built(t) = BuiltFor(cmd, sized, t.kind, t.pool, t.coin, t.alter)
BY PlanIs DEF Built, BuiltFor

\* tx spends the coins, pays the outputs and costs the fee of its plan.
Faithful(plan, tx, spends) ==
  /\ {tx.vin[i].prevout : i \in DOMAIN tx.vin} = spends
  /\ tx.vout = plan.outputs
  /\ plan.inputs # <<>> => TotalValue(plan.inputs) = plan.fee + TotalValue(tx.vout)

\* What verify_extracted compares.
SameTx(plan, tx, t) ==
  /\ tx.version = 5
  /\ tx.expiry = 0
  /\ Map(LAMBDA in : in.prevout, tx.vin) = Map(LAMBDA in : in.outpoint, plan.inputs)
  /\ tx.vout = plan.outputs
  /\ verify_script_sigs(plan, t, tx)
  /\ t.pool = "transparent" \/ t.kind = "deploy" => TotalValue(plan.inputs) - TotalValue(tx.vout) = plan.fee

LEMMA VerifiedIs ==
  ASSUME NEW t, verify_extracted(t)
  PROVE  SameTx(PlanOf(t), Built(t), t)
BY Zenon DEF verify_extracted, SameTx

LEMMA NoInputs ==
  ASSUME NEW plan, SoundPlan(plan, {})
  PROVE  plan.inputs = <<>>
<1>1. PICK S : plan.inputs \in Seq(S)
  BY DEF SoundPlan
<1>2. PICK inputs \in Seq(S) : inputs = plan.inputs
  BY <1>1
<1>3. {inputs[i].outpoint : i \in DOMAIN inputs} = {}
  BY <1>2 DEF SoundPlan
<1>4. DOMAIN inputs = {}
  BY <1>3
<1>5. Len(inputs) = 0
  BY <1>4
<1> QED
  BY <1>2, <1>5

LEMMA SomeInputs ==
  ASSUME NEW plan, NEW spends, spends # {}, SoundPlan(plan, spends)
  PROVE  \E S : plan.inputs \in Seq(S) /\ Len(plan.inputs) \in Nat \ {0}
<1>1. PICK S : plan.inputs \in Seq(S)
  BY DEF SoundPlan
<1>2. PICK inputs \in Seq(S) : inputs = plan.inputs
  BY <1>1
<1>3. {inputs[i].outpoint : i \in DOMAIN inputs} # {}
  BY <1>2 DEF SoundPlan
<1>4. DOMAIN inputs # {}
  BY <1>3
<1>5. Len(inputs) # 0 /\ Len(inputs) \in Nat
  BY <1>4
<1> QED
  BY <1>1, <1>2, <1>5

\* The inputs of a built transaction are a list, whatever was altered.
LEMMA BuiltIsList ==
  ASSUME NEW plan, NEW spends, SoundPlan(plan, spends), NEW sig, NEW a \in AnyAlteration,
         spends = {} => a = "none"
  PROVE  IsList(Altered(a, build_transparent_tx(plan, sig)).vin)
<1>1. PICK S : plan.inputs \in Seq(S)
  BY DEF SoundPlan
<1>2. PICK inputs \in Seq(S) : inputs = plan.inputs
  BY <1>1
<1>3. PICK n \in Nat : n = Len(inputs)
  OBVIOUS
<1> DEFINE Signed(x) == [prevout |-> x.outpoint,
                    script_sig |->
                      IF x.kind.carrier
                        THEN carrier_script_sig(x.kind.index, x.kind.data,
                                                Signature(sig), redeem_script)
                        ELSE p2pkh_script_sig(Signature(sig), PubKey)]
<1>4. PICK vin : vin = [i \in 1..n |-> Signed(inputs[i])]
  OBVIOUS
<1>5. vin = [i \in 1..n |-> vin[i]]
  BY <1>4
<1>6. <<>> \o vin = vin
  BY <1>5, Listed
<1>7. PICK outs : outs = plan.outputs
  OBVIOUS
<1>8. PICK tx : tx = [version |-> 5, expiry |-> 0, vin |-> vin, vout |-> outs]
  OBVIOUS
<1>9. build_transparent_tx(plan, sig) = tx
  <2>1. Map(Signed, inputs) = vin
    <3>1. <<>> \o [i \in 1..Len(inputs) |-> Signed(inputs[i])] = vin
      BY <1>3, <1>4, <1>6
    <3> HIDE DEF Signed
    <3> QED
      BY <3>1 DEF Map
  <2>2. build_transparent_tx(plan, sig)
          = [version |-> 5, expiry |-> 0, vin |-> Map(Signed, plan.inputs), vout |-> plan.outputs]
    BY Zenon DEF build_transparent_tx
  <2> QED
    BY <1>2, <1>7, <1>8, <2>1, <2>2
<1>10. CASE spends = {}
  <2>1. a = "none"
    BY <1>10
  <2>2. Altered(a, tx) = tx
    BY <2>1, Zenon DEF Altered
  <2>3. Altered(a, tx).vin = vin
    BY <1>8, <2>2
  <2>4. IsList(vin)
    BY <1>5 DEF IsList
  <2> QED
    BY <1>9, <2>3, <2>4
<1>11. CASE spends # {}
  <2>1. n \in Nat \ {0}
    BY <1>2, <1>3, <1>11, SomeInputs
  <2>2. IsList(Altered(a, tx).vin)
    BY <1>5, <1>8, <2>1, AlteredIsList
  <2> QED
    BY <1>9, <2>2
<1> QED
  BY <1>10, <1>11

\* What passes the comparison with a sound plan is faithful to it.
LEMMA SameIsFaithful ==
  ASSUME NEW plan, NEW spends, SoundPlan(plan, spends), NEW tx, IsList(tx.vin), NEW t,
         SameTx(plan, tx, t), spends # {} => t.pool = "transparent" \/ t.kind = "deploy"
  PROVE  /\ Faithful(plan, tx, spends)
         /\ \E n \in Nat : tx.vin = [i \in 1..n |-> tx.vin[i]] /\ Len(plan.inputs) = n
<1>1. PICK S : Valued(S) /\ plan.inputs \in Seq(S)
  BY DEF SoundPlan
<1>2. PICK T : Valued(T) /\ plan.outputs \in Seq(T)
  BY DEF SoundPlan
<1>3. PICK inputs \in Seq(S) : inputs = plan.inputs
  BY <1>1
<1>4. PICK outs \in Seq(T) : outs = plan.outputs
  BY <1>2
<1>5. PICK vin : vin = tx.vin
  OBVIOUS
<1>6. IsList(vin) /\ SpendsInOrder(vin, inputs)
  BY <1>3, <1>5 DEF SameTx, SpendsInOrder
<1>7. PICK n \in Nat : SameCoins(vin, inputs, n)
  BY <1>6, SamePrevouts
<1>8. {tx.vin[i].prevout : i \in DOMAIN tx.vin} = spends
  <2>1. {inputs[i].outpoint : i \in DOMAIN inputs} = spends
    BY <1>3, Zenon DEF SoundPlan
  <2> QED
    BY <1>5, <1>7, <2>1, Zenon DEF SameCoins
<1>9. tx.vout = outs
  BY <1>4 DEF SameTx
<1>10. plan.inputs # <<>> => TotalValue(plan.inputs) = plan.fee + TotalValue(tx.vout)
  <2> SUFFICES ASSUME plan.inputs # <<>> PROVE TotalValue(plan.inputs) = plan.fee + TotalValue(tx.vout)
    OBVIOUS
  <2>1. spends # {}
    BY NoInputs
  <2>2. PICK x, y : x = TotalValue(inputs) /\ y = TotalValue(outs)
    OBVIOUS
  <2>3. x \in Int /\ y \in Int
    BY <1>1, <1>2, <2>2, ValueInt
  <2>4. x - y = plan.fee
    <3>1. TotalValue(plan.inputs) - TotalValue(tx.vout) = plan.fee
      BY <2>1, Zenon DEF SameTx
    <3> QED
      BY <1>3, <1>9, <2>2, <3>1
  <2>5. x = plan.fee + y
    BY <2>3, <2>4
  <2> QED
    BY <1>3, <1>9, <2>2, <2>5
<1> QED
  BY <1>4, <1>5, <1>3, <1>7, <1>8, <1>9, <1>10 DEF Faithful, SameCoins

\* A transaction that is ready to be published.
GoodFor(c, s, kind, pool, coin, alter) ==
  /\ Faithful(PlanFor(c, s, kind, pool, coin), BuiltFor(c, s, kind, pool, coin, alter),
              SpendsFor(s, kind, pool, coin))
  /\ kind = "deploy" => Carries(c, s, BuiltFor(c, s, kind, pool, coin, alter))

LEMMA VerifiedGood ==
  ASSUME DeployBase, job.pc = "extract", verify_extracted(Here)
  PROVE  GoodFor(cmd, sized, job.req, job.pool, job.coin, job.alter)
<1>1. PICK c, s, j : c = cmd /\ s = sized /\ j = job
  OBVIOUS
<1>2. PICK kind, pool, coin, alter :
        kind = j.req /\ pool = j.pool /\ coin = j.coin /\ alter = j.alter
  OBVIOUS
<1>3. /\ kind \in {"prepare", "deploy", "call"}
      /\ pool \in Pools
      /\ kind \in {"prepare", "deploy"} => SizedRight(c, s)
      /\ PlanFor(c, s, kind, pool, coin).ok
      /\ alter \in AnyAlteration
      /\ pool = "shielded" /\ kind # "deploy" => alter = "none"
  BY <1>1, <1>2 DEF DeployBase, BaseFor, Sourced, Planning
<1>4. c.len \in Nat /\ c.funds \in Nat
  BY <1>1, CommandLength DEF DeployBase
<1>5. PICK plan, spends, tx :
        /\ plan = PlanFor(c, s, kind, pool, coin)
        /\ spends = SpendsFor(s, kind, pool, coin)
        /\ tx = BuiltFor(c, s, kind, pool, coin, alter)
  OBVIOUS
<1>6. SoundPlan(plan, spends)
  BY <1>3, <1>4, <1>5, PlanSound
<1>7. spends # {} => pool = "transparent" \/ kind = "deploy"
  BY <1>5 DEF SpendsFor
<1>8. spends = {} => alter = "none"
  <2>1. CASE kind = "deploy"
    <3>1. PICK n \in Nat, each \in Nat, fee \in Nat, change \in Nat :
            DeployPlanned(c, s, pool, coin, n, each, fee, change)
      BY <1>3, <2>1, DeployIsPlanned
    <3>2. PICK f : f = Outpoints(s, pool, coin)
      OBVIOUS
    <3>3. f = [i \in 1..n |-> <<"prepare", pool, coin, i - 1>>] /\ 1 \in 1..n
      BY <3>1, <3>2 DEF DeployPlanned, Chunked
    <3>4. f[1] \in Range(f)
      BY <3>3 DEF Range
    <3>5. spends = Range(f)
      BY <1>5, <2>1, <3>2 DEF SpendsFor
    <3> QED
      BY <3>4, <3>5
  <2>2. CASE kind # "deploy" /\ pool = "transparent"
    BY <1>5, <2>2 DEF SpendsFor
  <2>3. CASE kind # "deploy" /\ pool # "transparent"
    BY <1>3, <2>3 DEF Pools
  <2> QED
    BY <2>1, <2>2, <2>3
<1>9. IsList(tx.vin)
  <2>1. PICK sig : sig = c.sig
    OBVIOUS
  <2>2. IsList(Altered(alter, build_transparent_tx(plan, sig)).vin)
    BY <1>3, <1>6, <1>8, BuiltIsList
  <2> QED
    BY <1>5, <2>1, <2>2 DEF BuiltFor
<1>10. PICK t : t = Here
  OBVIOUS
<1>11. t.kind = kind /\ t.pool = pool /\ t.coin = coin /\ t.alter = alter
  BY <1>1, <1>2, <1>10 DEF Here
<1>12. PlanOf(t) = plan /\ Built(t) = tx
  BY <1>1, <1>5, <1>11, PlanIs, BuiltIs
<1>13. SameTx(plan, tx, t)
  BY <1>10, <1>12, VerifiedIs
<1>14. /\ Faithful(plan, tx, spends)
       /\ \E n \in Nat : tx.vin = [i \in 1..n |-> tx.vin[i]] /\ Len(plan.inputs) = n
  BY <1>6, <1>7, <1>9, <1>11, <1>13, SameIsFaithful
<1>15. ASSUME kind = "deploy" PROVE Carries(c, s, tx)
  <2>1. PICK n \in Nat : tx.vin = [i \in 1..n |-> tx.vin[i]] /\ Len(plan.inputs) = n
    BY <1>14
  <2>2. PICK m \in Nat, each \in Nat, fee \in Nat, change \in Nat :
          DeployPlanned(c, s, pool, coin, m, each, fee, change)
    BY <1>3, <1>15, DeployIsPlanned
  <2>3. PICK f : f = [i \in 1..m |-> Coin(<<"prepare", pool, coin, i - 1>>, each,
                                          CarrierSpend(i - 1, s.chunks[i]))]
    OBVIOUS
  <2>4. plan.inputs = f
    BY <1>5, <1>15, <2>2, <2>3, Prepared DEF DeployPlanned
  <2>5. m = n
    <3>1. f = [i \in 1..m |-> f[i]]
      BY <2>3
    <3>2. Len(f) = m
      BY <3>1, Listed
    <3> QED
      BY <2>1, <2>4, <3>2
  <2>6. \A i \in 1..n : plan.inputs[i].kind.carrier /\ plan.inputs[i].kind.index \in Int
    <3> SUFFICES ASSUME NEW i \in 1..n
                 PROVE  plan.inputs[i].kind.carrier /\ plan.inputs[i].kind.index \in Int
      OBVIOUS
    <3>1. PICK k : k = CarrierSpend(i - 1, s.chunks[i])
      OBVIOUS
    <3>2. k.carrier /\ k.index = (i - 1) % U8
      BY <3>1 DEF CarrierSpend
    <3>3. (i - 1) % U8 \in Int
      BY DEF U8
    <3>4. f[i].kind = k
      BY <2>3, <2>5, <3>1 DEF Coin
    <3> QED
      BY <2>4, <3>2, <3>3, <3>4
  <2>7. verify_script_sigs(plan, t, tx)
    BY <1>13 DEF SameTx
  <2> QED
    BY <1>1, <1>11, <1>15, <2>1, <2>6, <2>7, VerifiedCarries
<1> QED
  BY <1>1, <1>2, <1>5, <1>14, <1>15 DEF GoodFor

Sending == {"broadcast", "confirm_tx"}

\* What the command has handed to the network, or is about to, was verified.
VerifiedFor(c, s, j) == j.pc \in Sending => GoodFor(c, s, j.req, j.pool, j.coin, j.alter)
SendsVerified == VerifiedFor(cmd, sized, job)

\* The steps after which the command is sending.
LEMMA SendingSteps ==
  ASSUME DeployBase, DeployNext, job'.pc \in Sending
  PROVE  /\ cmd' = cmd /\ sized' = sized
         /\ \/ job' = job
            \/ job.pc = "extract" /\ verify_extracted(Here) /\ job' = [job EXCEPT !.pc = "broadcast"]
            \/ job.pc = "broadcast" /\ job' = [job EXCEPT !.pc = "confirm_tx"]
<1> USE DEF Sending
<1>1. Shape(job)
  BY DEF DeployBase, BaseFor
<1>2. \A pc : Goto(pc) => job'.pc = pc
  BY <1>1 DEF Goto, Shape
<1>3. \A pc : Over(pc) => job'.pc = pc
  BY DEF Over, Start
<1>4. ~Failed /\ ~Over("ended")
  BY <1>3 DEF Failed
<1>5. CASE size_request
  <2>1. job'.pc = "source"
    BY <1>1, <1>4, <1>5 DEF size_request, Shape
  <2> QED
    BY <2>1
<1>6. CASE build_source
  <2>1. job'.pc = "plan"
    BY <1>1, <1>2, <1>4, <1>6 DEF build_source, obtain_funding, make_shielded, Shape
  <2> QED
    BY <2>1
<1>7. CASE make_plan
  <2>1. job'.pc = "confirm"
    BY <1>1, <1>4, <1>7 DEF make_plan, Shape
  <2> QED
    BY <2>1
<1>8. CASE confirm
  BY <1>2, <1>4, <1>8 DEF confirm
<1>9. CASE prove
  BY <1>2, <1>4, <1>9 DEF prove
<1>10. CASE sign
  <2>1. job'.pc = "extract"
    BY <1>1, <1>4, <1>10 DEF sign, Shape
  <2> QED
    BY <2>1
<1>11. CASE extract_verified
  BY <1>4, <1>11 DEF extract_verified, Goto, At
<1>12. CASE broadcast_verified
  BY <1>4, <1>12 DEF broadcast_verified, Goto, At
<1>13. CASE confirm_tx
  <2>1. NextStage /\ job.pc = "confirm_tx"
    BY <1>4, <1>13 DEF confirm_tx, At
  <2>2. job.req \in {"prepare", "deploy", "call"}
    BY <2>1 DEF DeployBase, BaseFor
  <2>3. job'.pc \in {"source", "print"}
    BY <1>1, <1>2, <1>4, <2>1, <2>2 DEF NextStage, Shape
  <2> QED
    BY <2>3
<1>14. CASE print_contract_id
  BY <1>2, <1>14 DEF print_contract_id
<1>15. CASE wait_for_contract
  BY <1>4, <1>15 DEF wait_for_contract
<1>16. CASE run_again
  BY <1>16 DEF run_again, Start
<1>17. CASE disarm_session \/ new_block \/ chain_reorg
  BY <1>17 DEF disarm_session, new_block, chain_reorg
<1> QED
  BY <1>5, <1>6, <1>7, <1>8, <1>9, <1>10, <1>11, <1>12, <1>13, <1>14, <1>15, <1>16, <1>17
     DEF DeployNext

LEMMA VerifiedStep ==
  DeployBase /\ SendsVerified /\ [DeployNext]_deployVars => SendsVerified'
<1> SUFFICES ASSUME DeployBase, SendsVerified, [DeployNext]_deployVars, job'.pc \in Sending
             PROVE  GoodFor(cmd', sized', job'.req, job'.pool, job'.coin, job'.alter)
  BY DEF SendsVerified, VerifiedFor
<1>1. PICK c, s, j, k : c = cmd /\ s = sized /\ j = job /\ k = job'
  OBVIOUS
<1>2. Shape(j)
  BY <1>1 DEF DeployBase, BaseFor
<1>3. CASE UNCHANGED deployVars
  BY <1>3 DEF deployVars, SendsVerified, VerifiedFor
<1>4. CASE DeployNext
  <2>1. /\ cmd' = c /\ sized' = s
        /\ \/ k = j
           \/ j.pc = "extract" /\ verify_extracted(Here) /\ k = [j EXCEPT !.pc = "broadcast"]
           \/ j.pc = "broadcast" /\ k = [j EXCEPT !.pc = "confirm_tx"]
    BY <1>1, <1>4, SendingSteps
  <2>2. GoodFor(c, s, j.req, j.pool, j.coin, j.alter)
    <3>1. CASE j.pc = "extract" /\ verify_extracted(Here)
      BY <1>1, <3>1, VerifiedGood
    <3>2. CASE j.pc \in Sending
      BY <1>1, <3>2 DEF SendsVerified, VerifiedFor
    <3> QED
      BY <1>1, <2>1, <3>1, <3>2 DEF Sending
  <2>3. k.req = j.req /\ k.pool = j.pool /\ k.coin = j.coin /\ k.alter = j.alter
    BY <1>2, <2>1, Moved
  <2> QED
    BY <1>1, <2>1, <2>2, <2>3
<1> QED
  BY <1>3, <1>4

LEMMA PublishesPlanned == DeployBase /\ SendsVerified => PublishedIsPlanned
<1> SUFFICES ASSUME DeployBase, SendsVerified, job.pc = "confirm_tx",
                    NEW t \in {Here} \cap pending, NEW plan \in {PlanOf(t)}, NEW tx \in {Built(t)}
             PROVE  /\ {tx.vin[i].prevout : i \in DOMAIN tx.vin} = Spends(t)
                    /\ tx.vout = plan.outputs
                    /\ plan.inputs # <<>> => TotalValue(plan.inputs) = plan.fee + TotalValue(tx.vout)
                    /\ t.kind = "deploy" => {x.code : x \in IndexedFrom(t)} = {Wasm}
  BY DEF PublishedIsPlanned, At
<1>1. PICK c, s, j : c = cmd /\ s = sized /\ j = job
  OBVIOUS
<1>2. PICK kind, pool, coin, alter :
        kind = j.req /\ pool = j.pool /\ coin = j.coin /\ alter = j.alter
  OBVIOUS
<1>3. t.kind = kind /\ t.pool = pool /\ t.coin = coin /\ t.alter = alter /\ t.relay = "none"
  BY <1>1, <1>2 DEF Here
<1>4. plan = PlanFor(c, s, kind, pool, coin) /\ tx = BuiltFor(c, s, kind, pool, coin, alter)
  BY <1>1, <1>3, PlanIs, BuiltIs
<1>5. Spends(t) = SpendsFor(s, kind, pool, coin)
  BY <1>1, <1>3, SpendsIs
<1>6. GoodFor(c, s, kind, pool, coin, alter)
  BY <1>1, <1>2 DEF SendsVerified, VerifiedFor, Sending
<1>7. Faithful(plan, tx, Spends(t)) /\ (kind = "deploy" => Carries(c, s, tx))
  BY <1>4, <1>5, <1>6 DEF GoodFor
<1>8. ASSUME t.kind = "deploy" PROVE {x.code : x \in IndexedFrom(t)} = {Wasm}
  <2>1. SizedRight(c, s)
    BY <1>1, <1>2, <1>3, <1>8 DEF DeployBase, BaseFor
  <2>2. tx.vout = PlanFor(c, s, "deploy", t.pool, t.coin).outputs
    BY <1>3, <1>4, <1>7, <1>8 DEF Faithful
  <2>3. Carries(c, s, tx) /\ tx = Built(t)
    BY <1>3, <1>7, <1>8
  <2> QED
    BY <1>1, <1>3, <1>8, <2>1, <2>2, <2>3, CarriedIsIndexed
<1> QED
  BY <1>7, <1>8 DEF Faithful

\* What the node receives spends the planned coins, pays the planned outputs at
\* the planned fee, and carries the module the indexer will read back, whatever
\* was built after planning (TransparentPlan::verify_extracted, plan.rs:633).
THEOREM DeployPublishedIsPlanned == DeploySpec => []PublishedIsPlanned
<1>1. DeployInit => SendsVerified
  BY DEF DeployInit, Start, SendsVerified, VerifiedFor, Sending
<1>2. DeployBase /\ SendsVerified /\ [DeployNext]_deployVars => SendsVerified'
  BY VerifiedStep
<1>3. DeployBase /\ SendsVerified => PublishedIsPlanned
  BY PublishesPlanned
<1> QED
  BY <1>1, <1>2, <1>3, DeployPlansKept, PTL DEF DeploySpec

(***************************************************************************)
(* What a block may hold in place of what was sent: the outputs stay.      *)
(***************************************************************************)
IsTx(tx) == tx = [version |-> tx.version, expiry |-> tx.expiry, vin |-> tx.vin, vout |-> tx.vout]

LEMMA SigAltered ==
  ASSUME NEW a \in SigAlteration, NEW tx
  PROVE  \E w : Altered(a, tx) = [tx EXCEPT !.vin = w]
<1>1. CASE a = "swap_sigs"
  BY <1>1, Zenon DEF Altered
<1>2. CASE a # "swap_sigs"
  <2>1. /\ a # "none" /\ a # "version" /\ a # "expiry" /\ a # "drop_input" /\ a # "prevout"
        /\ a # "swap_inputs" /\ a # "value" /\ a # "script" /\ a # "drop_output"
        /\ a # "extra_output" /\ a # "swap_outputs" /\ a # "swap_sigs"
    BY <1>2 DEF SigAlteration
  <2> QED
    BY <2>1, Zenon DEF Altered
<1> QED
  BY <1>1, <1>2

LEMMA AlteredIsTx ==
  ASSUME NEW a \in AnyAlteration, NEW tx, IsTx(tx)
  PROVE  IsTx(Altered(a, tx))
<1>1. CASE a = "none"
  BY <1>1, Zenon DEF Altered
<1>2. CASE a = "version"
  <2>1. PICK y : y = [tx EXCEPT !.version = 4]
    OBVIOUS
  <2>2. Altered(a, tx) = y
    BY <1>2, <2>1, Zenon DEF Altered
  <2>3. IsTx(y)
    BY <2>1 DEF IsTx
  <2> QED
    BY <2>2, <2>3
<1>3. CASE a = "expiry"
  <2>1. PICK y : y = [tx EXCEPT !.expiry = 1]
    OBVIOUS
  <2>2. Altered(a, tx) = y
    BY <1>3, <2>1, Zenon DEF Altered
  <2>3. IsTx(y)
    BY <2>1 DEF IsTx
  <2> QED
    BY <2>2, <2>3
<1>4. CASE a \in {"value", "script", "drop_output", "extra_output", "swap_outputs"}
  <2>1. \E w : Altered(a, tx) = [tx EXCEPT !.vout = w]
    <3>1. CASE a = "value"
      BY <3>1, Zenon DEF Altered
    <3>2. CASE a = "script"
      BY <3>2, Zenon DEF Altered
    <3>3. CASE a = "drop_output"
      BY <3>3, Zenon DEF Altered
    <3>4. CASE a = "extra_output"
      BY <3>4, Zenon DEF Altered
    <3>5. CASE a = "swap_outputs"
      BY <3>5, Zenon DEF Altered
    <3> QED
      BY <1>4, <3>1, <3>2, <3>3, <3>4, <3>5
  <2>2. PICK w, y : y = [tx EXCEPT !.vout = w] /\ Altered(a, tx) = y
    BY <2>1
  <2>3. IsTx(y)
    BY <2>2 DEF IsTx
  <2> QED
    BY <2>2, <2>3
<1>5. CASE a \in {"drop_input", "prevout", "swap_inputs"} \cup SigAlteration
  <2>1. \E w : Altered(a, tx) = [tx EXCEPT !.vin = w]
    <3>1. CASE a = "drop_input"
      BY <3>1, Zenon DEF Altered
    <3>2. CASE a = "prevout"
      BY <3>2, Zenon DEF Altered
    <3>3. CASE a = "swap_inputs"
      BY <3>3, Zenon DEF Altered
    <3> QED
      BY <1>5, <3>1, <3>2, <3>3, SigAltered
  <2>2. PICK w, y : y = [tx EXCEPT !.vin = w] /\ Altered(a, tx) = y
    BY <2>1
  <2>3. IsTx(y)
    BY <2>2 DEF IsTx
  <2> QED
    BY <2>2, <2>3
<1> QED
  BY <1>1, <1>2, <1>3, <1>4, <1>5 DEF AnyAlteration, EffectAlteration

\* Other scriptSigs leave the outputs alone.
LEMMA RelayKeepsOutputs ==
  ASSUME NEW a \in {"none"} \cup SigAlteration, NEW tx, IsTx(tx)
  PROVE  Altered(a, tx).vout = tx.vout
<1>1. CASE a = "none"
  BY <1>1, Zenon DEF Altered
<1>2. CASE a \in SigAlteration
  <2>1. PICK w : Altered(a, tx) = [tx EXCEPT !.vin = w]
    BY <1>2, SigAltered
  <2> QED
    BY <2>1 DEF IsTx
<1> QED
  BY <1>1, <1>2

LEMMA BuiltIsTx ==
  ASSUME NEW c, NEW s, NEW kind, NEW pool, NEW coin, NEW alter \in AnyAlteration
  PROVE  IsTx(BuiltFor(c, s, kind, pool, coin, alter))
<1>1. PICK plan, sig : plan = PlanFor(c, s, kind, pool, coin) /\ sig = c.sig
  OBVIOUS
<1>2. PICK tx : tx = build_transparent_tx(plan, sig)
  OBVIOUS
<1>3. \E vin, vout : tx = [version |-> 5, expiry |-> 0, vin |-> vin, vout |-> vout]
  BY <1>2, Zenon DEF build_transparent_tx
<1>4. IsTx(tx)
  BY <1>3 DEF IsTx
<1>5. IsTx(Altered(alter, tx))
  BY <1>4, AlteredIsTx
<1> QED
  BY <1>1, <1>2, <1>5 DEF BuiltFor

(***************************************************************************)
(* The transactions the node holds, what the indexer makes of them and the *)
(* ids the CLI prints.                                                     *)
(***************************************************************************)
MinedTx(c, s, t) == Altered(t.relay, BuiltFor(c, s, t.kind, t.pool, t.coin, t.alter))

IndexedFor(c, s, t) == IndexedTx(c, Txid(t), MinedTx(c, s, t))

LEMMA IndexedForIs ==
  ASSUME NEW t
  PROVE  IndexedFrom(t) = IndexedFor(cmd, sized, t)
BY IndexedIs, BuiltIs DEF IndexedFor, MinedTx, InBlock

\* t was verified before it was sent.
Sent(c, s, t) ==
  /\ t = [kind |-> t.kind, pool |-> t.pool, coin |-> t.coin, alter |-> t.alter, relay |-> t.relay]
  /\ t.alter \in AnyAlteration
  /\ t.relay \in {"none"} \cup SigAlteration
  /\ t.kind = "deploy" => SizedRight(c, s)
  /\ GoodFor(c, s, t.kind, t.pool, t.coin, t.alter)

IdFor(c, txid) == [net |-> c.net, txid |-> txid, index |-> 0, hash |-> ModuleOf(c)]

LEMMA IndexedTxids ==
  ASSUME NEW c, NEW s, NEW t, NEW x \in IndexedFor(c, s, t)
  PROVE  x.id.txid = Txid(t)
<1>1. PICK tx, txid : tx = MinedTx(c, s, t) /\ txid = Txid(t)
  OBVIOUS
<1>2. PICK i, m : x \in HandledFor(c, txid, tx, i, m)
  BY <1>1 DEF IndexedFor, IndexedTx
<1>3. x = Registration(c, txid, m.m, Rebuilt(tx, m.m).wasm)
  BY <1>2 DEF HandledFor
<1> QED
  BY <1>1, <1>3 DEF Registration

\* The only id the indexer registers for a DEPLOY of ours is the printed one,
\* and it registers that one when the scriptSigs are the ones we sent.
LEMMA IndexedIds ==
  ASSUME NEW c, NEW s, NEW t, Sent(c, s, t), t.kind = "deploy"
  PROVE  /\ \A x \in IndexedFor(c, s, t) : x.id = IdFor(c, Txid(t))
         /\ t.relay = "none" => IndexedFor(c, s, t) # {}
<1>1. PICK pool, coin, alter, txid : pool = t.pool /\ coin = t.coin /\ alter = t.alter /\ txid = Txid(t)
  OBVIOUS
<1>2. PICK built, tx : built = BuiltFor(c, s, "deploy", pool, coin, alter) /\ tx = MinedTx(c, s, t)
  OBVIOUS
<1>3. PICK relay \in {"none"} \cup SigAlteration : relay = t.relay
  BY DEF Sent
<1>4. tx = Altered(relay, built)
  BY <1>1, <1>2, <1>3 DEF MinedTx
<1>5. IsTx(built)
  BY <1>1, <1>2, BuiltIsTx DEF Sent
<1>6. built.vout = PlanFor(c, s, "deploy", pool, coin).outputs /\ Carries(c, s, built)
  BY <1>1, <1>2 DEF Sent, GoodFor, Faithful
<1>7. tx.vout = PlanFor(c, s, "deploy", pool, coin).outputs
  BY <1>4, <1>5, <1>6, RelayKeepsOutputs
<1>8. PICK m : m = parse_op_return(DeployMessage(c, s.chunks))
  OBVIOUS
<1>9. m.is = "deploy" /\ Rebuilt(built, m.m).ok
  BY <1>6, <1>8 DEF Carries, Rebuilt
<1>10. SizedRight(c, s)
  BY DEF Sent
<1>11. /\ m.m.hash = ModuleOf(c) /\ m.m.index = 0
       /\ ~Rebuilt(tx, m.m).ok => IndexedTx(c, txid, tx) = {}
       /\ Rebuilt(tx, m.m).ok => IndexedTx(c, txid, tx) = {Registration(c, txid, m.m, ModuleOf(c))}
  BY <1>7, <1>8, <1>9, <1>10, DeployIndexed
<1>12. Registration(c, txid, m.m, ModuleOf(c)).id = IdFor(c, txid)
  BY <1>11 DEF Registration, IdFor
<1>13. IndexedFor(c, s, t) = IndexedTx(c, txid, tx)
  BY <1>1, <1>2 DEF IndexedFor
<1>14. relay = "none" => tx = built
  BY <1>4, Zenon DEF Altered
<1> QED
  BY <1>1, <1>3, <1>9, <1>11, <1>12, <1>13, <1>14

Registered(c, s, T) == UNION {IndexedFor(c, s, t) : t \in T}

\* The mempool holds transactions as they were sent, the chain perhaps with other
\* scriptSigs; a txid is there once; and the indexer has registered what the chain holds.
HeldFor(c, s, P, M, R) ==
  /\ \A t \in P \cup M : Sent(c, s, t)
  /\ \A t \in P : t.relay = "none"
  /\ \A t \in P, u \in M : Txid(t) # Txid(u)
  /\ \A t \in P, u \in P : Txid(t) = Txid(u) => t = u
  /\ \A t \in M, u \in M : Txid(t) = Txid(u) => t = u
  /\ R = Registered(c, s, M)

LEMMA Included ==
  ASSUME NEW c, NEW s, NEW P, NEW M, NEW R, HeldFor(c, s, P, M, R), NEW T \in SUBSET P
  PROVE  HeldFor(c, s, P \ T, M \cup T, R \cup Registered(c, s, T))
<1>1. Registered(c, s, M \cup T) = Registered(c, s, M) \cup Registered(c, s, T)
  BY DEF Registered
<1> QED
  BY <1>1 DEF HeldFor

LEMMA Resigned ==
  ASSUME NEW c, NEW s, NEW t, Sent(c, s, t), NEW a \in {"none"} \cup SigAlteration,
         NEW u, u = [t EXCEPT !.relay = a]
  PROVE  Sent(c, s, u) /\ Txid(u) = Txid(t) /\ u.relay = a
<1>1. u.kind = t.kind /\ u.pool = t.pool /\ u.coin = t.coin /\ u.alter = t.alter /\ u.relay = a
  BY DEF Sent
<1>2. u = [kind |-> u.kind, pool |-> u.pool, coin |-> u.coin, alter |-> u.alter, relay |-> u.relay]
  BY DEF Sent
<1>3. Sent(c, s, u)
  BY <1>1, <1>2 DEF Sent
<1> QED
  BY <1>1, <1>3 DEF Txid

LEMMA MinedOne ==
  ASSUME NEW c, NEW s, NEW P, NEW M, NEW R, HeldFor(c, s, P, M, R), NEW t \in P,
         NEW a \in {"none"} \cup SigAlteration, NEW u, u = [t EXCEPT !.relay = a]
  PROVE  HeldFor(c, s, P \ {t}, M \cup {u}, R \cup IndexedFor(c, s, u))
<1>1. Sent(c, s, u) /\ Txid(u) = Txid(t)
  BY Resigned DEF HeldFor
<1>2. Registered(c, s, M \cup {u}) = Registered(c, s, M) \cup IndexedFor(c, s, u)
  BY DEF Registered
<1>3. \A v \in M : Txid(v) # Txid(u)
  BY <1>1 DEF HeldFor
<1>4. \A v \in P \ {t} : Txid(v) # Txid(u)
  BY <1>1 DEF HeldFor
<1> QED
  BY <1>1, <1>2, <1>3, <1>4 DEF HeldFor

LEMMA Unmined ==
  ASSUME NEW c, NEW s, NEW P, NEW M, NEW R, HeldFor(c, s, P, M, R), NEW t \in M,
         NEW u, u = [t EXCEPT !.relay = "none"]
  PROVE  HeldFor(c, s, P \cup {u}, M \ {t}, {x \in R : x.id.txid # Txid(t)})
<1>1. Sent(c, s, u) /\ Txid(u) = Txid(t) /\ u.relay = "none"
  BY Resigned DEF HeldFor
<1>2. Registered(c, s, M \ {t}) = {x \in Registered(c, s, M) : x.id.txid # Txid(t)}
  <2>1. \A v \in M : \A x \in IndexedFor(c, s, v) : x.id.txid # Txid(t) <=> v # t
    BY IndexedTxids DEF HeldFor
  <2> QED
    BY <2>1 DEF Registered
<1>3. \A v \in M \ {t} : Txid(v) # Txid(u)
  BY <1>1 DEF HeldFor
<1>4. \A v \in P : Txid(v) # Txid(u)
  BY <1>1 DEF HeldFor
<1> QED
  BY <1>1, <1>2, <1>3, <1>4 DEF HeldFor

LEMMA TakenIn ==
  ASSUME NEW c, NEW s, NEW P, NEW M, NEW R, HeldFor(c, s, P, M, R), NEW t, Sent(c, s, t),
         t.relay = "none", \A u \in M \cup P : Txid(u) # Txid(t)
  PROVE  HeldFor(c, s, P \cup {t}, M, R)
BY DEF HeldFor

LEMMA PrintedAre ==
  ASSUME NEW c, NEW s, NEW P, NEW M, NEW R, HeldFor(c, s, P, M, R), NEW t \in M, t.kind = "deploy",
         NEW ids, ids = {x.id : x \in {x \in R : x.id.txid = Txid(t)}}
  PROVE  ids \subseteq {IdFor(c, Txid(t))} /\ (t.relay = "none" => ids = {IdFor(c, Txid(t))})
<1>1. {x \in R : x.id.txid = Txid(t)} = IndexedFor(c, s, t)
  <2>1. \A v \in M : \A x \in IndexedFor(c, s, v) : x.id.txid = Txid(t) <=> v = t
    BY IndexedTxids DEF HeldFor
  <2> QED
    BY <2>1 DEF HeldFor, Registered
<1>2. Sent(c, s, t)
  BY DEF HeldFor
<1> QED
  BY <1>1, <1>2, IndexedIds

EachFor(c, chunks) ==
  CeilDiv(deploy_plan(Each(Len(chunks), LAMBDA i : <<"probe", "transparent", 0, i - 1>>),
                      Const(Len(chunks), PROBE_VALUE), chunks, DeployMessage(c, chunks)).fee
            + CARRIER_MARGIN, Len(chunks))

SizeFor(c) == [chunks |-> split_chunks(ModuleOf(c)).chunks,
               each |-> EachFor(c, split_chunks(ModuleOf(c)).chunks)]

LEMMA SizeIsFor ==
  [chunks |-> split_chunks(Wasm).chunks, each |-> carrier_each(split_chunks(Wasm).chunks)] = SizeFor(cmd)
<1>1. PICK chunks : chunks = split_chunks(Wasm).chunks
  OBVIOUS
<1>2. carrier_each(chunks) = EachFor(cmd, chunks)
  BY MessageIs, Zenon DEF carrier_each, deploy_fee, EachFor
<1>3. ModuleOf(cmd) = Wasm
  BY DEF ModuleOf, Wasm
<1> QED
  BY <1>1, <1>2, <1>3 DEF SizeFor

\* A deploy command works with the sizes of its module, a call with none; its
\* arguments fit a message.
JobFor(c, s, j) ==
  /\ j.req \in {"prepare", "deploy"} => s = SizeFor(c)
  /\ j.req = "call" => c.verb # "deploy" /\ c.len <= MAX_CALL_INLINE_BYTES
  /\ j.pc \in {"print", "wait"} => j.req = "deploy"

JobSized == JobFor(cmd, sized, job)

LEMMA JobStep == DeployBase /\ JobSized /\ [DeployNext]_deployVars => JobSized'
<1> SUFFICES ASSUME DeployBase, JobSized, [DeployNext]_deployVars PROVE JobSized'
  OBVIOUS
<1>1. Shape(job)
  BY DEF DeployBase, BaseFor
<1>2. ASSUME UNCHANGED <<cmd, sized>>, NEW pc, Goto(pc), pc \in {"print", "wait"} => job.req = "deploy"
      PROVE  JobSized'
  <2>1. job'.req = job.req /\ job'.pc = pc
    BY <1>1, <1>2 DEF Goto, Shape
  <2> QED
    BY <1>2, <2>1 DEF JobSized, JobFor
<1>3. ASSUME UNCHANGED <<cmd, sized>>, job'.req = "none", job'.pc \notin {"print", "wait"}
      PROVE  JobSized'
  BY <1>3 DEF JobSized, JobFor
<1>4. Failed \/ Over("ended") => job'.req = "none" /\ job'.pc \notin {"print", "wait"}
  BY DEF Failed, Over, Start
<1>5. ASSUME UNCHANGED <<cmd, sized>>, job'.req = job.req, job'.pc \notin {"print", "wait"}
      PROVE  JobSized'
  BY <1>5 DEF JobSized, JobFor
<1>6. CASE UNCHANGED <<cmd, job, sized>>
  BY <1>6 DEF JobSized
<1>7. CASE size_request
  <2>1. cmd' = cmd
    BY <1>7 DEF size_request
  <2>2. CASE cmd.verb = "deploy" /\ split_chunks(Wasm).ok
    <3>1. job' = [job EXCEPT !.pc = "source", !.req = "prepare"]
      BY <1>7, <2>2 DEF size_request
    <3>2. sized' = [chunks |-> split_chunks(Wasm).chunks, each |-> carrier_each(split_chunks(Wasm).chunks)]
      BY <1>7, <2>2 DEF size_request
    <3>3. sized' = SizeFor(cmd)
      BY <3>2, SizeIsFor
    <3>4. job'.req = "prepare" /\ job'.pc = "source"
      BY <1>1, <3>1 DEF Shape
    <3> QED
      BY <2>1, <3>3, <3>4 DEF JobSized, JobFor
  <2>3. CASE cmd.verb = "deploy" /\ ~split_chunks(Wasm).ok
    BY <1>3, <1>4, <1>7, <2>1, <2>3 DEF size_request
  <2>4. CASE cmd.verb # "deploy"
    <3>1. /\ sized' = sized
          /\ \/ Failed
             \/ job' = [job EXCEPT !.pc = "source", !.req = "call"] /\ cmd.len <= MAX_CALL_INLINE_BYTES
      BY <1>7, <2>4 DEF size_request
    <3>2. CASE Failed
      BY <1>3, <1>4, <2>1, <3>1, <3>2
    <3>3. CASE job' = [job EXCEPT !.pc = "source", !.req = "call"] /\ cmd.len <= MAX_CALL_INLINE_BYTES
      <4>1. job'.req = "call" /\ job'.pc = "source"
        BY <1>1, <3>3 DEF Shape
      <4> QED
        BY <2>1, <2>4, <3>3, <4>1 DEF JobSized, JobFor
    <3> QED
      BY <3>1, <3>2, <3>3
  <2> QED
    BY <2>2, <2>3, <2>4
<1>8. CASE build_source
  <2>1. UNCHANGED <<cmd, sized>>
    BY <1>8 DEF build_source
  <2>2. Failed \/ (job'.req = job.req /\ job'.pc = "plan")
    BY <1>1, <1>8 DEF build_source, obtain_funding, make_shielded, Goto, Shape
  <2> QED
    BY <1>3, <1>4, <1>5, <2>1, <2>2
<1>9. CASE make_plan
  <2>1. UNCHANGED <<cmd, sized>>
    BY <1>9 DEF make_plan
  <2>2. Failed \/ (job'.req = job.req /\ job'.pc = "confirm")
    BY <1>1, <1>9 DEF make_plan, Shape
  <2> QED
    BY <1>3, <1>4, <1>5, <2>1, <2>2
<1>10. CASE sign
  <2>1. UNCHANGED <<cmd, sized>>
    BY <1>10 DEF sign
  <2>2. Failed \/ (job'.req = job.req /\ job'.pc = "extract")
    BY <1>1, <1>10 DEF sign, Shape
  <2> QED
    BY <1>3, <1>4, <1>5, <2>1, <2>2
<1>11. CASE confirm
  BY <1>2, <1>3, <1>4, <1>11 DEF confirm
<1>12. CASE prove
  BY <1>2, <1>3, <1>4, <1>12 DEF prove
<1>13. CASE extract_verified
  BY <1>2, <1>3, <1>4, <1>13 DEF extract_verified
<1>14. CASE broadcast_verified
  BY <1>2, <1>3, <1>4, <1>14 DEF broadcast_verified
<1>15. CASE confirm_tx
  <2>1. UNCHANGED <<cmd, sized>> /\ (NextStage \/ Failed) /\ job.pc = "confirm_tx"
    BY <1>15 DEF confirm_tx, At
  <2>2. CASE NextStage
    <3>1. job.req \in {"prepare", "deploy", "call"}
      BY <2>1 DEF DeployBase, BaseFor
    <3>2. CASE job.req = "prepare"
      <4>1. job' = [job EXCEPT !.pc = "source", !.req = "deploy"]
        BY <2>2, <3>2 DEF NextStage
      <4>2. job'.req = "deploy" /\ job'.pc = "source"
        BY <1>1, <4>1 DEF Shape
      <4> QED
        BY <2>1, <3>2, <4>2 DEF JobSized, JobFor
    <3>3. CASE job.req = "deploy"
      BY <1>2, <2>1, <2>2, <3>3 DEF NextStage
    <3>4. CASE job.req = "call"
      BY <1>3, <1>4, <2>1, <2>2, <3>4 DEF NextStage
    <3> QED
      BY <3>1, <3>2, <3>3, <3>4
  <2> QED
    BY <1>3, <1>4, <2>1, <2>2
<1>16. CASE print_contract_id
  <2>1. UNCHANGED <<cmd, sized>> /\ Goto("wait") /\ job.pc = "print"
    BY <1>16 DEF print_contract_id, At
  <2>2. job.req = "deploy"
    BY <2>1 DEF JobSized, JobFor
  <2> QED
    BY <1>2, <2>1, <2>2
<1>17. CASE wait_for_contract
  BY <1>3, <1>4, <1>17 DEF wait_for_contract
<1>18. CASE run_again
  BY <1>3, <1>18 DEF run_again, Start
<1>19. CASE disarm_session \/ new_block \/ chain_reorg
  BY <1>6, <1>19 DEF disarm_session, new_block, chain_reorg
<1> QED
  BY <1>6, <1>7, <1>8, <1>9, <1>10, <1>11, <1>12, <1>13, <1>14, <1>15, <1>16, <1>17, <1>18, <1>19
     DEF DeployNext, deployVars

Held(P, M, R) == HeldFor(cmd, sized, P, M, R)
NodeHolds == Held(pending, mined, contracts)
SizedOnce == pending \cup mined # {} /\ cmd.verb = "deploy" => sized = SizeFor(cmd)
PrintedFor(c, I) == \A id \in I : \E pool, coin : id = IdFor(c, <<"deploy", pool, coin>>)
PrintsDeploys == PrintedFor(cmd, printed)

LEMMA GenerateHolds ==
  ASSUME NodeHolds, generate_to_address
  PROVE  /\ Held(pending', mined', contracts')
         /\ pending' \cup mined' # {} => pending \cup mined # {}
<1>1. PICK c, s, P, M, R, T :
        c = cmd /\ s = sized /\ P = pending /\ M = mined /\ R = contracts /\ T = Includable
  OBVIOUS
<1>2. T \in SUBSET P
  BY <1>1 DEF Includable
<1>3. HeldFor(c, s, P \ T, M \cup T, R \cup Registered(c, s, T))
  BY <1>1, <1>2, Included DEF NodeHolds, Held
<1>4. UNION {IndexedFrom(t) : t \in Includable} = Registered(c, s, T)
  BY <1>1, IndexedForIs DEF Registered
<1>5. pending' = P \ T /\ mined' = M \cup T /\ contracts' = R \cup Registered(c, s, T)
  BY <1>1, <1>4 DEF generate_to_address
<1> QED
  BY <1>1, <1>2, <1>3, <1>5 DEF Held

LEMMA BroadcastHolds ==
  ASSUME DeployBase, SendsVerified, NodeHolds, broadcast_verified
  PROVE  Held(pending', mined', contracts')
<1>1. mined' = mined /\ contracts' = contracts /\ job.pc = "broadcast"
  BY DEF broadcast_verified, At
<1>2. CASE pending' = pending
  BY <1>1, <1>2 DEF NodeHolds
<1>3. CASE pending' # pending
  <2>1. Spendable(Here, mined \cup pending) /\ pending' = pending \cup {Here}
    BY <1>3 DEF broadcast_verified
  <2>2. PICK c, s, P, M, R, t :
          c = cmd /\ s = sized /\ P = pending /\ M = mined /\ R = contracts /\ t = Here
    OBVIOUS
  <2>3. \A u \in M \cup P : Txid(u) # Txid(t)
    BY <2>1, <2>2 DEF Spendable
  <2>4. PICK kind, pool, coin, alter :
          kind = job.req /\ pool = job.pool /\ coin = job.coin /\ alter = job.alter
    OBVIOUS
  <2>5. t = [kind |-> kind, pool |-> pool, coin |-> coin, alter |-> alter, relay |-> "none"]
    BY <2>2, <2>4 DEF Here
  <2>6. alter \in AnyAlteration /\ (kind = "deploy" => SizedRight(c, s))
    BY <1>1, <2>2, <2>4 DEF DeployBase, BaseFor
  <2>7. GoodFor(c, s, kind, pool, coin, alter)
    BY <1>1, <2>2, <2>4 DEF SendsVerified, VerifiedFor, Sending
  <2>8. Sent(c, s, t) /\ t.relay = "none"
    BY <2>5, <2>6, <2>7 DEF Sent
  <2>9. HeldFor(c, s, P \cup {t}, M, R)
    BY <2>2, <2>3, <2>8, TakenIn DEF NodeHolds, Held
  <2> QED
    BY <1>1, <2>1, <2>2, <2>9 DEF Held
<1> QED
  BY <1>2, <1>3

LEMMA BlockHolds ==
  ASSUME NodeHolds, new_block
  PROVE  /\ Held(pending', mined', contracts')
         /\ pending' \cup mined' # {} => pending \cup mined # {}
<1>1. CASE UNCHANGED <<mined, contracts, pending>>
  BY <1>1 DEF NodeHolds
<1>2. CASE ~UNCHANGED <<mined, contracts, pending>>
  <2>1. PICK t \in Includable, a \in Relayed :
          /\ mined' = mined \cup {[t EXCEPT !.relay = a]}
          /\ contracts' = contracts \cup IndexedFrom([t EXCEPT !.relay = a])
          /\ pending' = pending \ {t}
    BY <1>2, Zenon DEF new_block
  <2>2. PICK c, s, P, M, R, u :
          /\ c = cmd /\ s = sized /\ P = pending /\ M = mined /\ R = contracts
          /\ u = [t EXCEPT !.relay = a]
    OBVIOUS
  <2>3. t \in P /\ a \in {"none"} \cup SigAlteration
    BY <2>2, DeployConstants DEF Includable
  <2>4. HeldFor(c, s, P \ {t}, M \cup {u}, R \cup IndexedFor(c, s, u))
    BY <2>2, <2>3, MinedOne DEF NodeHolds, Held
  <2>5. IndexedFrom(u) = IndexedFor(c, s, u)
    BY <2>2, IndexedForIs
  <2> QED
    BY <2>1, <2>2, <2>3, <2>4, <2>5 DEF Held
<1> QED
  BY <1>1, <1>2

LEMMA ReorgHolds ==
  ASSUME NodeHolds, chain_reorg
  PROVE  /\ Held(pending', mined', contracts')
         /\ pending' \cup mined' # {} => pending \cup mined # {}
<1>1. PICK t \in mined : /\ mined' = mined \ {t}
                         /\ contracts' = {x \in contracts : x.id.txid # Txid(t)}
                         /\ pending' = pending \cup {[t EXCEPT !.relay = "none"]}
  BY DEF chain_reorg
<1>2. PICK c, s, P, M, R, u :
        /\ c = cmd /\ s = sized /\ P = pending /\ M = mined /\ R = contracts
        /\ u = [t EXCEPT !.relay = "none"]
  OBVIOUS
<1>3. HeldFor(c, s, P \cup {u}, M \ {t}, {x \in R : x.id.txid # Txid(t)})
  BY <1>1, <1>2, Unmined DEF NodeHolds, Held
<1> QED
  BY <1>1, <1>2, <1>3 DEF Held

LEMMA SizingHolds ==
  ASSUME NodeHolds, SizedOnce, size_request
  PROVE  NodeHolds' /\ SizedOnce'
<1>1. cmd' = cmd /\ pending' = pending /\ mined' = mined /\ contracts' = contracts
  BY DEF size_request, nodeVars
<1>2. CASE sized' = sized
  BY <1>1, <1>2 DEF NodeHolds, Held, SizedOnce
<1>3. CASE sized' # sized
  <2>1. cmd.verb = "deploy" /\ sized' = [chunks |-> split_chunks(Wasm).chunks,
                                        each |-> carrier_each(split_chunks(Wasm).chunks)]
    BY <1>3, Zenon DEF size_request
  <2>2. sized' = SizeFor(cmd)
    BY <2>1, SizeIsFor
  <2>3. pending \cup mined = {}
    BY <1>3, <2>1, <2>2 DEF SizedOnce
  <2>4. contracts = {}
    BY <2>3 DEF NodeHolds, Held, HeldFor, Registered
  <2>5. PICK c, s : c = cmd /\ s = sized'
    OBVIOUS
  <2>6. HeldFor(c, s, {}, {}, {})
    BY DEF HeldFor, Registered
  <2>7. pending = {} /\ mined = {}
    BY <2>3
  <2> QED
    BY <1>1, <2>2, <2>4, <2>5, <2>6, <2>7 DEF NodeHolds, Held, SizedOnce
<1> QED
  BY <1>2, <1>3

LEMMA HoldsStep ==
  /\ DeployBase /\ SendsVerified /\ JobSized /\ NodeHolds /\ SizedOnce
  /\ [DeployNext]_deployVars
  => NodeHolds' /\ SizedOnce'
<1> SUFFICES ASSUME DeployBase, SendsVerified, JobSized, NodeHolds, SizedOnce, [DeployNext]_deployVars
             PROVE  NodeHolds' /\ SizedOnce'
  OBVIOUS
<1>1. ASSUME UNCHANGED <<cmd, sized>>, Held(pending', mined', contracts'),
             pending' \cup mined' # {} => pending \cup mined # {}
      PROVE  NodeHolds' /\ SizedOnce'
  BY <1>1 DEF NodeHolds, Held, SizedOnce
<1>2. CASE UNCHANGED <<cmd, sized, pending, mined, contracts>>
  BY <1>2 DEF NodeHolds, Held, SizedOnce
<1>3. CASE size_request
  BY <1>3, SizingHolds
<1>4. CASE build_source
  <2>1. UNCHANGED <<cmd, sized>>
    BY <1>4 DEF build_source
  <2>2. generate_to_address \/ UNCHANGED <<pending, mined, contracts>>
    BY <1>4 DEF build_source, obtain_funding, make_shielded
  <2> QED
    BY <1>1, <1>2, <2>1, <2>2, GenerateHolds
<1>5. CASE broadcast_verified
  <2>1. UNCHANGED <<cmd, sized, mined, contracts>> /\ job.pc = "broadcast"
    BY <1>5 DEF broadcast_verified, At
  <2>2. Held(pending', mined', contracts')
    BY <1>5, BroadcastHolds
  <2>3. cmd.verb = "deploy" => sized = SizeFor(cmd)
    <3>1. job.req \in {"prepare", "deploy", "call"}
      BY <2>1 DEF DeployBase, BaseFor
    <3> QED
      BY <3>1 DEF JobSized, JobFor
  <2> QED
    BY <2>1, <2>2, <2>3 DEF NodeHolds, Held, SizedOnce
<1>6. CASE confirm_tx
  <2>1. UNCHANGED <<cmd, sized>>
    BY <1>6 DEF confirm_tx
  <2>2. generate_to_address \/ UNCHANGED <<pending, mined, contracts>>
    BY <1>6 DEF confirm_tx
  <2> QED
    BY <1>1, <1>2, <2>1, <2>2, GenerateHolds
<1>7. CASE new_block
  <2>1. UNCHANGED <<cmd, sized>>
    BY <1>7 DEF new_block
  <2> QED
    BY <1>1, <1>7, <2>1, BlockHolds
<1>8. CASE chain_reorg
  <2>1. UNCHANGED <<cmd, sized>>
    BY <1>8 DEF chain_reorg
  <2> QED
    BY <1>1, <1>8, <2>1, ReorgHolds
<1>9. CASE \/ make_plan \/ confirm \/ prove \/ sign \/ extract_verified
           \/ print_contract_id \/ wait_for_contract \/ run_again \/ disarm_session
  BY <1>2, <1>9 DEF make_plan, confirm, prove, sign, extract_verified, print_contract_id,
     wait_for_contract, run_again, disarm_session, nodeVars
<1> QED
  BY <1>2, <1>3, <1>4, <1>5, <1>6, <1>7, <1>8, <1>9 DEF DeployNext, deployVars

LEMMA PrintsStep == DeployBase /\ JobSized /\ PrintsDeploys /\ [DeployNext]_deployVars => PrintsDeploys'
<1> SUFFICES ASSUME DeployBase, JobSized, PrintsDeploys, [DeployNext]_deployVars PROVE PrintsDeploys'
  OBVIOUS
<1>1. CASE print_contract_id
  <2>1. cmd' = cmd /\ printed' = printed \cup {printed_id} /\ job.pc = "print"
    BY <1>1 DEF print_contract_id, At
  <2>2. job.req = "deploy"
    BY <2>1 DEF JobSized, JobFor
  <2>3. PICK c, pool, coin : c = cmd /\ pool = job.pool /\ coin = job.coin
    OBVIOUS
  <2>4. printed_id = IdFor(c, <<"deploy", pool, coin>>)
    <3>1. Txid(Here) = <<"deploy", pool, coin>>
      BY <2>2, <2>3 DEF Txid, Here
    <3>2. Wasm = ModuleOf(c)
      BY <2>3 DEF Wasm, ModuleOf
    <3> QED
      BY <2>3, <3>1, <3>2, Zenon DEF printed_id, ContractId, IdFor
  <2>5. PICK I, id : I = printed /\ id = printed_id
    OBVIOUS
  <2>6. PrintedFor(c, I)
    BY <2>3, <2>5 DEF PrintsDeploys
  <2>7. PrintedFor(c, I \cup {id})
    BY <2>4, <2>5, <2>6 DEF PrintedFor
  <2>8. cmd' = c /\ printed' = I \cup {id}
    BY <2>1, <2>3, <2>5
  <2> QED
    BY <2>7, <2>8 DEF PrintsDeploys
<1>2. CASE UNCHANGED <<cmd, printed>>
  BY <1>2 DEF PrintsDeploys
<1>3. CASE ~print_contract_id /\ DeployNext
  <2>1. UNCHANGED <<cmd, printed>>
    BY <1>3 DEF DeployNext, size_request, build_source, make_plan, confirm, prove, sign,
       extract_verified, broadcast_verified, confirm_tx, wait_for_contract, run_again,
       disarm_session, new_block, chain_reorg
  <2> QED
    BY <1>2, <2>1
<1> QED
  BY <1>1, <1>2, <1>3 DEF deployVars

LEMMA PrintsIndexed == NodeHolds /\ PrintsDeploys => PrintedIdIsIndexed
<1> SUFFICES ASSUME NodeHolds, PrintsDeploys, NEW id \in printed, NEW t \in mined, Txid(t) = id.txid,
                    NEW ids, ids = {x.id : x \in {x \in contracts : x.id.txid = id.txid}}
             PROVE  IF t.relay = "none" THEN ids = {id} ELSE ids \subseteq {id}
  BY DEF PrintedIdIsIndexed
<1>1. PICK c, s, P, M, R : c = cmd /\ s = sized /\ P = pending /\ M = mined /\ R = contracts
  OBVIOUS
<1>2. PICK pool, coin : id = IdFor(c, <<"deploy", pool, coin>>)
  BY <1>1 DEF PrintsDeploys, PrintedFor
<1>3. id.txid = <<"deploy", pool, coin>> /\ id = IdFor(c, id.txid)
  BY <1>2 DEF IdFor
<1>4. t.kind = "deploy"
  BY <1>3 DEF Txid
<1>5. HeldFor(c, s, P, M, R) /\ t \in M
  BY <1>1 DEF NodeHolds, Held
<1>6. ids = {x.id : x \in {x \in R : x.id.txid = Txid(t)}}
  BY <1>1
<1>7. ids \subseteq {IdFor(c, Txid(t))} /\ (t.relay = "none" => ids = {IdFor(c, Txid(t))})
  BY <1>4, <1>5, <1>6, PrintedAre
<1> QED
  BY <1>3, <1>7

\* The id the CLI prints is the id of the contract the indexer registers for that
\* transaction, whatever reorganisations and other scriptSigs it goes through on
\* the way (main.rs:875).
THEOREM DeployPrintedIdIsIndexed == DeploySpec => []PrintedIdIsIndexed
<1>1. DeployInit => SendsVerified /\ JobSized /\ NodeHolds /\ SizedOnce /\ PrintsDeploys
  <2> SUFFICES ASSUME DeployInit PROVE SendsVerified /\ JobSized /\ NodeHolds /\ SizedOnce /\ PrintsDeploys
    OBVIOUS
  <2>1. SendsVerified /\ JobSized
    BY DEF DeployInit, Start, SendsVerified, VerifiedFor, Sending, JobSized, JobFor
  <2>2. NodeHolds /\ SizedOnce
    BY DEF DeployInit, NodeHolds, Held, HeldFor, Registered, SizedOnce
  <2>3. PrintsDeploys
    BY DEF DeployInit, PrintsDeploys, PrintedFor
  <2> QED
    BY <2>1, <2>2, <2>3
<1>2. DeployBase /\ SendsVerified /\ [DeployNext]_deployVars => SendsVerified'
  BY VerifiedStep
<1>3. DeployBase /\ JobSized /\ [DeployNext]_deployVars => JobSized'
  BY JobStep
<1>4. /\ DeployBase /\ SendsVerified /\ JobSized /\ NodeHolds /\ SizedOnce
      /\ [DeployNext]_deployVars
      => NodeHolds' /\ SizedOnce'
  BY HoldsStep
<1>5. DeployBase /\ JobSized /\ PrintsDeploys /\ [DeployNext]_deployVars => PrintsDeploys'
  BY PrintsStep
<1>6. NodeHolds /\ PrintsDeploys => PrintedIdIsIndexed
  BY PrintsIndexed
<1> QED
  BY <1>1, <1>2, <1>3, <1>4, <1>5, <1>6, DeployPlansKept, PTL DEF DeploySpec

(***************************************************************************)
(* Byte strings of any number of spans, and what the readers make of them. *)
(***************************************************************************)
\* h measures b: h[i] is how many bytes its first i spans hold.
Measures(h, b) == h[0] = 0 /\ \A i \in 1..Len(b) : h[i] = h[i - 1] + b[i].len

LEMMA SpanOf ==
  ASSUME NEW b, IsBytes(b)
  PROVE  Len(b) \in Nat /\ \A i \in 1..Len(b) : IsSpan(b[i]) /\ b[i].len \in Nat \ {0}
<1>1. PICK S : b \in Seq(S) /\ \A x \in S : IsSpan(x)
  BY DEF IsBytes
<1>2. ASSUME NEW i \in 1..Len(b) PROVE IsSpan(b[i]) /\ b[i].len \in Nat \ {0}
  <2>1. PICK x : x = b[i] /\ x \in S
    BY <1>1
  <2>2. IsSpan(x) /\ x.len \in Nat \ {0}
    BY <1>1, <2>1 DEF IsSpan
  <2> QED
    BY <2>1, <2>2
<1> QED
  BY <1>1, <1>2

\* Along the spans the measure grows.
LEMMA MeasureGrows ==
  ASSUME NEW b, IsBytes(b), NEW h, Measures(h, b)
  PROVE  \A k \in 0..Len(b) : h[k] \in Nat /\ k <= h[k] /\ \A j \in 0..k : h[j] \in Nat /\ h[j] <= h[k]
<1>1. PICK n \in Nat : n = Len(b)
  BY SpanOf
<1> DEFINE Is(k) == h[k] \in Nat /\ k <= h[k] /\ \A j \in 0..k : h[j] \in Nat /\ h[j] <= h[k]
           B == {k \in 0..n : ~Is(k)}
<1>2. B = {}
  <2> SUFFICES ASSUME B # {} PROVE FALSE
    OBVIOUS
  <2>1. B \in SUBSET Nat
    OBVIOUS
  <2>2. PICK k \in B : \A j \in B : k <= j
    BY <2>1, LeastOf
  <2>3. k \in 0..n /\ ~Is(k)
    OBVIOUS
  <2>4. k # 0
    <3>1. Is(0)
      <4>1. h[0] = 0 /\ \A j \in 0..0 : j = 0
        BY DEF Measures
      <4> QED
        BY <4>1
    <3> QED
      BY <2>3, <3>1
  <2>5. k - 1 \in 0..n /\ k \in 1..n /\ ~(k <= k - 1)
    BY <2>3, <2>4
  <2>6. Is(k - 1)
    <3>1. k - 1 \notin B
      <4> HIDE DEF B
      <4> QED
        BY <2>2, <2>5
    <3> QED
      BY <2>5, <3>1
  <2>7. PICK l \in Nat \ {0} : l = b[k].len
    BY <1>1, <2>5, SpanOf
  <2>8. h[k] = h[k - 1] + l
    BY <1>1, <2>5, <2>7 DEF Measures
  <2>9. ASSUME NEW j \in 0..k PROVE h[j] \in Nat /\ h[j] <= h[k]
    <3>1. h[k - 1] \in Nat /\ \A i \in 0..(k - 1) : h[i] \in Nat /\ h[i] <= h[k - 1]
      BY <2>6
    <3>2. CASE j = k
      BY <2>7, <2>8, <3>1, <3>2
    <3>3. CASE j # k
      <4>1. j \in 0..(k - 1)
        BY <2>5, <3>3
      <4>2. h[j] \in Nat /\ h[j] <= h[k - 1]
        BY <3>1, <4>1
      <4> QED
        BY <2>7, <2>8, <3>1, <4>2
    <3> QED
      BY <3>2, <3>3
  <2> QED
    BY <2>3, <2>6, <2>7, <2>8, <2>9
<1> QED
  BY <1>1, <1>2

\* Whatever measures b ends at its size.
LEMMA MeasureIsSize ==
  ASSUME NEW b, IsBytes(b), NEW h, Measures(h, b)
  PROVE  h[Len(b)] = Size(b)
<1>1. PICK n \in Nat : n = Len(b)
  BY SpanOf
<1>2. PICK f : f = [i \in 1..n |-> b[i].len] /\ Len(f) = n /\ Size(b) = Sum(f)
  BY <1>1, SizeIs
<1>3. PICK g : Adds(g, f) /\ Sum(f) = g[n]
  <2>1. Len(f) \in Nat
    BY <1>2
  <2>2. \E g : Adds(g, f) /\ Sum(f) = g[Len(f)]
    BY <2>1, SumAdds
  <2> QED
    BY <1>2, <2>2
<1> DEFINE B == {k \in 0..n : ~(h[k] = g[k])}
<1>4. B = {}
  <2> SUFFICES ASSUME B # {} PROVE FALSE
    OBVIOUS
  <2>1. B \in SUBSET Nat
    OBVIOUS
  <2>2. PICK k \in B : \A j \in B : k <= j
    BY <2>1, LeastOf
  <2>3. k \in 0..n /\ h[k] # g[k]
    OBVIOUS
  <2>4. k # 0
    BY <1>3, <2>3 DEF Adds, Measures
  <2>5. k - 1 \in 0..n /\ k \in 1..n /\ ~(k <= k - 1)
    BY <2>3, <2>4
  <2>6. h[k - 1] = g[k - 1]
    <3>1. k - 1 \notin B
      <4> HIDE DEF B
      <4> QED
        BY <2>2, <2>5
    <3> QED
      BY <2>5, <3>1
  <2>7. h[k] = h[k - 1] + b[k].len
    BY <1>1, <2>5 DEF Measures
  <2>8. g[k] = g[k - 1] + f[k] /\ f[k] = b[k].len
    BY <1>2, <1>3, <2>5 DEF Adds
  <2> QED
    BY <2>3, <2>6, <2>7, <2>8
<1>5. n \in 0..n
  OBVIOUS
<1>6. h[n] = g[n]
  BY <1>4, <1>5
<1> QED
  BY <1>1, <1>2, <1>3, <1>6

LEMMA MeasureExists ==
  ASSUME NEW b, IsBytes(b)
  PROVE  \E h : Measures(h, b)
<1>1. PICK n \in Nat : n = Len(b)
  BY SpanOf
<1>2. PICK f : f = [i \in 1..n |-> b[i].len] /\ Len(f) = n
  BY <1>1, SizeIs
<1>3. PICK g : Adds(g, f)
  BY <1>2, SumAdds
<1>4. \A i \in 1..n : g[i] = g[i - 1] + b[i].len
  BY <1>2, <1>3 DEF Adds
<1>5. g[0] = 0
  BY <1>3 DEF Adds
<1> QED
  BY <1>1, <1>4, <1>5 DEF Measures

\* One byte string behind another.
LEMMA BytesBehind ==
  ASSUME NEW x, IsBytes(x), NEW y, IsBytes(y)
  PROVE  /\ IsBytes(x \o y)
         /\ Len(x \o y) = Len(x) + Len(y)
         /\ \A i \in 1..Len(x) : (x \o y)[i] = x[i]
         /\ \A i \in 1..Len(y) : (x \o y)[Len(x) + i] = y[i]
<1>1. PICK S : x \in Seq(S) /\ \A e \in S : IsSpan(e)
  BY DEF IsBytes
<1>2. PICK T : y \in Seq(T) /\ \A e \in T : IsSpan(e)
  BY DEF IsBytes
<1>3. PICK U : U = S \cup T
  OBVIOUS
<1>4. \A e \in U : IsSpan(e)
  BY <1>1, <1>2, <1>3
<1>5. x \in Seq(U) /\ y \in Seq(U)
  BY <1>1, <1>2, <1>3
<1>6. /\ x \o y \in Seq(U) /\ Len(x \o y) = Len(x) + Len(y)
      /\ \A i \in 1..Len(x) : (x \o y)[i] = x[i]
      /\ \A i \in 1..Len(y) : (x \o y)[Len(x) + i] = y[i]
  BY <1>5
<1>7. IsBytes(x \o y)
  BY <1>4, <1>6 DEF IsBytes
<1> QED
  BY <1>6, <1>7

LEMMA SizeBehind ==
  ASSUME NEW x, IsBytes(x), NEW y, IsBytes(y)
  PROVE  /\ Size(x \o y) = Size(x) + Size(y)
         /\ Size(x) \in Nat /\ Len(x) <= Size(x)
<1>1. PICK m \in Nat, n \in Nat : m = Len(x) /\ n = Len(y)
  BY SpanOf
<1>2. PICK z : z = x \o y
  OBVIOUS
<1>3. /\ IsBytes(z) /\ Len(z) = m + n
      /\ \A i \in 1..m : z[i] = x[i]
      /\ \A i \in 1..n : z[m + i] = y[i]
  BY <1>1, <1>2, BytesBehind
<1>4. PICK h : Measures(h, z)
  BY <1>3, MeasureExists
<1>5. Measures(h, x)
  BY <1>1, <1>3, <1>4 DEF Measures
<1>6. h[m] \in Nat /\ m <= h[m]
  <2>1. m \in 0..Len(x)
    BY <1>1
  <2> QED
    BY <1>5, <2>1, MeasureGrows
<1>7. PICK k : k = [i \in 0..n |-> h[m + i] - h[m]]
  OBVIOUS
<1>8. Measures(k, y)
  <2>1. k[0] = 0
    BY <1>6, <1>7
  <2>2. ASSUME NEW i \in 1..n PROVE k[i] = k[i - 1] + y[i].len
    <3>1. /\ m + i \in 1..(m + n) /\ (m + i) - 1 = m + (i - 1)
          /\ m + i \in 0..(m + n) /\ m + (i - 1) \in 0..(m + n)
          /\ i \in 0..n /\ i - 1 \in 0..n
      OBVIOUS
    <3>2. h[m + i] = h[(m + i) - 1] + z[m + i].len
      BY <1>3, <1>4, <3>1 DEF Measures
    <3>3. z[m + i].len = y[i].len
      BY <1>3
    <3>4. h[m + i] \in Nat /\ h[m + (i - 1)] \in Nat
      BY <1>3, <1>4, <3>1, MeasureGrows
    <3>5. y[i].len \in Nat
      BY <1>1, SpanOf
    <3>6. k[i] = h[m + i] - h[m] /\ k[i - 1] = h[m + (i - 1)] - h[m]
      BY <1>7, <3>1
    <3>7. h[m + i] = h[m + (i - 1)] + y[i].len
      BY <3>1, <3>2, <3>3
    <3> HIDE DEF Measures
    <3> QED
      BY <1>6, <3>4, <3>5, <3>6, <3>7
  <2> QED
    BY <1>1, <2>1, <2>2 DEF Measures
<1>9. Size(x) = h[m] /\ Size(y) = k[n] /\ Size(z) = h[m + n]
  BY <1>1, <1>3, <1>4, <1>5, <1>8, MeasureIsSize
<1>10. k[n] = h[m + n] - h[m] /\ h[m + n] \in Nat
  <2>1. m + n \in 0..(m + n) /\ n \in 0..n
    OBVIOUS
  <2> QED
    BY <1>3, <1>4, <1>7, <2>1, MeasureGrows
<1> QED
  BY <1>1, <1>2, <1>6, <1>9, <1>10

\* Slice finds a byte string between two others.
LEMMA SliceMiddle ==
  ASSUME NEW x, IsBytes(x), NEW y, IsBytes(y), NEW z, IsBytes(z)
  PROVE  Slice((x \o y) \o z, Size(x), Size(x) + Size(y)) = y
<1>1. PICK m \in Nat, n \in Nat, q \in Nat : m = Len(x) /\ n = Len(y) /\ q = m + n + Len(z)
  <2>1. Len(x) \in Nat /\ Len(y) \in Nat /\ Len(z) \in Nat
    BY SpanOf
  <2> QED
    BY <2>1
<1>2. PICK w, b : w = x \o y /\ b = w \o z
  OBVIOUS
<1>3. /\ IsBytes(w) /\ Len(w) = m + n
      /\ \A i \in 1..m : w[i] = x[i]
      /\ \A i \in 1..n : w[m + i] = y[i]
  BY <1>1, <1>2, BytesBehind
<1>4. /\ IsBytes(b) /\ Len(b) = q
      /\ \A i \in 1..(m + n) : b[i] = w[i]
  BY <1>1, <1>2, <1>3, BytesBehind
<1>5. PICK h : Measures(h, b)
  BY <1>4, MeasureExists
<1>6. PICK from \in Nat, to \in Nat : from = h[m] /\ to = h[m + n] /\ from <= to
  <2>1. m \in 0..(m + n) /\ m + n \in 0..q /\ m \in 0..q
    <3>1. Len(z) \in Nat
      BY SpanOf
    <3> QED
      BY <1>1, <3>1
  <2> QED
    BY <1>4, <1>5, <2>1, MeasureGrows
<1>7. from = Size(x) /\ to = Size(x) + Size(y)
  <2>0. m + n <= q
    <3>1. Len(z) \in Nat
      BY SpanOf
    <3> QED
      BY <1>1, <3>1
  <2>1. Measures(h, w)
    BY <1>3, <1>4, <1>5, <2>0 DEF Measures
  <2>2. Measures(h, x)
    BY <1>1, <1>3, <2>1 DEF Measures
  <2>3. h[m + n] = Size(w) /\ h[m] = Size(x)
    BY <1>1, <1>3, <2>1, <2>2, MeasureIsSize
  <2>4. Size(w) = Size(x) + Size(y)
    BY <1>2, SizeBehind
  <2> QED
    BY <1>6, <2>3, <2>4
<1>8. PICK g : Walks(g, b, from, to) /\ Slice(b, from, to) = g[q].out
  BY <1>4, SliceWalks
<1>9. PICK S : y \in Seq(S) /\ \A e \in S : IsSpan(e)
  BY DEF IsBytes
<1> DEFINE kept(k) == IF k <= m THEN 0 ELSE IF k <= m + n THEN k - m ELSE n
           Is(k) == /\ g[k].pos = h[k]
                    /\ g[k].out \in Seq(S) /\ Len(g[k].out) = kept(k)
                    /\ \A i \in 1..kept(k) : g[k].out[i] = y[i]
           B == {k \in 0..q : ~Is(k)}
<1>10. B = {}
  <2> SUFFICES ASSUME B # {} PROVE FALSE
    OBVIOUS
  <2>1. B \in SUBSET Nat
    OBVIOUS
  <2>2. PICK k \in B : \A j \in B : k <= j
    BY <2>1, LeastOf
  <2>3. k \in 0..q /\ ~Is(k)
    OBVIOUS
  <2>4. k # 0
    <3>1. PICK a : a = g[0]
      OBVIOUS
    <3>2. a = [pos |-> 0, out |-> <<>>]
      BY <1>8, <3>1 DEF Walks
    <3>3. a.pos = 0 /\ a.out = <<>> /\ h[0] = 0
      BY <1>5, <3>2 DEF Measures
    <3>4. <<>> \in Seq(S) /\ Len(<<>>) = 0 /\ kept(0) = 0
      OBVIOUS
    <3>5. Is(0)
      BY <3>1, <3>3, <3>4
    <3> QED
      BY <2>3, <3>5
  <2>5. k - 1 \in 0..q /\ k \in 1..q /\ ~(k <= k - 1)
    BY <2>3, <2>4
  <2>6. Is(k - 1)
    <3>1. k - 1 \notin B
      <4> HIDE DEF B
      <4> QED
        BY <2>2, <2>5
    <3> QED
      BY <2>5, <3>1
  <2>7. PICK o \in Seq(S), pos \in Nat :
           /\ o = g[k - 1].out /\ pos = g[k - 1].pos /\ pos = h[k - 1]
           /\ Len(o) = kept(k - 1) /\ \A i \in 1..kept(k - 1) : o[i] = y[i]
    <3>1. h[k - 1] \in Nat
      BY <1>4, <1>5, <2>5, MeasureGrows
    <3> QED
      BY <2>6, <3>1
  <2>8. PICK s : s = b[k] /\ IsSpan(s) /\ s.len \in Nat \ {0}
    BY <1>4, <2>5, SpanOf
  <2>9. h[k] = pos + s.len
    BY <1>4, <1>5, <2>5, <2>7, <2>8 DEF Measures
  <2>10. g[k] = [pos |-> pos + s.len, out |-> o \o Clip(s, pos, from, to)]
    <3>1. g[k] = After(g[k - 1], b[k], from, to)
      BY <1>4, <1>8, <2>5 DEF Walks
    <3> QED
      BY <2>7, <2>8, <3>1 DEF After
  <2>11. g[k].pos = h[k]
    BY <2>9, <2>10
  <2>12. CASE k <= m
    <3>1. h[k] <= from
      <4>1. k \in 0..m /\ m \in 0..q
        <5>1. Len(z) \in Nat
          BY SpanOf
        <5> QED
          BY <1>1, <2>5, <2>12, <5>1
      <4>2. h[k] <= h[m]
        BY <1>4, <1>5, <4>1, MeasureGrows
      <4> QED
        BY <1>6, <4>2
    <3>2. Clip(s, pos, from, to) = <<>>
      <4>1. pos + s.len <= from
        BY <2>9, <3>1
      <4> QED
        BY <1>6, <2>8, <4>1, ClipNone
    <3>3. g[k].out = o
      <4>1. o \o <<>> = o
        OBVIOUS
      <4> QED
        BY <2>10, <3>2, <4>1
    <3>4. kept(k) = 0 /\ kept(k - 1) = 0
      BY <2>5, <2>12
    <3>5. Is(k)
      BY <2>7, <2>11, <3>3, <3>4
    <3> QED
      BY <2>3, <3>5
  <2>13. CASE m + n < k
    <3>1. to <= pos
      <4>1. m + n \in 0..(k - 1)
        BY <2>5, <2>13
      <4>2. h[m + n] <= h[k - 1]
        BY <1>4, <1>5, <2>5, <4>1, MeasureGrows
      <4> QED
        BY <1>6, <2>7, <4>2
    <3>2. Clip(s, pos, from, to) = <<>>
      BY <1>6, <2>8, <3>1, ClipNone
    <3>3. g[k].out = o
      <4>1. o \o <<>> = o
        OBVIOUS
      <4> QED
        BY <2>10, <3>2, <4>1
    <3>4. kept(k) = n /\ kept(k - 1) = n
      BY <2>5, <2>13
    <3>5. Is(k)
      BY <2>7, <2>11, <3>3, <3>4
    <3> QED
      BY <2>3, <3>5
  <2>14. CASE m < k /\ k <= m + n
    <3>1. from <= pos
      <4>1. m \in 0..(k - 1)
        BY <2>5, <2>14
      <4>2. h[m] <= h[k - 1]
        BY <1>4, <1>5, <2>5, <4>1, MeasureGrows
      <4> QED
        BY <1>6, <2>7, <4>2
    <3>2. pos + s.len <= to
      <4>1. k \in 0..(m + n) /\ m + n \in 0..q
        <5>1. Len(z) \in Nat
          BY SpanOf
        <5> QED
          BY <1>1, <2>5, <2>14, <5>1
      <4>2. h[k] <= h[m + n]
        BY <1>4, <1>5, <4>1, MeasureGrows
      <4> QED
        BY <1>6, <2>9, <4>2
    <3>3. Clip(s, pos, from, to) = <<s>>
      BY <2>8, <3>1, <3>2, ClipAll
    <3>4. PICK j \in 1..n : j = k - m
      BY <2>5, <2>14
    <3>5. s = y[j] /\ s \in S
      <4>1. k \in 1..(m + n) /\ k = m + j
        BY <2>5, <2>14, <3>4
      <4>2. b[k] = w[k] /\ w[k] = y[j]
        BY <1>3, <1>4, <3>4, <4>1
      <4> QED
        BY <1>1, <1>9, <2>8, <4>2
    <3>6. kept(k) = j /\ kept(k - 1) = j - 1
      BY <2>5, <2>14, <3>4
    <3> HIDE DEF kept
    <3>7. PICK v : v = o \o <<s>>
      OBVIOUS
    <3>8. v \in Seq(S) /\ Len(v) = j /\ v[j] = s /\ \A i \in 1..(j - 1) : v[i] = o[i]
      <4>1. Len(o) = j - 1 /\ <<s>> \in Seq(S) /\ Len(<<s>>) = 1 /\ <<s>>[1] = s
        BY <2>7, <3>5, <3>6
      <4>2. PICK e \in Seq(S) : e = <<s>> /\ Len(e) = 1 /\ e[1] = s
        BY <4>1
      <4>3. v = o \o e
        BY <3>7, <4>2
      <4>4. v \in Seq(S) /\ Len(v) = Len(o) + Len(e)
        BY <4>3
      <4>5. \A i \in 1..Len(o) : v[i] = o[i]
        BY <4>3
      <4>6. v[Len(o) + 1] = e[1]
        BY <4>2, <4>3
      <4> QED
        BY <3>4, <4>1, <4>2, <4>4, <4>5, <4>6
    <3>9. \A i \in 1..j : v[i] = y[i]
      <4>1. \A i \in 1..j : i = j \/ i \in 1..(j - 1)
        BY <3>4
      <4> QED
        BY <2>7, <3>5, <3>6, <3>8, <4>1
    <3>10. g[k].out = v
      BY <2>10, <3>3, <3>7
    <3>11. Is(k)
      BY <2>11, <3>6, <3>8, <3>9, <3>10
    <3> QED
      BY <2>3, <3>11
  <2> QED
    BY <2>5, <2>12, <2>13, <2>14
<1>11. PICK o \in Seq(S) : o = g[q].out /\ Len(o) = n /\ \A i \in 1..n : o[i] = y[i]
  <2>1. q \in 0..q /\ q \notin B
    BY <1>10
  <2>2. Is(q)
    BY <2>1
  <2>3. kept(q) = n
    <3>1. Len(z) \in Nat
      BY SpanOf
    <3> QED
      BY <1>1, <3>1
  <2> HIDE DEF kept
  <2> QED
    BY <2>2, <2>3
<1>12. o = y
  BY <1>1, <1>9, <1>11, SeqEqual
<1>13. Slice(b, from, to) = y
  BY <1>8, <1>11, <1>12
<1>14. Slice((x \o y) \o z, from, to) = y
  BY <1>2, <1>13
<1>15. PICK e \in Int, l \in Int : e = Size(x) /\ l = Size(x) + Size(y)
  <2>1. Size(x) \in Nat /\ Size(y) \in Nat
    BY SizeBehind
  <2> QED
    BY <2>1
<1>16. from = e /\ to = l
  BY <1>7, <1>15
<1>17. Slice((x \o y) \o z, e, l) = y
  BY <1>14, <1>16
<1> QED
  BY <1>15, <1>17, Zenon

LEMMA NoBytes == IsBytes(<<>>) /\ Size(<<>>) = 0
<1>1. PICK a, T : a = <<>> /\ T = {}
  OBVIOUS
<1>2. IsBytes(<<>>)
  <2>1. a \in Seq(T) /\ \A x \in T : IsSpan(x)
    BY <1>1
  <2>2. IsBytes(a)
    BY <2>1, Zenon DEF IsBytes
  <2> QED
    BY <1>1, <2>2
<1>3. PICK b : b = <<>>
  OBVIOUS
<1>4. Measures([i \in 0..0 |-> 0], b) /\ Len(b) = 0
  BY <1>3 DEF Measures
<1>5. PICK h : h = [i \in 0..0 |-> 0]
  OBVIOUS
<1>6. h[Len(b)] = Size(b)
  BY <1>2, <1>3, <1>4, <1>5, MeasureIsSize
<1> QED
  BY <1>2, <1>3, <1>4, <1>5, <1>6

LEMMA NothingBehind ==
  ASSUME NEW b, IsBytes(b)
  PROVE  b \o <<>> = b /\ <<>> \o b = b
<1>1. PICK S : b \in Seq(S)
  BY DEF IsBytes
<1> QED
  BY <1>1

LEMMA BehindBoth ==
  ASSUME NEW x, IsBytes(x), NEW y, IsBytes(y), NEW z, IsBytes(z)
  PROVE  (x \o y) \o z = x \o (y \o z)
<1>1. PICK S, T, U : x \in Seq(S) /\ y \in Seq(T) /\ z \in Seq(U)
  BY DEF IsBytes
<1>2. PICK V : V = S \cup T \cup U
  OBVIOUS
<1>3. x \in Seq(V) /\ y \in Seq(V) /\ z \in Seq(V)
  BY <1>1, <1>2
<1> QED
  BY <1>3, ConcatAssociative

\* The front and the end of two byte strings put together.
LEMMA SliceParts ==
  ASSUME NEW x, IsBytes(x), NEW y, IsBytes(y)
  PROVE  /\ Slice(x \o y, Size(x), Size(x \o y)) = y
         /\ Slice(x \o y, 0, Size(x)) = x
<1>1. Slice((x \o y) \o <<>>, Size(x), Size(x) + Size(y)) = y
  BY NoBytes, SliceMiddle
<1>2. Slice((<<>> \o x) \o y, Size(<<>>), Size(<<>>) + Size(x)) = x
  BY NoBytes, SliceMiddle
<1>3. IsBytes(x \o y) /\ Size(x \o y) = Size(x) + Size(y) /\ Size(x) \in Nat
  BY BytesBehind, SizeBehind
<1>4. (x \o y) \o <<>> = x \o y /\ <<>> \o x = x
  BY <1>3, NothingBehind
<1>5. Size(<<>>) = 0 /\ 0 + Size(x) = Size(x)
  BY <1>3, NoBytes
<1> QED
  BY <1>1, <1>2, <1>3, <1>4, <1>5

\* Byte strings in which no span continues the one before it.
Apart(b) == \A i \in 2..Len(b) : ~Continues(b[i - 1], b[i])
Neat(b) == IsBytes(b) /\ Apart(b)

\* Cat puts two of them behind one another when they do not join.
LEMMA CatApart ==
  ASSUME NEW a, Neat(a), NEW b, Neat(b),
         a = <<>> \/ b = <<>> \/ ~Continues(a[Len(a)], b[1])
  PROVE  Cat(a, b) = a \o b /\ Neat(a \o b)
<1>1. PICK m \in Nat, n \in Nat : m = Len(a) /\ n = Len(b)
  BY SpanOf DEF Neat
<1>2. PICK c : c = a \o b
  OBVIOUS
<1>3. /\ IsBytes(c) /\ Len(c) = m + n
      /\ \A i \in 1..m : c[i] = a[i]
      /\ \A i \in 1..n : c[m + i] = b[i]
  BY <1>1, <1>2, BytesBehind DEF Neat
<1>4. Apart(c)
  <2> SUFFICES ASSUME NEW i \in 2..(m + n) PROVE ~Continues(c[i - 1], c[i])
    BY <1>3 DEF Apart
  <2>1. CASE i <= m
    <3>1. i \in 2..m /\ i \in 1..m /\ i - 1 \in 1..m
      BY <2>1
    <3> QED
      BY <1>1, <1>3, <3>1 DEF Neat, Apart
  <2>2. CASE i = m + 1
    <3>1. /\ m \in 1..m /\ 1 \in 1..n /\ i - 1 = m
      BY <2>2
    <3>2. c[i - 1] = a[m] /\ c[i] = b[1]
      BY <1>3, <2>2, <3>1
    <3>3. a # <<>> /\ b # <<>>
      BY <1>1, <3>1
    <3> QED
      BY <1>1, <3>2, <3>3
  <2>3. CASE m + 1 < i
    <3>1. PICK j \in 2..n : i = m + j
      BY <2>3
    <3>2. j \in 1..n /\ j - 1 \in 1..n /\ i - 1 = m + (j - 1)
      BY <3>1
    <3>3. c[i - 1] = b[j - 1] /\ c[i] = b[j]
      BY <1>3, <3>1, <3>2
    <3> QED
      BY <1>1, <3>1, <3>3 DEF Neat, Apart
  <2> QED
    BY <2>1, <2>2, <2>3
<1>5. PICK g : Joins(g, a, b) /\ Cat(a, b) = g[n]
  BY <1>1, CatJoins
<1>6. PICK U : c \in Seq(U)
  BY <1>3 DEF IsBytes
<1> DEFINE Is(k) == g[k] \in Seq(U) /\ Len(g[k]) = m + k /\ \A i \in 1..(m + k) : g[k][i] = c[i]
           B == {k \in 0..n : ~Is(k)}
<1>7. B = {}
  <2> SUFFICES ASSUME B # {} PROVE FALSE
    OBVIOUS
  <2>1. B \in SUBSET Nat
    OBVIOUS
  <2>2. PICK k \in B : \A j \in B : k <= j
    BY <2>1, LeastOf
  <2>3. k \in 0..n /\ ~Is(k)
    OBVIOUS
  <2>4. k # 0
    <3>1. g[0] = a
      BY <1>5 DEF Joins
    <3>2. a \in Seq(U)
      <4>1. PICK S : a \in Seq(S)
        BY DEF Neat, IsBytes
      <4>2. \A i \in 1..m : a[i] \in U
        <5>1. \A i \in 1..m : i \in 1..Len(c)
          BY <1>3
        <5> QED
          BY <1>3, <1>6, <5>1
      <4> QED
        BY <1>1, <4>1, <4>2
    <3>3. Is(0)
      BY <1>1, <1>3, <3>1, <3>2
    <3> QED
      BY <2>3, <3>3
  <2>5. k - 1 \in 0..n /\ k \in 1..n /\ ~(k <= k - 1)
    BY <2>3, <2>4
  <2>6. Is(k - 1)
    <3>1. k - 1 \notin B
      <4> HIDE DEF B
      <4> QED
        BY <2>2, <2>5
    <3> QED
      BY <2>5, <3>1
  <2>7. PICK o \in Seq(U) : o = g[k - 1] /\ Len(o) = m + (k - 1) /\ \A i \in 1..(m + (k - 1)) : o[i] = c[i]
    BY <2>6
  <2>8. PICK s \in U : s = b[k] /\ s = c[m + k]
    <3>1. m + k \in 1..Len(c)
      BY <1>3, <2>5
    <3> QED
      BY <1>3, <1>6, <2>5, <3>1
  <2>9. g[k] = Join(o, s)
    BY <1>1, <1>5, <2>5, <2>7, <2>8 DEF Joins
  <2>10. Join(o, s) = Append(o, s)
    <3>1. CASE m + (k - 1) = 0
      BY <2>7, <3>1, JoinApart
    <3>2. CASE m + (k - 1) # 0
      <4>1. PICK i \in 2..(m + n) : i = m + k
        BY <2>5, <3>2
      <4>2. Last(o) = c[i - 1]
        <5>1. i - 1 \in 1..(m + (k - 1)) /\ Len(o) = i - 1
          BY <2>5, <2>7, <4>1
        <5> QED
          BY <2>7, <5>1 DEF Last
      <4>3. ~Continues(c[i - 1], c[i])
        BY <1>3, <1>4, <4>1 DEF Apart
      <4> QED
        BY <2>8, <4>1, <4>2, <4>3, JoinApart
    <3> QED
      BY <3>1, <3>2
  <2>11. PICK v : v = Append(o, s)
    OBVIOUS
  <2>12. v \in Seq(U) /\ Len(v) = m + k /\ v[m + k] = s /\ \A i \in 1..(m + (k - 1)) : v[i] = o[i]
    <3>1. v \in Seq(U) /\ Len(v) = Len(o) + 1 /\ v[Len(o) + 1] = s /\ \A i \in 1..Len(o) : v[i] = o[i]
      BY <2>11
    <3>2. Len(o) + 1 = m + k
      BY <2>5, <2>7
    <3> QED
      BY <2>7, <3>1, <3>2
  <2>13. \A i \in 1..(m + k) : v[i] = c[i]
    <3>1. ASSUME NEW i \in 1..(m + k) PROVE v[i] = c[i]
      <4>1. CASE i = m + k
        BY <2>8, <2>12, <4>1
      <4>2. CASE i # m + k
        <5>1. i \in 1..(m + (k - 1))
          BY <2>5, <4>2
        <5> QED
          BY <2>7, <2>12, <5>1
      <4> QED
        BY <4>1, <4>2
    <3> QED
      BY <3>1
  <2>14. g[k] = v
    BY <2>9, <2>10, <2>11
  <2>15. Is(k)
    BY <2>12, <2>13, <2>14
  <2> QED
    BY <2>3, <2>15
<1>8. PICK o \in Seq(U) : o = g[n] /\ Len(o) = m + n /\ \A i \in 1..(m + n) : o[i] = c[i]
  <2>1. n \in 0..n /\ n \notin B
    BY <1>7
  <2> QED
    BY <2>1
<1>9. o = c
  BY <1>3, <1>6, <1>8, SeqEqual
<1>10. Cat(a, b) = c /\ Neat(c)
  BY <1>3, <1>4, <1>5, <1>8, <1>9 DEF Neat
<1> QED
  BY <1>2, <1>10

\* A byte string of one span, and of a few literal bytes.
LEMMA NeatSpan ==
  ASSUME NEW s, IsSpan(s)
  PROVE  Neat(<<s>>) /\ Len(<<s>>) = 1 /\ <<s>>[1] = s /\ Size(<<s>>) = s.len
<1>1. PICK b : b = <<s>>
  OBVIOUS
<1>2. Len(b) = 1 /\ b[1] = s
  BY <1>1
<1>3. IsBytes(b) /\ Size(b) = s.len
  BY <1>1, FewSpans, SizeSmall
<1>4. Apart(b)
  BY <1>2 DEF Apart
<1> QED
  BY <1>1, <1>2, <1>3, <1>4 DEF Neat

\* The first byte of a byte string is a literal one.
Leads(b) == Len(b) >= 1 /\ b[1].src = <<"byte">>

LEMMA LeadsApart ==
  ASSUME NEW s, NEW b, Leads(b)
  PROVE  ~Continues(s, b[1])
  BY DEF Leads, Continues

\* What push_data puts in front of n bytes.
Header(n) == CASE n < 76       -> Byte(n)
               [] n \in 76..255 -> Byte(76) \o Byte(n)
               [] OTHER        -> Byte(77) \o Byte(n % 256) \o Byte(n \div 256)

LEMMA HeaderIs ==
  ASSUME NEW n \in Nat
  PROVE  /\ n < 76 => Header(n) = Byte(n) /\ push_overhead(n) = 1
         /\ n \in 76..255 => Header(n) = Byte(76) \o Byte(n) /\ push_overhead(n) = 2
         /\ n > 255 => /\ Header(n) = (Byte(77) \o Byte(n % 256)) \o Byte(n \div 256)
                       /\ push_overhead(n) = 3
<1>1. ASSUME n < 76 PROVE Header(n) = Byte(n) /\ push_overhead(n) = 1
  <2>1. n <= 75 /\ n \notin 76..255
    BY <1>1
  <2>2. push_overhead(n) = 1
    BY <2>1, Zenon DEF push_overhead
  <2>3. Header(n) = Byte(n)
    <3>1. n \notin 76..255
      BY <1>1
    <3> QED
      BY <1>1, <3>1, Zenon DEF Header
  <2> QED
    BY <2>2, <2>3
<1>2. ASSUME n \in 76..255 PROVE Header(n) = Byte(76) \o Byte(n) /\ push_overhead(n) = 2
  <2>1. ~(n < 76) /\ ~(n <= 75)
    BY <1>2
  <2>2. Header(n) = Byte(76) \o Byte(n)
    BY <1>2, <2>1, Zenon DEF Header
  <2>3. push_overhead(n) = 2
    BY <1>2, <2>1, Zenon DEF push_overhead
  <2> QED
    BY <2>2, <2>3
<1>3. ASSUME n > 255
      PROVE  /\ Header(n) = (Byte(77) \o Byte(n % 256)) \o Byte(n \div 256)
             /\ push_overhead(n) = 3
  <2>1. ~(n < 76) /\ ~(n <= 75) /\ n \notin 76..255
    BY <1>3
  <2>2. Header(n) = (Byte(77) \o Byte(n % 256)) \o Byte(n \div 256)
    BY <2>1, Zenon DEF Header
  <2>3. push_overhead(n) = 3
    BY <2>1, Zenon DEF push_overhead
  <2> QED
    BY <2>2, <2>3
<1> QED
  BY <1>1, <1>2, <1>3

\* A byte string that begins with a literal byte and ends with one, n of them.
Literal(b, n) == /\ Neat(b) /\ Leads(b) /\ Len(b) = n /\ Size(b) = n
                 /\ b[n].src = <<"byte">>

LEMMA FewBytes ==
  ASSUME NEW v \in Int
  PROVE  /\ Literal(Byte(v), 1)
         /\ \A b : \A n \in Nat : Literal(b, n) => Literal(b \o Byte(v), n + 1)
<1>1. PICK s : s = ByteSpan(v) /\ IsSpan(s) /\ s.len = 1 /\ s.src = <<"byte">> /\ Byte(v) = <<s>>
  BY ByteIs DEF ByteSpan
<1>2. PICK c : c = <<s>> /\ Neat(c) /\ Len(c) = 1 /\ c[1] = s /\ Size(c) = 1
  BY <1>1, NeatSpan
<1>3. Literal(c, 1) /\ Leads(c)
  BY <1>1, <1>2 DEF Literal, Leads
<1>4. ASSUME NEW b, NEW n \in Nat, Literal(b, n) PROVE Literal(b \o c, n + 1)
  <2>1. ~Continues(b[Len(b)], c[1])
    BY <1>3, LeadsApart
  <2>2. Neat(b \o c)
    BY <1>2, <1>4, <2>1, CatApart DEF Literal
  <2>3. /\ Len(b \o c) = n + 1
        /\ \A i \in 1..n : (b \o c)[i] = b[i]
        /\ \A i \in 1..1 : (b \o c)[n + i] = c[i]
    BY <1>2, <1>4, BytesBehind DEF Literal, Neat
  <2>4. Size(b \o c) = n + 1
    BY <1>2, <1>4, SizeBehind DEF Literal, Neat
  <2>5. (b \o c)[1] = b[1] /\ (b \o c)[n + 1] = s
    <3>1. 1 \in 1..n /\ 1 \in 1..1
      BY <1>4 DEF Literal, Leads
    <3> QED
      BY <1>2, <2>3, <3>1
  <2> QED
    BY <1>1, <1>4, <2>2, <2>3, <2>4, <2>5 DEF Literal, Leads
<1> QED
  BY <1>1, <1>2, <1>3, <1>4

LEMMA HeaderLiteral ==
  ASSUME NEW n \in Nat
  PROVE  Literal(Header(n), push_overhead(n)) /\ push_overhead(n) \in 1..3
<1>1. \A v \in Int : Literal(Byte(v), 1)
  BY FewBytes
<1>2. \A v \in Int : \A b : \A k \in Nat : Literal(b, k) => Literal(b \o Byte(v), k + 1)
  BY FewBytes, Zenon
<1>3. CASE n < 76
  BY <1>1, <1>3, HeaderIs
<1>4. CASE n \in 76..255
  <2>1. Literal(Byte(76) \o Byte(n), 1 + 1)
    BY <1>1, <1>2
  <2>2. Header(n) = Byte(76) \o Byte(n) /\ push_overhead(n) = 2
    BY <1>4, HeaderIs
  <2>3. 1 + 1 = 2 /\ 2 \in 1..3
    OBVIOUS
  <2> QED
    BY <2>1, <2>2, <2>3
<1>5. CASE n > 255
  <2>1. PICK lo \in Int, hi \in Int : lo = n % 256 /\ hi = n \div 256
    OBVIOUS
  <2>2. Literal(Byte(77) \o Byte(lo), 1 + 1)
    BY <1>1, <1>2
  <2>3. Literal((Byte(77) \o Byte(lo)) \o Byte(hi), 2 + 1)
    BY <1>2, <2>2
  <2>4. Header(n) = (Byte(77) \o Byte(lo)) \o Byte(hi) /\ push_overhead(n) = 3
    BY <1>5, <2>1, HeaderIs
  <2>5. 2 + 1 = 3 /\ 3 \in 1..3
    OBVIOUS
  <2> QED
    BY <2>3, <2>4, <2>5
<1> QED
  BY <1>3, <1>4, <1>5

\* push_data of n bytes: the header and the data.
LEMMA PushIs ==
  ASSUME NEW d, Neat(d), NEW n \in Nat, n = Size(d)
  PROVE  /\ push_data(d) = Header(n) \o d
         /\ Neat(push_data(d)) /\ Leads(push_data(d))
         /\ Size(push_data(d)) = push_overhead(n) + n
<1>0. PICK k \in 1..3 : k = push_overhead(n) /\ Literal(Header(n), k)
  BY HeaderLiteral
<1>1. PICK h : h = Header(n) /\ k = push_overhead(n) /\ Literal(h, k)
  BY <1>0
<1>2. push_data(d) = Cat(h, d)
  BY <1>1 DEF push_data, Header
<1>3. ~Continues(h[Len(h)], d[1])
  BY <1>1 DEF Literal, Continues
<1>4. Cat(h, d) = h \o d /\ Neat(h \o d)
  BY <1>1, <1>3, CatApart DEF Literal
<1>5. Size(h \o d) = k + n
  BY <1>1, SizeBehind DEF Literal, Neat
<1>6. Len(h \o d) = k + Len(d) /\ Len(d) \in Nat /\ \A i \in 1..k : (h \o d)[i] = h[i]
  <2>1. IsBytes(h) /\ IsBytes(d) /\ Len(h) = k
    BY <1>1 DEF Literal, Neat
  <2>2. Len(h \o d) = Len(h) + Len(d) /\ \A i \in 1..Len(h) : (h \o d)[i] = h[i]
    BY <2>1, BytesBehind
  <2>3. Len(d) \in Nat
    BY <2>1, SpanOf
  <2> QED
    BY <2>1, <2>2, <2>3
<1>7. Leads(h \o d)
  BY <1>1, <1>6 DEF Literal, Leads
<1> QED
  BY <1>1, <1>2, <1>4, <1>5, <1>7

\* A literal byte behind i others.
LEMMA ByteOf ==
  ASSUME NEW i \in Nat, NEW x, IsBytes(x), Len(x) = i, Size(x) = i,
         NEW v \in Int, NEW z, IsBytes(z)
  PROVE  ByteAt((x \o Byte(v)) \o z, i) = v
<1>0. PICK b : b = (x \o Byte(v)) \o z
  OBVIOUS
<1>1. PICK y : y = Byte(v) /\ y = <<ByteSpan(v)>>
  BY ByteIs
<1>2. IsBytes(y) /\ Len(y) = 1 /\ Size(y) = 1
  BY <1>1, FewBytes DEF Literal, Neat
<1>3. PICK w : w = x \o y
  OBVIOUS
<1>4. IsBytes(w) /\ Len(w) = i + 1
  <2>1. IsBytes(x \o y) /\ Len(x \o y) = Len(x) + Len(y)
    BY <1>2, BytesBehind, Zenon
  <2> QED
    BY <1>2, <1>3, <2>1
<1>5. Len(z) \in Nat
  BY SpanOf
<1>6. IsBytes(b) /\ Len(b) = (i + 1) + Len(z) /\ \A j \in 1..(i + 1) : b[j] = w[j]
  <2>1. /\ IsBytes(w \o z) /\ Len(w \o z) = Len(w) + Len(z)
        /\ \A j \in 1..Len(w) : (w \o z)[j] = w[j]
    BY <1>4, BytesBehind, Zenon
  <2>2. b = w \o z
    BY <1>0, <1>1, <1>3
  <2> QED
    BY <1>4, <2>1, <2>2
<1>7. Lesser(Len(b), i + 1) = i + 1
  BY <1>5, <1>6 DEF Lesser
<1>8. SubSeq(b, 1, i + 1) = w
  <2>1. PICK U : b \in Seq(U)
    BY <1>6 DEF IsBytes
  <2>2. PICK k \in Nat : k = i + 1 /\ k <= Len(b)
    BY <1>5, <1>6
  <2>3. /\ SubSeq(b, 1, k) \in Seq(U) /\ Len(SubSeq(b, 1, k)) = k
        /\ \A j \in 1..k : SubSeq(b, 1, k)[j] = b[j]
    BY <2>1, <2>2
  <2>4. PICK c \in Seq(U) : c = SubSeq(b, 1, k)
    BY <2>3
  <2>5. PICK W : w \in Seq(W)
    BY <1>4 DEF IsBytes
  <2>6. Len(c) = Len(w) /\ \A j \in 1..Len(c) : c[j] = w[j]
    BY <1>4, <1>6, <2>2, <2>3, <2>4
  <2>7. c \in Seq(U \cup W) /\ w \in Seq(U \cup W)
    BY <2>5
  <2>8. c = w
    BY <2>6, <2>7, SeqEqual
  <2> QED
    BY <2>2, <2>4, <2>8
<1>9. Slice(w, i, i + 1) = y
  <2>1. Slice(x \o y, Size(x), Size(x \o y)) = y
    BY <1>2, SliceParts
  <2>2. Size(x \o y) = i + 1
    BY <1>2, SizeBehind
  <2> QED
    BY <1>3, <2>1, <2>2
<1>10. Head(y) = ByteSpan(v)
  BY <1>1
<1>11. Head(Slice(SubSeq(b, 1, Lesser(Len(b), i + 1)), i, i + 1)) = ByteSpan(v)
  BY <1>7, <1>8, <1>9, <1>10
<1>12. ByteSpan(v).src = <<"byte">> /\ ByteSpan(v).at = v
  BY DEF ByteSpan
<1>13. ByteAt(b, i) = v
  BY <1>11, <1>12 DEF ByteAt
<1> QED
  BY <1>0, <1>13

\* The header of a push says how long it is.
Read(b, n) == \E op \in 0..78 : /\ ByteAt(b, 0) = op /\ PushHeader(op) = push_overhead(n)
                                /\ PushLength(b, op) = n

\* The little-endian length behind the opcode.
LEMMA LengthRead ==
  ASSUME NEW b
  PROVE  /\ ByteAt(b, 1) \in Nat => PushLength(b, 76) = ByteAt(b, 1)
         /\ ByteAt(b, 1) \in Nat /\ ByteAt(b, 2) \in Nat
              => PushLength(b, 77) = ByteAt(b, 1) + 256 * ByteAt(b, 2)
<1>0. PICK one \in Nat, two \in Nat : one = 1 /\ two = 2
  OBVIOUS
<1>1. PICK f : f = [i \in 1..1 |-> ByteAt(b, i) * 256^(i - 1)]
  OBVIOUS
<1>2. PICK e : e = [i \in 1..2 |-> ByteAt(b, i) * 256^(i - 1)]
  OBVIOUS
<1>3. /\ f[1] = ByteAt(b, 1) * 256^(1 - 1)
      /\ e[1] = ByteAt(b, 1) * 256^(1 - 1) /\ e[2] = ByteAt(b, 2) * 256^(2 - 1)
  BY <1>1, <1>2
<1>4. 1 - 1 = 0 /\ 2 - 1 = 1 /\ 256^0 = 1 /\ 256^1 = 256
  OBVIOUS
<1>5. <<>> \o f = f /\ Len(f) = one /\ <<>> \o e = e /\ Len(e) = two
  <2>1. f = [i \in 1..one |-> f[i]] /\ e = [i \in 1..two |-> e[i]]
    BY <1>0, <1>1, <1>2
  <2> QED
    BY <2>1, Listed
<1>6. PICK g : Adds(g, f) /\ Sum(f) = g[one]
  BY <1>5, SumAdds
<1>7. PICK h : Adds(h, e) /\ Sum(e) = h[two]
  BY <1>5, SumAdds
<1>8. Sum(f) = 0 + f[1] /\ Sum(e) = (0 + e[1]) + e[2]
  BY <1>0, <1>5, <1>6, <1>7 DEF Adds
<1>9. PushLength(b, 76) = Sum(<<>> \o f)
  <2>1. PushHeader(76) = 2 /\ ~(76 <= 75)
    BY DEF PushHeader
  <2>2. Each(2 - 1, LAMBDA i : ByteAt(b, i) * 256^(i - 1)) = <<>> \o f
    BY <1>1 DEF Each
  <2> QED
    BY <2>1, <2>2, Zenon DEF PushLength
<1>10. PushLength(b, 77) = Sum(<<>> \o e)
  <2>1. PushHeader(77) = 3 /\ ~(77 <= 75)
    BY DEF PushHeader
  <2>2. Each(3 - 1, LAMBDA i : ByteAt(b, i) * 256^(i - 1)) = <<>> \o e
    BY <1>2 DEF Each
  <2> QED
    BY <2>1, <2>2, Zenon DEF PushLength
<1>11. ASSUME NEW u \in Nat, u = ByteAt(b, 1) PROVE PushLength(b, 76) = u
  <2>1. f[1] = u
    BY <1>3, <1>4, <1>11
  <2> QED
    BY <1>5, <1>8, <1>9, <2>1
<1>12. ASSUME NEW u \in Nat, NEW v \in Nat, u = ByteAt(b, 1), v = ByteAt(b, 2)
       PROVE  PushLength(b, 77) = u + 256 * v
  <2>1. e[1] = u /\ e[2] = v * 256
    BY <1>3, <1>4, <1>12
  <2> QED
    BY <1>5, <1>8, <1>10, <2>1
<1> QED
  BY <1>11, <1>12

LEMMA HeaderRead ==
  ASSUME NEW n \in Nat \ {0}, NEW z, IsBytes(z)
  PROVE  Read(Header(n) \o z, n)
<1>0. PICK zero \in Nat, one \in Nat, two \in Nat : zero = 0 /\ one = 1 /\ two = 2
  OBVIOUS
<1>1. IsBytes(<<>>) /\ Len(<<>>) = zero /\ Size(<<>>) = zero
  BY <1>0, NoBytes
<1>2. \A v \in Int : IsBytes(Byte(v)) /\ Len(Byte(v)) = one /\ Size(Byte(v)) = one
  BY <1>0, FewBytes DEF Literal, Neat
<1>3. ASSUME NEW v \in Int, NEW y, IsBytes(y) PROVE ByteAt(Byte(v) \o y, zero) = v
  <2>1. ByteAt((<<>> \o Byte(v)) \o y, zero) = v
    <3>1. PICK x : x = <<>>
      OBVIOUS
    <3>2. ByteAt((x \o Byte(v)) \o y, zero) = v
      <4>1. IsBytes(x) /\ Len(x) = zero /\ Size(x) = zero
        BY <1>1, <3>1
      <4> QED
        BY <1>3, <4>1, ByteOf
    <3> QED
      BY <3>1, <3>2
  <2>2. <<>> \o Byte(v) = Byte(v)
    BY <1>2, NothingBehind
  <2> QED
    BY <2>1, <2>2
<1>4. ASSUME NEW v \in Int, NEW w \in Int, NEW y, IsBytes(y)
      PROVE  /\ ByteAt((Byte(v) \o Byte(w)) \o y, zero) = v
             /\ ByteAt((Byte(v) \o Byte(w)) \o y, one) = w
  <2>1. IsBytes(Byte(v)) /\ IsBytes(Byte(w)) /\ Len(Byte(v)) = one /\ Size(Byte(v)) = one
    BY <1>2
  <2>2. (Byte(v) \o Byte(w)) \o y = Byte(v) \o (Byte(w) \o y)
    BY <1>4, <2>1, BehindBoth
  <2>3. IsBytes(Byte(w) \o y)
    BY <1>4, <2>1, BytesBehind
  <2>4. ByteAt(Byte(v) \o (Byte(w) \o y), zero) = v
    BY <1>3, <2>3
  <2>5. ByteAt((Byte(v) \o Byte(w)) \o y, one) = w
    BY <1>4, <2>1, ByteOf
  <2> QED
    BY <2>2, <2>4, <2>5
<1>5. CASE n < 76
  <2>1. Header(n) = Byte(n) /\ push_overhead(n) = 1
    BY <1>5, HeaderIs
  <2>2. ByteAt(Byte(n) \o z, zero) = n
    BY <1>3
  <2>3. n \in 0..78 /\ n <= 75 /\ n # 76 /\ n # 77 /\ n # 78
    BY <1>5
  <2>4. PushHeader(n) = 1 /\ PushLength(Byte(n) \o z, n) = n
    BY <2>3, Zenon DEF PushHeader, PushLength
  <2> QED
    BY <1>0, <2>1, <2>2, <2>3, <2>4, Zenon DEF Read
<1>6. CASE n \in 76..255
  <2>1. Header(n) = Byte(76) \o Byte(n) /\ push_overhead(n) = 2
    BY <1>6, HeaderIs
  <2>2. PICK b : b = (Byte(76) \o Byte(n)) \o z
    OBVIOUS
  <2>3. ByteAt(b, zero) = 76 /\ ByteAt(b, one) = n
    BY <1>4, <2>2
  <2>4. PushHeader(76) = 2 /\ 76 \in 0..78
    BY DEF PushHeader
  <2>5. PushLength(b, 76) = n
    BY <1>0, <2>3, LengthRead
  <2> QED
    BY <1>0, <2>1, <2>2, <2>3, <2>4, <2>5, Zenon DEF Read
<1>7. CASE n > 255
  <2>1. PICK lo \in Nat, hi \in Nat : lo = n % 256 /\ hi = n \div 256 /\ lo + 256 * hi = n
    OBVIOUS
  <2>2. Header(n) = (Byte(77) \o Byte(lo)) \o Byte(hi) /\ push_overhead(n) = 3
    BY <1>7, <2>1, HeaderIs
  <2>3. IsBytes(Byte(77)) /\ IsBytes(Byte(lo)) /\ IsBytes(Byte(hi))
    BY <1>2
  <2>4. PICK x : x = Byte(77) \o Byte(lo) /\ IsBytes(x) /\ Len(x) = two /\ Size(x) = two
    <3>1. IsBytes(Byte(77) \o Byte(lo)) /\ Len(Byte(77) \o Byte(lo)) = Len(Byte(77)) + Len(Byte(lo))
      BY <2>3, BytesBehind, Zenon
    <3>2. Size(Byte(77) \o Byte(lo)) = Size(Byte(77)) + Size(Byte(lo))
      BY <2>3, SizeBehind, Zenon
    <3>3. /\ Len(Byte(77)) = one /\ Len(Byte(lo)) = one
          /\ Size(Byte(77)) = one /\ Size(Byte(lo)) = one
      BY <1>2
    <3>4. Len(Byte(77) \o Byte(lo)) = one + one /\ Size(Byte(77) \o Byte(lo)) = one + one
      BY <3>1, <3>2, <3>3, Zenon
    <3>5. one + one = two
      BY <1>0
    <3> QED
      BY <3>1, <3>4, <3>5, Zenon
  <2>5. PICK b : b = (x \o Byte(hi)) \o z
    OBVIOUS
  <2>6. ByteAt(b, two) = hi
    <3>1. IsBytes(x) /\ Len(x) = two /\ Size(x) = two
      BY <2>4
    <3>2. ByteAt((x \o Byte(hi)) \o z, two) = hi
      BY <3>1, ByteOf
    <3> QED
      BY <2>5, <3>2, Zenon
  <2>7. b = (Byte(77) \o Byte(lo)) \o (Byte(hi) \o z)
    <3>1. IsBytes(x) /\ IsBytes(Byte(hi))
      BY <2>3, <2>4
    <3>2. (x \o Byte(hi)) \o z = x \o (Byte(hi) \o z)
      BY <3>1, BehindBoth
    <3> QED
      BY <2>4, <2>5, <3>2, Zenon
  <2>8. IsBytes(Byte(hi) \o z)
    BY <2>3, BytesBehind, Zenon
  <2>9. ByteAt(b, zero) = 77 /\ ByteAt(b, one) = lo
    BY <1>4, <2>7, <2>8
  <2>10. PushHeader(77) = 3 /\ 77 \in 0..78
    BY DEF PushHeader
  <2>11. PushLength(b, 77) = n
    BY <1>0, <2>1, <2>6, <2>9, LengthRead
  <2>12. b = Header(n) \o z
    BY <2>2, <2>4, <2>5, Zenon
  <2>13. Read(b, n)
    BY <1>0, <2>2, <2>9, <2>10, <2>11, Zenon DEF Read
  <2> QED
    BY <2>12, <2>13, Zenon
<1> QED
  BY <1>5, <1>6, <1>7

\* parse_push undoes push_data, whatever follows.
LEMMA PushRead ==
  ASSUME NEW d, Neat(d), NEW n \in Nat \ {0}, n = Size(d), NEW rest, IsBytes(rest),
         NEW k \in Nat, k = push_overhead(n) + n
  PROVE  /\ parse_push(push_data(d) \o rest) = [ok |-> TRUE, data |-> d, used |-> k]
         /\ Slice(push_data(d) \o rest, k, Size(push_data(d) \o rest)) = rest
<1>1. PICK p : p = push_data(d) /\ p = Header(n) \o d /\ Neat(p) /\ Leads(p) /\ Size(p) = k
  BY PushIs
<1>2. PICK h : h = Header(n) /\ IsBytes(h)
  BY HeaderLiteral DEF Literal, Neat
<1>3. PICK o \in 1..3 : o = push_overhead(n) /\ Size(h) = o
  BY <1>2, HeaderLiteral DEF Literal
<1>4. IsBytes(d) /\ IsBytes(p)
  BY <1>1 DEF Neat
<1>5. PICK b : b = p \o rest
  OBVIOUS
<1>6. IsBytes(b) /\ Slice(b, k, Size(b)) = rest
  BY <1>1, <1>4, <1>5, BytesBehind, SliceParts
<1>7. PICK q \in Nat : q = Size(b) /\ q >= k
  <2>1. Size(b) = k + Size(rest) /\ Size(rest) \in Nat
    BY <1>1, <1>4, <1>5, SizeBehind
  <2> QED
    BY <2>1
<1>8. PICK z : z = d \o rest /\ IsBytes(z) /\ b = h \o z
  <2>1. IsBytes(d \o rest)
    BY <1>4, BytesBehind, Zenon
  <2>2. (h \o d) \o rest = h \o (d \o rest)
    <3>1. IsBytes(h) /\ IsBytes(d)
      BY <1>2, <1>4
    <3> QED
      BY <3>1, BehindBoth
  <2>3. b = h \o (d \o rest)
    BY <1>1, <1>2, <1>5, <2>2, Zenon
  <2> QED
    BY <2>1, <2>3, Zenon
<1>9. PICK op \in 0..78 : ByteAt(b, 0) = op /\ PushHeader(op) = o /\ PushLength(b, op) = n
  <2>1. Read(Header(n) \o z, n)
    BY <1>8, HeaderRead
  <2>2. Read(b, n)
    BY <1>2, <1>8, <2>1
  <2> QED
    BY <1>3, <2>2 DEF Read
<1>10. Slice(b, o, o + n) = d
  <2>1. Slice((h \o d) \o rest, Size(h), Size(h) + Size(d)) = d
    BY <1>2, <1>4, SliceMiddle
  <2> QED
    BY <1>1, <1>2, <1>3, <1>5, <2>1
<1>11. b # <<>>
  <2>1. Size(<<>>) = 0 /\ q # 0
    BY <1>3, <1>7, NoBytes
  <2> QED
    BY <1>7, <2>1
<1>12. /\ ~(op \notin 0..78 \/ Size(b) < o)
       /\ ~(Size(b) < o + n) /\ o + n = k
  BY <1>3, <1>7
<1>13. parse_push(b) = [ok |-> TRUE, data |-> d, used |-> k]
  BY <1>9, <1>10, <1>11, <1>12, Zenon DEF parse_push
<1> QED
  BY <1>1, <1>5, <1>6, <1>13

\* The steps of parse_script_pushes: what is left of the script, and the pushes so far.
Taken(acc, p) == IF p.ok THEN [rest |-> Slice(acc.rest, p.used, Size(acc.rest)),
                               out  |-> Append(acc.out, p.data)]
                 ELSE [acc EXCEPT !.rest = <<>>]

PushTaken(acc) == Taken(acc, parse_push(acc.rest))

Reads(g, b) == g[0] = [rest |-> b, out |-> <<>>] /\ \A i \in 1..Len(b) : g[i] = PushTaken(g[i - 1])

LEMMA ReadsExists ==
  ASSUME NEW b, Len(b) \in Nat
  PROVE  \E g : Reads(g, b) /\ g = [i \in 0..Len(b) |-> g[i]]
<1> DEFINE Good(g, k) == /\ g = [i \in 0..k |-> g[i]]
                         /\ g[0] = [rest |-> b, out |-> <<>>]
                         /\ \A i \in 1..k : g[i] = PushTaken(g[i - 1])
           B == {k \in 0..Len(b) : ~ \E g : Good(g, k)}
<1>1. B = {}
  <2> SUFFICES ASSUME B # {} PROVE FALSE
    OBVIOUS
  <2>1. B \in SUBSET Nat
    OBVIOUS
  <2>2. PICK k \in B : \A j \in B : k <= j
    BY <2>1, LeastOf
  <2>3. k \in 0..Len(b) /\ k \in Nat /\ ~ \E g : Good(g, k)
    OBVIOUS
  <2>4. CASE k = 0
    <3> DEFINE g == [i \in 0..0 |-> [rest |-> b, out |-> <<>>]]
    <3>1. Good(g, k)
      BY <2>4
    <3> QED
      BY <2>3, <3>1
  <2>5. CASE k # 0
    <3>1. k - 1 \in 0..Len(b) /\ k - 1 \notin B /\ k \in 1..Len(b)
      <4>1. k - 1 \in 0..Len(b) /\ k \in 1..Len(b) /\ ~(k <= k - 1)
        BY <2>3, <2>5
      <4> HIDE DEF B
      <4> QED
        BY <2>2, <4>1
    <3>2. PICK g : Good(g, k - 1)
      BY <3>1
    <3>3. PICK e : e = PushTaken(g[k - 1])
      OBVIOUS
    <3> DEFINE f == [i \in 0..k |-> IF i = k THEN e ELSE g[i]]
    <3>4. f[0] = [rest |-> b, out |-> <<>>]
      BY <2>3, <2>5, <3>2
    <3>5. ASSUME NEW i \in 1..k PROVE f[i] = PushTaken(f[i - 1])
      <4>1. f[i - 1] = g[i - 1]
        BY <2>3, <3>5
      <4>2. i # k => i \in 1..(k - 1) /\ f[i] = g[i]
        BY <2>3, <3>5
      <4>3. i = k => f[i] = e
        BY <2>3
      <4> HIDE DEF f
      <4> QED
        BY <3>2, <3>3, <4>1, <4>2, <4>3
    <3>6. f = [i \in 0..k |-> f[i]]
      OBVIOUS
    <3> HIDE DEF f
    <3>7. Good(f, k)
      BY <3>4, <3>5, <3>6
    <3> QED
      BY <2>3, <3>7
  <2> QED
    BY <2>4, <2>5
<1>2. PICK g : Good(g, Len(b))
  BY <1>1
<1> QED
  BY <1>2 DEF Reads

LEMMA PushesReads ==
  ASSUME NEW b, Len(b) \in Nat
  PROVE  \E g : Reads(g, b) /\ parse_script_pushes(b) = g[Len(b)].out
<1> DEFINE Eqn(g) == g = [i \in 0..Len(b) |-> IF i = 0 THEN [rest |-> b, out |-> <<>>] ELSE PushTaken(g[i - 1])]
           F == CHOOSE g : Eqn(g)
<1>1. parse_script_pushes(b) = F[Len(b)].out
  <2> DEFINE k == [i \in 1..Len(b) |-> i]
             E == CHOOSE g : g = [i \in 0..Len(k) |-> IF i = 0 THEN [rest |-> b, out |-> <<>>] ELSE PushTaken(g[i - 1])]
  <2>1. Len(k) = Len(b)
    OBVIOUS
  <2>2. parse_script_pushes(b) = E[Len(k)].out
    BY DEF parse_script_pushes, Fold, PushTaken, Taken
  <2> HIDE DEF k
  <2> QED
    BY <2>1, <2>2
<1>2. PICK g : Reads(g, b) /\ g = [i \in 0..Len(b) |-> g[i]]
  BY ReadsExists
<1>3. Eqn(g)
  <2>1. \A i \in 0..Len(b) : g[i] = IF i = 0 THEN [rest |-> b, out |-> <<>>] ELSE PushTaken(g[i - 1])
    <3>1. \A i \in 0..Len(b) : i # 0 => i \in 1..Len(b)
      OBVIOUS
    <3> QED
      BY <1>2, <3>1 DEF Reads
  <2> QED
    BY <1>2, <2>1
<1> HIDE DEF Eqn
<1>4. Eqn(F)
  BY <1>3
<1> HIDE DEF F
<1>5. Reads(F, b)
  <2>1. F = [i \in 0..Len(b) |-> IF i = 0 THEN [rest |-> b, out |-> <<>>] ELSE PushTaken(F[i - 1])]
    BY <1>4 DEF Eqn
  <2>2. \A i \in 1..Len(b) : i \in 0..Len(b) /\ i # 0
    OBVIOUS
  <2>3. 0 \in 0..Len(b)
    OBVIOUS
  <2> QED
    BY <2>1, <2>2, <2>3 DEF Reads
<1> QED
  BY <1>1, <1>5

\* g puts the parts behind one another.
Stacks(g, s, n) == /\ g[0] = <<>>
                   /\ \A i \in 0..n : Neat(g[i]) /\ i <= Len(g[i])
                   /\ \A i \in 1..n : g[i] = g[i - 1] \o s[i]

LEMMA NeatStart == Neat(<<>>) /\ Len(<<>>) = 0
<1>1. PICK b : b = <<>> /\ Len(b) = 0
  OBVIOUS
<1>2. Apart(b)
  BY <1>1 DEF Apart
<1>3. IsBytes(b)
  BY <1>1, NoBytes
<1> QED
  BY <1>1, <1>2, <1>3 DEF Neat

\* Parts that lead with a byte do not join.
LEMMA CatAllLeads ==
  ASSUME NEW n \in Nat, NEW s, Len(s) = n, \A i \in 1..n : Neat(s[i]) /\ Leads(s[i])
  PROVE  \E g : Stacks(g, s, n) /\ CatAll(s) = g[n]
<1>1. PICK g : Collects(g, s) /\ CatAll(s) = g[n]
  BY CatAllCollects
<1> DEFINE Is(k) == Neat(g[k]) /\ k <= Len(g[k]) /\ (k # 0 => g[k] = g[k - 1] \o s[k])
           B == {k \in 0..n : ~Is(k)}
<1>2. B = {}
  <2> SUFFICES ASSUME B # {} PROVE FALSE
    <3> HIDE DEF B
    <3> QED
      OBVIOUS
  <2>1. B \in SUBSET Nat
    <3> HIDE DEF Is
    <3> QED
      OBVIOUS
  <2>2. PICK k \in B : \A j \in B : k <= j
    BY <2>1, LeastOf
  <2>3. k \in 0..n /\ ~Is(k)
    OBVIOUS
  <2>4. k # 0
    <3>1. g[0] = <<>>
      BY <1>1 DEF Collects
    <3>2. Is(0)
      BY <3>1, NeatStart
    <3> HIDE DEF Is, B
    <3> QED
      BY <2>3, <3>2
  <2>5. k - 1 \in 0..n /\ k \in 1..n /\ ~(k <= k - 1)
    BY <2>3, <2>4
  <2>6. k - 1 \notin B
    <3> HIDE DEF B
    <3> QED
      BY <2>2, <2>5
  <2>7. Neat(g[k - 1]) /\ k - 1 <= Len(g[k - 1])
    BY <2>5, <2>6
  <2>8. g[k] = Cat(g[k - 1], s[k]) /\ Neat(s[k]) /\ Leads(s[k])
    BY <1>1, <2>5 DEF Collects
  <2>9. PICK a, b : a = g[k - 1] /\ b = s[k]
    OBVIOUS
  <2>10. ~Continues(a[Len(a)], b[1])
    BY <2>8, <2>9, LeadsApart
  <2>11. Cat(a, b) = a \o b /\ Neat(a \o b)
    BY <2>7, <2>8, <2>9, <2>10, CatApart, Zenon
  <2>12. Len(a \o b) = Len(a) + Len(b)
    BY <2>7, <2>8, <2>9, BytesBehind, Zenon DEF Neat
  <2>13. Len(a) \in Nat /\ Len(b) \in Nat
    BY <2>7, <2>8, <2>9, SpanOf, Zenon DEF Neat
  <2>14. k - 1 <= Len(a) /\ Len(b) >= 1
    BY <2>7, <2>8, <2>9, Zenon DEF Leads
  <2>15. k <= Len(a \o b)
    BY <2>3, <2>12, <2>13, <2>14
  <2>16. Is(k)
    BY <2>8, <2>9, <2>11, <2>15, Zenon
  <2> QED
    BY <2>3, <2>16
<1>3. \A k \in 0..n : Is(k)
  BY <1>2
<1>4. Stacks(g, s, n)
  <2>1. \A i \in 1..n : i \in 0..n /\ i # 0
    OBVIOUS
  <2>2. g[0] = <<>>
    BY <1>1 DEF Collects
  <2> QED
    BY <1>3, <2>1, <2>2 DEF Stacks
<1> QED
  BY <1>1, <1>4

\* What is left of b behind the bytes of a.
Rest(a, b) == Slice(b, Size(a), Size(b))

\* What is left behind each part begins with the next one.
Unstacks(g, s, n, b) ==
  /\ Rest(g[0], b) = b
  /\ Rest(g[n], b) = <<>>
  /\ \A i \in 0..n : IsBytes(Rest(g[i], b))
  /\ \A i \in 1..n : Rest(g[i - 1], b) = s[i] \o Rest(g[i], b)

LEMMA RestOf ==
  ASSUME NEW n \in Nat, NEW s, \A i \in 1..n : IsBytes(s[i]), NEW g, Stacks(g, s, n), NEW b, b = g[n]
  PROVE  Unstacks(g, s, n, b)
<1>1. \A i \in 0..n : IsBytes(g[i])
  BY DEF Stacks, Neat
<1>2. g[0] = <<>> /\ IsBytes(g[0]) /\ IsBytes(b) /\ n \in 0..n
  BY <1>1 DEF Stacks
<1>3. ASSUME NEW i \in 0..n, NEW x, IsBytes(x), b = g[i] \o x PROVE x = Rest(g[i], b)
  <2>1. Slice(g[i] \o x, Size(g[i]), Size(g[i] \o x)) = x
    BY <1>1, <1>3, SliceParts
  <2> QED
    BY <1>3, <2>1 DEF Rest
<1>4. b = b \o <<>> /\ b = <<>> \o b /\ IsBytes(<<>>)
  BY <1>2, NoBytes, NothingBehind
<1>5. Rest(g[0], b) = b
  <2>1. b = g[0] \o b /\ 0 \in 0..n
    BY <1>2, <1>4
  <2> QED
    BY <1>2, <1>3, <2>1
<1>6. Rest(g[n], b) = <<>>
  <2>1. b = g[n] \o <<>>
    BY <1>4
  <2> QED
    BY <1>2, <1>3, <1>4, <2>1
<1> DEFINE Is(i) == IsBytes(Rest(g[i], b)) /\ b = g[i] \o Rest(g[i], b)
           C == {j \in 0..n : ~Is(n - j)}
<1>7. ASSUME NEW i \in 1..n, Is(i) PROVE Is(i - 1) /\ Rest(g[i - 1], b) = s[i] \o Rest(g[i], b)
  <2>1. i \in 0..n /\ i - 1 \in 0..n
    OBVIOUS
  <2>2. PICK x, y, z : x = g[i - 1] /\ y = s[i] /\ z = Rest(g[i], b)
    OBVIOUS
  <2>3. g[i] = x \o y
    BY <1>7, <2>2 DEF Stacks
  <2>4. IsBytes(x) /\ IsBytes(y) /\ IsBytes(z)
    BY <1>1, <1>7, <2>1, <2>2
  <2>5. b = (x \o y) \o z
    BY <1>7, <2>2, <2>3
  <2>6. (x \o y) \o z = x \o (y \o z) /\ IsBytes(y \o z)
    <3>1. (x \o y) \o z = x \o (y \o z)
      BY <2>4, BehindBoth
    <3>2. IsBytes(y \o z)
      BY <2>4, BytesBehind, Zenon
    <3> QED
      BY <3>1, <3>2
  <2>7. PICK w : w = y \o z
    OBVIOUS
  <2>8. b = g[i - 1] \o w /\ IsBytes(w)
    BY <2>2, <2>5, <2>6, <2>7
  <2>9. w = Rest(g[i - 1], b)
    BY <1>3, <2>1, <2>8
  <2> QED
    BY <2>2, <2>7, <2>8, <2>9
<1>8. C = {}
  <2> SUFFICES ASSUME C # {} PROVE FALSE
    <3> HIDE DEF C
    <3> QED
      OBVIOUS
  <2>1. C \in SUBSET Nat
    <3> HIDE DEF Is
    <3> QED
      OBVIOUS
  <2>2. PICK k \in C : \A j \in C : k <= j
    BY <2>1, LeastOf
  <2>3. k \in 0..n /\ ~Is(n - k)
    OBVIOUS
  <2>4. k # 0
    <3>1. Is(n)
      BY <1>4, <1>6
    <3>2. n - 0 = n
      OBVIOUS
    <3> HIDE DEF Is
    <3> QED
      BY <2>3, <3>1, <3>2
  <2>5. k - 1 \in 0..n /\ ~(k <= k - 1) /\ n - (k - 1) \in 1..n /\ n - (k - 1) - 1 = n - k
    BY <2>3, <2>4
  <2>6. k - 1 \notin C
    <3> HIDE DEF C
    <3> QED
      BY <2>2, <2>5
  <2>7. Is(n - (k - 1))
    BY <2>5, <2>6
  <2>8. Is(n - (k - 1) - 1)
    <3> HIDE DEF Is, C
    <3> QED
      BY <1>7, <2>5, <2>7
  <2> HIDE DEF Is
  <2> QED
    BY <2>3, <2>5, <2>8
<1>9. ASSUME NEW i \in 0..n PROVE Is(i)
  <2>1. n - i \in 0..n /\ n - i \notin C /\ n - (n - i) = i
    <3> HIDE DEF C
    <3> QED
      BY <1>8
  <2>2. Is(n - (n - i))
    BY <2>1
  <2> HIDE DEF Is, C
  <2> QED
    BY <2>1, <2>2
<1>10. \A i \in 1..n : Rest(g[i - 1], b) = s[i] \o Rest(g[i], b)
  <2>1. \A i \in 1..n : i \in 0..n
    OBVIOUS
  <2> HIDE DEF Is
  <2> QED
    BY <1>7, <1>9, <2>1
<1> QED
  BY <1>5, <1>6, <1>9, <1>10, Zenon DEF Unstacks

LEMMA AppendNext ==
  ASSUME NEW n \in Nat, NEW f, NEW k \in 1..n
  PROVE  Append([i \in 1..(k - 1) |-> f[i]], f[k]) = [i \in 1..k |-> f[i]]
<1>1. PICK a, b, e : a = [i \in 1..(k - 1) |-> f[i]] /\ b = [i \in 1..k |-> f[i]] /\ e = f[k]
  OBVIOUS
<1>2. PICK S : S = {f[i] : i \in 1..n}
  OBVIOUS
<1>3. k \in Nat /\ k - 1 \in Nat
  OBVIOUS
<1>4. e \in S /\ a \in Seq(S) /\ Len(a) = k - 1 /\ b \in Seq(S) /\ Len(b) = k
  <2>1. a \in [1..(k - 1) -> S] /\ b \in [1..k -> S] /\ e \in S
    BY <1>1, <1>2
  <2> QED
    BY <1>3, <2>1
<1>5. PICK c \in Seq(S) : c = Append(a, e)
  <2>1. Append(a, e) \in Seq(S)
    BY <1>4, AppendProperties
  <2> QED
    BY <2>1
<1>6. Len(c) = k /\ \A i \in 1..k : c[i] = IF i = k THEN e ELSE a[i]
  BY <1>3, <1>4, <1>5
<1>7. \A i \in 1..k : c[i] = b[i]
  <2> SUFFICES ASSUME NEW i \in 1..k PROVE c[i] = b[i]
    OBVIOUS
  <2>1. b[i] = f[i]
    BY <1>1
  <2>2. i # k => i \in 1..(k - 1)
    OBVIOUS
  <2>3. i # k => a[i] = f[i]
    BY <1>1, <2>2
  <2> QED
    BY <1>1, <1>6, <2>1, <2>3
<1>8. c = b
  BY <1>4, <1>5, <1>6, <1>7, SeqEqual
<1> QED
  BY <1>1, <1>5, <1>8

\* f is a list of n byte strings that can be pushed, and s of their pushes.
Pushable(d) == Neat(d) /\ Size(d) \in Nat \ {0}

Pushed(n, s, f) == /\ Len(s) = n
                   /\ f = [i \in 1..n |-> f[i]]
                   /\ \A i \in 1..n : Pushable(f[i]) /\ s[i] = push_data(f[i])

LEMMA PushedLead ==
  ASSUME NEW n \in Nat, NEW s, NEW f, Pushed(n, s, f)
  PROVE  \A i \in 1..n : /\ Neat(s[i]) /\ Leads(s[i]) /\ IsBytes(s[i])
                         /\ Size(s[i]) = push_overhead(Size(f[i])) + Size(f[i])
<1> SUFFICES ASSUME NEW i \in 1..n
             PROVE  /\ Neat(s[i]) /\ Leads(s[i]) /\ IsBytes(s[i])
                    /\ Size(s[i]) = push_overhead(Size(f[i])) + Size(f[i])
  OBVIOUS
<1>1. PICK d : d = f[i] /\ Size(d) \in Nat /\ Neat(d) /\ s[i] = push_data(d)
  BY DEF Pushed, Pushable
<1>2. Neat(push_data(d)) /\ Leads(push_data(d)) /\ Size(push_data(d)) = push_overhead(Size(d)) + Size(d)
  BY <1>1, PushIs
<1> QED
  BY <1>1, <1>2 DEF Neat

\* One push more is read from a script.
LEMMA OneRead ==
  ASSUME NEW d, Pushable(d), NEW rest, IsBytes(rest), NEW acc, acc.rest = push_data(d) \o rest
  PROVE  PushTaken(acc) = [rest |-> rest, out |-> Append(acc.out, d)]
<1>1. PICK m \in Nat \ {0} : m = Size(d)
  BY DEF Pushable
<1>2. push_overhead(m) \in 1..3
  BY <1>1, HeaderLiteral
<1>3. PICK k \in Nat : k = push_overhead(m) + m
  BY <1>1, <1>2
<1>4. PICK p, q : p = parse_push(acc.rest) /\ q = Slice(acc.rest, k, Size(acc.rest))
  OBVIOUS
<1>5. p = [ok |-> TRUE, data |-> d, used |-> k] /\ q = rest
  BY <1>1, <1>3, <1>4, PushRead DEF Pushable
<1>6. p.ok /\ p.data = d /\ p.used = k
  BY <1>5
<1> QED
  BY <1>4, <1>5, <1>6, Zenon DEF PushTaken, Taken

\* No push is read from nothing.
LEMMA NoneRead ==
  ASSUME NEW out, NEW acc, acc = [rest |-> <<>>, out |-> out]
  PROVE  PushTaken(acc) = acc
<1>1. parse_push(acc.rest) = NoPush
  BY DEF parse_push
<1>2. ~NoPush.ok
  BY DEF NoPush
<1>3. PushTaken(acc) = [acc EXCEPT !.rest = <<>>]
  BY <1>1, <1>2, Zenon DEF PushTaken, Taken
<1> QED
  BY <1>3

\* parse_script_pushes undoes push_data, push by push.
LEMMA PushesRead ==
  ASSUME NEW n \in Nat, NEW s, NEW f, Pushed(n, s, f)
  PROVE  parse_script_pushes(CatAll(s)) = f
<1>1. Len(s) = n /\ f = [i \in 1..n |-> f[i]] /\ \A i \in 1..n : Neat(s[i]) /\ Leads(s[i]) /\ IsBytes(s[i])
  BY PushedLead DEF Pushed
<1>2. PICK g : Stacks(g, s, n) /\ CatAll(s) = g[n]
  BY <1>1, CatAllLeads
<1>3. PICK b : b = g[n]
  OBVIOUS
<1>4. PICK r : r = [i \in 0..n |-> Rest(g[i], b)]
  OBVIOUS
<1>5. /\ r[0] = b /\ r[n] = <<>>
      /\ \A i \in 0..n : IsBytes(r[i])
      /\ \A i \in 1..n : r[i - 1] = s[i] \o r[i]
  <2>1. Unstacks(g, s, n, b)
    <3>1. \A i \in 1..n : IsBytes(s[i])
      BY <1>1
    <3>2. Stacks(g, s, n) /\ b = g[n]
      BY <1>2, <1>3
    <3> QED
      BY <3>1, <3>2, RestOf, Zenon
  <2>2. \A i \in 0..n : r[i] = Rest(g[i], b)
    BY <1>4
  <2>3. 0 \in 0..n /\ n \in 0..n /\ \A i \in 1..n : i \in 0..n /\ i - 1 \in 0..n
    OBVIOUS
  <2> QED
    BY <2>1, <2>2, <2>3, Zenon DEF Unstacks
<1>6. PICK m \in Nat : m = Len(b) /\ n <= m
  <2>1. n \in 0..n
    OBVIOUS
  <2>2. Neat(b) /\ n <= Len(b)
    BY <1>2, <1>3, <2>1 DEF Stacks
  <2> QED
    BY <2>2, SpanOf DEF Neat
<1>7. PICK a : Reads(a, b) /\ parse_script_pushes(b) = a[m].out
  BY <1>6, PushesReads
<1> DEFINE Upto(k) == [i \in 1..k |-> f[i]]
           Is(k) == a[k] = IF k <= n THEN [rest |-> r[k], out |-> Upto(k)]
                           ELSE [rest |-> <<>>, out |-> f]
           C == {k \in 0..m : ~Is(k)}
<1>8. Is(0)
  <2>1. Upto(0) = <<>>
    OBVIOUS
  <2>2. a[0] = [rest |-> b, out |-> <<>>] /\ 0 <= n
    BY <1>7 DEF Reads
  <2> HIDE DEF Upto
  <2> QED
    BY <1>5, <2>1, <2>2
<1>9. a[n] = [rest |-> r[n], out |-> Upto(n)] => a[n] = [rest |-> <<>>, out |-> f]
  BY <1>1, <1>5
<1>10. ASSUME NEW k \in 1..m, Is(k - 1) PROVE Is(k)
  <2>1. a[k] = PushTaken(a[k - 1])
    BY <1>6, <1>7 DEF Reads
  <2>2. CASE k <= n
    <3>1. k \in 1..n /\ k - 1 <= n /\ k \in 0..n
      BY <2>2
    <3>2. a[k - 1] = [rest |-> r[k - 1], out |-> Upto(k - 1)]
      <4> HIDE DEF Upto
      <4> QED
        BY <1>10, <3>1
    <3>3. r[k - 1] = push_data(f[k]) \o r[k] /\ Pushable(f[k]) /\ IsBytes(r[k])
      BY <1>5, <3>1 DEF Pushed
    <3>4. PICK acc : acc = a[k - 1] /\ acc.rest = push_data(f[k]) \o r[k] /\ acc.out = Upto(k - 1)
      <4> HIDE DEF Upto
      <4>1. a[k - 1].rest = r[k - 1] /\ a[k - 1].out = Upto(k - 1)
        BY <3>2
      <4> QED
        BY <3>3, <4>1, Zenon
    <3>5. PushTaken(acc) = [rest |-> r[k], out |-> Append(acc.out, f[k])]
      <4>1. Pushable(f[k]) /\ IsBytes(r[k]) /\ acc.rest = push_data(f[k]) \o r[k]
        BY <3>3, <3>4, Zenon
      <4> QED
        BY <4>1, OneRead
    <3>6. Append(Upto(k - 1), f[k]) = Upto(k)
      BY <3>1, AppendNext
    <3> HIDE DEF Upto
    <3> QED
      BY <2>1, <2>2, <3>4, <3>5, <3>6
  <2>3. CASE ~(k <= n)
    <3>1. n <= k - 1 /\ (k - 1 <= n => k - 1 = n)
      BY <2>3
    <3>2. a[k - 1] = [rest |-> <<>>, out |-> f]
      <4> HIDE DEF Upto
      <4> QED
        BY <1>9, <1>10, <3>1
    <3>3. PushTaken(a[k - 1]) = a[k - 1]
      BY <3>2, NoneRead
    <3> HIDE DEF Upto
    <3> QED
      BY <2>1, <2>3, <3>2, <3>3
  <2> HIDE DEF Is
  <2> QED
    BY <2>2, <2>3
<1>11. C = {}
  <2> HIDE DEF Is
  <2> SUFFICES ASSUME C # {} PROVE FALSE
    OBVIOUS
  <2>1. C \in SUBSET Nat
    OBVIOUS
  <2>2. PICK k \in C : \A j \in C : k <= j
    BY <2>1, LeastOf
  <2>3. k \in 0..m /\ ~Is(k)
    OBVIOUS
  <2>4. k # 0
    BY <1>8, <2>3
  <2>5. k - 1 \in 0..m /\ k \in 1..m /\ ~(k <= k - 1)
    BY <2>3, <2>4
  <2>6. k - 1 \notin C
    <3> HIDE DEF C
    <3> QED
      BY <2>2, <2>5
  <2>7. Is(k - 1)
    BY <2>5, <2>6
  <2> QED
    BY <1>10, <2>3, <2>5, <2>7
<1>12. Is(m)
  <2> HIDE DEF Is
  <2> QED
    BY <1>11
<1>13. a[m] = [rest |-> <<>>, out |-> f]
  <2>1. m <= n => m = n
    BY <1>6
  <2> HIDE DEF Upto
  <2> QED
    BY <1>9, <1>12, <2>1
<1> QED
  BY <1>2, <1>3, <1>7, <1>13

\* x is a stretch of m bytes of a source.
IsPart(x, src, m) == \E v : x = <<v>> /\ IsSpan(v) /\ v.src = src /\ v.len = m

\* How long the i-th piece of len bytes is.
PieceLen(len, c, i) == Lesser(i * c, len) - (i - 1) * c

\* Pieces cuts a stretch into stretches of it.
PiecesOf(f, w, c, n) == /\ f = [i \in 1..n |-> f[i]]
                        /\ Len(f) = n
                        /\ \A i \in 1..n : /\ IsPart(f[i], w.src, PieceLen(w.len, c, i))
                                           /\ PieceLen(w.len, c, i) \in 1..c
                                           /\ i * c <= w.len => PieceLen(w.len, c, i) = c
                                           /\ w.len < i * c => PieceLen(w.len, c, i) = w.len - (i - 1) * c

LEMMA PiecesAre ==
  ASSUME NEW w, IsSpan(w), w.src # <<"byte">>, NEW c \in Nat \ {0}, NEW n \in Nat,
         n = CeilDiv(w.len, c)
  PROVE  PiecesOf(Pieces(<<w>>, c), w, c, n)
<1>1. PICK len \in Nat \ {0} : len = w.len
  BY DEF IsSpan
<1>2. PICK b : b = <<w>> /\ Size(b) = len
  BY <1>1, SizeSmall
<1>3. c * n >= len /\ c * n < len + c
  BY <1>1, CeilDivBounds
<1>4. PICK f : f = [i \in 1..n |-> Slice(b, (i - 1) * c, Lesser(i * c, len))]
  OBVIOUS
<1>5. Len(f) = n /\ <<>> \o f = f /\ f = [i \in 1..n |-> f[i]]
  <2>1. f = [i \in 1..n |-> f[i]]
    BY <1>4
  <2> QED
    BY <2>1, Listed
<1>6. Pieces(b, c) = f
  BY <1>1, <1>2, <1>4, <1>5 DEF Pieces, Each
<1>7. ASSUME NEW i \in 1..n
      PROVE  /\ IsPart(f[i], w.src, PieceLen(len, c, i))
             /\ PieceLen(len, c, i) \in 1..c
             /\ i * c <= len => PieceLen(len, c, i) = c
             /\ len < i * c => PieceLen(len, c, i) = len - (i - 1) * c
  <2>1. PICK lo \in Nat, up \in Nat : lo = (i - 1) * c /\ up = i * c
    <3>1. (i - 1) * c \in Nat /\ i * c \in Nat
      OBVIOUS
    <3> QED
      BY <3>1, Zenon
  <2>2. up = lo + c
    BY <2>1
  <2>3. lo < len
    <3>1. up <= c * n
      BY <2>1
    <3>2. PICK q \in Int : q = c * n
      OBVIOUS
    <3> QED
      BY <1>3, <2>2, <3>1, <3>2
  <2>4. PICK hi \in Nat : /\ hi = Lesser(up, len) /\ lo < hi /\ hi <= len /\ hi - lo <= c
                          /\ up <= len => hi = up
                          /\ len < up => hi = len
    BY <2>2, <2>3 DEF Lesser
  <2>5. PICK v : IsSpan(v) /\ v.len = hi - lo /\ v.src = w.src /\ Clip(w, 0, lo, hi) = <<v>>
    BY <1>1, <2>4, ClipPart
  <2>6. Slice(<<w>>, lo, hi) = <<>> \o Clip(w, 0, lo, hi)
    BY SliceSmall
  <2>7. Slice(<<w>>, lo, hi) = <<v>>
    BY <2>5, <2>6, Puts
  <2>8. f[i] = <<v>>
    BY <1>2, <1>4, <2>1, <2>4, <2>7
  <2>9. PieceLen(len, c, i) = hi - lo
    BY <2>1, <2>4 DEF PieceLen
  <2>10. IsPart(f[i], w.src, hi - lo)
    BY <2>5, <2>8, Zenon DEF IsPart
  <2>11. hi - lo \in 1..c /\ (up <= len => hi - lo = c) /\ (len < up => hi - lo = len - lo)
    BY <2>2, <2>4
  <2> QED
    BY <2>1, <2>9, <2>10, <2>11
<1> QED
  BY <1>1, <1>2, <1>5, <1>6, <1>7, Zenon DEF PiecesOf

\* Every chunk of a module is one stretch of it.
LEMMA ChunksAre ==
  ASSUME NEW len \in Nat, NEW b, b = Stretch(<<"wasm">>, len), split_chunks(b).ok,
         NEW n, Chunked(split_chunks(b).chunks, n)
  PROVE  \A i \in 1..n : \E m : IsPart(split_chunks(b).chunks[i], <<"wasm">>, m)
<1>1. split_chunks(b).chunks = Pieces(b, CHUNK_PAYLOAD_SIZE)
  BY DEF split_chunks
<1>2. PICK k \in Nat : k = n /\ k # 0 /\ Len(Pieces(b, CHUNK_PAYLOAD_SIZE)) = k
  BY <1>1 DEF Chunked, MAX_CHUNKS
<1>3. len # 0
  <2> SUFFICES ASSUME len = 0 PROVE FALSE
    OBVIOUS
  <2>1. b = <<>>
    BY DEF Stretch
  <2>2. Size(b) = 0
    BY <2>1, NoBytes
  <2>3. PICK z : z = Size(b)
    OBVIOUS
  <2>4. z \in 1..MAX_CODE_BYTES
    BY <2>3 DEF split_chunks, carrier_input_count
  <2> QED
    BY <2>2, <2>3, <2>4
<1>4. PICK w : w = [src |-> <<"wasm">>, at |-> 0, len |-> len]
  OBVIOUS
<1>5. b = <<w>>
  BY <1>3, <1>4, Zenon DEF Stretch
<1>6. IsSpan(w) /\ w.src # <<"byte">> /\ w.len = len /\ w.src = <<"wasm">>
  BY <1>3, <1>4 DEF IsSpan
<1>7. PICK c \in Nat \ {0} : c = CHUNK_PAYLOAD_SIZE
  BY DEF CHUNK_PAYLOAD_SIZE
<1>8. PICK q \in Nat : q = CeilDiv(len, c)
  BY CeilDivBounds
<1>9. PiecesOf(Pieces(b, c), w, c, q)
  BY <1>5, <1>6, <1>8, PiecesAre
<1>10. q = k
  BY <1>2, <1>7, <1>9 DEF PiecesOf
<1> QED
  BY <1>1, <1>2, <1>6, <1>7, <1>9, <1>10, Zenon DEF PiecesOf

\* A stretch that is not a byte can be pushed.
LEMMA StretchPushable ==
  ASSUME NEW x, NEW src, NEW m \in Nat \ {0}, IsPart(x, src, m)
  PROVE  Pushable(x) /\ Size(x) = m
<1>1. PICK v : x = <<v>> /\ IsSpan(v) /\ v.len = m
  BY DEF IsPart
<1> QED
  BY <1>1, NeatSpan DEF Pushable

LEMMA StretchIs ==
  ASSUME NEW src, NEW m \in Nat \ {0}
  PROVE  Pushable(Stretch(src, m)) /\ Size(Stretch(src, m)) = m
<1>1. PICK v : v = [src |-> src, at |-> 0, len |-> m]
  OBVIOUS
<1>2. Stretch(src, m) = <<v>>
  BY <1>1, Zenon DEF Stretch
<1>3. IsSpan(v) /\ v.src = src /\ v.len = m
  BY <1>1 DEF IsSpan
<1>4. IsPart(Stretch(src, m), src, m)
  BY <1>2, <1>3, Zenon DEF IsPart
<1> QED
  BY <1>4, StretchPushable

LEMMA BytePushable ==
  ASSUME NEW v \in Int
  PROVE  Pushable(Byte(v)) /\ Size(Byte(v)) = 1
  BY FewBytes DEF Literal, Pushable

\* The redeem script has the length the sizes are computed with.
LEMMA RedeemIs == Pushable(redeem_script) /\ Size(redeem_script) = REDEEM_SCRIPT_LEN
<1>1. PICK p : p = [src |-> <<"pubkey">>, at |-> 0, len |-> 33]
  OBVIOUS
<1>2. PubKey = <<p>>
  <2>1. 33 # 0
    OBVIOUS
  <2> QED
    BY <1>1, <2>1, Zenon DEF PubKey, Stretch
<1>3. PICK a, c, d : a = ByteSpan(33) /\ c = ByteSpan(172) /\ d = ByteSpan(97)
  OBVIOUS
<1>4. PICK x : x = <<a, p, c, d>>
  OBVIOUS
<1>5. PICK s : s = <<<<a>>, <<p>>, <<c>>, <<d>>>>
  OBVIOUS
<1>6. redeem_script = CatAll(s)
  <2>1. Byte(33) = <<a>> /\ Byte(172) = <<c>> /\ Byte(97) = <<d>>
    BY <1>3, ByteIs
  <2> QED
    BY <1>2, <1>5, <2>1 DEF redeem_script
<1>7. PICK S : S = {a, p, c, d} /\ x \in Seq(S)
  <2>1. x \in Seq({a, p, c, d})
    BY <1>4
  <2> QED
    BY <2>1
<1>8. /\ Len(x) = 4 /\ Len(s) = 4
      /\ x[1] = a /\ x[2] = p /\ x[3] = c /\ x[4] = d
      /\ s[1] = <<a>> /\ s[2] = <<p>> /\ s[3] = <<c>> /\ s[4] = <<d>>
  BY <1>4, <1>5
<1>9. PICK n \in Nat : n = 4
  OBVIOUS
<1>10. \A i \in 1..n : i = 1 \/ i = 2 \/ i = 3 \/ i = 4
  BY <1>9
<1>11. \A i \in 1..n : s[i] = <<x[i]>>
  BY <1>8, <1>10
<1>12. \A i \in 2..n : ~Continues(x[i - 1], x[i])
  <2>1. ~Continues(a, p) /\ ~Continues(c, d)
    BY <1>3, ByteApart
  <2>2. ~Continues(p, c)
    BY <1>1, <1>3 DEF Continues, ByteSpan
  <2>3. \A i \in 2..n : i = 2 \/ i = 3 \/ i = 4
    BY <1>9
  <2>4. 2 - 1 = 1 /\ 3 - 1 = 2 /\ 4 - 1 = 3
    OBVIOUS
  <2> QED
    BY <1>8, <2>1, <2>2, <2>3, <2>4
<1>13. CatAll(s) = x
  BY <1>7, <1>8, <1>9, <1>11, <1>12, CatAllApart
<1>14. /\ IsSpan(a) /\ IsSpan(p) /\ IsSpan(c) /\ IsSpan(d)
       /\ a.len = 1 /\ p.len = 33 /\ c.len = 1 /\ d.len = 1
  BY <1>1, <1>3 DEF IsSpan, ByteSpan
<1>15. IsBytes(x)
  <2>1. \A e \in S : IsSpan(e)
    BY <1>7, <1>14
  <2> QED
    BY <1>7, <2>1, Zenon DEF IsBytes
<1>16. Neat(x)
  BY <1>8, <1>9, <1>12, <1>15 DEF Neat, Apart
<1>17. PICK h : h = [i \in 0..n |-> IF i = 0 THEN 0 ELSE IF i = 1 THEN 1 ELSE 32 + i]
  OBVIOUS
<1>18. Measures(h, x) /\ h[n] = 36
  <2>1. h[0] = 0 /\ h[1] = 1 /\ h[2] = 34 /\ h[3] = 35 /\ h[4] = 36
    BY <1>9, <1>17
  <2>2. 1 - 1 = 0 /\ 2 - 1 = 1 /\ 3 - 1 = 2 /\ 4 - 1 = 3
    OBVIOUS
  <2>3. \A i \in 1..n : h[i] = h[i - 1] + x[i].len
    BY <1>8, <1>10, <1>14, <2>1, <2>2
  <2> QED
    BY <1>8, <1>9, <2>1, <2>3 DEF Measures
<1>19. Size(x) = 36
  BY <1>8, <1>9, <1>15, <1>18, MeasureIsSize
<1> QED
  BY <1>6, <1>13, <1>16, <1>19 DEF Pushable, REDEEM_SCRIPT_LEN

\* c is b behind a.
IsBehind(c, a, b, j, k) == /\ c = a \o b
                           /\ Len(c) = j + k
                           /\ \A i \in 1..j : c[i] = a[i]
                           /\ \A i \in 1..k : c[j + i] = b[i]

LEMMA ListsBehind ==
  ASSUME NEW S, NEW j \in Nat, NEW k \in Nat, NEW a \in Seq(S), NEW b \in Seq(S),
         Len(a) = j, Len(b) = k
  PROVE  \E c \in Seq(S) : IsBehind(c, a, b, j, k)
<1>1. PICK c : c = a \o b
  OBVIOUS
<1>2. c \in Seq(S) /\ Len(c) = j + k
  BY <1>1
<1>3. \A i \in 1..j : c[i] = a[i]
  BY <1>1
<1>4. \A i \in 1..k : c[j + i] = b[i]
  BY <1>1
<1> QED
  BY <1>1, <1>2, <1>3, <1>4, Zenon DEF IsBehind

\* q is a list with one element before it and two behind it.
IsBetween(q, k, m, a, y, z) == /\ q = (<<a>> \o m) \o <<y, z>>
                               /\ Len(q) = k + 3
                               /\ q = [i \in 1..(k + 3) |-> q[i]]
                               /\ q[1] = a
                               /\ \A i \in 1..k : q[1 + i] = m[i]
                               /\ q[k + 2] = y
                               /\ q[k + 3] = z

LEMMA ListBetween ==
  ASSUME NEW k \in Nat, NEW m, m = [i \in 1..k |-> m[i]], NEW a, NEW y, NEW z
  PROVE  \E q : IsBetween(q, k, m, a, y, z)
<1>1. PICK S : S = {a, y, z} \cup {m[i] : i \in 1..k}
  OBVIOUS
<1>2. m \in Seq(S) /\ Len(m) = k
  <2>1. m \in [1..k -> S]
    BY <1>1
  <2> QED
    BY <2>1
<1>3. PICK u, w : u = <<a>> /\ w = <<y, z>>
  OBVIOUS
<1>4. u \in Seq(S) /\ Len(u) = 1 /\ u[1] = a /\ w \in Seq(S) /\ Len(w) = 2 /\ w[1] = y /\ w[2] = z
  <2>1. a \in S /\ y \in S /\ z \in S
    BY <1>1
  <2> QED
    BY <1>3, <2>1
<1>5. PICK one \in Nat, two \in Nat, n \in Nat : one = 1 /\ two = 2 /\ n = 1 + k
  OBVIOUS
<1>6. PICK p \in Seq(S) : IsBehind(p, u, m, one, k)
  BY <1>2, <1>4, <1>5, ListsBehind, Zenon
<1>7. Len(p) = n /\ p[1] = a /\ \A i \in 1..k : p[1 + i] = m[i]
  <2>1. 1 \in 1..one /\ one + k = n
    BY <1>5
  <2> QED
    BY <1>4, <1>5, <1>6, <2>1 DEF IsBehind
<1>8. PICK q \in Seq(S) : IsBehind(q, p, w, n, two)
  BY <1>4, <1>5, <1>7, ListsBehind, Zenon
<1>9. q[1] = a /\ \A i \in 1..k : q[1 + i] = m[i]
  <2>1. 1 \in 1..n /\ \A i \in 1..k : 1 + i \in 1..n
    BY <1>5
  <2> QED
    BY <1>7, <1>8, <2>1, Zenon DEF IsBehind
<1>10. Len(q) = k + 3 /\ q[k + 2] = y /\ q[k + 3] = z
  <2>1. 1 \in 1..two /\ 2 \in 1..two /\ n + 1 = k + 2 /\ n + 2 = k + 3 /\ n + two = k + 3
    BY <1>5
  <2>2. q[n + 1] = y /\ q[n + 2] = z
    BY <1>4, <1>8, <2>1, Zenon DEF IsBehind
  <2> QED
    BY <1>8, <2>1, <2>2, Zenon DEF IsBehind
<1>11. q = [i \in 1..(k + 3) |-> q[i]]
  BY <1>10
<1> QED
  BY <1>3, <1>6, <1>8, <1>9, <1>10, <1>11, Zenon DEF IsBehind, IsBetween

\* The pushes of a carrier scriptSig, and how long each is.
CarrierList(s, f, k, len, sig) ==
  /\ Pushed(k + 3, s, f)
  /\ Size(f[1]) = 1
  /\ \A i \in 1..k : Size(f[1 + i]) = PieceLen(len, MAX_PUSH_SIZE, i)
  /\ Size(f[k + 2]) = sig
  /\ Size(f[k + 3]) = REDEEM_SCRIPT_LEN

LEMMA CarrierPushes ==
  ASSUME NEW index \in Int, NEW len \in Nat \ {0}, NEW x, IsPart(x, <<"wasm">>, len),
         NEW sig \in Nat \ {0}, NEW k \in Nat, k = CeilDiv(len, MAX_PUSH_SIZE)
  PROVE  \E s, f : /\ carrier_script_sig(index, x, Signature(sig), redeem_script) = CatAll(s)
                   /\ CarrierList(s, f, k, len, sig)
<1>1. PICK w : x = <<w>> /\ IsSpan(w) /\ w.src = <<"wasm">> /\ w.len = len
  BY DEF IsPart
<1>2. w.src # <<"byte">>
  BY <1>1
<1>3. PICK c \in Nat \ {0} : c = MAX_PUSH_SIZE
  BY DEF MAX_PUSH_SIZE
<1>4. PICK p : p = Pieces(x, c)
  OBVIOUS
<1>5. PiecesOf(p, w, c, k)
  BY <1>1, <1>2, <1>3, <1>4, PiecesAre
<1>6. p = [i \in 1..k |-> p[i]] /\ Len(p) = k
  BY <1>5 DEF PiecesOf
<1>7. ASSUME NEW i \in 1..k PROVE Pushable(p[i]) /\ Size(p[i]) = PieceLen(len, c, i)
  <2>1. IsPart(p[i], w.src, PieceLen(len, c, i)) /\ PieceLen(len, c, i) \in 1..c
    BY <1>1, <1>5 DEF PiecesOf
  <2>2. PICK m \in Nat \ {0} : m = PieceLen(len, c, i)
    BY <2>1
  <2> QED
    BY <2>1, <2>2, StretchPushable
<1>8. PICK a, y, z : a = Byte(index) /\ y = Signature(sig) /\ z = redeem_script
  OBVIOUS
<1>9. /\ Pushable(a) /\ Pushable(y) /\ Pushable(z)
      /\ Size(a) = 1 /\ Size(y) = sig /\ Size(z) = REDEEM_SCRIPT_LEN
  BY <1>8, BytePushable, StretchIs, RedeemIs DEF Signature
<1>10. PICK m : m = [i \in 1..k |-> push_data(p[i])]
  OBVIOUS
<1>11. m = [i \in 1..k |-> m[i]] /\ Map(push_data, p) = m /\ \A i \in 1..k : m[i] = push_data(p[i])
  <2>1. m = [i \in 1..k |-> m[i]] /\ \A i \in 1..k : m[i] = push_data(p[i])
    BY <1>10
  <2>2. <<>> \o m = m
    BY <2>1, Listed
  <2>3. Map(push_data, p) = <<>> \o m
    BY <1>6, <1>10 DEF Map
  <2> QED
    BY <2>1, <2>2, <2>3
<1>12. PICK f : IsBetween(f, k, p, a, y, z)
  BY <1>6, ListBetween, Zenon
<1>13. PICK s : IsBetween(s, k, m, push_data(a), push_data(y), push_data(z))
  BY <1>11, ListBetween, Zenon
<1>14. carrier_script_sig(index, x, Signature(sig), redeem_script) = CatAll(s)
  <2>1. carrier_script_sig(index, x, y, z)
          = CatAll((<<push_data(a)>> \o Map(push_data, p)) \o <<push_data(y), push_data(z)>>)
    BY <1>3, <1>4, <1>8, Zenon DEF carrier_script_sig
  <2> QED
    BY <1>8, <1>11, <1>13, <2>1, Zenon DEF IsBetween
<1>15. ASSUME NEW i \in 1..(k + 3) PROVE Pushable(f[i]) /\ s[i] = push_data(f[i])
  <2>1. CASE i = 1
    BY <1>9, <1>12, <1>13, <2>1, Zenon DEF IsBetween
  <2>2. CASE \E j \in 1..k : i = 1 + j
    <3>1. PICK j \in 1..k : i = 1 + j
      BY <2>2
    <3> QED
      BY <1>7, <1>11, <1>12, <1>13, <3>1, Zenon DEF IsBetween
  <2>3. CASE i = k + 2
    BY <1>9, <1>12, <1>13, <2>3, Zenon DEF IsBetween
  <2>4. CASE i = k + 3
    BY <1>9, <1>12, <1>13, <2>4, Zenon DEF IsBetween
  <2>5. i = 1 \/ (i - 1 \in 1..k /\ i = 1 + (i - 1)) \/ i = k + 2 \/ i = k + 3
    OBVIOUS
  <2> QED
    BY <2>1, <2>2, <2>3, <2>4, <2>5, Zenon
<1>16. Pushed(k + 3, s, f)
  BY <1>12, <1>13, <1>15, Zenon DEF Pushed, IsBetween
<1>17. CarrierList(s, f, k, len, sig)
  BY <1>3, <1>7, <1>9, <1>12, <1>16, Zenon DEF CarrierList, IsBetween
<1> QED
  BY <1>14, <1>17, Zenon

\* The size of what is stacked is the sum of the sizes.
LEMMA StackSizes ==
  ASSUME NEW n \in Nat, NEW s, \A i \in 1..n : IsBytes(s[i]), NEW g, Stacks(g, s, n)
  PROVE  /\ Size(g[0]) = 0
         /\ \A i \in 0..n : Size(g[i]) \in Nat
         /\ \A i \in 1..n : Size(g[i]) = Size(g[i - 1]) + Size(s[i])
<1>1. \A i \in 0..n : IsBytes(g[i])
  BY DEF Stacks, Neat
<1>2. Size(g[0]) = 0
  BY NoBytes DEF Stacks
<1>3. ASSUME NEW i \in 0..n PROVE Size(g[i]) \in Nat
  BY <1>1, SizeBehind
<1>4. ASSUME NEW i \in 1..n PROVE Size(g[i]) = Size(g[i - 1]) + Size(s[i])
  <2>1. i - 1 \in 0..n
    OBVIOUS
  <2>2. PICK a, b : a = g[i - 1] /\ b = s[i] /\ IsBytes(a) /\ IsBytes(b)
    BY <1>1, <2>1
  <2>3. Size(a \o b) = Size(a) + Size(b)
    BY <2>2, SizeBehind, Zenon
  <2>4. g[i] = a \o b
    BY <2>2 DEF Stacks
  <2> QED
    BY <2>2, <2>3, <2>4
<1> QED
  BY <1>2, <1>3, <1>4

\* The foreseen length of a carrier scriptSig, by its last piece of m bytes.
CarrierLen(len, k, m) ==
  /\ k \in 1..3
  /\ len = (k - 1) * 520 + m
  /\ carrier_script_sig_len(len) = 2 + (k - 1) * 523 + (push_overhead(m) + m) + 111
  /\ carrier_script_sig_len(len) \in 0..1650

Divided(full, part, j, m) ==
  full \in Int /\ part \in 0..519 /\ j \in 0..2 /\ m \in 1..519 /\ 520 * full + part = 520 * j + m

LEMMA SameQuotient ==
  ASSUME NEW full, NEW part, NEW j, NEW m, Divided(full, part, j, m)
  PROVE  full = j /\ part = m
<1>1. full = j
  BY DEF Divided
<1> QED
  BY <1>1 DEF Divided

LEMMA CarrierBound ==
  ASSUME NEW z, NEW j \in 0..2, NEW len \in Nat, len <= 1400, NEW o \in 1..3, z = 113 + 3 * j + o + len
  PROVE  z \in 0..1650
  OBVIOUS

LEMMA CarrierLenIs ==
  ASSUME NEW len \in Nat \ {0}, len <= CHUNK_PAYLOAD_SIZE, NEW k \in Nat, k = CeilDiv(len, MAX_PUSH_SIZE)
  PROVE  \E m \in 1..520 : CarrierLen(len, k, m)
<1>0. len <= 1400
  BY DEF CHUNK_PAYLOAD_SIZE
<1>1. 520 * k >= len /\ 520 * k < len + 520
  <2>1. k = CeilDiv(len, 520)
    BY DEF MAX_PUSH_SIZE
  <2>2. PICK c \in Nat \ {0} : c = 520
    OBVIOUS
  <2>3. PICK q \in Int : q = c * k
    OBVIOUS
  <2>4. q >= len /\ q < len + c
    BY <2>1, <2>2, <2>3, CeilDivBounds
  <2> QED
    BY <2>2, <2>3, <2>4
<1>2. k \in 1..3
  BY <1>0, <1>1
<1>3. PICK m \in 1..520 : len = (k - 1) * 520 + m
  <2>1. PICK j \in 0..2 : j = k - 1
    BY <1>2
  <2>2. 520 * j < len /\ len <= 520 * j + 520
    BY <1>1, <2>1
  <2>3. len - 520 * j \in 1..520
    BY <2>2
  <2>4. PICK m \in 1..520 : m = len - 520 * j
    BY <2>3
  <2>5. len = (k - 1) * 520 + m
    BY <2>1, <2>4
  <2> QED
    BY <2>5
<1>4. PICK full \in Int, part \in 0..519 :
         full = len \div 520 /\ part = len % 520 /\ len = 520 * full + part
  OBVIOUS
<1>5. push_overhead(520) = 3 /\ push_overhead(36) = 1
  BY DEF push_overhead
<1>6. PICK o \in 1..3 : o = push_overhead(m)
  BY <1>3, HeaderLiteral
<1>7. PICK p \in 0..522 : p = IF part = 0 THEN 0 ELSE push_overhead(part) + part
  <2>1. CASE part = 0
    BY <2>1
  <2>2. CASE part # 0
    <3>1. PICK e \in 1..3 : e = push_overhead(part)
      BY <1>4, HeaderLiteral
    <3>2. e + part \in 0..522
      BY <1>4, <3>1
    <3> QED
      BY <2>2, <3>1, <3>2
  <2> QED
    BY <2>1, <2>2
<1>8. PICK z : z = carrier_script_sig_len(len) /\ z = 2 + full * 523 + p + (1 + 73) + (1 + 36)
  BY <1>4, <1>5, <1>7
     DEF carrier_script_sig_len, MAX_PUSH_SIZE, REDEEM_SCRIPT_LEN, MAX_SIGNATURE_LEN
<1>9. z = 2 + (k - 1) * 523 + (o + m) + 111
  <2>1. CASE m = 520
    <3>1. full = k /\ part = 0
      BY <1>2, <1>3, <1>4, <2>1
    <3>2. p = 0 /\ o = 3
      BY <1>5, <1>6, <1>7, <2>1, <3>1
    <3> QED
      BY <1>2, <1>8, <2>1, <3>1, <3>2
  <2>2. CASE m # 520
    <3>1. full = k - 1 /\ part = m
      <4>1. PICK j \in 0..2 : j = k - 1
        BY <1>2
      <4>2. 520 * full + part = 520 * j + m /\ m \in 1..519
        BY <1>3, <1>4, <2>2, <4>1
      <4>3. full = j /\ part = m
        <5>1. Divided(full, part, j, m)
          BY <4>2 DEF Divided
        <5> QED
          BY <5>1, SameQuotient, Zenon
      <4> QED
        BY <4>1, <4>3
    <3>2. p = o + m
      BY <1>3, <1>6, <1>7, <3>1
    <3> QED
      BY <1>2, <1>8, <3>1, <3>2
  <2> QED
    BY <2>1, <2>2
<1>10. z \in 0..1650
  <2>1. PICK j \in 0..2 : j = k - 1
    BY <1>2
  <2>2. z = 113 + 3 * j + o + len
    BY <1>3, <1>9, <2>1
  <2>3. PICK l \in Nat : l = len /\ l <= 1400
    BY <1>0
  <2>4. z = 113 + 3 * j + o + l
    BY <2>2, <2>3
  <2> HIDE <2>1
  <2> QED
    BY <2>3, <2>4, CarrierBound
<1>11. CarrierLen(len, k, m)
  BY <1>2, <1>3, <1>6, <1>8, <1>9, <1>10 DEF CarrierLen
<1> QED
  BY <1>11

\* A scriptSig is no longer than foreseen, and its pushes meet the relay rules.
ScriptFits(script, bound) ==
  /\ Size(script) \in Nat
  /\ Size(script) <= bound
  /\ bound \in 0..MAX_STANDARD_SCRIPTSIG_SIZE
  /\ \A p \in Range(parse_script_pushes(script)) : Size(p) <= MAX_PUSH_SIZE

LEMMA CarrierFits ==
  ASSUME NEW index \in Int, NEW len \in Nat \ {0}, len <= CHUNK_PAYLOAD_SIZE,
         NEW x, IsPart(x, <<"wasm">>, len), NEW sig \in 1..MAX_SIGNATURE_LEN
  PROVE  ScriptFits(carrier_script_sig(index, x, Signature(sig), redeem_script),
                    carrier_script_sig_len(len))
<1>1. PICK k \in Nat : k = CeilDiv(len, MAX_PUSH_SIZE)
  <2>1. MAX_PUSH_SIZE \in Nat \ {0}
    BY DEF MAX_PUSH_SIZE
  <2> QED
    BY <2>1, CeilDivBounds
<1>2. PICK m \in 1..520 : CarrierLen(len, k, m)
  BY <1>1, CarrierLenIs
<1>3. k \in 1..3 /\ len = (k - 1) * 520 + m
  BY <1>2 DEF CarrierLen
<1>4. sig \in Nat \ {0} /\ sig <= 73 /\ push_overhead(sig) = 1
  BY DEF MAX_SIGNATURE_LEN, push_overhead
<1>5. PICK s, f : /\ carrier_script_sig(index, x, Signature(sig), redeem_script) = CatAll(s)
                  /\ CarrierList(s, f, k, len, sig)
  BY <1>1, <1>4, CarrierPushes
<1>6. PICK n \in Nat : n = k + 3 /\ Pushed(n, s, f)
  BY <1>5 DEF CarrierList
<1>7. \A i \in 1..n : /\ Neat(s[i]) /\ Leads(s[i]) /\ IsBytes(s[i])
                      /\ Size(s[i]) = push_overhead(Size(f[i])) + Size(f[i])
  BY <1>6, PushedLead
<1>8. Len(s) = n
  BY <1>6 DEF Pushed
<1>9. PICK g : Stacks(g, s, n) /\ CatAll(s) = g[n]
  BY <1>7, <1>8, CatAllLeads
<1>10. PICK t : t = [i \in 0..n |-> Size(g[i])]
  OBVIOUS
<1>11. /\ t[0] = 0
       /\ \A i \in 1..n : t[i] \in Nat /\ t[i] = t[i - 1] + (push_overhead(Size(f[i])) + Size(f[i]))
  <2>1. /\ Size(g[0]) = 0
        /\ \A i \in 0..n : Size(g[i]) \in Nat
        /\ \A i \in 1..n : Size(g[i]) = Size(g[i - 1]) + Size(s[i])
    BY <1>7, <1>9, StackSizes
  <2> QED
    BY <1>7, <1>10, <2>1
<1>12. push_overhead(520) = 3 /\ push_overhead(36) = 1 /\ push_overhead(1) = 1
  BY DEF push_overhead
<1>13. /\ Size(f[1]) = 1
       /\ \A i \in 1..k : Size(f[1 + i]) = PieceLen(len, 520, i)
       /\ Size(f[k + 2]) = sig
       /\ Size(f[k + 3]) = 36
  BY <1>5 DEF CarrierList, MAX_PUSH_SIZE, REDEEM_SCRIPT_LEN
<1>14. ASSUME NEW i \in 1..k
       PROVE  Size(f[1 + i]) = IF i < k THEN 520 ELSE m
  BY <1>3, <1>13 DEF PieceLen, Lesser
<1>15. t[1] = 2
  BY <1>6, <1>11, <1>12, <1>13
<1>16. PICK o \in 1..3 : o = push_overhead(m)
  BY HeaderLiteral
<1>17. \A i \in 1..k : t[1 + i] = t[i] + (IF i < k THEN 523 ELSE o + m)
  <2> SUFFICES ASSUME NEW i \in 1..k PROVE t[1 + i] = t[i] + (IF i < k THEN 523 ELSE o + m)
    OBVIOUS
  <2>1. 1 + i \in 1..n /\ (1 + i) - 1 = i
    BY <1>6
  <2>2. PICK y : y = Size(f[1 + i]) /\ y = IF i < k THEN 520 ELSE m
    BY <1>14
  <2>3. t[1 + i] = t[i] + (push_overhead(y) + y)
    BY <1>11, <2>1, <2>2
  <2>4. push_overhead(y) + y = IF i < k THEN 523 ELSE o + m
    BY <1>12, <1>16, <2>2
  <2> QED
    BY <2>3, <2>4
<1>18. t[k + 1] = 2 + (k - 1) * 523 + (o + m)
  <2>1. CASE k = 1
    BY <1>15, <1>17, <2>1
  <2>2. CASE k = 2
    BY <1>15, <1>17, <2>2
  <2>3. CASE k = 3
    BY <1>15, <1>17, <2>3
  <2> QED
    BY <1>3, <2>1, <2>2, <2>3
<1>19. t[k + 2] = t[k + 1] + (1 + sig) /\ t[k + 3] = t[k + 2] + 37
  <2>1. k + 2 \in 1..n /\ k + 3 \in 1..n /\ (k + 2) - 1 = k + 1 /\ (k + 3) - 1 = k + 2
    BY <1>3, <1>6
  <2> QED
    BY <1>4, <1>11, <1>12, <1>13, <2>1
<1>20. PICK z : z = CatAll(s) /\ Size(z) = t[k + 3]
  BY <1>3, <1>6, <1>9, <1>10
<1>21. Size(z) = 2 + (k - 1) * 523 + (o + m) + (1 + sig) + 37
  BY <1>18, <1>19, <1>20
<1>22. PICK b : b = carrier_script_sig_len(len) /\ b \in 0..1650 /\ b = 2 + (k - 1) * 523 + (o + m) + 111
  BY <1>2, <1>16 DEF CarrierLen
<1>23. Size(z) \in Nat /\ Size(z) <= b
  BY <1>3, <1>4, <1>21, <1>22
<1>24. \A p \in Range(parse_script_pushes(z)) : Size(p) <= MAX_PUSH_SIZE
  <2>1. parse_script_pushes(z) = f
    BY <1>6, <1>20, PushesRead
  <2>2. f = [i \in 1..n |-> f[i]]
    BY <1>6 DEF Pushed
  <2>3. DOMAIN f = 1..n
    BY <2>2
  <2>4. ASSUME NEW i \in 1..n PROVE Size(f[i]) <= 520
    <3>1. i = 1 \/ (i - 1 \in 1..k /\ i = 1 + (i - 1)) \/ i = k + 2 \/ i = k + 3
      BY <1>3, <1>6
    <3>2. CASE i - 1 \in 1..k
      <4>1. Size(f[1 + (i - 1)]) = IF i - 1 < k THEN 520 ELSE m
        BY <1>14, <3>2
      <4> QED
        BY <4>1
    <3> QED
      BY <1>4, <1>13, <3>1, <3>2
  <2> QED
    BY <2>1, <2>3, <2>4 DEF Range, MAX_PUSH_SIZE
<1> QED
  BY <1>5, <1>20, <1>22, <1>23, <1>24 DEF ScriptFits, MAX_STANDARD_SCRIPTSIG_SIZE

LEMMA PubKeyIs == Pushable(PubKey) /\ Size(PubKey) = 33
<1>1. PICK m \in Nat \ {0} : m = 33
  OBVIOUS
<1>2. Pushable(Stretch(<<"pubkey">>, m)) /\ Size(Stretch(<<"pubkey">>, m)) = m
  BY StretchIs
<1> QED
  BY <1>1, <1>2 DEF PubKey

LEMMA KeyFits ==
  ASSUME NEW sig \in 1..MAX_SIGNATURE_LEN
  PROVE  ScriptFits(p2pkh_script_sig(Signature(sig), PubKey), p2pkh_script_sig_len)
<1>1. sig \in Nat \ {0} /\ sig <= 73 /\ push_overhead(sig) = 1 /\ push_overhead(33) = 1
  BY DEF MAX_SIGNATURE_LEN, push_overhead
<1>2. PICK y, z : y = Signature(sig) /\ z = PubKey
  OBVIOUS
<1>3. Pushable(y) /\ Size(y) = sig /\ Pushable(z) /\ Size(z) = 33
  BY <1>1, <1>2, StretchIs, PubKeyIs DEF Signature
<1>4. PICK a, b : a = push_data(y) /\ b = push_data(z)
  OBVIOUS
<1>5. PICK s, f : s = <<a, b>> /\ f = <<y, z>>
  OBVIOUS
<1>6. PICK n \in Nat : n = 2
  OBVIOUS
<1>7. Pushed(n, s, f)
  <2>1. f = [i \in 1..n |-> f[i]] /\ Len(s) = n /\ s[1] = a /\ s[2] = b /\ f[1] = y /\ f[2] = z
    BY <1>5, <1>6
  <2>2. \A i \in 1..n : i = 1 \/ i = 2
    BY <1>6
  <2>3. \A i \in 1..n : Pushable(f[i]) /\ s[i] = push_data(f[i])
    BY <1>3, <1>4, <2>1, <2>2
  <2> QED
    BY <2>1, <2>3, Zenon DEF Pushed
<1>8. \A i \in 1..n : /\ Neat(s[i]) /\ Leads(s[i]) /\ IsBytes(s[i])
                      /\ Size(s[i]) = push_overhead(Size(f[i])) + Size(f[i])
  BY <1>7, PushedLead
<1>9. 1 \in 1..n /\ 2 \in 1..n /\ s[1] = a /\ s[2] = b /\ f[1] = y /\ f[2] = z
  BY <1>5, <1>6
<1>10. Neat(a) /\ Leads(a) /\ IsBytes(a) /\ Size(a) = sig + 1 /\ Neat(b) /\ Leads(b) /\ IsBytes(b) /\ Size(b) = 34
  BY <1>1, <1>3, <1>8, <1>9
<1>11. Cat(a, b) = a \o b
  <2>1. ~Continues(a[Len(a)], b[1])
    BY <1>10, LeadsApart
  <2> QED
    BY <1>10, <2>1, CatApart
<1>12. CatAll(s) = a \o b
  <2>1. PICK g : Stacks(g, s, n) /\ CatAll(s) = g[n]
    BY <1>7, <1>8, CatAllLeads DEF Pushed
  <2>2. g[0] = <<>> /\ g[1] = g[0] \o s[1] /\ g[2] = g[1] \o s[2]
    <3>1. 1 - 1 = 0 /\ 2 - 1 = 1
      OBVIOUS
    <3> QED
      BY <1>9, <2>1, <3>1 DEF Stacks
  <2>3. g[1] = a
    BY <1>9, <1>10, <2>2, NothingBehind
  <2> QED
    BY <1>6, <1>9, <2>1, <2>2, <2>3
<1>13. PICK script : script = p2pkh_script_sig(Signature(sig), PubKey) /\ script = a \o b
  BY <1>2, <1>4, <1>11 DEF p2pkh_script_sig
<1>14. Size(script) = sig + 35
  <2>1. Size(a \o b) = Size(a) + Size(b)
    BY <1>10, SizeBehind
  <2> QED
    BY <1>1, <1>10, <1>13, <2>1
<1>15. \A p \in Range(parse_script_pushes(script)) : Size(p) <= MAX_PUSH_SIZE
  <2>1. parse_script_pushes(script) = f
    BY <1>7, <1>12, <1>13, PushesRead
  <2>2. Range(f) = {y, z}
    BY <1>5 DEF Range
  <2>3. Size(y) <= 520 /\ Size(z) <= 520
    BY <1>1, <1>3
  <2> QED
    BY <2>1, <2>2, <2>3 DEF MAX_PUSH_SIZE
<1>16. p2pkh_script_sig_len = 108 /\ MAX_STANDARD_SCRIPTSIG_SIZE = 1650
  BY DEF p2pkh_script_sig_len, MAX_SIGNATURE_LEN, MAX_STANDARD_SCRIPTSIG_SIZE
<1> QED
  BY <1>1, <1>13, <1>14, <1>15, <1>16 DEF ScriptFits

(***************************************************************************)
(* Outputs.                                                                *)
(***************************************************************************)
\* An output script that carries no more data than is relayed.
OutputFits(script) == /\ Size(script) \in Nat
                      /\ Size(extract_op_return_data(script).data) <= 80

LEMMA MessageFits ==
  ASSUME NEW p, p.size \in 1..80
  PROVE  OutputFits(op_return_script(p))
<1>1. PICK n \in Nat \ {0} : n = p.size /\ n <= 80
  OBVIOUS
<1>2. PICK d : d = Stretch(<<"message", p>>, n)
  OBVIOUS
<1>3. Pushable(d) /\ Size(d) = n
  BY <1>2, StretchIs
<1>4. PICK o, b : o = Byte(OP_RETURN) /\ b = push_data(d)
  OBVIOUS
<1>5. Neat(o) /\ IsBytes(o) /\ Size(o) = 1
  <2>1. OP_RETURN \in Int
    BY DEF OP_RETURN
  <2> QED
    BY <1>4, <2>1, BytePushable DEF Pushable, Neat
<1>6. PICK k \in Nat : k = push_overhead(n) + n
  <2>1. push_overhead(n) \in 1..3
    BY HeaderLiteral
  <2> QED
    BY <2>1
<1>7. Neat(b) /\ Leads(b) /\ IsBytes(b) /\ Size(b) = k
  BY <1>3, <1>4, <1>6, PushIs DEF Pushable, Neat
<1>8. PICK script : script = op_return_script(p) /\ script = o \o b
  <2>1. ~Continues(o[Len(o)], b[1])
    BY <1>7, LeadsApart
  <2>2. Cat(o, b) = o \o b
    BY <1>5, <1>7, <2>1, CatApart
  <2> QED
    BY <1>1, <1>2, <1>4, <2>2 DEF op_return_script
<1>9. Size(script) = 1 + k /\ Slice(script, 1, Size(script)) = b
  BY <1>5, <1>7, <1>8, SizeBehind, SliceParts
<1>10. parse_push(b) = [ok |-> TRUE, data |-> d, used |-> k]
  <2>1. IsBytes(<<>>)
    BY NoBytes
  <2>2. parse_push(b \o <<>>) = [ok |-> TRUE, data |-> d, used |-> k]
    BY <1>3, <1>4, <1>6, <2>1, PushRead DEF Pushable
  <2> QED
    BY <1>7, <2>2, NothingBehind
<1>11. extract_op_return_data(script).data \in {d, <<>>}
  <2>1. NoPush.data = <<>> /\ [NoPush EXCEPT !.ok = TRUE].data = <<>>
    BY DEF NoPush
  <2>2. PICK x : x = parse_push(b) /\ x.data = d
    BY <1>10
  <2> QED
    BY <1>9, <2>1, <2>2 DEF extract_op_return_data
<1>12. Size(extract_op_return_data(script).data) <= 80
  <2>1. Size(<<>>) = 0
    BY NoBytes
  <2> QED
    BY <1>1, <1>3, <1>11, <2>1
<1> QED
  BY <1>6, <1>8, <1>9, <1>12 DEF OutputFits

\* Other scripts carry no data.
LEMMA SilentFits ==
  ASSUME NEW script, NEW S, script \in Seq(S), Len(script) >= 1, Size(script) \in Nat,
         NEW v \in Int, script[1] = ByteSpan(v), v # OP_RETURN
  PROVE  OutputFits(script)
<1>1. ByteAt(script, 0) # OP_RETURN
  BY FirstByte
<1>2. extract_op_return_data(script).data = <<>>
  BY <1>1 DEF extract_op_return_data, NoPush
<1>3. Size(<<>>) = 0
  BY NoBytes
<1> QED
  BY <1>2, <1>3 DEF OutputFits

LEMMA ScriptsFit == OutputFits(p2pkh_script_pubkey) /\ OutputFits(p2sh_script_pubkey)
<1>1. OutputFits(p2pkh_script_pubkey)
  <2>1. PICK S : p2pkh_script_pubkey \in Seq(S)
    BY ChangeScript
  <2>2. PICK v \in Int : v = 118 /\ v # OP_RETURN
    BY DEF OP_RETURN
  <2>3. PICK x : x = p2pkh_script_pubkey
    OBVIOUS
  <2>5. x \in Seq(S) /\ Len(x) >= 1
    BY <2>1, <2>3, ChangeScript
  <2>6. x[1] = ByteSpan(v)
    BY <2>2, <2>3, ChangeScript
  <2>7. Size(x) \in Nat
    <3>1. Size(p2pkh_script_pubkey) \in 1..120
      BY ChangeScript, Zenon
    <3>2. \A n \in 1..120 : n \in Nat
      OBVIOUS
    <3> QED
      BY <2>3, <3>1, <3>2, Zenon
  <2>4. OutputFits(x)
    BY <2>2, <2>5, <2>6, <2>7, SilentFits
  <2> QED
    BY <2>3, <2>4
<1>2. OutputFits(p2sh_script_pubkey)
  <2>1. PICK S : p2sh_script_pubkey \in Seq(S)
    BY CarrierScript
  <2>2. PICK v \in Int : v = 169 /\ v # OP_RETURN
    BY DEF OP_RETURN
  <2>3. PICK x : x = p2sh_script_pubkey
    OBVIOUS
  <2>5. x \in Seq(S) /\ Len(x) >= 1
    BY <2>1, <2>3, CarrierScript
  <2>6. x[1] = ByteSpan(v)
    BY <2>2, <2>3, CarrierScript
  <2>7. Size(x) \in Nat
    <3>1. Size(p2sh_script_pubkey) \in 1..80
      BY CarrierScript, Zenon
    <3>2. \A n \in 1..80 : n \in Nat
      OBVIOUS
    <3> QED
      BY <2>3, <3>1, <3>2, Zenon
  <2>4. OutputFits(x)
    BY <2>2, <2>5, <2>6, <2>7, SilentFits
  <2> QED
    BY <2>3, <2>4
<1> QED
  BY <1>1, <1>2

\* A list of integers.
Ints(f, n) == f = [i \in 1..n |-> f[i]] /\ \A i \in 1..n : f[i] \in Int

\* A sum grows with its terms.
LEMMA SumGrows ==
  ASSUME NEW n \in Nat, NEW f, Ints(f, n), NEW h, Ints(h, n), \A i \in 1..n : f[i] <= h[i]
  PROVE  Sum(f) \in Int /\ Sum(h) \in Int /\ Sum(f) <= Sum(h)
<1>1. Len(f) = n /\ Len(h) = n /\ \A i \in 1..n : f[i] \in Int /\ h[i] \in Int /\ f[i] <= h[i]
  <2>1. f = [i \in 1..n |-> f[i]] /\ h = [i \in 1..n |-> h[i]]
    BY DEF Ints
  <2>2. Len(f) = n /\ Len(h) = n
    BY <2>1, Listed
  <2> QED
    BY <2>2 DEF Ints
<1>2. PICK x : Adds(x, f) /\ Sum(f) = x[n]
  BY <1>1, SumAdds
<1>3. PICK y : Adds(y, h) /\ Sum(h) = y[n]
  BY <1>1, SumAdds
<1> DEFINE Is(k) == x[k] \in Int /\ y[k] \in Int /\ x[k] <= y[k]
           B == {k \in 0..n : ~Is(k)}
<1>4. B = {}
  <2> SUFFICES ASSUME B # {} PROVE FALSE
    <3> HIDE DEF B
    <3> QED
      OBVIOUS
  <2>1. B \in SUBSET Nat
    <3> HIDE DEF Is
    <3> QED
      OBVIOUS
  <2>2. PICK k \in B : \A j \in B : k <= j
    BY <2>1, LeastOf
  <2>3. k \in 0..n /\ ~Is(k)
    OBVIOUS
  <2>4. k # 0
    <3>1. x[0] = 0 /\ y[0] = 0
      BY <1>2, <1>3 DEF Adds
    <3>2. Is(0)
      BY <3>1
    <3> HIDE DEF Is, B
    <3> QED
      BY <2>3, <3>2
  <2>5. k - 1 \in 0..n /\ k \in 1..n /\ ~(k <= k - 1)
    BY <2>3, <2>4
  <2>6. Is(k - 1)
    <3> HIDE DEF Is
    <3>1. k - 1 \notin B
      <4> HIDE DEF B
      <4> QED
        BY <2>2, <2>5
    <3> QED
      BY <2>5, <3>1
  <2>7. x[k] = x[k - 1] + f[k] /\ y[k] = y[k - 1] + h[k]
    BY <1>1, <1>2, <1>3, <2>5 DEF Adds
  <2>8. Is(k)
    <3>1. f[k] \in Int /\ h[k] \in Int /\ f[k] <= h[k]
      BY <1>1, <2>5
    <3>2. PICK p \in Int, q \in Int : p = x[k - 1] /\ q = y[k - 1] /\ p <= q
      BY <2>6
    <3> QED
      BY <2>7, <3>1, <3>2
  <2> HIDE DEF Is, B
  <2> QED
    BY <2>3, <2>8
<1>5. Is(n)
  <2> HIDE DEF Is
  <2>1. n \in 0..n
    OBVIOUS
  <2> QED
    BY <1>4, <2>1
<1> QED
  BY <1>2, <1>3, <1>5

\* So does the fee with what it pays for.
LEMMA FeeGrows ==
  ASSUME NEW a \in Int, NEW b \in Int, NEW c \in Int, NEW d \in Int, a <= c, b <= d
  PROVE  zip317_fee_from_sizes(a, b) <= zip317_fee_from_sizes(c, d)
<1>1. CeilDiv(a, 150) \in Int /\ CeilDiv(c, 150) \in Int /\ CeilDiv(a, 150) <= CeilDiv(c, 150)
  BY DEF CeilDiv
<1>2. CeilDiv(b, 34) \in Int /\ CeilDiv(d, 34) \in Int /\ CeilDiv(b, 34) <= CeilDiv(d, 34)
  BY DEF CeilDiv
<1>3. PICK e \in Int, f \in Int, g \in Int, h \in Int :
         /\ e = CeilDiv(a, 150) /\ f = CeilDiv(b, 34) /\ g = CeilDiv(c, 150) /\ h = CeilDiv(d, 34)
         /\ e <= g /\ f <= h
  BY <1>1, <1>2
<1>4. 5000 * Greater(Greater(e, f), 2) <= 5000 * Greater(Greater(g, h), 2)
  BY <1>3 DEF Greater
<1> QED
  BY <1>3, <1>4 DEF zip317_fee_from_sizes, MARGINAL_FEE, GRACE_ACTIONS

LEMMA SizesGrow ==
  ASSUME NEW m \in Nat, NEW n \in Nat, m <= n
  PROVE  /\ input_serialized_size(m) \in Int /\ input_serialized_size(n) \in Int
         /\ input_serialized_size(m) <= input_serialized_size(n)
         /\ output_serialized_size(m) \in Int
  BY DEF input_serialized_size, output_serialized_size, serialized_script_size

(***************************************************************************)
(* The transaction of a plan.                                              *)
(***************************************************************************)
\* What the relay rules say of a transaction.
Relays(plan, tx) ==
  /\ plan.fee >= zip317_fee_from_sizes(
         Sum(Map(LAMBDA in : input_serialized_size(Size(in.script_sig)), tx.vin)),
         Sum(Map(LAMBDA out : output_serialized_size(Size(out.script)), tx.vout)))
  /\ \A in \in Range(tx.vin) :
        /\ Size(in.script_sig) <= MAX_STANDARD_SCRIPTSIG_SIZE
        /\ \A p \in Range(parse_script_pushes(in.script_sig)) : Size(p) <= MAX_PUSH_SIZE
  /\ \A i \in DOMAIN tx.vout : Size(extract_op_return_data(tx.vout[i].script).data) <= 80

SigOf(x, sig) ==
  IF x.kind.carrier
    THEN carrier_script_sig(x.kind.index, x.kind.data, Signature(sig), redeem_script)
    ELSE p2pkh_script_sig(Signature(sig), PubKey)

\* Inputs whose scriptSigs are no longer than the bounds h.
InputsFit(inputs, n, sig, h) ==
  /\ inputs = [i \in 1..n |-> inputs[i]]
  /\ \A i \in 1..n : ScriptFits(SigOf(inputs[i], sig), h[i])

\* Outputs that fit and have at most so many bytes together.
OutputsFit(outs, m, bytes) ==
  /\ outs = [i \in 1..m |-> outs[i]]
  /\ \A i \in 1..m : OutputFits(outs[i].script)
  /\ bytes \in Int
  /\ Sum([i \in 1..m |-> output_serialized_size(Size(outs[i].script))]) <= bytes

LEMMA FitsSize ==
  ASSUME NEW script, NEW bound, ScriptFits(script, bound)
  PROVE  Size(script) \in Nat /\ bound \in Nat /\ Size(script) <= bound
         /\ Size(script) <= MAX_STANDARD_SCRIPTSIG_SIZE
<1>1. PICK x, m : x = Size(script) /\ m = MAX_STANDARD_SCRIPTSIG_SIZE
  OBVIOUS
<1>2. x \in Nat /\ x <= bound /\ bound \in 0..m
  BY <1>1, Zenon DEF ScriptFits
<1>3. m \in Int
  BY <1>1 DEF MAX_STANDARD_SCRIPTSIG_SIZE
<1>4. bound \in Nat /\ x <= m
  BY <1>2, <1>3
<1> QED
  BY <1>1, <1>2, <1>4

LEMMA TxRelays ==
  ASSUME NEW plan, NEW sig, NEW n \in Nat, NEW h, InputsFit(plan.inputs, n, sig, h),
         NEW m \in Nat, NEW bytes, OutputsFit(plan.outputs, m, bytes),
         plan.fee = zip317_fee_from_sizes(Sum([i \in 1..n |-> input_serialized_size(h[i])]), bytes)
  PROVE  Relays(plan, build_transparent_tx(plan, sig))
<1>1. PICK ins, outs : ins = plan.inputs /\ outs = plan.outputs
  OBVIOUS
<1>2. /\ ins = [i \in 1..n |-> ins[i]] /\ outs = [i \in 1..m |-> outs[i]]
      /\ Len(ins) = n /\ Len(outs) = m
  <2>1. ins = [i \in 1..n |-> ins[i]] /\ outs = [i \in 1..m |-> outs[i]]
    BY <1>1 DEF InputsFit, OutputsFit
  <2> QED
    BY <2>1, Listed
<1> DEFINE Signed(x) == [prevout |-> x.outpoint,
                    script_sig |->
                      IF x.kind.carrier
                        THEN carrier_script_sig(x.kind.index, x.kind.data,
                                                Signature(sig), redeem_script)
                        ELSE p2pkh_script_sig(Signature(sig), PubKey)]
<1>3. PICK vin : vin = [i \in 1..n |-> Signed(ins[i])]
  OBVIOUS
<1>4. vin = [i \in 1..n |-> vin[i]] /\ \A i \in 1..n : vin[i].script_sig = SigOf(ins[i], sig)
  BY <1>3 DEF SigOf
<1>5. <<>> \o vin = vin /\ Len(vin) = n
  BY <1>4, Listed
<1>6. PICK tx : /\ build_transparent_tx(plan, sig) = tx
                /\ tx = [version |-> 5, expiry |-> 0, vin |-> vin, vout |-> outs]
  <2>1. Map(Signed, ins) = vin
    <3>1. <<>> \o [i \in 1..Len(ins) |-> Signed(ins[i])] = vin
      BY <1>2, <1>3, <1>5
    <3> HIDE DEF Signed
    <3> QED
      BY <3>1 DEF Map
  <2>2. build_transparent_tx(plan, sig)
          = [version |-> 5, expiry |-> 0, vin |-> Map(Signed, plan.inputs), vout |-> plan.outputs]
    BY Zenon DEF build_transparent_tx
  <2> QED
    BY <1>1, <2>1, <2>2
<1>7. tx.vin = vin /\ tx.vout = outs
  BY <1>6
<1> HIDE DEF Signed
<1>8. ASSUME NEW i \in 1..n PROVE ScriptFits(vin[i].script_sig, h[i])
  BY <1>1, <1>4 DEF InputsFit
<1>9. PICK f, b : /\ f = [i \in 1..n |-> input_serialized_size(Size(vin[i].script_sig))]
                  /\ b = [i \in 1..n |-> input_serialized_size(h[i])]
  OBVIOUS
<1>10. ASSUME NEW i \in 1..n PROVE f[i] \in Int /\ b[i] \in Int /\ f[i] <= b[i]
  <2>1. PICK k \in Nat : k = Size(vin[i].script_sig) /\ k <= h[i] /\ h[i] \in Nat
    BY <1>8, FitsSize
  <2>2. PICK l \in Nat : l = h[i] /\ k <= l
    BY <2>1
  <2> QED
    BY <1>9, <2>1, <2>2, SizesGrow
<1>11. Ints(f, n) /\ Ints(b, n)
  <2>1. f = [i \in 1..n |-> f[i]] /\ b = [i \in 1..n |-> b[i]]
    BY <1>9
  <2> QED
    BY <1>10, <2>1 DEF Ints
<1>12. PICK a \in Int, c \in Int : a = Sum(f) /\ c = Sum(b) /\ a <= c
  BY <1>10, <1>11, SumGrows
<1>13. Sum(Map(LAMBDA in : input_serialized_size(Size(in.script_sig)), vin)) = a
  <2>1. <<>> \o f = f
    <3>1. f = [i \in 1..n |-> f[i]]
      BY <1>9
    <3> QED
      BY <3>1, Listed
  <2> QED
    BY <1>5, <1>9, <1>12, <2>1 DEF Map
<1>14. PICK g : g = [i \in 1..m |-> output_serialized_size(Size(outs[i].script))]
  OBVIOUS
<1>15. \A i \in 1..m : OutputFits(outs[i].script)
  BY <1>1 DEF OutputsFit
<1>16. \A i \in 1..m : g[i] \in Int
  <2> SUFFICES ASSUME NEW i \in 1..m PROVE g[i] \in Int
    OBVIOUS
  <2>1. PICK k \in Nat : k = Size(outs[i].script)
    BY <1>15 DEF OutputFits
  <2>2. output_serialized_size(k) \in Int
    BY SizesGrow
  <2> QED
    BY <1>14, <2>1, <2>2
<1>17. g = [i \in 1..m |-> g[i]]
  BY <1>14
<1>18. PICK d \in Int, e \in Int : d = Sum(g) /\ e = bytes /\ d <= e
  <2>1. Sum(g) \in Int
    <3>1. Len(g) = m
      BY <1>17, Listed
    <3> QED
      BY <1>16, <3>1, SumInt
  <2>2. bytes \in Int /\ Sum(g) <= bytes
    BY <1>1, <1>14 DEF OutputsFit
  <2> QED
    BY <2>1, <2>2
<1>19. Sum(Map(LAMBDA out : output_serialized_size(Size(out.script)), outs)) = d
  <2>1. <<>> \o g = g
    BY <1>17, Listed
  <2> QED
    BY <1>2, <1>14, <1>18, <2>1 DEF Map
<1>20. plan.fee = zip317_fee_from_sizes(c, e)
  BY <1>9, <1>12, <1>18, Zenon
<1>21. plan.fee \in Int /\ zip317_fee_from_sizes(a, d) \in Int /\ zip317_fee_from_sizes(a, d) <= plan.fee
  <2>1. zip317_fee_from_sizes(c, e) \in Int /\ zip317_fee_from_sizes(a, d) \in Int
    BY <1>12, <1>18, FeeInt
  <2>2. zip317_fee_from_sizes(a, d) <= zip317_fee_from_sizes(c, e)
    BY <1>12, <1>18, FeeGrows
  <2> QED
    BY <1>20, <2>1, <2>2, Zenon
<1>22. plan.fee >= zip317_fee_from_sizes(a, d)
  <2>1. PICK x \in Int, y \in Int : x = plan.fee /\ y = zip317_fee_from_sizes(a, d) /\ y <= x
    BY <1>21, Zenon
  <2> QED
    BY <2>1
<1>23. ASSUME NEW in \in Range(vin)
       PROVE  /\ Size(in.script_sig) <= MAX_STANDARD_SCRIPTSIG_SIZE
              /\ \A p \in Range(parse_script_pushes(in.script_sig)) : Size(p) <= MAX_PUSH_SIZE
  <2>1. PICK i \in 1..n : in = vin[i]
    <3>1. DOMAIN vin = 1..n
      BY <1>4
    <3> QED
      BY <3>1 DEF Range
  <2>2. ScriptFits(in.script_sig, h[i])
    BY <1>8, <2>1
  <2>3. Size(in.script_sig) <= MAX_STANDARD_SCRIPTSIG_SIZE
    BY <2>2, FitsSize
  <2> QED
    BY <2>2, <2>3, Zenon DEF ScriptFits
<1>24. ASSUME NEW i \in DOMAIN outs PROVE Size(extract_op_return_data(outs[i].script).data) <= 80
  <2>1. i \in 1..m
    BY <1>2
  <2> QED
    BY <1>15, <2>1, Zenon DEF OutputFits
<1>25. Relays(plan, tx)
  <2>1. plan.fee >= zip317_fee_from_sizes(
         Sum(Map(LAMBDA in : input_serialized_size(Size(in.script_sig)), tx.vin)),
         Sum(Map(LAMBDA out : output_serialized_size(Size(out.script)), tx.vout)))
    BY <1>7, <1>13, <1>19, <1>22
  <2>2. \A in \in Range(tx.vin) :
          /\ Size(in.script_sig) <= MAX_STANDARD_SCRIPTSIG_SIZE
          /\ \A p \in Range(parse_script_pushes(in.script_sig)) : Size(p) <= MAX_PUSH_SIZE
    BY <1>7, <1>23, Zenon
  <2>3. \A i \in DOMAIN tx.vout : Size(extract_op_return_data(tx.vout[i].script).data) <= 80
    BY <1>7, <1>24, Zenon
  <2> QED
    BY <2>1, <2>2, <2>3, Zenon DEF Relays
<1> QED
  BY <1>6, <1>25

\* The last term of a sum.
LEMMA SumLast ==
  ASSUME NEW n \in Nat, NEW x, Len(x) = n + 1, NEW y, Len(y) = n, \A i \in 1..n : y[i] = x[i]
  PROVE  Sum(x) = Sum(y) + x[n + 1]
<1>1. PICK g : Adds(g, x) /\ Sum(x) = g[n + 1]
  BY SumAdds
<1>2. PICK h : Adds(h, y) /\ Sum(y) = h[n]
  BY SumAdds
<1>3. /\ g[0] = 0 /\ \A i \in 1..(n + 1) : g[i] = g[i - 1] + x[i]
      /\ h[0] = 0 /\ \A i \in 1..n : h[i] = h[i - 1] + y[i]
  BY <1>1, <1>2 DEF Adds
<1> DEFINE Is(k) == g[k] = h[k]
           B == {k \in 0..n : ~Is(k)}
<1>4. B = {}
  <2> SUFFICES ASSUME B # {} PROVE FALSE
    <3> HIDE DEF B
    <3> QED
      OBVIOUS
  <2>1. B \in SUBSET Nat
    <3> HIDE DEF Is
    <3> QED
      OBVIOUS
  <2>2. PICK k \in B : \A j \in B : k <= j
    BY <2>1, LeastOf
  <2>3. k \in 0..n /\ ~Is(k)
    OBVIOUS
  <2>4. k # 0
    BY <1>3, <2>3
  <2>5. k - 1 \in 0..n /\ k \in 1..n /\ k \in 1..(n + 1) /\ ~(k <= k - 1)
    BY <2>3, <2>4
  <2>6. Is(k - 1)
    <3> HIDE DEF Is
    <3>1. k - 1 \notin B
      <4> HIDE DEF B
      <4> QED
        BY <2>2, <2>5
    <3> QED
      BY <2>5, <3>1
  <2>7. g[k] = g[k - 1] + x[k] /\ h[k] = h[k - 1] + x[k]
    BY <1>3, <2>5
  <2> QED
    BY <2>3, <2>6, <2>7
<1>5. g[n] = h[n]
  <2> HIDE DEF Is
  <2>1. Is(n)
    BY <1>4
  <2> QED
    BY <2>1 DEF Is
<1>6. g[n + 1] = g[n] + x[n + 1]
  <2>1. n + 1 \in 1..(n + 1) /\ (n + 1) - 1 = n
    OBVIOUS
  <2> QED
    BY <1>3, <2>1
<1> QED
  BY <1>1, <1>2, <1>5, <1>6

LEMMA SumFew ==
  ASSUME NEW a \in Int, NEW b \in Int
  PROVE  Sum([i \in 1..1 |-> a]) = a /\ Sum([i \in 1..2 |-> IF i = 1 THEN a ELSE b]) = a + b
<1>1. PICK x, y, z : /\ x = [i \in 1..2 |-> IF i = 1 THEN a ELSE b]
                     /\ y = [i \in 1..1 |-> a]
                     /\ z = [i \in 1..0 |-> a]
  OBVIOUS
<1>2. PICK none \in Nat, one \in Nat, two \in Nat : none = 0 /\ one = 1 /\ two = 2
  OBVIOUS
<1>3. x = [i \in 1..two |-> x[i]] /\ y = [i \in 1..one |-> y[i]] /\ z = [i \in 1..none |-> z[i]]
  BY <1>1, <1>2
<1>4. Len(x) = two /\ Len(y) = one /\ Len(z) = none
  BY <1>3, Listed
<1>5. Sum(z) = 0
  <2>1. PICK g : Adds(g, z) /\ Sum(z) = g[none]
    BY <1>4, SumAdds
  <2> QED
    BY <1>2, <2>1 DEF Adds
<1>6. Sum(y) = a
  <2>1. Len(y) = none + 1 /\ Len(z) = none /\ y[none + 1] = a /\ \A i \in 1..none : z[i] = y[i]
    BY <1>1, <1>2, <1>4
  <2>2. Sum(y) = Sum(z) + y[none + 1]
    BY <2>1, SumLast
  <2> QED
    BY <1>5, <2>1, <2>2
<1>7. Sum(x) = a + b
  <2>1. Len(x) = one + 1 /\ Len(y) = one /\ x[one + 1] = b /\ \A i \in 1..one : y[i] = x[i]
    BY <1>1, <1>2, <1>4
  <2>2. Sum(x) = Sum(y) + x[one + 1]
    BY <2>1, SumLast
  <2> QED
    BY <1>6, <2>1, <2>2
<1> QED
  BY <1>1, <1>6, <1>7

(***************************************************************************)
(* The outputs of the plans.                                               *)
(***************************************************************************)
ScriptBytes(script) == output_serialized_size(Size(script))

LEMMA BytesOf ==
  ASSUME NEW script, OutputFits(script)
  PROVE  ScriptBytes(script) \in Nat
<1>1. PICK k \in Nat : k = Size(script)
  BY DEF OutputFits
<1>2. output_serialized_size(k) \in Nat
  BY DEF output_serialized_size, serialized_script_size
<1> QED
  BY <1>1, <1>2 DEF ScriptBytes

\* A message and the change.
LEMMA MessageAndChange ==
  ASSUME NEW p, p.size \in 1..80, NEW v, NEW w,
         NEW outs, outs = <<Pay(v, op_return_script(p)), Pay(w, p2pkh_script_pubkey)>>
  PROVE  OutputsFit(outs, 2, output_serialized_size(Size(op_return_script(p))) + P2PKH_OUT)
<1>1. PICK x, y : x = op_return_script(p) /\ y = p2pkh_script_pubkey
  OBVIOUS
<1>2. OutputFits(x) /\ OutputFits(y)
  BY <1>1, MessageFits, ScriptsFit
<1>3. PICK a \in Nat, b \in Nat : a = ScriptBytes(x) /\ b = ScriptBytes(y)
  BY <1>2, BytesOf
<1>4. PICK n \in Nat : n = 2
  OBVIOUS
<1>5. PICK s, t : s = Pay(v, x) /\ t = Pay(w, y)
  OBVIOUS
<1>6. outs = <<s, t>> /\ s.script = x /\ t.script = y
  BY <1>1, <1>5 DEF Pay
<1>7. outs = [i \in 1..n |-> outs[i]] /\ outs[1].script = x /\ outs[2].script = y
  BY <1>4, <1>6
<1>8. \A i \in 1..n : i = 1 \/ i = 2
  BY <1>4
<1>9. \A i \in 1..n : OutputFits(outs[i].script)
  BY <1>2, <1>7, <1>8, Zenon
<1>10. [i \in 1..n |-> output_serialized_size(Size(outs[i].script))] = [i \in 1..2 |-> IF i = 1 THEN a ELSE b]
  <2>1. \A i \in 1..n : output_serialized_size(Size(outs[i].script)) = IF i = 1 THEN a ELSE b
    BY <1>3, <1>7, <1>8 DEF ScriptBytes
  <2> QED
    BY <1>4, <2>1
<1>11. PICK f : /\ f = [i \in 1..n |-> output_serialized_size(Size(outs[i].script))]
                /\ Sum(f) = a + b
  <2>1. a \in Int /\ b \in Int
    BY <1>3
  <2>2. Sum([i \in 1..2 |-> IF i = 1 THEN a ELSE b]) = a + b
    BY <2>1, SumFew, Zenon
  <2> QED
    BY <1>10, <2>2, Zenon
<1>12. PICK bytes \in Int : /\ bytes = output_serialized_size(Size(op_return_script(p))) + P2PKH_OUT
                            /\ bytes = a + b
  BY <1>1, <1>3 DEF ScriptBytes, P2PKH_OUT
<1>13. Sum(f) <= bytes
  BY <1>11, <1>12
<1>14. OutputsFit(outs, n, bytes)
  BY <1>7, <1>9, <1>11, <1>13, Zenon DEF OutputsFit
<1> QED
  BY <1>4, <1>12, <1>14

\* The carriers, and the change when there is any.
LEMMA CarriersAndChange ==
  ASSUME NEW n \in Nat, NEW each, NEW f, f = [i \in 1..n |-> Pay(each, p2sh_script_pubkey)],
         NEW e, NEW w, e = <<Pay(w, p2pkh_script_pubkey)>> \/ e = <<>>
  PROVE  \E m \in Nat :
           OutputsFit(f \o e, m, n * output_serialized_size(Size(p2sh_script_pubkey)) + P2PKH_OUT)
<1>1. PICK x, y : x = p2sh_script_pubkey /\ y = p2pkh_script_pubkey
  OBVIOUS
<1>2. OutputFits(x) /\ OutputFits(y)
  BY <1>1, ScriptsFit
<1>3. PICK a \in Nat, b \in Nat : a = ScriptBytes(x) /\ b = ScriptBytes(y)
  BY <1>2, BytesOf
<1>4. PICK s, t : s = Pay(each, x) /\ t = Pay(w, y)
  OBVIOUS
<1>5. s.script = x /\ t.script = y /\ (e = <<t>> \/ e = <<>>) /\ f = [i \in 1..n |-> s]
  BY <1>1, <1>4 DEF Pay
<1>6. PICK S : S = {s, t}
  OBVIOUS
<1>7. f \in Seq(S) /\ Len(f) = n
  <2>1. f \in [1..n -> S]
    BY <1>5, <1>6
  <2> QED
    BY <2>1
<1>8. PICK bytes \in Int : /\ bytes = n * output_serialized_size(Size(p2sh_script_pubkey)) + P2PKH_OUT
                           /\ bytes = n * a + b
  <2>1. n * a \in Int
    OBVIOUS
  <2>2. output_serialized_size(Size(p2sh_script_pubkey)) = a /\ P2PKH_OUT = b
    BY <1>1, <1>3 DEF ScriptBytes, P2PKH_OUT
  <2> QED
    BY <2>1, <2>2
<1>9. PICK g : g = [i \in 1..n |-> output_serialized_size(Size(f[i].script))]
  OBVIOUS
<1>10. g = [i \in 1..n |-> a]
  <2>1. \A i \in 1..n : output_serialized_size(Size(f[i].script)) = a
    BY <1>3, <1>5 DEF ScriptBytes
  <2> QED
    BY <1>9, <2>1
<1>11. PICK z \in Int : z = Sum(g) /\ z = n * a /\ Len(g) = n
  <2>1. g = [i \in 1..n |-> g[i]] /\ \A i \in 1..n : g[i] \in Int /\ a <= g[i] /\ g[i] <= a
    BY <1>10
  <2>2. Len(g) = n
    BY <2>1, Listed
  <2>3. Sum(g) \in Int /\ n * a <= Sum(g) /\ Sum(g) <= n * a
    BY <2>1, <2>2, SumBounds
  <2>4. PICK q \in Int : q = n * a
    OBVIOUS
  <2> QED
    BY <2>2, <2>3, <2>4
<1>12. CASE e = <<>>
  <2>1. f \o e = f
    BY <1>7, <1>12
  <2>2. f = [i \in 1..n |-> f[i]]
    BY <1>7
  <2>3. \A i \in 1..n : OutputFits(f[i].script)
    BY <1>2, <1>5
  <2>4. Sum(g) <= bytes
    BY <1>3, <1>8, <1>11
  <2>5. OutputsFit(f, n, bytes)
    BY <1>9, <2>2, <2>3, <2>4, Zenon DEF OutputsFit
  <2> QED
    BY <1>8, <2>1, <2>5
<1>13. CASE e = <<t>>
  <2>1. PICK c : c = f \o e
    OBVIOUS
  <2>2. PICK k \in Nat : k = n + 1
    OBVIOUS
  <2>3. c = Append(f, t)
    BY <1>6, <1>7, <1>13, <2>1
  <2>4. Len(c) = k /\ c[k] = t /\ \A i \in 1..n : c[i] = f[i]
    BY <1>6, <1>7, <2>2, <2>3
  <2>5. c = [i \in 1..k |-> c[i]]
    <3>1. c \in Seq(S)
      BY <1>6, <1>7, <2>3
    <3> QED
      BY <2>4, <3>1
  <2>6. \A i \in 1..k : i \in 1..n \/ i = k
    BY <2>2
  <2>7. \A i \in 1..k : OutputFits(c[i].script)
    BY <1>2, <1>5, <2>4, <2>6
  <2>8. PICK h : h = [i \in 1..k |-> output_serialized_size(Size(c[i].script))]
    OBVIOUS
  <2>9. h = [i \in 1..k |-> h[i]]
    BY <2>8
  <2>10. Len(h) = n + 1
    BY <2>2, <2>9, Listed
  <2>11. h[n + 1] = b
    <3>1. k \in 1..k
      BY <2>2
    <3>2. h[k] = output_serialized_size(Size(t.script))
      BY <2>4, <2>8, <3>1
    <3> QED
      BY <1>3, <1>5, <2>2, <3>2 DEF ScriptBytes
  <2>12. \A i \in 1..n : g[i] = h[i]
    <3>1. \A i \in 1..n : i \in 1..k
      BY <2>2
    <3> QED
      BY <1>9, <2>4, <2>8, <3>1
  <2>13. Sum(h) = Sum(g) + h[n + 1]
    BY <1>11, <2>10, <2>12, SumLast
  <2>14. Sum(h) <= bytes
    <3>1. Sum(h) = z + b /\ bytes = z + b
      BY <1>8, <1>11, <2>11, <2>13, Zenon
    <3>2. z + b \in Int
      BY <1>3
    <3>3. PICK q \in Int : q = Sum(h) /\ q = bytes
      BY <3>1, <3>2, Zenon
    <3> QED
      BY <3>3
  <2>15. OutputsFit(c, k, bytes)
    BY <2>5, <2>7, <2>8, <2>14, Zenon DEF OutputsFit
  <2> QED
    BY <1>8, <2>1, <2>15
<1> QED
  BY <1>5, <1>12, <1>13

(***************************************************************************)
(* The plans of a command meet the relay rules once they are signed.       *)
(***************************************************************************)
\* Every chunk is a stretch of the module that fits a carrier.
LEMMA ChunkParts ==
  ASSUME NEW len \in Nat, NEW b, b = Stretch(<<"wasm">>, len), NEW chunks,
         chunks = split_chunks(b).chunks, NEW n, Chunked(chunks, n), NEW i \in 1..n
  PROVE  \E m \in Nat \ {0} : /\ m <= CHUNK_PAYLOAD_SIZE /\ m = Size(chunks[i])
                              /\ IsPart(chunks[i], <<"wasm">>, m)
<1>1. split_chunks(b).ok
  <2> SUFFICES ASSUME ~split_chunks(b).ok PROVE FALSE
    OBVIOUS
  <2>1. chunks = <<>>
    BY DEF split_chunks
  <2>2. n = 0 /\ n \in 1..MAX_CHUNKS
    BY <2>1 DEF Chunked
  <2> QED
    BY <2>2
<1>2. PICK m : IsPart(chunks[i], <<"wasm">>, m)
  BY <1>1, ChunksAre
<1>3. m \in Nat \ {0}
  BY <1>2 DEF IsPart, IsSpan
<1>4. Size(chunks[i]) = m
  BY <1>2, <1>3, StretchPushable
<1>5. m <= CHUNK_PAYLOAD_SIZE
  BY <1>4 DEF Chunked
<1> QED
  BY <1>2, <1>3, <1>4, <1>5

\* What the chunks cost is what the fee of DEPLOY is computed from.
LEMMA ChunkFee ==
  ASSUME NEW n \in Nat, NEW chunks, Len(chunks) = n, NEW p
  PROVE  Fee(chunks, p)
           = zip317_fee_from_sizes(
               Sum([i \in 1..n |-> input_serialized_size(carrier_script_sig_len(Size(chunks[i])))]),
               output_serialized_size(Size(op_return_script(p))) + P2PKH_OUT)
<1>1. PICK f : f = [i \in 1..n |-> input_serialized_size(carrier_script_sig_len(Size(chunks[i])))]
  OBVIOUS
<1>2. f = [i \in 1..n |-> f[i]]
  BY <1>1
<1>3. <<>> \o f = f
  BY <1>2, Listed
<1>4. Map(LAMBDA c : input_serialized_size(carrier_script_sig_len(Size(c))), chunks) = f
  BY <1>1, <1>3 DEF Map
<1> QED
  BY <1>1, <1>4, Zenon DEF Fee

LEMMA DeployRelays ==
  ASSUME NEW c, c.len \in Nat, NEW s, s = SizeFor(c), SizedRight(c, s), NEW pool, NEW coin,
         NEW sig \in 1..MAX_SIGNATURE_LEN, NEW plan, plan = PlanFor(c, s, "deploy", pool, coin)
  PROVE  Relays(plan, build_transparent_tx(plan, sig))
<1>1. PICK n \in Nat, each \in Nat, fee \in Nat, change \in Nat :
         DeployPlanned(c, s, pool, coin, n, each, fee, change)
  BY DeployIsPlanned
<1>2. PICK chunks, p : chunks = s.chunks /\ p = DeployMessage(c, chunks)
  OBVIOUS
<1>3. Chunked(chunks, n) /\ Len(chunks) = n
  BY <1>1, <1>2 DEF DeployPlanned, Chunked
<1>4. PICK ins, outs :
         /\ ins = [i \in 1..n |-> Coin(<<"prepare", pool, coin, i - 1>>, each,
                                       CarrierSpend(i - 1, chunks[i]))]
         /\ outs = DeployOutputs(p, change)
  OBVIOUS
<1>5. plan.fee = fee /\ plan.inputs = ins /\ plan.outputs = outs
  <2>1. plan = PreparedTx(ins, outs, fee, change)
    BY <1>1, <1>2, <1>4, Zenon DEF DeployPlanned
  <2> QED
    BY <2>1, Prepared
<1>6. PICK h : h = [i \in 1..n |-> carrier_script_sig_len(Size(chunks[i]))]
  OBVIOUS
<1>7. InputsFit(ins, n, sig, h)
  <2>1. ins = [i \in 1..n |-> ins[i]]
    BY <1>4
  <2>2. ASSUME NEW i \in 1..n PROVE ScriptFits(SigOf(ins[i], sig), h[i])
    <3>1. PICK len \in Nat : len = c.len
      OBVIOUS
    <3>2. PICK b : b = Stretch(<<"wasm">>, len)
      OBVIOUS
    <3>3. chunks = split_chunks(b).chunks
      BY <1>2, <3>1, <3>2 DEF SizeFor, ModuleOf
    <3>4. PICK m \in Nat \ {0} : /\ m <= CHUNK_PAYLOAD_SIZE /\ m = Size(chunks[i])
                                 /\ IsPart(chunks[i], <<"wasm">>, m)
      BY <1>3, <3>2, <3>3, ChunkParts
    <3>5. PICK index \in Int : index = (i - 1) % U8
      BY DEF U8
    <3>6. PICK x : x = chunks[i]
      OBVIOUS
    <3>7. ins[i].kind.carrier /\ ins[i].kind.index = index /\ ins[i].kind.data = x
      BY <1>4, <3>5, <3>6 DEF Coin, CarrierSpend
    <3>8. SigOf(ins[i], sig) = carrier_script_sig(index, x, Signature(sig), redeem_script)
      BY <3>7, Zenon DEF SigOf
    <3>9. ScriptFits(carrier_script_sig(index, x, Signature(sig), redeem_script),
                     carrier_script_sig_len(m))
      BY <3>4, <3>6, CarrierFits
    <3>10. h[i] = carrier_script_sig_len(m)
      BY <1>6, <3>4
    <3> QED
      BY <3>8, <3>9, <3>10
  <2> QED
    BY <2>1, <2>2, Zenon DEF InputsFit
<1>8. PICK bytes : bytes = output_serialized_size(Size(op_return_script(p))) + P2PKH_OUT
  OBVIOUS
<1>9. OutputsFit(outs, 2, bytes)
  <2>1. p.size \in 1..80
    <3>1. p.size = 45
      BY <1>2 DEF DeployMessage, encode_deploy, Payload, HEADER, DEPLOY_BODY
    <3> QED
      BY <3>1
  <2>2. change > 0
    BY <1>1 DEF DeployPlanned, CARRIER_MARGIN
  <2>3. outs = <<Pay(0, op_return_script(p)), Pay(change, p2pkh_script_pubkey)>>
    <3>1. PICK msg, pay : msg = Pay(0, op_return_script(p)) /\ pay = Pay(change, p2pkh_script_pubkey)
      OBVIOUS
    <3>2. outs = <<msg>> \o <<pay>>
      BY <1>4, <2>2, <3>1 DEF DeployOutputs
    <3> QED
      BY <3>1, <3>2, Puts
  <2> QED
    BY <1>8, <2>1, <2>3, MessageAndChange
<1>10. plan.fee = zip317_fee_from_sizes(Sum([i \in 1..n |-> input_serialized_size(h[i])]), bytes)
  <2>1. fee = Fee(chunks, p)
    BY <1>1, <1>2 DEF DeployPlanned
  <2>2. [i \in 1..n |-> input_serialized_size(h[i])]
          = [i \in 1..n |-> input_serialized_size(carrier_script_sig_len(Size(chunks[i])))]
    BY <1>6
  <2> QED
    BY <1>3, <1>5, <1>8, <2>1, <2>2, ChunkFee
<1>11. InputsFit(plan.inputs, n, sig, h) /\ OutputsFit(plan.outputs, 2, bytes)
  BY <1>5, <1>7, <1>9
<1>12. PICK m \in Nat : m = 2
  OBVIOUS
<1> QED
  BY <1>10, <1>11, <1>12, TxRelays

\* One coin of the wallet, spent with the key.
LEMMA OneKeyFits ==
  ASSUME NEW sig \in 1..MAX_SIGNATURE_LEN, NEW outpoint, NEW value
  PROVE  \E h : /\ InputsFit(<<Coin(outpoint, value, P2pkh)>>, 1, sig, h)
                /\ P2PKH_IN \in Int
                /\ Sum([i \in 1..1 |-> input_serialized_size(h[i])]) = P2PKH_IN
<1>1. PICK h : h = [i \in 1..1 |-> p2pkh_script_sig_len]
  OBVIOUS
<1>2. PICK coin : coin = Coin(outpoint, value, P2pkh)
  OBVIOUS
<1>3. ~coin.kind.carrier
  BY <1>2 DEF Coin, P2pkh
<1>4. SigOf(coin, sig) = p2pkh_script_sig(Signature(sig), PubKey)
  BY <1>3, Zenon DEF SigOf
<1>5. ScriptFits(SigOf(coin, sig), p2pkh_script_sig_len)
  BY <1>4, KeyFits
<1>6. PICK ins : ins = <<coin>>
  OBVIOUS
<1>7. ins = [i \in 1..1 |-> ins[i]] /\ \A i \in 1..1 : ins[i] = coin /\ h[i] = p2pkh_script_sig_len
  BY <1>1, <1>6
<1>8. InputsFit(ins, 1, sig, h)
  BY <1>5, <1>7, Zenon DEF InputsFit
<1>9. PICK a \in Int : a = P2PKH_IN
  BY PartSizes
<1>10. [i \in 1..1 |-> input_serialized_size(h[i])] = [i \in 1..1 |-> a]
  BY <1>1, <1>9 DEF P2PKH_IN
<1>11. Sum([i \in 1..1 |-> a]) = a
  BY SumFew
<1> QED
  BY <1>2, <1>6, <1>8, <1>9, <1>10, <1>11

LEMMA CallRelays ==
  ASSUME NEW u, u.value \in Int, NEW p, p.size \in 1..80, call_plan(u, p).ok,
         NEW sig \in 1..MAX_SIGNATURE_LEN, NEW plan, plan = call_plan(u, p)
  PROVE  Relays(plan, build_transparent_tx(plan, sig))
<1>1. PICK a \in Int, b \in Int :
         /\ a = P2PKH_IN
         /\ b = output_serialized_size(Size(op_return_script(p))) + P2PKH_OUT
  <2>0. p.size \in Nat \ {0}
    OBVIOUS
  <2>1. PICK x \in Int, y \in Int, z \in Int :
           x = P2PKH_IN /\ y = P2PKH_OUT /\ z = output_serialized_size(Size(op_return_script(p)))
    BY <2>0, PartSizes
  <2> QED
    BY <2>1
<1>2. PICK fee \in Int : fee = zip317_fee_from_sizes(a, b)
  BY FeeInt
<1>3. PICK change \in Int : change = u.value - fee
  OBVIOUS
<1>4. PICK coin, pay, msg : /\ coin = Coin(u.outpoint, u.value, P2pkh)
                            /\ pay = Pay(change, p2pkh_script_pubkey)
                            /\ msg = Pay(0, op_return_script(p))
  OBVIOUS
<1>5. plan = PreparedTx(<<coin>>, <<msg, pay>>, fee, change)
  <2>1. ~NoPlan.ok
    BY DEF NoPlan
  <2>2. call_plan(u, p) \in {NoPlan, PreparedTx(<<coin>>, <<msg, pay>>, fee, change)}
    BY <1>1, <1>2, <1>3, <1>4, Zenon DEF call_plan
  <2> QED
    BY <2>1, <2>2
<1>6. plan.fee = fee /\ plan.inputs = <<coin>> /\ plan.outputs = <<msg, pay>>
  BY <1>5 DEF PreparedTx
<1>7. PICK h : /\ InputsFit(<<coin>>, 1, sig, h)
               /\ Sum([i \in 1..1 |-> input_serialized_size(h[i])]) = a
  BY <1>1, <1>4, OneKeyFits
<1>8. PICK outs : outs = <<msg, pay>>
  OBVIOUS
<1>9. OutputsFit(outs, 2, b)
  <2>1. outs = <<Pay(0, op_return_script(p)), Pay(change, p2pkh_script_pubkey)>>
    BY <1>4, <1>8
  <2> QED
    BY <1>1, <2>1, MessageAndChange
<1>10. InputsFit(plan.inputs, 1, sig, h) /\ OutputsFit(plan.outputs, 2, b)
  BY <1>6, <1>7, <1>8, <1>9
<1>11. plan.fee = zip317_fee_from_sizes(Sum([i \in 1..1 |-> input_serialized_size(h[i])]), b)
  BY <1>2, <1>6, <1>7
<1>12. PICK k \in Nat, m \in Nat : k = 1 /\ m = 2
  OBVIOUS
<1> QED
  BY <1>10, <1>11, <1>12, TxRelays

LEMMA PrepareRelays ==
  ASSUME NEW n \in Nat, NEW each \in Int, NEW values, values = [i \in 1..n |-> each],
         Len(values) = n, NEW u, u.value \in Int, prepare_plan(<<u>>, values).ok,
         NEW sig \in 1..MAX_SIGNATURE_LEN, NEW plan, plan = prepare_plan(<<u>>, values)
  PROVE  Relays(plan, build_transparent_tx(plan, sig))
<1>1. PICK f : f = [i \in 1..n |-> Pay(each, p2sh_script_pubkey)]
  OBVIOUS
<1>2. <<>> \o f = f
  <2>1. f = [i \in 1..n |-> f[i]]
    BY <1>1
  <2> QED
    BY <2>1, Listed
<1>3. Map(LAMBDA x : Pay(x, p2sh_script_pubkey), values) = f
  <2>1. [i \in 1..n |-> Pay(values[i], p2sh_script_pubkey)] = f
    BY <1>1
  <2> QED
    BY <1>2, <2>1 DEF Map
<1>4. PICK a \in Int, b \in Int :
         /\ a = P2PKH_IN /\ a = Len(<<u>>) * P2PKH_IN
         /\ b = Len(values) * output_serialized_size(Size(p2sh_script_pubkey)) + P2PKH_OUT
         /\ b = n * output_serialized_size(Size(p2sh_script_pubkey)) + P2PKH_OUT
  <2>1. PICK x \in Int, y \in Int, z \in Int :
           x = P2PKH_IN /\ y = P2PKH_OUT /\ z = output_serialized_size(Size(p2sh_script_pubkey))
    BY PartSizes
  <2>2. 1 * x = x /\ n * z + y \in Int /\ Len(<<u>>) = 1
    OBVIOUS
  <2> QED
    BY <2>1, <2>2
<1>5. PICK fee \in Int : fee = zip317_fee_from_sizes(a, b)
  BY FeeInt
<1>6. PICK change : change = Sum(Map(LAMBDA x : x.value, <<u>>)) - Sum(values) - fee
  OBVIOUS
<1>7. PICK coin, e : /\ coin = Coin(u.outpoint, u.value, P2pkh)
                     /\ e = IF change > 0 THEN <<Pay(change, p2pkh_script_pubkey)>> ELSE <<>>
  OBVIOUS
<1>8. plan = PreparedTx(<<coin>>, f \o e, fee, change)
  <2>1. ~NoPlan.ok
    BY DEF NoPlan
  <2>2. Map(LAMBDA x : Coin(x.outpoint, x.value, P2pkh), <<u>>) = <<coin>>
    BY <1>7, OneCoin
  <2>3. zip317_fee_from_sizes(Len(<<u>>) * P2PKH_IN,
                              Len(values) * output_serialized_size(Size(p2sh_script_pubkey)) + P2PKH_OUT)
          = fee
    BY <1>4, <1>5, Zenon
  <2>4. prepare_plan(<<u>>, values) \in {NoPlan, PreparedTx(<<coin>>, f \o e, fee, change)}
    BY <1>3, <1>6, <1>7, <2>2, <2>3, Zenon DEF prepare_plan
  <2> QED
    BY <2>1, <2>4
<1>9. plan.fee = fee /\ plan.inputs = <<coin>> /\ plan.outputs = f \o e
  <2>1. PICK ins, outs : ins = <<coin>> /\ outs = f \o e
    OBVIOUS
  <2>2. plan = PreparedTx(ins, outs, fee, change)
    BY <1>8, <2>1
  <2>3. plan.fee = fee /\ plan.inputs = ins /\ plan.outputs = outs
    BY <2>2, Prepared
  <2> QED
    BY <2>1, <2>3
<1>10. PICK h : /\ InputsFit(<<coin>>, 1, sig, h)
                /\ Sum([i \in 1..1 |-> input_serialized_size(h[i])]) = a
  BY <1>4, <1>7, OneKeyFits
<1>11. PICK m \in Nat : OutputsFit(f \o e, m, b)
  BY <1>1, <1>4, <1>7, CarriersAndChange
<1>12. InputsFit(plan.inputs, 1, sig, h) /\ OutputsFit(plan.outputs, m, b)
  BY <1>9, <1>10, <1>11
<1>13. plan.fee = zip317_fee_from_sizes(Sum([i \in 1..1 |-> input_serialized_size(h[i])]), b)
  BY <1>5, <1>9, <1>10
<1>14. PICK k \in Nat : k = 1
  OBVIOUS
<1> QED
  BY <1>12, <1>13, <1>14, TxRelays

LEMMA CallSizes == \A k \in Nat : k <= 38 => HEADER + (CALL_BODY + k) \in 1..80
<1>1. HEADER = 6 /\ CALL_BODY = 36
  BY DEF HEADER, CALL_BODY
<1> QED
  BY <1>1

\* Whatever the request, its plan meets the relay rules when it spends coins.
LEMMA PlanRelays ==
  ASSUME NEW c, c.funds \in Nat, c.len \in Nat, NEW s, NEW kind \in {"prepare", "deploy", "call"},
         NEW pool \in Pools, NEW coin,
         kind \in {"prepare", "deploy"} => SizedRight(c, s) /\ s = SizeFor(c),
         kind = "call" => c.len <= MAX_CALL_INLINE_BYTES,
         NEW plan, plan = PlanFor(c, s, kind, pool, coin), plan.ok, plan.inputs # <<>>,
         NEW sig \in 1..MAX_SIGNATURE_LEN
  PROVE  Relays(plan, build_transparent_tx(plan, sig))
<1>1. CASE kind = "deploy"
  BY <1>1, DeployRelays
<1>2. PICK u : u = UtxoOf(c, coin) /\ u.value \in Int
  <2>1. PICK u : u = UtxoOf(c, coin)
    OBVIOUS
  <2>2. u.value = c.funds
    BY <2>1 DEF UtxoOf
  <2> QED
    BY <2>1, <2>2
<1>3. CASE kind = "prepare" /\ pool = "transparent"
  <2>1. PICK n \in Nat, each \in Nat, fee \in Nat, change \in Nat :
           DeployPlanned(c, s, pool, coin, n, each, fee, change)
    BY <1>3, DeployIsPlanned
  <2>2. PICK v \in Int : v = each
    OBVIOUS
  <2>3. PICK values : values = ValuesOf(s)
    OBVIOUS
  <2>4. values = [i \in 1..n |-> v] /\ Len(values) = n
    BY <2>1, <2>2, <2>3 DEF DeployPlanned
  <2>5. plan = prepare_plan(<<u>>, values)
    BY <1>2, <1>3, <2>3, Zenon DEF PlanFor
  <2> QED
    BY <1>2, <2>4, <2>5, PrepareRelays
<1>4. CASE kind = "call" /\ pool = "transparent"
  <2>1. PICK p : p = CallMessage(c)
    OBVIOUS
  <2>2. plan = call_plan(u, p)
    BY <1>2, <1>4, <2>1, Zenon DEF PlanFor
  <2>3. p.size \in 1..80
    <3>1. PICK k \in Nat : k = c.len /\ k <= 38
      BY <1>4 DEF MAX_CALL_INLINE_BYTES
    <3>2. p.size = HEADER + (CALL_BODY + k)
      BY <2>1, <3>1, Zenon DEF CallMessage, encode_call, Payload
    <3>3. HEADER + (CALL_BODY + k) \in 1..80
      BY <3>1, CallSizes
    <3> QED
      BY <3>2, <3>3, Zenon
  <2> QED
    BY <1>2, <2>2, <2>3, CallRelays
<1>5. CASE kind \in {"prepare", "call"} /\ pool = "shielded"
  <2>1. PICK outs : plan = PreparedTx(<<>>, outs, 0, 0)
    BY <1>5, Zenon DEF PlanFor
  <2>2. plan.inputs = <<>>
    BY <2>1 DEF PreparedTx
  <2> QED
    BY <2>2
<1> QED
  BY <1>1, <1>3, <1>4, <1>5 DEF Pools

LEMMA RelaysPlanned == DeployBase /\ JobSized => MeetsRelayPolicy
<1> SUFFICES ASSUME DeployBase, JobSized, At("confirm_tx"), job.alter = "none",
                    NEW t, t = Here, NEW plan, plan = PlanOf(t), NEW tx, tx = Built(t),
                    plan.inputs # <<>>
             PROVE  Relays(plan, tx)
  BY Zenon DEF MeetsRelayPolicy, Relays
<1>1. PICK c, s, j : c = cmd /\ s = sized /\ j = job
  OBVIOUS
<1>2. BaseFor(c, s, j) /\ JobFor(c, s, j) /\ j.pc = "confirm_tx" /\ j.alter = "none"
  BY <1>1 DEF DeployBase, JobSized, At
<1>3. PICK kind, pool, coin, sig : kind = j.req /\ pool = j.pool /\ coin = j.coin /\ sig = c.sig
  OBVIOUS
<1>4. t.kind = kind /\ t.pool = pool /\ t.coin = coin /\ t.alter = "none"
  BY <1>1, <1>2, <1>3 DEF Here
<1>5. /\ kind \in {"prepare", "deploy", "call"} /\ pool \in Pools
      /\ kind \in {"prepare", "deploy"} => SizedRight(c, s) /\ s = SizeFor(c)
      /\ kind = "call" => c.len <= MAX_CALL_INLINE_BYTES
      /\ PlanFor(c, s, kind, pool, coin).ok
  BY <1>2, <1>3 DEF BaseFor, JobFor, Planning, Sourced
<1>6. c.funds \in Nat /\ c.len \in Nat /\ sig \in 1..MAX_SIGNATURE_LEN
  BY <1>1, <1>3, DeployConstants DEF DeployBase, DeployConstants, CommandOK
<1>7. plan = PlanFor(c, s, kind, pool, coin)
  BY <1>1, <1>4, PlanIs
<1>8. tx = build_transparent_tx(plan, sig)
  <2>1. PICK y : y = build_transparent_tx(plan, sig)
    OBVIOUS
  <2>2. Built(t) = Altered(t.alter, y)
    BY <1>1, <1>3, <2>1, Zenon DEF Built
  <2>3. Altered("none", y) = y
    BY Zenon DEF Altered
  <2> QED
    BY <1>4, <2>1, <2>2, <2>3
<1> QED
  BY <1>5, <1>6, <1>7, <1>8, PlanRelays

\* Every transaction the wallet builds from coins and sends as it was built meets
\* the relay rules: what it pays covers its actual bytes, and its scripts and
\* pushes are within the limits (tx lib.rs:504).
THEOREM DeployMeetsRelayPolicy == DeploySpec => []MeetsRelayPolicy
<1>1. DeployInit => JobSized
  BY DEF DeployInit, Start, JobSized, JobFor
<1>2. DeployBase /\ JobSized /\ [DeployNext]_deployVars => JobSized'
  BY JobStep
<1>3. DeployBase /\ JobSized => MeetsRelayPolicy
  BY RelaysPlanned
<1> QED
  BY <1>1, <1>2, <1>3, DeployPlansKept, PTL DEF DeploySpec
=============================================================================
