-------------------------- MODULE BlockExecProofs --------------------------
(***************************************************************************)
(* The safety properties of BlockExec, for any contracts, keys, code       *)
(* lengths and limits.                                                     *)
(*                                                                         *)
(* The steps of the processor are of five kinds: a block begins, a block   *)
(* is committed, a contract is deployed, a call is recorded with what it   *)
(* wrote, and all the rest, which touches neither the pending commit nor   *)
(* the records.  The pending commit is then a function of the records, and *)
(* the counters are bounds on them.                                        *)
(***************************************************************************)
EXTENDS BlockExec, StateStoreProofs, FiniteSetTheorems

Call == [contract : ContractKey \union {None}, limit : 0..MAX_FUEL_PER_CALL,
         left : 0..MAX_FUEL_PER_CALL, overlay : Writes]
Limits == [fuel : Nat, messages : Nat, carrier : Nat, deploy : Nat]
Txn == [n : 0..MaxTxs, fuel : Nat, messages : Nat]

\* Inside a transaction its number is known, inside a call the contract, and a
\* call has the fuel it was given or less.
Inside ==
  /\ at \in {"tx", "call"} => txn.n >= 1
  /\ at = "call" => /\ call.contract \in ContractKey
                    /\ call.left <= call.limit
  /\ at # "idle" => BlockHeight \in Height

\* The store under the processor: sound, named by its metadata, and with the
\* first block at height 1.
StoreBelow ==
  /\ StoreInv
  /\ MetaNamesLast
  /\ meta.h # None => meta.h >= 1

ExecBase == ExecTypeOK /\ Inside /\ StoreBelow
----------------------------------------------------------------------------
(* Types *)

LEMMA NoWritesType == NoWrites \in Writes /\ Written(NoWrites) = {}
  BY DEF NoWrites, Writes, Written

LEMMA EmptyCommitType == EmptyCommit \in BlockCommit
  BY DEF EmptyCommit, BlockCommit

LEMMA NoCallType == NoCall \in Call
<1>1. 0 \in 0..MAX_FUEL_PER_CALL
  BY LimitsAssumption
<1> QED
  BY <1>1, NoWritesType DEF NoCall, Call

\* Reading a message counts it and keeps the types of the counters.
LEMMA CountersType ==
  ASSUME ExecTypeOK
  PROVE  /\ CountedTx \in Txn /\ CountedTx.n = txn.n /\ CountedTx.fuel = txn.fuel
         /\ CountedTx.messages = txn.messages + 1
         /\ Counted \in Limits /\ Counted.fuel = limits.fuel
         /\ Counted.messages = limits.messages + 1
         /\ Counted.carrier = limits.carrier /\ Counted.deploy = limits.deploy
         /\ \A n \in Nat :
              /\ WithCarrier(n) \in Limits /\ WithCarrier(n).fuel = limits.fuel
              /\ WithCarrier(n).messages = limits.messages + 1
              /\ WithCarrier(n).carrier = limits.carrier + n
              /\ WithCarrier(n).deploy = limits.deploy
              /\ WithDeploy(n) \in Limits /\ WithDeploy(n).fuel = limits.fuel
              /\ WithDeploy(n).messages = limits.messages + 1
              /\ WithDeploy(n).carrier = limits.carrier + n
              /\ WithDeploy(n).deploy = limits.deploy + n
<1>0. txn \in Txn /\ limits \in Limits
  BY DEF ExecTypeOK, Txn, Limits
<1>1. /\ CountedTx \in Txn /\ CountedTx.n = txn.n /\ CountedTx.fuel = txn.fuel
      /\ CountedTx.messages = txn.messages + 1
  BY <1>0 DEF CountedTx, Txn
<1>2. /\ Counted \in Limits /\ Counted.fuel = limits.fuel
      /\ Counted.messages = limits.messages + 1
      /\ Counted.carrier = limits.carrier /\ Counted.deploy = limits.deploy
  BY <1>0 DEF Counted, Limits
<1>3. ASSUME NEW n \in Nat
      PROVE  /\ WithCarrier(n) \in Limits /\ WithCarrier(n).fuel = limits.fuel
             /\ WithCarrier(n).messages = limits.messages + 1
             /\ WithCarrier(n).carrier = limits.carrier + n
             /\ WithCarrier(n).deploy = limits.deploy
  BY <1>2 DEF WithCarrier, Limits
<1>4. ASSUME NEW n \in Nat
      PROVE  /\ WithDeploy(n) \in Limits /\ WithDeploy(n).fuel = limits.fuel
             /\ WithDeploy(n).messages = limits.messages + 1
             /\ WithDeploy(n).carrier = limits.carrier + n
             /\ WithDeploy(n).deploy = limits.deploy + n
  BY <1>3 DEF WithDeploy, Limits
<1> QED
  BY <1>1, <1>2, <1>3, <1>4

\* A call's limit is within the three budgets.
LEMMA FuelLimit ==
  ASSUME ExecTypeOK
  PROVE  /\ fuel_limit \in 0..MAX_FUEL_PER_CALL
         /\ fuel_limit > 0 => /\ txn.fuel + fuel_limit <= MAX_FUEL_PER_ZCASH_TX
                              /\ limits.fuel + fuel_limit <= MAX_FUEL_PER_ZCASH_BLOCK
<1>1. txn.fuel \in Nat /\ limits.fuel \in Nat
  BY DEF ExecTypeOK
<1> QED
  BY <1>1, LimitsAssumption DEF fuel_limit, MinOf, Remaining

\* The writes of a call, added to a commit, give a commit.
LEMMA ApplyWritesType ==
  ASSUME NEW c \in BlockCommit, NEW w \in Writes
  PROVE  ApplyWrites(c, w) \in BlockCommit
  BY NoOpAssumption DEF ApplyWrites, BlockCommit, Writes, DbKey

LEMMA NoWritesApplied ==
  ASSUME NEW c \in BlockCommit
  PROVE  ApplyWrites(c, NoWrites) = c
<1>1. [k \in DbKey |-> IF k \in StorageKey /\ NoWrites[k] \notin {NoOp, Absent}
                       THEN NoWrites[k] ELSE c.put[k]] = c.put
  BY DEF NoWrites, BlockCommit
<1>2. c.del \union {k \in StorageKey : NoWrites[k] = Absent} = c.del
  BY NoOpAssumption DEF NoWrites
<1>3. c = [put |-> c.put, del |-> c.del]
  BY DEF BlockCommit
<1> QED
  BY <1>1, <1>2, <1>3 DEF ApplyWrites

LEMMA ExecutionType ==
  ASSUME ExecTypeOK, txn.n >= 1, NEW c \in ContractKey, NEW ok \in BOOLEAN,
         NEW used \in 0..MAX_FUEL_PER_CALL, NEW w \in Writes, NEW pending \in BlockCommit
  PROVE  LET e == Execution(c, ok, used, w, pending) IN
         /\ e \in ExecutionRecord
         /\ e.tx = txn.n /\ e.contract = c /\ e.success = ok /\ e.fuel_used = used
         /\ e.writes = w /\ e.root_before = kv /\ e.root_after = projected_root(kv, pending)
<1>1. kv \in State /\ txn.n \in 1..MaxTxs
  BY LimitsAssumption DEF ExecTypeOK, StoreTypeOK
<1>2. projected_root(kv, pending) \in State
  BY <1>1, ApplyMatchesProjected, ApplyType DEF compute_root
<1> QED
  BY <1>1, <1>2 DEF Execution, ExecutionRecord, StateRoot, compute_root
----------------------------------------------------------------------------
(* The kinds of steps *)

\* Nothing of the block's effect changes.
Quiet ==
  /\ at # "idle" /\ at' # "idle"
  /\ UNCHANGED <<storeVars, commit, executions>>

\* A call ends, or finds no contract: its record, and its writes if it succeeded.
RecordOf(c, ok, used, w) ==
  /\ at # "idle" /\ at' = "tx"
  /\ commit' = ApplyWrites(commit, w)
  /\ executions' = Append(executions, Execution(c, ok, used, w, commit'))
  /\ ~ok => w = NoWrites
  /\ UNCHANGED storeVars

LEMMA skip_quiet ==
  ASSUME NEW l, skip_with(l)
  PROVE  Quiet /\ at = "tx" /\ at' = "tx" /\ txn' = CountedTx /\ limits' = l /\ UNCHANGED call
  BY DEF skip_with, Quiet

\* What starting a call comes to.
LEMMA execute_call_kinds ==
  ASSUME ExecBase, NEW c \in ContractKey, NEW l, execute_call(c, l)
  PROVE  /\ at = "tx" /\ WithinCaps /\ txn' = CountedTx /\ limits' = l
         /\ UNCHANGED <<storeVars, commit>>
         /\ \/ Quiet /\ at' = "tx" /\ UNCHANGED call
            \/ /\ Quiet /\ at' = "call" /\ fuel_limit > 0 /\ kv[c] # Absent
               /\ call' = [contract |-> c, limit |-> fuel_limit, left |-> fuel_limit,
                           overlay |-> NoWrites]
            \/ RecordOf(c, FALSE, 0, NoWrites) /\ UNCHANGED call
<1>0. commit \in BlockCommit
  BY DEF ExecBase, ExecTypeOK
<1>1. /\ at = "tx" /\ WithinCaps /\ txn' = CountedTx /\ limits' = l
      /\ UNCHANGED <<storeVars, commit>>
  BY DEF execute_call
<1>2. CASE fuel_limit = 0 /\ UNCHANGED <<at, call, executions>>
  BY <1>1, <1>2 DEF Quiet
<1>3. CASE /\ fuel_limit > 0 /\ kv[c] = Absent
           /\ executions' = Append(executions, Execution(c, FALSE, 0, NoWrites, commit))
           /\ UNCHANGED <<at, call>>
  <2>1. commit' = ApplyWrites(commit, NoWrites)
    BY <1>0, <1>1, NoWritesApplied
  <2>2. executions' = Append(executions, Execution(c, FALSE, 0, NoWrites, commit'))
    BY <1>1, <1>3
  <2> QED
    BY <1>1, <1>3, <2>1, <2>2 DEF RecordOf
<1>4. CASE /\ fuel_limit > 0 /\ kv[c] # Absent
           /\ at' = "call"
           /\ call' = [contract |-> c, limit |-> fuel_limit, left |-> fuel_limit,
                       overlay |-> NoWrites]
           /\ UNCHANGED executions
  BY <1>1, <1>4 DEF Quiet
<1> QED
  BY <1>1, <1>2, <1>3, <1>4 DEF execute_call

\* What ending a call comes to.
LEMMA finish_call_kind ==
  ASSUME ExecBase, NEW ok \in BOOLEAN, NEW w \in Writes, ~ok => w = NoWrites,
         finish_call(ok, w)
  PROVE  \E c \in ContractKey, used \in 0..MAX_FUEL_PER_CALL :
           /\ c = call.contract /\ used = call.limit - call.left
           /\ at = "call"
           /\ RecordOf(c, ok, used, w)
           /\ txn' = [txn EXCEPT !.fuel = @ + used]
           /\ limits' = [limits EXCEPT !.fuel = @ + used]
           /\ call' = NoCall
<1>1. call.contract \in ContractKey /\ call.left <= call.limit /\ at = "call"
  BY DEF ExecBase, Inside, finish_call
<1>2. call.limit - call.left \in 0..MAX_FUEL_PER_CALL
  BY <1>1, LimitsAssumption DEF ExecBase, ExecTypeOK
<1>3. PICK c \in ContractKey, used \in 0..MAX_FUEL_PER_CALL :
         c = call.contract /\ used = call.limit - call.left
  BY <1>1, <1>2
<1>4. /\ txn' = [txn EXCEPT !.fuel = @ + used]
      /\ limits' = [limits EXCEPT !.fuel = @ + used]
      /\ commit' = ApplyWrites(commit, w)
      /\ executions' = Append(executions, Execution(c, ok, used, w, commit'))
      /\ at' = "tx" /\ call' = NoCall /\ UNCHANGED storeVars
  BY <1>3, Zenon DEF finish_call
<1>5. RecordOf(c, ok, used, w)
  BY <1>1, <1>4 DEF RecordOf
<1> QED
  BY <1>1, <1>3, <1>4, <1>5

\* An ended call: one that failed has written nothing.
LEMMA dispatch_kinds ==
  ASSUME ExecBase, dispatch_ok \/ dispatch_fail
  PROVE  \E ok \in BOOLEAN, w \in Writes :
           /\ ~ok => w = NoWrites
           /\ w \in {NoWrites, call.overlay}
           /\ finish_call(ok, w)
<1>1. call.overlay \in Writes
  BY DEF ExecBase, ExecTypeOK
<1> QED
  BY <1>1, NoWritesType DEF dispatch_ok, dispatch_fail

\* A write in a call changes its overlay only.
LEMMA host_write_is ==
  ASSUME ExecBase, NEW k \in StorageKey, NEW x \in Value \union {Absent}, host_write(k, x)
  PROVE  /\ Quiet /\ at = "call" /\ at' = "call" /\ Owner[k] = call.contract
         /\ UNCHANGED <<limits, txn>>
         /\ call' \in Call /\ call'.contract = call.contract /\ call'.limit = call.limit
         /\ call'.left <= call'.limit
         /\ \/ call'.overlay = call.overlay
            \/ RoomFor(k) /\ call'.overlay = [call.overlay EXCEPT ![k] = x]
<1>a. call \in Call /\ call.left <= call.limit /\ call.left > 0
  BY DEF ExecBase, ExecTypeOK, Inside, host_write, Call
<1>0. /\ call \in Call /\ call.left <= call.limit
      /\ call.left - 1 \in 0..MAX_FUEL_PER_CALL /\ call.left - 1 <= call.limit
  BY <1>a, LimitsAssumption DEF Call
<1>1. /\ at = "call" /\ at' = "call" /\ Owner[k] = call.contract
      /\ UNCHANGED <<storeVars, commit, executions, limits, txn>>
  BY DEF host_write
<1>2. [call.overlay EXCEPT ![k] = x] \in Writes
  BY <1>0 DEF Call, Writes
<1>3. CASE RoomFor(k)
  <2>1. call' = [call EXCEPT !.left = call.left - 1, !.overlay = [call.overlay EXCEPT ![k] = x]]
    BY <1>0, <1>3 DEF host_write, Call
  <2> QED
    BY <1>0, <1>1, <1>2, <1>3, <2>1 DEF Call, Quiet
<1>4. CASE ~RoomFor(k)
  <2>1. call' = [call EXCEPT !.left = call.left - 1]
    BY <1>0, <1>4 DEF host_write, Call
  <2> QED
    BY <1>0, <1>1, <2>1 DEF Call, Quiet
<1> QED
  BY <1>3, <1>4

LEMMA spend_fuel_is ==
  ASSUME ExecBase, spend_fuel
  PROVE  /\ Quiet /\ at = "call" /\ at' = "call"
         /\ UNCHANGED <<limits, txn>>
         /\ call' \in Call /\ call'.contract = call.contract /\ call'.limit = call.limit
         /\ call'.left <= call'.limit /\ call'.overlay = call.overlay
<1>a. call \in Call /\ call.left <= call.limit /\ call.left > 0
  BY DEF ExecBase, ExecTypeOK, Inside, spend_fuel, Call
<1>0. call.left - 1 \in 0..MAX_FUEL_PER_CALL /\ call.left - 1 <= call.limit
  BY <1>a, LimitsAssumption DEF Call
<1>1. call' = [call EXCEPT !.left = call.left - 1]
  BY DEF spend_fuel
<1> QED
  BY <1>a, <1>0, <1>1 DEF spend_fuel, Call, Quiet

LEMMA handle_deploy_is ==
  ASSUME ExecBase, handle_deploy
  PROVE  \E c \in ContractKey \ Deployed :
           /\ at = "tx" /\ at' = "tx" /\ WithinCaps
           /\ BytesOk(WithDeploy(CodeLength[c]))
           /\ txn' = CountedTx /\ limits' = WithDeploy(CodeLength[c])
           /\ commit' \in BlockCommit /\ commit'.del = commit.del
           /\ commit'.put = [commit.put EXCEPT ![c] = CodeOf[c]]
           /\ UNCHANGED <<storeVars, call, executions>>
<1>0. commit \in BlockCommit
  BY DEF ExecBase, ExecTypeOK
<1>1. PICK c \in ContractKey \ Deployed :
           /\ at = "tx" /\ WithinCaps
           /\ BytesOk(WithDeploy(CodeLength[c]))
           /\ txn' = CountedTx /\ limits' = WithDeploy(CodeLength[c])
           /\ commit' = [commit EXCEPT !.put[c] = CodeOf[c]]
           /\ UNCHANGED <<storeVars, at, call, executions>>
  BY DEF handle_deploy
<1>2. commit' = [commit EXCEPT !.put = [commit.put EXCEPT ![c] = CodeOf[c]]]
  BY <1>0, <1>1 DEF BlockCommit
<1>3. [commit.put EXCEPT ![c] = CodeOf[c]] \in [DbKey -> Value \union {NoOp}]
  BY <1>0, <1>1, CodeAssumption DEF BlockCommit, DbKey
<1> QED
  BY <1>0, <1>1, <1>2, <1>3 DEF BlockCommit

\* A message is read: it is counted, and its bytes are charged.
Reads ==
  /\ at = "tx"
  /\ txn' = CountedTx
  /\ limits' \in Limits /\ limits'.fuel = limits.fuel
  /\ limits'.messages = limits.messages + 1
  /\ limits'.carrier >= limits.carrier /\ limits'.deploy >= limits.deploy

\* A message that leaves no trace but the counters.
Skips == Reads /\ Quiet /\ at' \in {"tx", "block"} /\ UNCHANGED call

\* A message that starts a call.
Starts ==
  /\ Reads /\ Quiet /\ WithinCaps /\ at' = "call" /\ fuel_limit > 0
  /\ \E c \in ContractKey :
        /\ kv[c] # Absent
        /\ call' = [contract |-> c, limit |-> fuel_limit, left |-> fuel_limit,
                    overlay |-> NoWrites]

\* A message that calls a contract the store does not hold.
Misses ==
  /\ Reads /\ WithinCaps /\ UNCHANGED call
  /\ \E c \in ContractKey : RecordOf(c, FALSE, 0, NoWrites)

\* A message that deploys.
Deploys ==
  /\ Reads /\ WithinCaps /\ at' = "tx"
  /\ \E c \in ContractKey \ Deployed :
        /\ BytesOk(WithDeploy(CodeLength[c]))
        /\ limits' = WithDeploy(CodeLength[c])
        /\ commit' \in BlockCommit /\ commit'.del = commit.del
        /\ commit'.put = [commit.put EXCEPT ![c] = CodeOf[c]]
  /\ UNCHANGED <<storeVars, call, executions>>

\* A step of a running contract.
Runs ==
  /\ Quiet /\ at = "call" /\ at' = "call" /\ UNCHANGED <<limits, txn>>
  /\ call' \in Call /\ call'.contract = call.contract /\ call'.limit = call.limit
  /\ call'.left <= call'.limit
  /\ \/ call'.overlay = call.overlay
     \/ \E k \in StorageKey, x \in Value \union {Absent} :
          /\ Owner[k] = call.contract /\ RoomFor(k)
          /\ call'.overlay = [call.overlay EXCEPT ![k] = x]

\* A call ends.
Ends ==
  \E c \in ContractKey, used \in 0..MAX_FUEL_PER_CALL, ok \in BOOLEAN, w \in Writes :
     /\ c = call.contract /\ used = call.limit - call.left
     /\ w = NoWrites \/ w = call.overlay
     /\ at = "call"
     /\ RecordOf(c, ok, used, w)
     /\ txn' = [txn EXCEPT !.fuel = @ + used]
     /\ limits' = [limits EXCEPT !.fuel = @ + used]
     /\ call' = NoCall

Kinds == \/ begin_block \/ begin_tx \/ end_tx \/ end_block
         \/ Skips \/ Starts \/ Misses \/ Deploys \/ Runs \/ Ends

LEMMA ReadsLimits ==
  ASSUME ExecBase, at = "tx", txn' = CountedTx,
         \/ limits' = Counted
         \/ \E n \in Lengths : limits' = WithCarrier(n) \/ limits' = WithDeploy(n)
  PROVE  Reads
<1>1. /\ Counted \in Limits /\ Counted.fuel = limits.fuel
      /\ Counted.messages = limits.messages + 1
      /\ Counted.carrier = limits.carrier /\ Counted.deploy = limits.deploy
      /\ \A n \in Nat :
           /\ WithCarrier(n) \in Limits /\ WithCarrier(n).fuel = limits.fuel
           /\ WithCarrier(n).messages = limits.messages + 1
           /\ WithCarrier(n).carrier = limits.carrier + n
           /\ WithCarrier(n).deploy = limits.deploy
           /\ WithDeploy(n) \in Limits /\ WithDeploy(n).fuel = limits.fuel
           /\ WithDeploy(n).messages = limits.messages + 1
           /\ WithDeploy(n).carrier = limits.carrier + n
           /\ WithDeploy(n).deploy = limits.deploy + n
  BY CountersType DEF ExecBase
<1>2. limits.carrier \in Nat /\ limits.deploy \in Nat /\ Lengths \subseteq Nat
  BY CodeAssumption DEF ExecBase, ExecTypeOK
<1>3. CASE limits' = Counted
  BY <1>1, <1>2, <1>3 DEF Reads
<1>4. ASSUME NEW n \in Lengths, limits' = WithCarrier(n)
      PROVE  Reads
  BY <1>1, <1>2, <1>4 DEF Reads
<1>5. ASSUME NEW n \in Lengths, limits' = WithDeploy(n)
      PROVE  Reads
  BY <1>1, <1>2, <1>5 DEF Reads
<1> QED
  BY <1>3, <1>4, <1>5

LEMMA SkipKind ==
  ASSUME ExecBase, NEW l,
         \/ l = Counted
         \/ \E n \in Lengths : l = WithCarrier(n) \/ l = WithDeploy(n),
         skip_with(l)
  PROVE  Skips
<1>1. Quiet /\ at = "tx" /\ at' = "tx" /\ txn' = CountedTx /\ limits' = l /\ UNCHANGED call
  BY skip_quiet
<1>2. Reads
  BY <1>1, ReadsLimits
<1> QED
  BY <1>1, <1>2 DEF Skips

LEMMA CallKind ==
  ASSUME ExecBase, NEW c \in ContractKey, NEW l,
         l = Counted \/ \E n \in Lengths : l = WithCarrier(n),
         execute_call(c, l)
  PROVE  Skips \/ Starts \/ Misses
<1>1. /\ at = "tx" /\ WithinCaps /\ txn' = CountedTx /\ limits' = l
      /\ UNCHANGED <<storeVars, commit>>
      /\ \/ Quiet /\ at' = "tx" /\ UNCHANGED call
         \/ /\ Quiet /\ at' = "call" /\ fuel_limit > 0 /\ kv[c] # Absent
            /\ call' = [contract |-> c, limit |-> fuel_limit, left |-> fuel_limit,
                        overlay |-> NoWrites]
         \/ RecordOf(c, FALSE, 0, NoWrites) /\ UNCHANGED call
  BY execute_call_kinds
<1>2. Reads
  BY <1>1, ReadsLimits
<1>3. CASE Quiet /\ at' = "tx" /\ UNCHANGED call
  BY <1>2, <1>3 DEF Skips
<1>4. CASE /\ Quiet /\ at' = "call" /\ fuel_limit > 0 /\ kv[c] # Absent
           /\ call' = [contract |-> c, limit |-> fuel_limit, left |-> fuel_limit,
                       overlay |-> NoWrites]
  BY <1>1, <1>2, <1>4, Zenon DEF Starts
<1>5. CASE RecordOf(c, FALSE, 0, NoWrites) /\ UNCHANGED call
  BY <1>1, <1>2, <1>5, Zenon DEF Misses
<1> QED
  BY <1>1, <1>3, <1>4, <1>5, Zenon

LEMMA StepKinds == ASSUME ExecBase, ExecNext PROVE Kinds
<1>1. CASE message_over_cap
  <2>1. /\ at = "tx" /\ at' = "block" /\ txn' = CountedTx /\ limits' = Counted
        /\ UNCHANGED <<storeVars, commit, call, executions>>
    BY <1>1 DEF message_over_cap
  <2>2. Reads
    BY <2>1, ReadsLimits
  <2> QED
    BY <2>1, <2>2 DEF Kinds, Skips, Quiet
<1>2. CASE deploy_skipped \/ deploy_rejected
  <2>1. PICK l : /\ l = Counted \/ \E n \in Lengths : l = WithCarrier(n) \/ l = WithDeploy(n)
                 /\ skip_with(l)
    BY <1>2, Zenon DEF deploy_skipped, deploy_rejected
  <2> QED
    BY <2>1, SkipKind DEF Kinds
<1>3. CASE handle_deploy
  <2>1. PICK c \in ContractKey \ Deployed :
           /\ at = "tx" /\ at' = "tx" /\ WithinCaps
           /\ BytesOk(WithDeploy(CodeLength[c]))
           /\ txn' = CountedTx /\ limits' = WithDeploy(CodeLength[c])
           /\ commit' \in BlockCommit /\ commit'.del = commit.del
           /\ commit'.put = [commit.put EXCEPT ![c] = CodeOf[c]]
           /\ UNCHANGED <<storeVars, call, executions>>
    BY <1>3, handle_deploy_is
  <2>2. CodeLength[c] \in Lengths
    BY CodeAssumption
  <2>3. Reads
    BY <2>1, <2>2, ReadsLimits
  <2>4. Deploys
    BY <2>1, <2>3, Zenon DEF Deploys
  <2> QED
    BY <2>4 DEF Kinds
<1>4. CASE handle_call
  BY <1>4, CallKind, Zenon DEF handle_call, Kinds
<1>5. CASE handle_call_carrier
  <2>1. PICK c \in ContractKey, n \in Lengths :
           skip_with(WithCarrier(n)) \/ execute_call(c, WithCarrier(n))
    BY <1>5, Zenon DEF handle_call_carrier
  <2>2. CASE skip_with(WithCarrier(n))
    BY <2>2, SkipKind, Zenon DEF Kinds
  <2>3. CASE execute_call(c, WithCarrier(n))
    BY <2>3, CallKind, Zenon DEF Kinds
  <2> QED
    BY <2>1, <2>2, <2>3
<1>6. CASE storage_set \/ storage_delete
  <2>1. PICK k \in StorageKey, x \in Value \union {Absent} : host_write(k, x)
    BY <1>6, Zenon DEF storage_set, storage_delete
  <2>2. /\ Quiet /\ at = "call" /\ at' = "call" /\ Owner[k] = call.contract
        /\ UNCHANGED <<limits, txn>>
        /\ call' \in Call /\ call'.contract = call.contract /\ call'.limit = call.limit
        /\ call'.left <= call'.limit
        /\ \/ call'.overlay = call.overlay
           \/ RoomFor(k) /\ call'.overlay = [call.overlay EXCEPT ![k] = x]
    BY <2>1, host_write_is
  <2>3. Runs
    BY <2>2, Zenon DEF Runs
  <2> QED
    BY <2>3 DEF Kinds
<1>7. CASE spend_fuel
  BY <1>7, spend_fuel_is, Zenon DEF Kinds, Runs
<1>8. CASE dispatch_ok \/ dispatch_fail
  <2>1. PICK ok \in BOOLEAN, w \in Writes :
           /\ ~ok => w = NoWrites
           /\ w \in {NoWrites, call.overlay}
           /\ finish_call(ok, w)
    BY <1>8, dispatch_kinds
  <2>2. PICK c \in ContractKey, used \in 0..MAX_FUEL_PER_CALL :
           /\ c = call.contract /\ used = call.limit - call.left
           /\ at = "call"
           /\ RecordOf(c, ok, used, w)
           /\ txn' = [txn EXCEPT !.fuel = @ + used]
           /\ limits' = [limits EXCEPT !.fuel = @ + used]
           /\ call' = NoCall
    BY <2>1, finish_call_kind
  <2>3. Ends
    BY <2>1, <2>2, Zenon DEF Ends
  <2> QED
    BY <2>3 DEF Kinds
<1> QED
  BY <1>1, <1>2, <1>3, <1>4, <1>5, <1>6, <1>7, <1>8 DEF ExecNext, Kinds
----------------------------------------------------------------------------
(* Types and the store below *)

LEMMA InitBase == ExecInit => ExecBase
<1> SUFFICES ASSUME ExecInit PROVE ExecBase
  OBVIOUS
<1>1. StoreInv /\ meta.h = None /\ Recorded = {}
  BY InitInv DEF ExecInit, StoreInit, Recorded
<1>2. MetaNamesLast
  BY <1>1 DEF ExecInit, StoreInit, MetaNamesLast
<1>3. ExecTypeOK
  <2>1. call \in Call
    BY NoCallType DEF ExecInit
  <2>2. limits \in Limits /\ txn \in Txn
    BY LimitsAssumption DEF ExecInit, NoLimits, Limits, Txn
  <2> QED
    BY <1>1, <2>1, <2>2, EmptyCommitType
       DEF ExecInit, ExecTypeOK, Call, Limits, Txn, StoreInv
<1>4. Inside /\ StoreBelow
  BY <1>1, <1>2 DEF ExecInit, Inside, StoreBelow
<1> QED
  BY <1>3, <1>4 DEF ExecBase

LEMMA SameStore ==
  ASSUME ExecBase, UNCHANGED storeVars
  PROVE  StoreBelow' /\ BlockHeight' = BlockHeight /\ StoreTypeOK'
<1>1. UNCHANGED <<kv, hist, undo, meta, rb>> /\ Recorded' = Recorded
  BY DEF storeVars, Recorded
<1>2. StoreInv'
  BY NextInv DEF ExecBase, StoreBelow
<1>3. MetaNamesLast'
  BY <1>1 DEF ExecBase, StoreBelow, MetaNamesLast, IsLast
<1> QED
  BY <1>1, <1>2, <1>3 DEF ExecBase, StoreBelow, BlockHeight, StoreInv

\* A record is a record, and what it carries.
LEMMA RecordTyped ==
  ASSUME ExecBase, txn.n >= 1, NEW c \in ContractKey, NEW ok \in BOOLEAN,
         NEW used \in 0..MAX_FUEL_PER_CALL, NEW w \in Writes, RecordOf(c, ok, used, w)
  PROVE  /\ commit' \in BlockCommit
         /\ \E e \in ExecutionRecord :
              /\ executions' = Append(executions, e)
              /\ e.tx = txn.n /\ e.contract = c /\ e.success = ok /\ e.fuel_used = used
              /\ e.writes = w /\ e.root_before = kv
              /\ e.root_after = projected_root(kv, commit')
         /\ executions' \in Seq(ExecutionRecord)
<1>1. commit' \in BlockCommit
  BY ApplyWritesType DEF RecordOf, ExecBase, ExecTypeOK
<1>2. PICK e : e = Execution(c, ok, used, w, commit')
  OBVIOUS
<1>3. /\ e \in ExecutionRecord
      /\ e.tx = txn.n /\ e.contract = c /\ e.success = ok /\ e.fuel_used = used
      /\ e.writes = w /\ e.root_before = kv
      /\ e.root_after = projected_root(kv, commit')
  BY <1>1, <1>2, ExecutionType DEF ExecBase
<1>4. executions' = Append(executions, e)
  BY <1>2 DEF RecordOf
<1>5. executions \in Seq(ExecutionRecord)
  BY DEF ExecBase, ExecTypeOK
<1> QED
  BY <1>1, <1>3, <1>4, <1>5

LEMMA CallStartType ==
  ASSUME ExecBase, NEW c \in ContractKey
  PROVE  [contract |-> c, limit |-> fuel_limit, left |-> fuel_limit, overlay |-> NoWrites]
           \in Call
  BY FuelLimit, NoWritesType DEF ExecBase, Call

LEMMA NextBase == ExecBase /\ [ExecNext]_execVars => ExecBase'
<1> SUFFICES ASSUME ExecBase, [ExecNext]_execVars PROVE ExecBase'
  OBVIOUS
<1>0. /\ commit \in BlockCommit /\ limits \in Limits /\ txn \in Txn /\ call \in Call
      /\ executions \in Seq(ExecutionRecord) /\ at \in {"idle", "block", "tx", "call"}
      /\ StoreTypeOK
  BY DEF ExecBase, ExecTypeOK, Limits, Txn, Call
<1>a. ASSUME commit' \in BlockCommit, limits' \in Limits, txn' \in Txn, call' \in Call,
             executions' \in Seq(ExecutionRecord), at' \in {"idle", "block", "tx", "call"},
             StoreTypeOK'
      PROVE  ExecTypeOK'
  BY <1>a DEF ExecTypeOK, Limits, Txn, Call
<1>b. CountedTx \in Txn /\ CountedTx.n = txn.n
  BY CountersType DEF ExecBase
<1>1. CASE begin_block
  <2>1. UNCHANGED storeVars /\ StoreBelow' /\ BlockHeight' = BlockHeight /\ StoreTypeOK'
    BY <1>1, SameStore DEF begin_block
  <2>2. NoLimits \in Limits /\ [n |-> 0, fuel |-> 0, messages |-> 0] \in Txn
    BY LimitsAssumption DEF NoLimits, Limits, Txn
  <2>3. /\ at' = "block" /\ commit' = EmptyCommit /\ limits' = NoLimits
        /\ txn' = [n |-> 0, fuel |-> 0, messages |-> 0] /\ executions' = <<>>
        /\ call' = call /\ BlockHeight \in Height
    BY <1>1 DEF begin_block
  <2>4. ExecTypeOK'
    BY <1>0, <1>a, <2>1, <2>2, <2>3, EmptyCommitType
  <2> QED
    BY <2>1, <2>3, <2>4 DEF ExecBase, Inside
<1>2. CASE begin_tx
  <2>1. UNCHANGED storeVars /\ StoreBelow' /\ BlockHeight' = BlockHeight /\ StoreTypeOK'
    BY <1>2, SameStore DEF begin_tx
  <2>2. [n |-> txn.n + 1, fuel |-> 0, messages |-> 0] \in Txn /\ txn.n + 1 >= 1
    BY <1>0, <1>2, LimitsAssumption DEF begin_tx, Txn
  <2>3. ExecTypeOK'
    BY <1>0, <1>2, <1>a, <2>1, <2>2 DEF begin_tx
  <2> QED
    BY <1>2, <2>1, <2>2, <2>3 DEF ExecBase, Inside, begin_tx
<1>3. CASE end_tx
  <2>1. UNCHANGED storeVars /\ StoreBelow' /\ BlockHeight' = BlockHeight /\ StoreTypeOK'
    BY <1>3, SameStore DEF end_tx
  <2>2. ExecTypeOK'
    BY <1>0, <1>3, <1>a, <2>1 DEF end_tx
  <2> QED
    BY <1>3, <2>1, <2>2 DEF ExecBase, Inside, end_tx
<1>4. CASE end_block
  <2>1. PICK hash \in Hash : next_block(BlockHeight, hash, commit)
    BY <1>4 DEF end_block
  <2>2. BlockHeight \in Height /\ StoreInv
    BY <1>4 DEF end_block, ExecBase, Inside, StoreBelow
  <2>3. StoreInv' /\ MetaNamesLast'
    BY <1>0, <2>1, <2>2, CommitInv, CommitNamesLast
  <2>4. meta'.h = BlockHeight
    BY <2>1 DEF next_block, commit_block
  <2>5. BlockHeight >= 1
    BY NoneAssumption, MaxHeightAssumption
       DEF BlockHeight, ExecBase, StoreBelow, StoreInv, StoreTypeOK, Height
  <2>6. ExecTypeOK'
    BY <1>0, <1>4, <1>a, <2>3 DEF end_block, StoreInv
  <2> QED
    BY <1>4, <2>3, <2>4, <2>5, <2>6 DEF end_block, ExecBase, Inside, StoreBelow
<1>5. CASE Skips
  <2>1. UNCHANGED storeVars /\ StoreBelow' /\ BlockHeight' = BlockHeight /\ StoreTypeOK'
    BY <1>5, SameStore DEF Skips, Quiet
  <2>2. ExecTypeOK'
    BY <1>0, <1>5, <1>a, <1>b, <2>1 DEF Skips, Quiet, Reads
  <2> QED
    BY <1>5, <1>b, <2>1, <2>2 DEF ExecBase, Inside, Skips, Quiet, Reads
<1>6. CASE Starts
  <2>1. UNCHANGED storeVars /\ StoreBelow' /\ BlockHeight' = BlockHeight /\ StoreTypeOK'
    BY <1>6, SameStore DEF Starts, Quiet
  <2>2. PICK c \in ContractKey :
          call' = [contract |-> c, limit |-> fuel_limit, left |-> fuel_limit,
                   overlay |-> NoWrites]
    BY <1>6 DEF Starts
  <2>3. call' \in Call /\ call'.contract \in ContractKey /\ call'.left = call'.limit
        /\ call'.left \in Int
    BY <2>2, CallStartType, FuelLimit DEF ExecBase
  <2>4. ExecTypeOK'
    BY <1>0, <1>6, <1>a, <1>b, <2>1, <2>3 DEF Starts, Quiet, Reads
  <2> QED
    BY <1>6, <1>b, <2>1, <2>3, <2>4 DEF ExecBase, Inside, Starts, Quiet, Reads
<1>7. CASE Misses
  <2>1. UNCHANGED storeVars /\ StoreBelow' /\ BlockHeight' = BlockHeight /\ StoreTypeOK'
    BY <1>7, SameStore DEF Misses, RecordOf
  <2>2. txn.n >= 1 /\ at = "tx" /\ at' = "tx"
    BY <1>7 DEF ExecBase, Inside, Misses, Reads, RecordOf
  <2>3. commit' \in BlockCommit /\ executions' \in Seq(ExecutionRecord)
    <3>1. 0 \in 0..MAX_FUEL_PER_CALL
      BY LimitsAssumption
    <3> QED
      BY <1>7, <2>2, <3>1, RecordTyped, NoWritesType DEF Misses
  <2>4. ExecTypeOK'
    BY <1>0, <1>7, <1>a, <1>b, <2>1, <2>2, <2>3 DEF Misses, Reads
  <2> QED
    BY <1>7, <1>b, <2>1, <2>2, <2>4 DEF ExecBase, Inside, Misses, Reads
<1>8. CASE Deploys
  <2>1. UNCHANGED storeVars /\ StoreBelow' /\ BlockHeight' = BlockHeight /\ StoreTypeOK'
    BY <1>8, SameStore DEF Deploys
  <2>2. ExecTypeOK'
    BY <1>0, <1>8, <1>a, <1>b, <2>1 DEF Deploys, Reads
  <2> QED
    BY <1>8, <1>b, <2>1, <2>2 DEF ExecBase, Inside, Deploys, Reads
<1>9. CASE Runs
  <2>1. UNCHANGED storeVars /\ StoreBelow' /\ BlockHeight' = BlockHeight /\ StoreTypeOK'
    BY <1>9, SameStore DEF Runs, Quiet
  <2>2. ExecTypeOK'
    BY <1>0, <1>9, <1>a, <2>1 DEF Runs, Quiet
  <2> QED
    BY <1>9, <2>1, <2>2 DEF ExecBase, Inside, Runs, Quiet
<1>10. CASE Ends
  <2>1. PICK c \in ContractKey, used \in 0..MAX_FUEL_PER_CALL, ok \in BOOLEAN, w \in Writes :
           /\ at = "call"
           /\ RecordOf(c, ok, used, w)
           /\ txn' = [txn EXCEPT !.fuel = @ + used]
           /\ limits' = [limits EXCEPT !.fuel = @ + used]
           /\ call' = NoCall
    BY <1>10, Zenon DEF Ends
  <2>2. UNCHANGED storeVars /\ StoreBelow' /\ BlockHeight' = BlockHeight /\ StoreTypeOK'
    BY <2>1, SameStore DEF RecordOf
  <2>3. txn.n >= 1 /\ at' = "tx"
    BY <2>1 DEF ExecBase, Inside, RecordOf
  <2>4. commit' \in BlockCommit /\ executions' \in Seq(ExecutionRecord)
    BY <2>1, <2>3, RecordTyped
  <2>5. txn.fuel + used \in Nat /\ limits.fuel + used \in Nat
    BY <1>0, LimitsAssumption DEF Txn, Limits
  <2>6. txn' \in Txn /\ limits' \in Limits /\ txn'.n = txn.n
    BY <1>0, <2>1, <2>5 DEF Txn, Limits
  <2>7. ExecTypeOK'
    BY <1>a, <2>1, <2>2, <2>3, <2>4, <2>6, NoCallType
  <2> QED
    BY <2>1, <2>2, <2>3, <2>6, <2>7 DEF ExecBase, Inside
<1>11. CASE UNCHANGED execVars
  <2>1. UNCHANGED storeVars /\ UNCHANGED procVars
    BY <1>11 DEF execVars, procVars, storeVars
  <2>2. StoreBelow' /\ BlockHeight' = BlockHeight /\ StoreTypeOK'
    BY <2>1, SameStore
  <2>3. ExecTypeOK'
    BY <1>0, <1>a, <2>1, <2>2 DEF procVars
  <2> QED
    BY <2>1, <2>2, <2>3 DEF ExecBase, Inside, procVars
<1> QED
  BY <1>1, <1>2, <1>3, <1>4, <1>5, <1>6, <1>7, <1>8, <1>9, <1>10, <1>11, StepKinds DEF Kinds

(* process_parsed_block: from the genesis of the index on, the block        *)
(* processor's state has its types, the store under it is sound, and its    *)
(* metadata names the last block.                                           *)
THEOREM ExecBaseInvariant == ExecSpec => []ExecBase
  BY InitBase, NextBase, PTL DEF ExecSpec

(* process_parsed_block, execute_call: the pending commit, the counters, the *)
(* running call and the execution records always have their types.          *)
THEOREM ExecTypeCorrect == ExecSpec => []ExecTypeOK
<1>1. ExecBase => ExecTypeOK
  BY DEF ExecBase
<1> QED
  BY <1>1, ExecBaseInvariant, PTL
----------------------------------------------------------------------------
(* The commit and the records *)

\* A call is recorded: one that ended, or one that found no contract.
Records ==
  \E c \in ContractKey, used \in 0..MAX_FUEL_PER_CALL, ok \in BOOLEAN, w \in Writes :
     /\ RecordOf(c, ok, used, w)
     /\ txn.n >= 1
     /\ \/ ~ok /\ w = NoWrites
        \/ at = "call" /\ c = call.contract /\ (w = NoWrites \/ w = call.overlay)

\* What a step does to the pending commit and the records.
LEMMA EffectKinds ==
  ASSUME ExecBase, [ExecNext]_execVars
  PROVE  \/ begin_block \/ end_block \/ Quiet \/ Deploys \/ Records \/ UNCHANGED execVars
<1>1. CASE begin_tx \/ end_tx
  BY <1>1 DEF begin_tx, end_tx, Quiet
<1>2. CASE Skips \/ Starts \/ Runs
  BY <1>2 DEF Skips, Starts, Runs
<1>3. CASE Misses
  <2>1. PICK c \in ContractKey : RecordOf(c, FALSE, 0, NoWrites)
    BY <1>3 DEF Misses
  <2>2. txn.n >= 1 /\ 0 \in 0..MAX_FUEL_PER_CALL
    BY <1>3, LimitsAssumption DEF Misses, Reads, ExecBase, Inside
  <2>3. Records
    BY <2>1, <2>2, NoWritesType, Zenon DEF Records
  <2> QED
    BY <2>3
<1>4. CASE Ends
  <2>1. PICK c \in ContractKey, used \in 0..MAX_FUEL_PER_CALL, ok \in BOOLEAN, w \in Writes :
           /\ c = call.contract
           /\ w = NoWrites \/ w = call.overlay
           /\ at = "call"
           /\ RecordOf(c, ok, used, w)
    BY <1>4, Zenon DEF Ends
  <2>2. txn.n >= 1
    BY <2>1 DEF ExecBase, Inside
  <2>3. Records
    BY <2>1, <2>2, Zenon DEF Records
  <2> QED
    BY <2>3
<1> QED
  BY <1>1, <1>2, <1>3, <1>4, StepKinds DEF Kinds

\* A recorded call, with its record named.
LEMMA RecordsAre ==
  ASSUME ExecBase, Records
  PROVE  \E w \in Writes, e \in ExecutionRecord :
           /\ at # "idle" /\ at' = "tx" /\ UNCHANGED storeVars
           /\ commit' \in BlockCommit
           /\ commit' = ApplyWrites(commit, w)
           /\ executions' = Append(executions, e)
           /\ e.tx = txn.n /\ e.writes = w /\ e.root_before = kv
           /\ e.root_after = projected_root(kv, commit')
           /\ ~e.success => w = NoWrites
           /\ \/ ~e.success /\ w = NoWrites
              \/ /\ at = "call" /\ e.contract = call.contract
                 /\ w = NoWrites \/ w = call.overlay
<1>1. PICK c \in ContractKey, used \in 0..MAX_FUEL_PER_CALL, ok \in BOOLEAN, w \in Writes :
     /\ RecordOf(c, ok, used, w)
     /\ txn.n >= 1
     /\ \/ ~ok /\ w = NoWrites
        \/ at = "call" /\ c = call.contract /\ (w = NoWrites \/ w = call.overlay)
  BY Zenon DEF Records
<1>2. /\ commit' \in BlockCommit
      /\ \E e \in ExecutionRecord :
           /\ executions' = Append(executions, e)
           /\ e.tx = txn.n /\ e.contract = c /\ e.success = ok /\ e.fuel_used = used
           /\ e.writes = w /\ e.root_before = kv
           /\ e.root_after = projected_root(kv, commit')
  BY <1>1, RecordTyped
<1>3. PICK e \in ExecutionRecord :
           /\ executions' = Append(executions, e)
           /\ e.tx = txn.n /\ e.contract = c /\ e.success = ok /\ e.fuel_used = used
           /\ e.writes = w /\ e.root_before = kv
           /\ e.root_after = projected_root(kv, commit')
  BY <1>2
<1>4. /\ at # "idle" /\ at' = "tx" /\ UNCHANGED storeVars
      /\ commit' = ApplyWrites(commit, w) /\ (~ok => w = NoWrites)
  BY <1>1 DEF RecordOf
<1> QED
  BY <1>1, <1>2, <1>3, <1>4, Zenon

\* Appending leaves the earlier records alone.
LEMMA AppendRecords ==
  ASSUME NEW s \in Seq(ExecutionRecord), NEW e \in ExecutionRecord
  PROVE  LET t == Append(s, e) IN
         /\ t \in Seq(ExecutionRecord) /\ t # <<>>
         /\ Len(t) = Len(s) + 1 /\ Len(s) \in Nat
         /\ DOMAIN t = DOMAIN s \union {Len(s) + 1}
         /\ DOMAIN s = 1..Len(s)
         /\ t[Len(s) + 1] = e
         /\ \A i \in DOMAIN s : t[i] = s[i] /\ i < Len(s) + 1
  OBVIOUS

\* Between begin_block and end_block: every record starts from the database as
\* it is, and the last one ends with what the pending commit makes of it.
FrameInv ==
  /\ at # "idle" =>
       /\ \A i \in DOMAIN executions : executions[i].root_before = kv
       /\ executions # <<>> => \A k \in StorageKey :
            executions[Len(executions)].root_after[k] = projected_root(kv, commit)[k]
  /\ RecordsFrameBlock

\* What the store holds under a block.
LEMMA BelowBlock ==
  ASSUME ExecBase
  PROVE  /\ meta.h = None => kv = EmptyState
         /\ meta.h # None => meta.h \in Height /\ meta.h >= 1 /\ hist[meta.h].state_root = kv
<1>1. RootMatches /\ MetaNamesLast /\ meta.h \in Height \union {None}
  BY DEF ExecBase, StoreBelow, StoreInv, StoreTypeOK
<1>2. CASE Recorded = {}
  BY <1>1, <1>2 DEF RootMatches, MetaNamesLast
<1>3. CASE Recorded # {}
  <2>1. PICK h \in Recorded : IsLast(h) /\ meta.h = h
    BY <1>1, <1>3 DEF MetaNamesLast
  <2>2. PICK g \in Recorded : IsLast(g) /\ hist[g].state_root = kv
    BY <1>1, <1>3 DEF RootMatches, compute_root
  <2>3. h = g /\ h \in Height /\ h # None
    BY <2>1, <2>2, NoneAssumption DEF IsLast, Recorded, Height
  <2> QED
    BY <2>1, <2>2, <2>3 DEF ExecBase, StoreBelow
<1> QED
  BY <1>2, <1>3

LEMMA CommitFrames ==
  ASSUME ExecBase, FrameInv, end_block
  PROVE  RecordsFrameBlock'
<1>1. PICK hash \in Hash : next_block(BlockHeight, hash, commit)
  BY DEF end_block
<1>2. /\ at = "block" /\ executions' = executions
      /\ hist' = [hist EXCEPT ![BlockHeight] = [zcash_block_hash |-> hash,
                                                state_root |-> projected_root(kv, commit)]]
      /\ meta'.h = BlockHeight
  BY <1>1 DEF end_block, next_block, commit_block
<1>3. BlockHeight \in Height /\ hist \in [Height -> HeightRecord \union {None}]
  BY <1>2 DEF ExecBase, Inside, ExecTypeOK, StoreTypeOK
<1>4. hist'[BlockHeight].state_root = projected_root(kv, commit)
  BY <1>2, <1>3
<1>5. kv = IF meta'.h = 1 THEN EmptyState ELSE hist'[meta'.h - 1].state_root
  <2>1. CASE meta.h = None
    BY <1>2, <2>1, BelowBlock DEF BlockHeight
  <2>2. CASE meta.h # None
    <3>1. meta.h \in Height /\ meta.h >= 1 /\ hist[meta.h].state_root = kv
      BY <2>2, BelowBlock
    <3>2. meta'.h = meta.h + 1 /\ meta'.h - 1 = meta.h /\ meta'.h # 1
      BY <1>2, <2>2, <3>1 DEF BlockHeight, Height
    <3>3. hist'[meta.h] = hist[meta.h]
      BY <1>2, <1>3, <3>1, <3>2 DEF Height
    <3> QED
      BY <3>1, <3>2, <3>3
  <2> QED
    BY <2>1, <2>2
<1> QED
  BY <1>2, <1>4, <1>5 DEF RecordsFrameBlock, FrameInv

\* The storage part of a projected root does not see deployments.
LEMMA ProjectedStorage ==
  ASSUME NEW c \in BlockCommit, NEW k \in StorageKey
  PROVE  projected_root(kv, c)[k] = IF k \in c.del THEN Absent
                                    ELSE IF c.put[k] # NoOp THEN c.put[k] ELSE kv[k]
  BY DEF projected_root, compute_root, DbKey

LEMMA NextFrame == ExecBase /\ FrameInv /\ [ExecNext]_execVars => FrameInv'
<1> SUFFICES ASSUME ExecBase, FrameInv, [ExecNext]_execVars PROVE FrameInv'
  OBVIOUS
<1>0. executions \in Seq(ExecutionRecord) /\ commit \in BlockCommit
  BY DEF ExecBase, ExecTypeOK
<1>1. CASE begin_block
  BY <1>1 DEF begin_block, FrameInv, RecordsFrameBlock
<1>2. CASE end_block
  BY <1>2, CommitFrames DEF FrameInv, end_block
<1>3. CASE Quiet
  BY <1>3 DEF Quiet, storeVars, FrameInv, RecordsFrameBlock
<1>4. CASE Deploys
  <2>1. PICK c \in ContractKey : /\ commit' \in BlockCommit /\ commit'.del = commit.del
                                 /\ commit'.put = [commit.put EXCEPT ![c] = CodeOf[c]]
    BY <1>4 DEF Deploys
  <2>2. at # "idle" /\ at' = "tx" /\ kv' = kv /\ executions' = executions
    BY <1>4 DEF Deploys, Reads, storeVars
  <2>3. ASSUME NEW k \in StorageKey
        PROVE  projected_root(kv, commit')[k] = projected_root(kv, commit)[k]
    <3>1. c # k /\ k \in DbKey
      BY PrefixAssumption DEF DbKey
    <3>2. commit.put \in [DbKey -> Value \union {NoOp}]
      BY <1>0 DEF BlockCommit
    <3>3. commit'.put[k] = commit.put[k]
      BY <2>1, <3>1, <3>2
    <3>4. PICK b \in BlockCommit, d \in BlockCommit : b = commit /\ d = commit'
      BY <1>0, <2>1
    <3>5. d.del = b.del /\ d.put[k] = b.put[k]
      BY <2>1, <3>3, <3>4
    <3>6. projected_root(kv, d)[k] = projected_root(kv, b)[k]
      BY <3>5, ProjectedStorage
    <3> QED
      BY <3>4, <3>6
  <2> QED
    BY <2>2, <2>3 DEF FrameInv, RecordsFrameBlock
<1>5. CASE Records
  <2>1. PICK e \in ExecutionRecord :
           /\ at # "idle" /\ at' = "tx" /\ UNCHANGED storeVars
           /\ executions' = Append(executions, e) /\ e.root_before = kv
           /\ e.root_after = projected_root(kv, commit')
    BY <1>5, RecordsAre
  <2>2. kv' = kv
    BY <2>1 DEF storeVars
  <2>3. /\ Len(executions') = Len(executions) + 1
        /\ DOMAIN executions' = DOMAIN executions \union {Len(executions) + 1}
        /\ executions'[Len(executions) + 1] = e
        /\ \A i \in DOMAIN executions : executions'[i] = executions[i]
    BY <1>0, <2>1, AppendRecords
  <2>4. \A i \in DOMAIN executions' : executions'[i].root_before = kv'
    BY <2>1, <2>2, <2>3 DEF FrameInv
  <2> QED
    BY <2>1, <2>2, <2>3, <2>4 DEF FrameInv, RecordsFrameBlock
<1>6. CASE UNCHANGED execVars
  BY <1>6 DEF execVars, FrameInv, RecordsFrameBlock
<1> QED
  BY <1>1, <1>2, <1>3, <1>4, <1>5, <1>6, EffectKinds

(* execute_call and save_block_executions: when a block is committed, each  *)
(* of its records starts from the root of the block below, and the last     *)
(* one's root_after agrees with the committed storage.                      *)
THEOREM ExecRecordsFrame == ExecSpec => []RecordsFrameBlock
<1>1. ExecInit => FrameInv
  BY DEF ExecInit, FrameInv, RecordsFrameBlock
<1>2. FrameInv => RecordsFrameBlock
  BY DEF FrameInv
<1> QED
  BY <1>1, <1>2, NextFrame, ExecBaseInvariant, PTL DEF ExecSpec
----------------------------------------------------------------------------
(* What a block writes *)

\* A key some record of s wrote has a last record that wrote it.
LastWriter(s, k) ==
  \/ \A i \in DOMAIN s : s[i].writes[k] = NoOp
  \/ \E i \in DOMAIN s : /\ s[i].writes[k] # NoOp
                         /\ \A j \in DOMAIN s : j > i => s[j].writes[k] = NoOp

\* The pending commit, read off the records s: a key is in the delete list iff
\* some call deleted it, and the put of a key is the value of the last call
\* that set it.
PendingIs(c, s) ==
  \A k \in StorageKey :
    /\ LastWriter(s, k)
    /\ k \in c.del <=> \E i \in DOMAIN s : s[i].writes[k] = Absent
    /\ \/ /\ c.put[k] = NoOp
          /\ \A i \in DOMAIN s : s[i].writes[k] \in {NoOp, Absent}
       \/ \E i \in DOMAIN s :
            /\ c.put[k] = s[i].writes[k]
            /\ s[i].writes[k] \notin {NoOp, Absent}
            /\ \A j \in DOMAIN s : j > i => s[j].writes[k] \in {NoOp, Absent}

FailedWroteNothing ==
  \A i \in DOMAIN executions : ~executions[i].success => executions[i].writes = NoWrites

WriteInv ==
  /\ FailedWroteNothing
  /\ at # "idle" => PendingIs(commit, executions)

\* The record of one more call accounts for what it adds to the commit.
LEMMA PendingAppend ==
  ASSUME NEW s \in Seq(ExecutionRecord), NEW e \in ExecutionRecord, NEW c \in BlockCommit,
         PendingIs(c, s)
  PROVE  PendingIs(ApplyWrites(c, e.writes), Append(s, e))
<1> DEFINE t == Append(s, e)
           n == Len(s) + 1
           w == e.writes
           d == ApplyWrites(c, w)
<1>1. /\ DOMAIN t = DOMAIN s \union {n} /\ t[n] = e
      /\ DOMAIN s \subseteq Nat /\ n \in Nat
      /\ \A i \in DOMAIN s : t[i] = s[i] /\ i < n
  BY AppendRecords
<1>2. \A k \in StorageKey : w[k] \in Value \union {Absent, NoOp}
  BY DEF ExecutionRecord, Writes
<1> SUFFICES ASSUME NEW k \in StorageKey
             PROVE  /\ LastWriter(t, k)
                    /\ k \in d.del <=> \E i \in DOMAIN t : t[i].writes[k] = Absent
                    /\ \/ /\ d.put[k] = NoOp
                          /\ \A i \in DOMAIN t : t[i].writes[k] \in {NoOp, Absent}
                       \/ \E i \in DOMAIN t :
                            /\ d.put[k] = t[i].writes[k]
                            /\ t[i].writes[k] \notin {NoOp, Absent}
                            /\ \A j \in DOMAIN t : j > i => t[j].writes[k] \in {NoOp, Absent}
  BY Zenon DEF PendingIs
<1>3. /\ k \in d.del <=> k \in c.del \/ w[k] = Absent
      /\ d.put[k] = IF w[k] \notin {NoOp, Absent} THEN w[k] ELSE c.put[k]
  BY DEF ApplyWrites, DbKey
<1> HIDE DEF t, n, w, d
<1>4. /\ LastWriter(s, k)
      /\ k \in c.del <=> \E i \in DOMAIN s : s[i].writes[k] = Absent
      /\ \/ /\ c.put[k] = NoOp
            /\ \A i \in DOMAIN s : s[i].writes[k] \in {NoOp, Absent}
         \/ \E i \in DOMAIN s :
              /\ c.put[k] = s[i].writes[k]
              /\ s[i].writes[k] \notin {NoOp, Absent}
              /\ \A j \in DOMAIN s : j > i => s[j].writes[k] \in {NoOp, Absent}
  BY DEF PendingIs
<1>5. t[n].writes[k] = w[k]
  BY <1>1 DEF w
<1>l. LastWriter(t, k)
  <2>1. CASE w[k] # NoOp
    BY <1>1, <1>5, <2>1 DEF LastWriter
  <2>2. CASE w[k] = NoOp
    BY <1>1, <1>4, <1>5, <2>2 DEF LastWriter
  <2> QED
    BY <2>1, <2>2
<1>6. k \in d.del <=> \E i \in DOMAIN t : t[i].writes[k] = Absent
  BY <1>1, <1>3, <1>4, <1>5
<1>7. CASE w[k] \notin {NoOp, Absent}
  <2>1. d.put[k] = t[n].writes[k] /\ n \in DOMAIN t
    BY <1>1, <1>3, <1>5, <1>7
  <2>2. \A j \in DOMAIN t : ~(j > n)
    BY <1>1
  <2> QED
    BY <1>5, <1>6, <1>7, <1>l, <2>1, <2>2
<1>8. CASE w[k] \in {NoOp, Absent}
  <2>1. d.put[k] = c.put[k]
    BY <1>3, <1>8
  <2>2. CASE c.put[k] = NoOp /\ \A i \in DOMAIN s : s[i].writes[k] \in {NoOp, Absent}
    BY <1>1, <1>5, <1>6, <1>8, <1>l, <2>1, <2>2
  <2>3. ASSUME NEW i \in DOMAIN s,
               c.put[k] = s[i].writes[k], s[i].writes[k] \notin {NoOp, Absent},
               \A j \in DOMAIN s : j > i => s[j].writes[k] \in {NoOp, Absent}
        PROVE  /\ i \in DOMAIN t
               /\ d.put[k] = t[i].writes[k]
               /\ t[i].writes[k] \notin {NoOp, Absent}
               /\ \A j \in DOMAIN t : j > i => t[j].writes[k] \in {NoOp, Absent}
    BY <1>1, <1>5, <1>8, <2>1, <2>3
  <2> QED
    BY <1>4, <1>6, <1>l, <2>2, <2>3, Zenon
<1> QED
  BY <1>7, <1>8

LEMMA NextWrite == ExecBase /\ WriteInv /\ [ExecNext]_execVars => WriteInv'
<1> SUFFICES ASSUME ExecBase, WriteInv, [ExecNext]_execVars PROVE WriteInv'
  OBVIOUS
<1>0. executions \in Seq(ExecutionRecord) /\ commit \in BlockCommit
  BY DEF ExecBase, ExecTypeOK
<1>1. CASE begin_block
  <2>1. executions' = <<>> /\ commit' = EmptyCommit
    BY <1>1 DEF begin_block
  <2>2. PendingIs(EmptyCommit, <<>>)
    BY DEF PendingIs, LastWriter, EmptyCommit, DbKey
  <2> QED
    BY <2>1, <2>2 DEF WriteInv, FailedWroteNothing
<1>2. CASE end_block
  BY <1>2 DEF end_block, WriteInv, FailedWroteNothing
<1>3. CASE Quiet
  BY <1>3 DEF Quiet, WriteInv, FailedWroteNothing
<1>4. CASE Deploys
  <2>1. PICK c \in ContractKey : /\ commit'.del = commit.del
                                 /\ commit'.put = [commit.put EXCEPT ![c] = CodeOf[c]]
    BY <1>4 DEF Deploys
  <2>2. at # "idle" /\ executions' = executions
    BY <1>4 DEF Deploys, Reads
  <2>3. commit.put \in [DbKey -> Value \union {NoOp}]
    BY <1>0 DEF BlockCommit
  <2>4. \A k \in StorageKey : commit'.put[k] = commit.put[k]
    BY <2>1, <2>3, PrefixAssumption DEF DbKey
  <2>5. PendingIs(commit', executions)
    BY <2>1, <2>2, <2>4 DEF PendingIs, WriteInv
  <2> QED
    BY <2>2, <2>5 DEF WriteInv, FailedWroteNothing
<1>5. CASE Records
  <2>1. PICK w \in Writes, e \in ExecutionRecord :
           /\ at # "idle" /\ at' = "tx"
           /\ commit' = ApplyWrites(commit, w)
           /\ executions' = Append(executions, e)
           /\ e.writes = w
           /\ ~e.success => w = NoWrites
    BY <1>5, RecordsAre
  <2>2. PendingIs(ApplyWrites(commit, e.writes), Append(executions, e))
    BY <1>0, <2>1, PendingAppend DEF WriteInv
  <2>3. PendingIs(commit', executions')
    BY <2>1, <2>2
  <2>4. FailedWroteNothing'
    <3>1. /\ DOMAIN executions' = DOMAIN executions \union {Len(executions) + 1}
          /\ executions'[Len(executions) + 1] = e
          /\ \A i \in DOMAIN executions : executions'[i] = executions[i]
      BY <1>0, <2>1, AppendRecords
    <3> QED
      BY <2>1, <3>1 DEF FailedWroteNothing, WriteInv
  <2> QED
    BY <2>3, <2>4 DEF WriteInv
<1>6. CASE UNCHANGED execVars
  BY <1>6 DEF execVars, WriteInv, FailedWroteNothing
<1> QED
  BY <1>1, <1>2, <1>3, <1>4, <1>5, <1>6, EffectKinds

LEMMA WriteSuffices == ASSUME ExecBase, WriteInv PROVE OnlySuccessfulCallsWrite
<1>0. executions \in Seq(ExecutionRecord) /\ commit \in BlockCommit
  BY DEF ExecBase, ExecTypeOK
<1>d. DOMAIN executions = 1..Len(executions) /\ Len(executions) \in Nat
  BY <1>0
<1>1. ASSUME at # "idle", NEW k \in StorageKey, NotRevived(k)
      PROVE  EndsWithLastWrite(k)
  <2>1. projected_root(kv, commit)[k] = IF k \in commit.del THEN Absent
                  ELSE IF commit.put[k] # NoOp THEN commit.put[k] ELSE kv[k]
    BY <1>0, ProjectedStorage
  <2>2. /\ LastWriter(executions, k)
        /\ k \in commit.del <=> \E i \in DOMAIN executions : executions[i].writes[k] = Absent
        /\ \/ /\ commit.put[k] = NoOp
              /\ \A i \in DOMAIN executions : executions[i].writes[k] \in {NoOp, Absent}
           \/ \E i \in DOMAIN executions :
                /\ commit.put[k] = executions[i].writes[k]
                /\ executions[i].writes[k] \notin {NoOp, Absent}
                /\ \A j \in DOMAIN executions :
                      j > i => executions[j].writes[k] \in {NoOp, Absent}
    BY <1>1 DEF WriteInv, PendingIs
  <2>3. CASE \A i \in DOMAIN executions : executions[i].writes[k] = NoOp
    <3>1. Wrote(k) = {} /\ k \notin commit.del /\ commit.put[k] = NoOp
      BY <2>2, <2>3, NoOpAssumption DEF Wrote
    <3> QED
      BY <2>1, <3>1 DEF EndsWithLastWrite
  <2>4. ASSUME NEW m \in DOMAIN executions, executions[m].writes[k] # NoOp,
               \A j \in DOMAIN executions : j > m => executions[j].writes[k] = NoOp
        PROVE  EndsWithLastWrite(k)
    <3>1. m \in Wrote(k) /\ IsLastOf(m, Wrote(k))
      BY <1>d, <2>4 DEF Wrote, IsLastOf
    <3>2. projected_root(kv, commit)[k] = executions[m].writes[k]
      <4>1. CASE executions[m].writes[k] = Absent
        BY <2>1, <2>2, <2>4, <4>1
      <4>2. CASE executions[m].writes[k] # Absent
        <5>1. \A i \in DOMAIN executions : executions[i].writes[k] # Absent
          BY <1>1, <1>d, <2>4, <3>1, <4>2, NoOpAssumption DEF NotRevived, Wrote
        <5>2. PICK i \in DOMAIN executions :
                /\ commit.put[k] = executions[i].writes[k]
                /\ executions[i].writes[k] \notin {NoOp, Absent}
                /\ \A j \in DOMAIN executions :
                      j > i => executions[j].writes[k] \in {NoOp, Absent}
          BY <2>2, <2>4, <4>2
        <5>3. i = m
          BY <1>d, <2>4, <4>2, <5>2
        <5> QED
          BY <2>1, <2>2, <5>1, <5>2, <5>3
      <4> QED
        BY <4>1, <4>2
    <3> QED
      BY <3>1, <3>2 DEF EndsWithLastWrite
  <2> QED
    BY <2>2, <2>3, <2>4 DEF LastWriter
<1> QED
  BY <1>1 DEF OnlySuccessfulCallsWrite, WriteInv, FailedWroteNothing

(* execute_call and apply_write: what a block does to storage is what its   *)
(* successful calls did.  A failed call leaves nothing behind; a key that   *)
(* no call sets after another has deleted it ends with its last write.      *)
THEOREM ExecOnlySuccessfulCallsWrite == ExecSpec => []OnlySuccessfulCallsWrite
<1>1. ExecInit => WriteInv
  BY DEF ExecInit, WriteInv, FailedWroteNothing
<1>2. ExecBase /\ WriteInv => OnlySuccessfulCallsWrite
  BY WriteSuffices
<1> QED
  BY <1>1, <1>2, NextWrite, ExecBaseInvariant, PTL DEF ExecSpec
----------------------------------------------------------------------------
(* Whose storage a call writes *)

\* A running call has a contract of the database, and its overlay is under
\* that contract's prefix.
OwnInv ==
  /\ CallsOwnStorage
  /\ at = "call" =>
       /\ kv[call.contract] # Absent
       /\ \A k \in Written(call.overlay) : Owner[k] = call.contract

LEMMA NextOwn == ExecBase /\ OwnInv /\ [ExecNext]_execVars => OwnInv'
<1> SUFFICES ASSUME ExecBase, OwnInv, [ExecNext]_execVars PROVE OwnInv'
  OBVIOUS
<1>0. executions \in Seq(ExecutionRecord)
  BY DEF ExecBase, ExecTypeOK
<1>1. CASE begin_block
  BY <1>1 DEF begin_block, OwnInv, CallsOwnStorage
<1>2. CASE begin_tx \/ end_tx \/ end_block \/ Skips \/ Deploys
  <2>1. executions' = executions /\ at' # "call"
    BY <1>2 DEF begin_tx, end_tx, end_block, Skips, Quiet, Deploys
  <2> QED
    BY <2>1 DEF OwnInv, CallsOwnStorage
<1>3. CASE Starts
  <2>1. PICK c \in ContractKey :
        /\ kv[c] # Absent
        /\ call' = [contract |-> c, limit |-> fuel_limit, left |-> fuel_limit,
                    overlay |-> NoWrites]
    BY <1>3 DEF Starts
  <2>2. executions' = executions /\ kv' = kv
    BY <1>3 DEF Starts, Quiet, storeVars
  <2>3. call'.contract = c /\ Written(call'.overlay) = {}
    BY <2>1, NoWritesType
  <2>4. kv'[call'.contract] # Absent /\ \A k \in Written(call'.overlay) : Owner[k] = call'.contract
    BY <2>1, <2>2, <2>3
  <2> QED
    BY <2>2, <2>4 DEF OwnInv, CallsOwnStorage
<1>4. CASE Runs
  <2>1. /\ executions' = executions /\ kv' = kv /\ at = "call"
        /\ call'.contract = call.contract
    BY <1>4 DEF Runs, Quiet, storeVars
  <2>2. \A k \in Written(call'.overlay) : Owner[k] = call'.contract
    <3>1. CASE call'.overlay = call.overlay
      BY <2>1, <3>1 DEF OwnInv
    <3>2. CASE call'.overlay # call.overlay
      <4>1. PICK k \in StorageKey, x \in Value \union {Absent} :
              /\ Owner[k] = call.contract
              /\ call'.overlay = [call.overlay EXCEPT ![k] = x]
        BY <1>4, <3>2 DEF Runs
      <4>2. call.overlay \in Writes
        BY DEF ExecBase, ExecTypeOK
      <4>3. Written(call'.overlay) \subseteq Written(call.overlay) \union {k}
        BY <4>1, <4>2 DEF Written, Writes
      <4> QED
        BY <2>1, <4>1, <4>3 DEF OwnInv
    <3> QED
      BY <3>1, <3>2
  <2> QED
    BY <2>1, <2>2 DEF OwnInv, CallsOwnStorage
<1>5. CASE Records
  <2>1. PICK w \in Writes, e \in ExecutionRecord :
           /\ at # "idle" /\ at' = "tx"
           /\ executions' = Append(executions, e)
           /\ e.writes = w /\ e.root_before = kv
           /\ \/ ~e.success /\ w = NoWrites
              \/ /\ at = "call" /\ e.contract = call.contract
                 /\ w = NoWrites \/ w = call.overlay
    BY <1>5, RecordsAre
  <2>2. /\ DOMAIN executions' = DOMAIN executions \union {Len(executions) + 1}
        /\ executions'[Len(executions) + 1] = e
        /\ \A i \in DOMAIN executions : executions'[i] = executions[i]
    BY <1>0, <2>1, AppendRecords
  <2>3. e.success => /\ e.root_before[e.contract] # Absent
                     /\ \A k \in Written(e.writes) : Owner[k] = e.contract
    BY <2>1, NoWritesType DEF OwnInv
  <2>4. CallsOwnStorage'
    BY <2>2, <2>3 DEF OwnInv, CallsOwnStorage
  <2> QED
    BY <2>1, <2>4 DEF OwnInv
<1>6. CASE UNCHANGED execVars
  BY <1>6 DEF execVars, OwnInv, CallsOwnStorage
<1>7. CASE Misses \/ Ends
  <2>1. \/ begin_block \/ end_block \/ Quiet \/ Deploys \/ Records \/ UNCHANGED execVars
    BY EffectKinds
  <2>2. CASE Quiet
    <3>1. at' # "call" /\ executions' = executions
      BY <1>7, <2>2 DEF Misses, Ends, RecordOf, Quiet
    <3> QED
      BY <3>1 DEF OwnInv, CallsOwnStorage
  <2> QED
    BY <1>1, <1>2, <1>5, <1>6, <2>1, <2>2
<1> QED
  BY <1>1, <1>2, <1>3, <1>4, <1>5, <1>6, <1>7, StepKinds DEF Kinds

(* execute_call, storage_set and storage_delete: a contract is called only  *)
(* with code that was on chain before the block, and what it writes is      *)
(* under its own storage prefix.                                            *)
THEOREM ExecCallsOwnStorage == ExecSpec => []CallsOwnStorage
<1>1. ExecInit => OwnInv
  BY DEF ExecInit, OwnInv, CallsOwnStorage
<1>2. OwnInv => CallsOwnStorage
  BY DEF OwnInv
<1> QED
  BY <1>1, <1>2, NextOwn, ExecBaseInvariant, PTL DEF ExecSpec
----------------------------------------------------------------------------
(* Sums over the records *)

Term(s, T, n) == IF n \in T THEN s[n].fuel_used ELSE 0

\* g[n] is the fuel of those of the first n records that are in T.
IsSum(g, s, T) ==
  g = [n \in 0..Len(s) |-> IF n = 0 THEN 0 ELSE g[n - 1] + Term(s, T, n)]

LEMMA TermType ==
  ASSUME NEW s \in Seq(ExecutionRecord), NEW T, NEW n \in 1..Len(s)
  PROVE  Term(s, T, n) \in Nat
<1>1. s[n] \in ExecutionRecord
  OBVIOUS
<1>2. s[n].fuel_used \in Nat
  BY <1>1, LimitsAssumption DEF ExecutionRecord
<1> QED
  BY <1>2 DEF Term

LEMMA SumExists ==
  ASSUME NEW s \in Seq(ExecutionRecord), NEW T
  PROVE  \E g \in [0..Len(s) -> Nat] : IsSum(g, s, T)
<1> DEFINE Good(g, k) == /\ g[0] = 0
                         /\ \A i \in 1..k : g[i] = g[i - 1] + Term(s, T, i)
           B == {k \in 0..Len(s) : ~ \E g \in [0..k -> Nat] : Good(g, k)}
<1>0. Len(s) \in Nat
  OBVIOUS
<1>1. B = {}
  <2> SUFFICES ASSUME B # {} PROVE FALSE
    OBVIOUS
  <2>1. B \in SUBSET Nat
    BY <1>0
  <2>2. PICK k \in B : \A j \in B : k <= j
    BY <2>1, LeastNat
  <2>3. k \in 0..Len(s) /\ k \in Nat
    BY <1>0
  <2>4. CASE k = 0
    <3> DEFINE g == [i \in 0..0 |-> 0]
    <3>1. g \in [0..k -> Nat] /\ Good(g, k)
      BY <2>4
    <3> QED
      BY <3>1
  <2>5. CASE k # 0
    <3>1. k - 1 \in 0..Len(s) /\ k - 1 \notin B /\ k \in 1..Len(s)
      <4>1. k - 1 \in 0..Len(s) /\ k \in 1..Len(s) /\ ~(k <= k - 1)
        BY <1>0, <2>3, <2>5
      <4> HIDE DEF B
      <4> QED
        BY <2>2, <4>1
    <3>2. PICK g \in [0..(k - 1) -> Nat] : Good(g, k - 1)
      BY <3>1
    <3>3. g[k - 1] \in Nat /\ Term(s, T, k) \in Nat
      BY <2>3, <2>5, <3>1, <3>2, TermType
    <3> DEFINE f == [i \in 0..k |-> IF i = k THEN g[k - 1] + Term(s, T, k) ELSE g[i]]
    <3>4. f \in [0..k -> Nat]
      <4>1. g[k - 1] + Term(s, T, k) \in Nat
        BY <3>3
      <4>2. \A i \in 0..k : i # k => g[i] \in Nat
        BY <2>3, <3>2
      <4> QED
        BY <4>1, <4>2
    <3>5. f[0] = 0
      BY <2>3, <2>5, <3>2
    <3>6. ASSUME NEW i \in 1..k PROVE f[i] = f[i - 1] + Term(s, T, i)
      <4>1. f[i - 1] = g[i - 1]
        BY <2>3, <3>6
      <4>2. i # k => i \in 1..(k - 1) /\ f[i] = g[i]
        BY <2>3, <3>6
      <4>3. i = k => f[i] = g[k - 1] + Term(s, T, k)
        BY <2>3
      <4> QED
        BY <3>2, <4>1, <4>2, <4>3
    <3>7. Good(f, k)
      BY <3>5, <3>6
    <3> QED
      BY <3>4, <3>7
  <2> QED
    BY <2>4, <2>5
<1>2. PICK g \in [0..Len(s) -> Nat] : Good(g, Len(s))
  BY <1>0, <1>1
<1>3. ASSUME NEW n \in 0..Len(s)
      PROVE  g[n] = IF n = 0 THEN 0 ELSE g[n - 1] + Term(s, T, n)
  BY <1>0, <1>2, <1>3
<1>4. IsSum(g, s, T)
  BY <1>2, <1>3 DEF IsSum
<1> QED
  BY <1>4

\* The recursive definition of FuelIn has one solution.
LEMMA FuelIs ==
  ASSUME NEW s \in Seq(ExecutionRecord), NEW T, NEW g, IsSum(g, s, T)
  PROVE  FuelIn(s, T) = g[Len(s)]
<1>0. Len(s) \in Nat
  OBVIOUS
<1>1. \E f : IsSum(f, s, T) /\ FuelIn(s, T) = f[Len(s)]
  <2> DEFINE Eqn(f) == f = [n \in 0..Len(s) |->
                              IF n = 0 THEN 0
                              ELSE f[n - 1] + (IF n \in T THEN s[n].fuel_used ELSE 0)]
             F == CHOOSE f : Eqn(f)
  <2>1. FuelIn(s, T) = F[Len(s)]
    BY DEF FuelIn
  <2>2. Eqn(g)
    BY DEF IsSum, Term
  <2> HIDE DEF Eqn
  <2>3. Eqn(F)
    BY <2>2
  <2> HIDE DEF F
  <2>4. IsSum(F, s, T)
    BY <2>3 DEF Eqn, IsSum, Term
  <2> QED
    BY <2>1, <2>4
<1>2. PICK f : IsSum(f, s, T) /\ FuelIn(s, T) = f[Len(s)]
  BY <1>1
<1>3. /\ f[0] = 0 /\ g[0] = 0
      /\ \A n \in 1..Len(s) : /\ f[n] = f[n - 1] + Term(s, T, n)
                              /\ g[n] = g[n - 1] + Term(s, T, n)
  BY <1>0, <1>2 DEF IsSum
<1> DEFINE B == {n \in 0..Len(s) : f[n] # g[n]}
<1>4. B = {}
  <2> SUFFICES ASSUME B # {} PROVE FALSE
    OBVIOUS
  <2>1. B \in SUBSET Nat
    BY <1>0
  <2>2. PICK n \in B : \A m \in B : n <= m
    BY <2>1, LeastNat
  <2>3. n \in 1..Len(s) /\ n - 1 \in 0..Len(s) /\ ~(n <= n - 1)
    BY <1>0, <1>3
  <2>4. n - 1 \notin B
    <3> HIDE DEF B
    <3> QED
      BY <2>2, <2>3
  <2> QED
    BY <1>3, <2>3, <2>4
<1> QED
  BY <1>0, <1>2, <1>4

LEMMA FuelType ==
  ASSUME NEW s \in Seq(ExecutionRecord), NEW T
  PROVE  FuelIn(s, T) \in Nat
<1>1. PICK g \in [0..Len(s) -> Nat] : IsSum(g, s, T)
  BY SumExists
<1> QED
  BY <1>1, FuelIs

\* No records, no fuel.
LEMMA FuelNone ==
  ASSUME NEW s \in Seq(ExecutionRecord), NEW T, T \cap DOMAIN s = {}
  PROVE  FuelIn(s, T) = 0
<1> DEFINE g == [n \in 0..Len(s) |-> 0]
<1>1. \A n \in 1..Len(s) : Term(s, T, n) = 0
  BY DEF Term
<1>2. IsSum(g, s, T)
  BY <1>1 DEF IsSum
<1>3. FuelIn(s, T) = g[Len(s)]
  BY <1>2, FuelIs
<1> QED
  BY <1>3

LEMMA FuelEmpty == \A T : FuelIn(<<>>, T) = 0
<1> SUFFICES ASSUME NEW T PROVE FuelIn(<<>>, T) = 0
  OBVIOUS
<1>0. <<>> \in Seq(ExecutionRecord)
  OBVIOUS
<1>1. PICK s \in Seq(ExecutionRecord) : s = <<>>
  BY <1>0
<1>2. T \cap DOMAIN s = {}
  BY <1>1
<1> QED
  BY <1>1, <1>2, FuelNone

LEMMA RecordTx ==
  ASSUME NEW s \in Seq(ExecutionRecord), NEW i \in DOMAIN s
  PROVE  s[i].tx \in Nat
<1>1. s[i] \in ExecutionRecord
  OBVIOUS
<1> QED
  BY <1>1, LimitsAssumption DEF ExecutionRecord

\* One more record.
LEMMA FuelAppend ==
  ASSUME NEW s \in Seq(ExecutionRecord), NEW e \in ExecutionRecord, NEW T, NEW U,
         \A n \in DOMAIN s : n \in U <=> n \in T
  PROVE  FuelIn(Append(s, e), U) =
           FuelIn(s, T) + (IF Len(s) + 1 \in U THEN e.fuel_used ELSE 0)
<1>0. Append(s, e) \in Seq(ExecutionRecord)
  OBVIOUS
<1>1. PICK t \in Seq(ExecutionRecord) : t = Append(s, e)
  BY <1>0
<1>2. PICK m \in Nat : m = Len(s)
  OBVIOUS
<1>3. /\ Len(t) = m + 1 /\ t[m + 1] = e
      /\ \A n \in 1..m : t[n] = s[n] /\ (n \in U <=> n \in T)
  BY <1>1, <1>2
<1>4. PICK g \in [0..m -> Nat] : IsSum(g, s, T)
  BY <1>2, SumExists
<1>5. /\ g[0] = 0
      /\ \A n \in 1..m : g[n] = g[n - 1] + Term(s, T, n)
  BY <1>2, <1>4 DEF IsSum
<1> DEFINE f == [n \in 0..(m + 1) |-> IF n = m + 1 THEN g[m] + Term(t, U, m + 1) ELSE g[n]]
<1>6. ASSUME NEW n \in 1..(m + 1)
      PROVE  f[n] = f[n - 1] + Term(t, U, n)
  <2>1. f[n - 1] = g[n - 1]
    BY <1>6
  <2>2. CASE n = m + 1
    BY <2>1, <2>2
  <2>3. CASE n # m + 1
    <3>1. n \in 1..m /\ f[n] = g[n]
      BY <2>3
    <3>2. Term(t, U, n) = Term(s, T, n)
      BY <1>3, <3>1 DEF Term
    <3> QED
      BY <1>5, <2>1, <3>1, <3>2
  <2> QED
    BY <2>2, <2>3
<1>7. f[0] = 0 /\ f[m + 1] = g[m] + Term(t, U, m + 1)
  BY <1>5
<1>8. IsSum(f, t, U)
  <2>1. \A n \in 0..(m + 1) : f[n] = IF n = 0 THEN 0 ELSE f[n - 1] + Term(t, U, n)
    <3>1. \A n \in 0..(m + 1) : n # 0 => n \in 1..(m + 1)
      OBVIOUS
    <3> HIDE DEF f
    <3> QED
      BY <1>6, <1>7, <3>1
  <2>2. f = [n \in 0..(m + 1) |-> f[n]]
    OBVIOUS
  <2> HIDE DEF f
  <2>3. f = [n \in 0..Len(t) |-> IF n = 0 THEN 0 ELSE f[n - 1] + Term(t, U, n)]
    BY <1>3, <2>1, <2>2
  <2> QED
    BY <2>3 DEF IsSum
<1> HIDE DEF f
<1>9. FuelIn(t, U) = f[m + 1] /\ FuelIn(s, T) = g[m]
  BY <1>2, <1>3, <1>4, <1>8, FuelIs
<1>10. Term(t, U, m + 1) = IF m + 1 \in U THEN e.fuel_used ELSE 0
  BY <1>3 DEF Term
<1> QED
  BY <1>1, <1>2, <1>7, <1>9, <1>10
----------------------------------------------------------------------------
(* Budgets *)

\* The records of transaction n among s.
RecordsIn(s, n) == {i \in DOMAIN s : s[i].tx = n}

\* A running call has been counted and is not yet recorded.
InCall == IF at = "call" THEN 1 ELSE 0

\* The counters are the sums over the records, and a running call cannot take
\* them over the caps.
FuelInv ==
  /\ FuelIn(executions, DOMAIN executions) = limits.fuel
  /\ limits.fuel <= MAX_FUEL_PER_ZCASH_BLOCK
  /\ FuelIn(executions, RecordsIn(executions, txn.n)) = txn.fuel
  /\ \A n \in 1..MaxTxs :
        FuelIn(executions, RecordsIn(executions, n)) <= MAX_FUEL_PER_ZCASH_TX
  /\ \A i \in DOMAIN executions : executions[i].tx <= txn.n
  /\ at = "call" => /\ limits.fuel + call.limit <= MAX_FUEL_PER_ZCASH_BLOCK
                    /\ txn.fuel + call.limit <= MAX_FUEL_PER_ZCASH_TX

\* Every record was counted as a message.
CountInv ==
  /\ Len(executions) + InCall <= limits.messages
  /\ Len(executions) + InCall <= MAX_ZALK_MESSAGES_PER_BLOCK
  /\ Cardinality(RecordsIn(executions, txn.n)) + InCall <= txn.messages
  /\ Cardinality(RecordsIn(executions, txn.n)) + InCall <= MAX_ZALK_MESSAGES_PER_TX
  /\ \A n \in 1..MaxTxs :
        Cardinality(RecordsIn(executions, n)) <= MAX_ZALK_MESSAGES_PER_TX

\* A call writes no more keys than allowed.
FewKeys(w) == /\ IsFiniteSet(Written(w))
              /\ Cardinality(Written(w)) <= MAX_STORAGE_WRITES_PER_CALL

SizeInv ==
  /\ \A i \in DOMAIN executions : FewKeys(executions[i].writes)
  /\ at = "call" => FewKeys(call.overlay)

LEMMA RecordsFinite ==
  ASSUME NEW s \in Seq(ExecutionRecord), NEW n
  PROVE  IsFiniteSet(RecordsIn(s, n)) /\ Cardinality(RecordsIn(s, n)) \in Nat
<1>1. IsFiniteSet(1..Len(s)) /\ RecordsIn(s, n) \in SUBSET (1..Len(s))
  BY FS_Interval DEF RecordsIn
<1> QED
  BY <1>1, FS_Subset, FS_CardinalityType

\* What one more record of transaction n does to the sums and the counts.
LEMMA OneMoreRecord ==
  ASSUME NEW s \in Seq(ExecutionRecord), NEW e \in ExecutionRecord
  PROVE  LET t == Append(s, e) IN
         /\ FuelIn(t, DOMAIN t) = FuelIn(s, DOMAIN s) + e.fuel_used
         /\ FuelIn(t, RecordsIn(t, e.tx)) = FuelIn(s, RecordsIn(s, e.tx)) + e.fuel_used
         /\ Cardinality(RecordsIn(t, e.tx)) = Cardinality(RecordsIn(s, e.tx)) + 1
         /\ \A n : n # e.tx => /\ FuelIn(t, RecordsIn(t, n)) = FuelIn(s, RecordsIn(s, n))
                               /\ RecordsIn(t, n) = RecordsIn(s, n)
<1>1. PICK t : t = Append(s, e)
  OBVIOUS
<1>2. /\ DOMAIN t = DOMAIN s \union {Len(s) + 1} /\ t[Len(s) + 1] = e
      /\ \A i \in DOMAIN s : t[i] = s[i] /\ i < Len(s) + 1
      /\ Len(s) + 1 \notin DOMAIN s
  BY <1>1, AppendRecords
<1>3. FuelIn(t, DOMAIN t) = FuelIn(s, DOMAIN s) + e.fuel_used
  BY <1>1, <1>2, FuelAppend
<1>4. RecordsIn(t, e.tx) = RecordsIn(s, e.tx) \union {Len(s) + 1}
  BY <1>2 DEF RecordsIn
<1>5. Cardinality(RecordsIn(t, e.tx)) = Cardinality(RecordsIn(s, e.tx)) + 1
  <2>1. Len(s) + 1 \notin RecordsIn(s, e.tx)
    BY <1>2 DEF RecordsIn
  <2> QED
    BY <1>4, <2>1, RecordsFinite, FS_AddElement
<1>6. FuelIn(t, RecordsIn(t, e.tx)) = FuelIn(s, RecordsIn(s, e.tx)) + e.fuel_used
  <2>1. \A i \in DOMAIN s : i \in RecordsIn(t, e.tx) <=> i \in RecordsIn(s, e.tx)
    BY <1>2, <1>4
  <2>2. Len(s) + 1 \in RecordsIn(t, e.tx)
    BY <1>4
  <2> QED
    BY <1>1, <2>1, <2>2, FuelAppend
<1>7. ASSUME NEW n, n # e.tx
      PROVE  /\ FuelIn(t, RecordsIn(t, n)) = FuelIn(s, RecordsIn(s, n))
             /\ RecordsIn(t, n) = RecordsIn(s, n)
  <2>1. RecordsIn(t, n) = RecordsIn(s, n)
    BY <1>2, <1>7 DEF RecordsIn
  <2>2. Len(s) + 1 \notin RecordsIn(s, n)
    BY <1>2 DEF RecordsIn
  <2>3. FuelIn(t, RecordsIn(s, n)) = FuelIn(s, RecordsIn(s, n)) + 0
    BY <1>1, <2>2, FuelAppend
  <2>4. FuelIn(s, RecordsIn(s, n)) \in Nat
    BY FuelType
  <2> QED
    BY <2>1, <2>3, <2>4
<1> QED
  BY <1>1, <1>3, <1>5, <1>6, <1>7

\* A recorded call as the budgets see it: the fuel it used is added to the
\* counters, and a call that found no contract used none.
LEMMA RecordedFuel ==
  ASSUME ExecBase, Misses \/ Ends
  PROVE  \E e \in ExecutionRecord :
           /\ executions' = Append(executions, e) /\ at' = "tx"
           /\ e.tx = txn.n /\ txn'.n = txn.n /\ txn.n \in 1..MaxTxs
           /\ limits'.fuel = limits.fuel + e.fuel_used
           /\ txn'.fuel = txn.fuel + e.fuel_used
           /\ \/ Misses /\ at = "tx" /\ e.fuel_used = 0 /\ e.writes = NoWrites
              \/ /\ at = "call" /\ e.fuel_used <= call.limit
                 /\ e.writes = NoWrites \/ e.writes = call.overlay
                 /\ limits'.messages = limits.messages /\ txn'.messages = txn.messages
<1>0. /\ limits \in Limits /\ txn \in Txn /\ call \in Call
      /\ limits.fuel \in Nat /\ txn.fuel \in Nat
      /\ at \in {"tx", "call"} => txn.n \in 1..MaxTxs
  BY LimitsAssumption DEF ExecBase, ExecTypeOK, Limits, Txn, Call, Inside
<1>1. CASE Misses
  <2>1. PICK c \in ContractKey : RecordOf(c, FALSE, 0, NoWrites)
    BY <1>1 DEF Misses
  <2>2. at = "tx" /\ txn' = CountedTx /\ limits'.fuel = limits.fuel /\ at' = "tx"
    BY <1>1, <2>1 DEF Misses, Reads, RecordOf
  <2>3. txn.n \in 1..MaxTxs /\ txn.n >= 1
    BY <1>0, <2>2
  <2>4. PICK e \in ExecutionRecord :
              /\ executions' = Append(executions, e)
              /\ e.tx = txn.n /\ e.fuel_used = 0 /\ e.writes = NoWrites
    <3>1. 0 \in 0..MAX_FUEL_PER_CALL
      BY LimitsAssumption
    <3>2. PICK used \in 0..MAX_FUEL_PER_CALL, ok \in BOOLEAN, w \in Writes :
             used = 0 /\ ok = FALSE /\ w = NoWrites
      BY <3>1, NoWritesType
    <3>3. RecordOf(c, ok, used, w)
      BY <2>1, <3>2
    <3> QED
      BY <2>3, <3>2, <3>3, RecordTyped
  <2>5. CountedTx.n = txn.n /\ CountedTx.fuel = txn.fuel
    BY CountersType DEF ExecBase
  <2> QED
    BY <1>0, <1>1, <2>2, <2>3, <2>4, <2>5
<1>2. CASE Ends
  <2>1. PICK c \in ContractKey, used \in 0..MAX_FUEL_PER_CALL, ok \in BOOLEAN, w \in Writes :
     /\ c = call.contract /\ used = call.limit - call.left
     /\ w = NoWrites \/ w = call.overlay
     /\ at = "call"
     /\ RecordOf(c, ok, used, w)
     /\ txn' = [txn EXCEPT !.fuel = @ + used]
     /\ limits' = [limits EXCEPT !.fuel = @ + used]
     /\ call' = NoCall
    BY <1>2, Zenon DEF Ends
  <2>2. txn.n \in 1..MaxTxs /\ txn.n >= 1 /\ at' = "tx"
    BY <1>0, <2>1 DEF RecordOf
  <2>3. PICK e \in ExecutionRecord :
              /\ executions' = Append(executions, e)
              /\ e.tx = txn.n /\ e.fuel_used = used /\ e.writes = w
    BY <2>1, <2>2, RecordTyped
  <2>4. used <= call.limit
    BY <1>0, <2>1, LimitsAssumption DEF Call
  <2>5. /\ txn'.n = txn.n /\ txn'.fuel = txn.fuel + used /\ txn'.messages = txn.messages
        /\ limits'.fuel = limits.fuel + used /\ limits'.messages = limits.messages
    BY <1>0, <2>1 DEF Txn, Limits
  <2> QED
    BY <2>1, <2>2, <2>3, <2>4, <2>5
<1> QED
  BY <1>1, <1>2

\* A step of the rest: nothing is recorded and the fuel counters stay.
LEMMA OtherSteps ==
  ASSUME ExecBase,
         end_tx \/ end_block \/ Skips \/ Starts \/ Deploys \/ Runs \/ UNCHANGED execVars
  PROVE  /\ executions' = executions
         /\ txn'.n = txn.n /\ txn'.fuel = txn.fuel /\ limits'.fuel = limits.fuel
         /\ txn'.messages >= txn.messages /\ limits'.messages >= limits.messages
<1>0. txn.messages \in Nat /\ limits.messages \in Nat
  BY DEF ExecBase, ExecTypeOK
<1>1. /\ CountedTx.n = txn.n /\ CountedTx.fuel = txn.fuel
      /\ CountedTx.messages = txn.messages + 1
  BY CountersType DEF ExecBase
<1>2. CASE Skips \/ Starts \/ Deploys
  <2>1. /\ executions' = executions /\ txn' = CountedTx /\ limits'.fuel = limits.fuel
        /\ limits'.messages = limits.messages + 1
    BY <1>2 DEF Skips, Starts, Deploys, Reads, Quiet
  <2> QED
    BY <1>0, <1>1, <2>1
<1>3. CASE end_tx \/ end_block \/ Runs \/ UNCHANGED execVars
  <2>1. executions' = executions /\ txn' = txn /\ limits' = limits
    BY <1>3 DEF end_tx, end_block, Runs, Quiet, execVars
  <2> QED
    BY <1>0, <2>1
<1> QED
  BY <1>2, <1>3

LEMMA InitBudgets == ExecInit => FuelInv /\ CountInv /\ SizeInv
<1> SUFFICES ASSUME ExecInit PROVE FuelInv /\ CountInv /\ SizeInv
  OBVIOUS
<1>1. executions = <<>> /\ executions \in Seq(ExecutionRecord) /\ at = "idle"
      /\ limits.fuel = 0 /\ txn.fuel = 0 /\ limits.messages = 0 /\ txn.messages = 0
  BY DEF ExecInit, NoLimits
<1>2. \A T : FuelIn(executions, T) = 0
  BY <1>1, FuelEmpty
<1>3. \A n : Cardinality(RecordsIn(executions, n)) = 0
  BY <1>1, FS_EmptySet DEF RecordsIn
<1>4. FuelInv
  BY <1>1, <1>2, LimitsAssumption DEF FuelInv
<1>5. CountInv
  BY <1>1, <1>3, LimitsAssumption DEF CountInv, InCall
<1> QED
  BY <1>1, <1>4, <1>5 DEF SizeInv

LEMMA NextFuel == ExecBase /\ FuelInv /\ [ExecNext]_execVars => FuelInv'
<1> SUFFICES ASSUME ExecBase, FuelInv, [ExecNext]_execVars PROVE FuelInv'
  OBVIOUS
<1>0. /\ executions \in Seq(ExecutionRecord) /\ call.limit \in Nat
      /\ limits.fuel \in Nat /\ txn.fuel \in Nat /\ txn.n \in Nat
      /\ \A i \in DOMAIN executions : executions[i].tx \in Nat
  <2>1. executions \in Seq(ExecutionRecord) /\ txn.n \in 0..MaxTxs /\ call.limit \in Nat
        /\ limits.fuel \in Nat /\ txn.fuel \in Nat
    BY LimitsAssumption DEF ExecBase, ExecTypeOK
  <2>2. \A i \in DOMAIN executions : executions[i].tx \in Nat
    BY <2>1, RecordTx
  <2> QED
    BY <2>1, <2>2, LimitsAssumption
<1>1. CASE begin_block
  <2>1. executions' = <<>> /\ executions' \in Seq(ExecutionRecord) /\ at' = "block"
        /\ limits'.fuel = 0 /\ txn'.fuel = 0
    BY <1>1 DEF begin_block, NoLimits
  <2>2. \A T : FuelIn(executions', T) = 0
    BY <2>1, FuelEmpty
  <2> QED
    BY <2>1, <2>2, LimitsAssumption DEF FuelInv
<1>2. CASE begin_tx
  <2>1. /\ executions' = executions /\ limits' = limits /\ at' = "tx"
        /\ txn'.n = txn.n + 1 /\ txn'.fuel = 0
    BY <1>2 DEF begin_tx
  <2>2. RecordsIn(executions, txn.n + 1) = {}
    BY <1>0 DEF RecordsIn, FuelInv
  <2>3. FuelIn(executions', RecordsIn(executions', txn'.n)) = 0
    BY <1>0, <2>1, <2>2, FuelNone
  <2>4. \A i \in DOMAIN executions' : executions'[i].tx <= txn'.n
    BY <1>0, <2>1 DEF FuelInv
  <2> QED
    BY <2>1, <2>3, <2>4 DEF FuelInv
<1>3. CASE end_tx \/ end_block \/ Skips \/ Deploys
  <2>1. /\ executions' = executions
        /\ txn'.n = txn.n /\ txn'.fuel = txn.fuel /\ limits'.fuel = limits.fuel
    BY <1>3, OtherSteps
  <2>2. at' # "call"
    BY <1>3 DEF end_tx, end_block, Skips, Deploys
  <2> QED
    BY <2>1, <2>2 DEF FuelInv
<1>4. CASE Starts
  <2>1. /\ executions' = executions
        /\ txn'.n = txn.n /\ txn'.fuel = txn.fuel /\ limits'.fuel = limits.fuel
    BY <1>4, OtherSteps
  <2>2. call'.limit = fuel_limit /\ fuel_limit > 0
    BY <1>4 DEF Starts
  <2>3. /\ txn.fuel + fuel_limit <= MAX_FUEL_PER_ZCASH_TX
        /\ limits.fuel + fuel_limit <= MAX_FUEL_PER_ZCASH_BLOCK
    BY <2>2, FuelLimit DEF ExecBase
  <2> QED
    BY <2>1, <2>2, <2>3 DEF FuelInv
<1>5. CASE Runs \/ UNCHANGED execVars
  <2>1. /\ executions' = executions
        /\ txn'.n = txn.n /\ txn'.fuel = txn.fuel /\ limits'.fuel = limits.fuel
    BY <1>5, OtherSteps
  <2>2. at' = at /\ call'.limit = call.limit
    BY <1>5 DEF Runs, execVars
  <2> QED
    BY <2>1, <2>2 DEF FuelInv
<1>6. CASE Misses \/ Ends
  <2>1. PICK e \in ExecutionRecord :
           /\ executions' = Append(executions, e) /\ at' = "tx"
           /\ e.tx = txn.n /\ txn'.n = txn.n /\ txn.n \in 1..MaxTxs
           /\ limits'.fuel = limits.fuel + e.fuel_used
           /\ txn'.fuel = txn.fuel + e.fuel_used
           /\ e.fuel_used = 0 \/ (at = "call" /\ e.fuel_used <= call.limit)
    BY <1>6, RecordedFuel
  <2>2. e.fuel_used \in Nat
    BY LimitsAssumption DEF ExecutionRecord
  <2>3. /\ FuelIn(executions', DOMAIN executions') = limits'.fuel
        /\ FuelIn(executions', RecordsIn(executions', txn'.n)) = txn'.fuel
        /\ \A n : n # txn.n => FuelIn(executions', RecordsIn(executions', n))
                               = FuelIn(executions, RecordsIn(executions, n))
    BY <1>0, <2>1, OneMoreRecord DEF FuelInv
  <2>4. FuelIn(executions, RecordsIn(executions, txn.n)) <= MAX_FUEL_PER_ZCASH_TX
    BY <2>1 DEF FuelInv
  <2>5. limits'.fuel <= MAX_FUEL_PER_ZCASH_BLOCK /\ txn'.fuel <= MAX_FUEL_PER_ZCASH_TX
    BY <1>0, <2>1, <2>2, <2>4, LimitsAssumption DEF FuelInv
  <2>6. \A i \in DOMAIN executions' : executions'[i].tx <= txn'.n
    <3>1. /\ DOMAIN executions' = DOMAIN executions \union {Len(executions) + 1}
          /\ executions'[Len(executions) + 1] = e
          /\ \A i \in DOMAIN executions : executions'[i] = executions[i]
      BY <1>0, <2>1, AppendRecords
    <3>2. ASSUME NEW i \in DOMAIN executions PROVE executions'[i].tx <= txn'.n
      BY <2>1, <3>1 DEF FuelInv
    <3>3. executions'[Len(executions) + 1].tx <= txn'.n
      BY <1>0, <2>1, <3>1
    <3> QED
      BY <3>1, <3>2, <3>3
  <2>7. \A n \in 1..MaxTxs :
           FuelIn(executions', RecordsIn(executions', n)) <= MAX_FUEL_PER_ZCASH_TX
    BY <2>1, <2>3, <2>5 DEF FuelInv
  <2> QED
    BY <2>1, <2>3, <2>5, <2>6, <2>7 DEF FuelInv
<1> QED
  BY <1>1, <1>2, <1>3, <1>4, <1>5, <1>6, StepKinds DEF Kinds

LEMMA NextCount == ExecBase /\ FuelInv /\ CountInv /\ [ExecNext]_execVars => CountInv'
<1> SUFFICES ASSUME ExecBase, FuelInv, CountInv, [ExecNext]_execVars PROVE CountInv'
  OBVIOUS
<1>0. /\ executions \in Seq(ExecutionRecord) /\ Len(executions) \in Nat
      /\ limits.messages \in Nat /\ txn.messages \in Nat /\ txn.n \in Nat
      /\ \A n : Cardinality(RecordsIn(executions, n)) \in Nat
      /\ InCall \in {0, 1} /\ (at # "call" => InCall = 0) /\ (at = "call" => InCall = 1)
  <2>1. executions \in Seq(ExecutionRecord) /\ txn.n \in 0..MaxTxs
        /\ limits.messages \in Nat /\ txn.messages \in Nat
    BY DEF ExecBase, ExecTypeOK
  <2> QED
    BY <2>1, RecordsFinite, LimitsAssumption DEF InCall
<1>i. /\ InCall' \in {0, 1} /\ (at' # "call" => InCall' = 0) /\ (at' = "call" => InCall' = 1)
  BY DEF InCall
<1>c. ASSUME Reads, WithinCaps
      PROVE  /\ txn.messages + 1 <= MAX_ZALK_MESSAGES_PER_TX
             /\ limits.messages + 1 <= MAX_ZALK_MESSAGES_PER_BLOCK
             /\ txn'.messages = txn.messages + 1 /\ limits'.messages = limits.messages + 1
             /\ at = "tx"
  <2>1. CountedTx.messages = txn.messages + 1 /\ Counted.messages = limits.messages + 1
    BY CountersType DEF ExecBase
  <2> QED
    BY <1>c, <2>1 DEF Reads, WithinCaps
<1>1. CASE begin_block
  <2>1. executions' = <<>> /\ at' = "block" /\ limits'.messages = 0 /\ txn'.messages = 0
    BY <1>1 DEF begin_block, NoLimits
  <2>2. \A n : Cardinality(RecordsIn(executions', n)) = 0
    BY <2>1, FS_EmptySet DEF RecordsIn
  <2> QED
    BY <1>i, <2>1, <2>2, LimitsAssumption DEF CountInv
<1>2. CASE begin_tx
  <2>1. /\ executions' = executions /\ limits' = limits /\ at = "block" /\ at' = "tx"
        /\ txn'.n = txn.n + 1 /\ txn'.messages = 0
    BY <1>2 DEF begin_tx
  <2>2. \A i \in DOMAIN executions : executions[i].tx \in Nat
    BY <1>0, RecordTx
  <2>3. RecordsIn(executions, txn.n + 1) = {}
    BY <1>0, <2>2 DEF RecordsIn, FuelInv
  <2>4. Cardinality(RecordsIn(executions', txn'.n)) = 0
    BY <2>1, <2>3, FS_EmptySet
  <2> QED
    BY <1>0, <1>i, <2>1, <2>4, LimitsAssumption DEF CountInv
<1>3. CASE end_tx \/ end_block \/ Skips \/ Deploys
  <2>1. /\ executions' = executions /\ txn'.n = txn.n
        /\ txn'.messages >= txn.messages /\ limits'.messages >= limits.messages
    BY <1>3, OtherSteps
  <2>2. at # "call" /\ at' # "call"
    BY <1>3 DEF end_tx, end_block, Skips, Deploys, Reads
  <2>3. InCall' = InCall
    BY <1>0, <1>i, <2>2
  <2>4. limits'.messages \in Nat /\ txn'.messages \in Nat
    BY NextBase DEF ExecBase, ExecTypeOK
  <2>5. /\ Len(executions') + InCall' <= limits'.messages
        /\ Cardinality(RecordsIn(executions', txn'.n)) + InCall' <= txn'.messages
    BY <1>0, <2>1, <2>3, <2>4 DEF CountInv
  <2> QED
    BY <2>1, <2>3, <2>5 DEF CountInv
<1>4. CASE Starts
  <2>1. executions' = executions /\ txn'.n = txn.n
    BY <1>4, OtherSteps
  <2>2. /\ txn.messages + 1 <= MAX_ZALK_MESSAGES_PER_TX
        /\ limits.messages + 1 <= MAX_ZALK_MESSAGES_PER_BLOCK
        /\ txn'.messages = txn.messages + 1 /\ limits'.messages = limits.messages + 1
        /\ at = "tx" /\ at' = "call"
    BY <1>4, <1>c DEF Starts
  <2>3. InCall = 0 /\ InCall' = 1
    BY <1>0, <1>i, <2>2
  <2> QED
    BY <1>0, <2>1, <2>2, <2>3, LimitsAssumption DEF CountInv
<1>5. CASE Runs \/ UNCHANGED execVars
  <2>1. executions' = executions /\ at' = at /\ txn' = txn /\ limits' = limits
    BY <1>5 DEF Runs, Quiet, execVars
  <2> QED
    BY <2>1 DEF CountInv, InCall
<1>6. CASE Misses \/ Ends
  <2>1. PICK e \in ExecutionRecord :
           /\ executions' = Append(executions, e) /\ at' = "tx"
           /\ e.tx = txn.n /\ txn'.n = txn.n /\ txn.n \in 1..MaxTxs
           /\ \/ Misses /\ at = "tx"
              \/ /\ at = "call"
                 /\ limits'.messages = limits.messages /\ txn'.messages = txn.messages
    BY <1>6, RecordedFuel
  <2>2. Len(executions') = Len(executions) + 1 /\ InCall' = 0
    BY <1>0, <1>i, <2>1, AppendRecords
  <2>3. /\ Cardinality(RecordsIn(executions', txn'.n)) = Cardinality(RecordsIn(executions, txn.n)) + 1
        /\ \A n : n # txn.n => RecordsIn(executions', n) = RecordsIn(executions, n)
    BY <1>0, <2>1, OneMoreRecord
  <2>4. /\ Len(executions') + InCall' <= limits'.messages
        /\ Len(executions') + InCall' <= MAX_ZALK_MESSAGES_PER_BLOCK
        /\ Cardinality(RecordsIn(executions', txn'.n)) + InCall' <= txn'.messages
        /\ Cardinality(RecordsIn(executions', txn'.n)) + InCall' <= MAX_ZALK_MESSAGES_PER_TX
    <3>1. CASE at = "call" /\ limits'.messages = limits.messages /\ txn'.messages = txn.messages
      BY <1>0, <2>2, <2>3, <3>1 DEF CountInv
    <3>2. CASE Misses /\ at = "tx"
      <4>1. /\ txn.messages + 1 <= MAX_ZALK_MESSAGES_PER_TX
            /\ limits.messages + 1 <= MAX_ZALK_MESSAGES_PER_BLOCK
            /\ txn'.messages = txn.messages + 1 /\ limits'.messages = limits.messages + 1
        BY <1>c, <3>2 DEF Misses
      <4> QED
        BY <1>0, <2>2, <2>3, <3>2, <4>1, LimitsAssumption DEF CountInv
    <3> QED
      BY <2>1, <3>1, <3>2
  <2>5. \A n \in 1..MaxTxs :
           Cardinality(RecordsIn(executions', n)) <= MAX_ZALK_MESSAGES_PER_TX
    <3>1. Cardinality(RecordsIn(executions', txn'.n)) <= MAX_ZALK_MESSAGES_PER_TX
      BY <1>0, <2>2, <2>3, <2>4
    <3> QED
      BY <2>1, <2>3, <3>1 DEF CountInv
  <2> QED
    BY <2>4, <2>5 DEF CountInv
<1> QED
  BY <1>1, <1>2, <1>3, <1>4, <1>5, <1>6, StepKinds DEF Kinds

LEMMA NoWritesFew == FewKeys(NoWrites)
  BY NoWritesType, FS_EmptySet, LimitsAssumption DEF FewKeys

LEMMA NextSize == ExecBase /\ SizeInv /\ [ExecNext]_execVars => SizeInv'
<1> SUFFICES ASSUME ExecBase, SizeInv, [ExecNext]_execVars PROVE SizeInv'
  OBVIOUS
<1>0. executions \in Seq(ExecutionRecord) /\ call.overlay \in Writes
  BY DEF ExecBase, ExecTypeOK
<1>1. CASE begin_block
  BY <1>1 DEF begin_block, SizeInv
<1>2. CASE begin_tx \/ end_tx \/ end_block \/ Skips \/ Deploys
  <2>1. executions' = executions /\ at' # "call"
    BY <1>2 DEF begin_tx, end_tx, end_block, Skips, Quiet, Deploys
  <2> QED
    BY <2>1 DEF SizeInv
<1>3. CASE Starts
  BY <1>3, NoWritesFew DEF Starts, Quiet, SizeInv
<1>4. CASE Runs
  <2>1. executions' = executions /\ at = "call"
    BY <1>4 DEF Runs, Quiet
  <2>2. FewKeys(call.overlay)
    BY <2>1 DEF SizeInv
  <2>3. CASE call'.overlay = call.overlay
    BY <2>1, <2>2, <2>3 DEF SizeInv
  <2>4. CASE call'.overlay # call.overlay
    <3>1. PICK k \in StorageKey, x \in Value \union {Absent} :
            RoomFor(k) /\ call'.overlay = [call.overlay EXCEPT ![k] = x]
      BY <1>4, <2>4 DEF Runs
    <3>2. Written(call'.overlay) = Written(call.overlay) \union {k}
      BY <1>0, <3>1, NoOpAssumption DEF Written, Writes
    <3>3. /\ IsFiniteSet(Written(call'.overlay))
          /\ Cardinality(Written(call'.overlay)) =
               IF k \in Written(call.overlay) THEN Cardinality(Written(call.overlay))
               ELSE Cardinality(Written(call.overlay)) + 1
      BY <2>2, <3>2, FS_AddElement DEF FewKeys
    <3>4. Cardinality(Written(call.overlay)) \in Nat
      BY <2>2, FS_CardinalityType DEF FewKeys
    <3>5. FewKeys(call'.overlay)
      BY <2>2, <3>1, <3>3, <3>4, LimitsAssumption DEF FewKeys, RoomFor
    <3> QED
      BY <2>1, <3>5 DEF SizeInv
  <2> QED
    BY <2>3, <2>4
<1>5. CASE Misses \/ Ends
  <2>1. PICK e \in ExecutionRecord :
           /\ executions' = Append(executions, e) /\ at' = "tx"
           /\ e.writes = NoWrites \/ (at = "call" /\ e.writes = call.overlay)
    BY <1>5, RecordedFuel
  <2>2. FewKeys(e.writes)
    BY <2>1, NoWritesFew DEF SizeInv
  <2>3. /\ DOMAIN executions' = DOMAIN executions \union {Len(executions) + 1}
        /\ executions'[Len(executions) + 1] = e
        /\ \A i \in DOMAIN executions : executions'[i] = executions[i]
    BY <1>0, <2>1, AppendRecords
  <2> QED
    BY <2>1, <2>2, <2>3 DEF SizeInv
<1>6. CASE UNCHANGED execVars
  BY <1>6 DEF execVars, SizeInv
<1> QED
  BY <1>1, <1>2, <1>3, <1>4, <1>5, <1>6, StepKinds DEF Kinds

(* execute_call and the two counters of process_parsed_block: the records   *)
(* of a block never add up to more than its fuel and message budgets, per   *)
(* block and per transaction, and no call writes more keys than allowed,    *)
(* whatever the contracts do.                                               *)
THEOREM ExecWithinBudgets == ExecSpec => []WithinBudgets
<1>1. ExecBase /\ FuelInv /\ CountInv /\ SizeInv => WithinBudgets
  <2> SUFFICES ASSUME ExecBase, FuelInv, CountInv, SizeInv PROVE WithinBudgets
    OBVIOUS
  <2>1. \A n : RecordsOf(n) = RecordsIn(executions, n)
    BY DEF RecordsOf, RecordsIn
  <2>2. Len(executions) \in Nat /\ InCall \in {0, 1}
    BY DEF ExecBase, ExecTypeOK, InCall
  <2>3. Len(executions) <= MAX_ZALK_MESSAGES_PER_BLOCK
    BY <2>2, LimitsAssumption DEF CountInv
  <2> QED
    BY <2>1, <2>3 DEF WithinBudgets, FuelInv, CountInv, SizeInv, FewKeys
<1> QED
  BY <1>1, InitBudgets, NextFuel, NextCount, NextSize, ExecBaseInvariant, PTL DEF ExecSpec
----------------------------------------------------------------------------
(* Deployed code *)

Pick(S) == CHOOSE x \in S : TRUE

LEMMA SubsetFinite ==
  ASSUME NEW S \in SUBSET ContractKey
  PROVE  /\ IsFiniteSet(S) /\ Cardinality(S) \in Nat
         /\ Cardinality(S) <= Cardinality(ContractKey)
         /\ Cardinality(ContractKey) \in Nat
         /\ Cardinality(S) = 0 <=> S = {}
         /\ \A c \in S : /\ S \ {c} \in SUBSET ContractKey
                         /\ Cardinality(S \ {c}) = Cardinality(S) - 1
<1>1. /\ IsFiniteSet(S) /\ Cardinality(S) \in Nat
      /\ Cardinality(S) <= Cardinality(ContractKey)
      /\ Cardinality(ContractKey) \in Nat
  BY IdsAssumption, FS_Subset, FS_CardinalityType
<1>2. Cardinality(S) = 0 <=> S = {}
  BY <1>1, FS_EmptySet
<1>3. ASSUME NEW c \in S
      PROVE  S \ {c} \in SUBSET ContractKey /\ Cardinality(S \ {c}) = Cardinality(S) - 1
  BY <1>1, FS_RemoveElement
<1> QED
  BY <1>1, <1>2, <1>3

\* The recursive definition of CodeBytes has a solution: one by one, on the
\* sets of at most n contracts.
LEMMA CodeBytesUnfolds ==
  /\ CodeBytes[{}] = 0
  /\ \A S \in SUBSET ContractKey : S # {} =>
       CodeBytes[S] = CodeLength[Pick(S)] + CodeBytes[S \ {Pick(S)}]
<1> DEFINE Upto(n) == {S \in SUBSET ContractKey : Cardinality(S) <= n}
           Good(g, n) == /\ g[{}] = 0
                         /\ \A S \in Upto(n) : S # {} =>
                               g[S] = CodeLength[Pick(S)] + g[S \ {Pick(S)}]
           B == {n \in Nat : ~ \E g \in [Upto(n) -> Nat] : Good(g, n)}
<1>0. \A S \in SUBSET ContractKey : S # {} =>
         /\ Pick(S) \in S /\ CodeLength[Pick(S)] \in Nat
         /\ S \ {Pick(S)} \in SUBSET ContractKey
         /\ Cardinality(S) \in Nat
         /\ Cardinality(S \ {Pick(S)}) = Cardinality(S) - 1
  BY SubsetFinite, CodeAssumption DEF Pick
<1>e. \A n \in Nat : {} \in Upto(n)
  BY FS_EmptySet
<1>b. \A n : n \in B <=> n \in Nat /\ ~ \E g \in [Upto(n) -> Nat] : Good(g, n)
  OBVIOUS
<1>u. \A n, S : S \in Upto(n) <=> S \in SUBSET ContractKey /\ Cardinality(S) <= n
  OBVIOUS
<1> HIDE DEF B
<1>1. B = {}
  <2> SUFFICES ASSUME B # {} PROVE FALSE
    OBVIOUS
  <2>1. B \in SUBSET Nat
    BY <1>b
  <2>2. PICK n \in Nat : /\ n \in B /\ \A j \in B : n <= j
                         /\ ~ \E g \in [Upto(n) -> Nat] : Good(g, n)
    BY <1>b, <2>1, LeastNat
  <2>3. CASE n = 0
    <3>1. \A S \in Upto(n) : S = {}
      <4> HIDE DEF Upto
      <4>1. ASSUME NEW S \in Upto(n) PROVE S = {}
        <5>1. S \in SUBSET ContractKey /\ Cardinality(S) <= n
          BY <1>u
        <5> QED
          BY <2>3, <5>1, SubsetFinite
      <4> QED
        BY <4>1
    <3> DEFINE g == [S \in Upto(n) |-> 0]
    <3>2. g \in [Upto(n) -> Nat] /\ Good(g, n)
      BY <1>e, <2>2, <3>1
    <3> QED
      BY <2>2, <3>2
  <2>4. CASE n # 0
    <3>1. n - 1 \in Nat /\ ~(n <= n - 1)
      BY <2>4
    <3>2. PICK g \in [Upto(n - 1) -> Nat] : Good(g, n - 1)
      <4>1. n - 1 \notin B
        BY <2>2, <3>1
      <4> HIDE DEF Upto, Good
      <4> QED
        BY <1>b, <3>1, <4>1
    <3> DEFINE f == [S \in Upto(n) |-> IF S \in Upto(n - 1) THEN g[S]
                                       ELSE CodeLength[Pick(S)] + g[S \ {Pick(S)}]]
    <3>3. \A S \in Upto(n) : S # {} => S \ {Pick(S)} \in Upto(n - 1) /\ S \ {Pick(S)} \in Upto(n)
      <4> HIDE DEF Upto
      <4>1. ASSUME NEW S \in Upto(n), S # {}
            PROVE  S \ {Pick(S)} \in Upto(n - 1) /\ S \ {Pick(S)} \in Upto(n)
        <5>1. S \in SUBSET ContractKey /\ Cardinality(S) <= n
          BY <1>u
        <5>2. /\ S \ {Pick(S)} \in SUBSET ContractKey /\ Cardinality(S) \in Nat
              /\ Cardinality(S \ {Pick(S)}) = Cardinality(S) - 1
          BY <1>0, <4>1, <5>1
        <5> QED
          BY <1>u, <5>1, <5>2
      <4> QED
        BY <4>1
    <3>4. {} \in Upto(n - 1) /\ {} \in Upto(n)
      BY <1>e, <2>2, <3>1
    <3>5. \A S \in Upto(n) : S \in SUBSET ContractKey
      OBVIOUS
    <3> HIDE DEF Upto
    <3>6. f \in [Upto(n) -> Nat]
      <4>1. ASSUME NEW S \in Upto(n), S \notin Upto(n - 1)
            PROVE  CodeLength[Pick(S)] + g[S \ {Pick(S)}] \in Nat
        <5>1. S # {}
          BY <3>4, <4>1
        <5>2. g[S \ {Pick(S)}] \in Nat
          BY <3>2, <3>3, <5>1
        <5>3. CodeLength[Pick(S)] \in Nat
          BY <1>0, <3>5, <5>1
        <5> QED
          BY <5>2, <5>3
      <4>2. \A S \in Upto(n - 1) : g[S] \in Nat
        BY <3>2
      <4> QED
        BY <4>1, <4>2
    <3>7. Good(f, n)
      <4>1. f[{}] = 0
        BY <3>2, <3>4
      <4>2. ASSUME NEW S \in Upto(n), S # {}
            PROVE  f[S] = CodeLength[Pick(S)] + f[S \ {Pick(S)}]
        <5>1. f[S \ {Pick(S)}] = g[S \ {Pick(S)}]
          BY <3>3, <4>2
        <5>2. CASE S \in Upto(n - 1)
          BY <3>2, <4>2, <5>1, <5>2
        <5>3. CASE S \notin Upto(n - 1)
          BY <5>1, <5>3
        <5> QED
          BY <5>2, <5>3
      <4> QED
        BY <4>1, <4>2
    <3> QED
      BY <2>2, <3>6, <3>7
  <2> QED
    BY <2>3, <2>4
<1>2. PICK n \in Nat : n = Cardinality(ContractKey)
  BY SubsetFinite
<1>3. Upto(n) = SUBSET ContractKey
  BY <1>2, SubsetFinite
<1>4. PICK g \in [SUBSET ContractKey -> Nat] : Good(g, n)
  <2> HIDE DEF Good, Upto
  <2> QED
    BY <1>1, <1>3, <1>b
<1> DEFINE Eqn(h) == h = [S \in SUBSET ContractKey |->
                            IF S = {} THEN 0
                            ELSE LET c == CHOOSE x \in S : TRUE
                                 IN  CodeLength[c] + h[S \ {c}]]
<1>5. Eqn(g)
  <2>1. ASSUME NEW S \in SUBSET ContractKey
        PROVE  g[S] = IF S = {} THEN 0 ELSE CodeLength[Pick(S)] + g[S \ {Pick(S)}]
    BY <1>3, <1>4
  <2> QED
    BY <1>4, <2>1 DEF Pick
<1>6. CodeBytes = CHOOSE h : Eqn(h)
  BY DEF CodeBytes
<1>7. Eqn(CodeBytes)
  <2> HIDE DEF Eqn
  <2> QED
    BY <1>5, <1>6
<1> QED
  BY <1>7 DEF Pick

LEMMA CodeBytesType == \A S \in SUBSET ContractKey : CodeBytes[S] \in Nat
<1> DEFINE B == {n \in Nat : \E R \in SUBSET ContractKey :
                               Cardinality(R) = n /\ CodeBytes[R] \notin Nat}
<1>b. \A n : n \in B <=> /\ n \in Nat
                         /\ \E R \in SUBSET ContractKey :
                               Cardinality(R) = n /\ CodeBytes[R] \notin Nat
  OBVIOUS
<1> HIDE DEF B
<1>1. B = {}
  <2> SUFFICES ASSUME B # {} PROVE FALSE
    OBVIOUS
  <2>1. B \in SUBSET Nat
    BY <1>b
  <2>2. PICK n \in B : \A j \in B : n <= j
    BY <2>1, LeastNat
  <2>3. PICK R \in SUBSET ContractKey : Cardinality(R) = n /\ CodeBytes[R] \notin Nat
    BY <1>b, <2>2
  <2>a. CodeBytes[{}] \in Nat
    BY CodeBytesUnfolds
  <2>b. R # {}
    BY <2>3, <2>a, Zenon
  <2>4. CodeBytes[R] = CodeLength[Pick(R)] + CodeBytes[R \ {Pick(R)}]
    BY <2>3, <2>b, CodeBytesUnfolds, Zenon
  <2>5. PICK d : d = Pick(R) /\ d \in R
    BY <2>b DEF Pick
  <2>6. /\ R \ {d} \in SUBSET ContractKey /\ Cardinality(R \ {d}) = n - 1
        /\ Cardinality(R \ {d}) \in Nat
    BY <2>3, <2>5, SubsetFinite
  <2>7. n - 1 \notin B
    BY <2>1, <2>2
  <2>8. CodeBytes[R \ {d}] \in Nat
    BY <1>b, <2>6, <2>7
  <2>9. CodeLength[d] \in Nat
    BY <2>5, CodeAssumption
  <2> QED
    BY <2>3, <2>4, <2>5, <2>8, <2>9
<1>2. ASSUME NEW S \in SUBSET ContractKey PROVE CodeBytes[S] \in Nat
  <2>1. Cardinality(S) \in Nat
    BY SubsetFinite
  <2> QED
    BY <1>1, <1>b, <2>1
<1> QED
  BY <1>2

\* The sum does not depend on which contract is taken first.
LEMMA CodeBytesAny ==
  ASSUME NEW S \in SUBSET ContractKey, NEW c \in S
  PROVE  CodeBytes[S] = CodeLength[c] + CodeBytes[S \ {c}]
<1> DEFINE Holds(R) == \A x \in R : CodeBytes[R] = CodeLength[x] + CodeBytes[R \ {x}]
           B == {n \in Nat : \E R \in SUBSET ContractKey : Cardinality(R) = n /\ ~Holds(R)}
<1>b. \A n : n \in B <=> /\ n \in Nat
                         /\ \E R \in SUBSET ContractKey : Cardinality(R) = n /\ ~Holds(R)
  OBVIOUS
<1> HIDE DEF B
<1>1. B = {}
  <2> SUFFICES ASSUME B # {} PROVE FALSE
    OBVIOUS
  <2>1. B \in SUBSET Nat
    BY <1>b
  <2>2. PICK n \in B : \A j \in B : n <= j
    BY <2>1, LeastNat
  <2>3. PICK R \in SUBSET ContractKey : Cardinality(R) = n /\ ~Holds(R)
    BY <1>b, <2>2
  <2>4. PICK x \in R : CodeBytes[R] # CodeLength[x] + CodeBytes[R \ {x}]
    BY <2>3
  <2>5. PICK d : d = Pick(R) /\ d \in R
    BY <2>4 DEF Pick
  <2>6. CodeBytes[R] = CodeLength[d] + CodeBytes[R \ {d}]
    BY <2>4, <2>5, CodeBytesUnfolds
  <2>7. d # x
    BY <2>4, <2>6
  <2>8. ASSUME NEW y \in R PROVE Holds(R \ {y}) /\ R \ {y} \in SUBSET ContractKey
    <3>1. /\ R \ {y} \in SUBSET ContractKey /\ Cardinality(R \ {y}) = n - 1
          /\ Cardinality(R \ {y}) \in Nat
      BY <2>3, SubsetFinite
    <3>2. n - 1 \notin B
      BY <2>1, <2>2
    <3> HIDE DEF Holds
    <3> QED
      BY <1>b, <3>1, <3>2
  <2>9. CodeBytes[R \ {d}] = CodeLength[x] + CodeBytes[(R \ {d}) \ {x}]
    BY <2>4, <2>5, <2>7, <2>8
  <2>10. CodeBytes[R \ {x}] = CodeLength[d] + CodeBytes[(R \ {x}) \ {d}]
    BY <2>4, <2>5, <2>7, <2>8
  <2>11. (R \ {d}) \ {x} = (R \ {x}) \ {d}
    OBVIOUS
  <2>12. CodeLength[x] \in Nat /\ CodeLength[d] \in Nat
    BY <2>3, <2>4, <2>5, CodeAssumption
  <2>13. CodeBytes[(R \ {x}) \ {d}] \in Nat
    <3>1. (R \ {x}) \ {d} \in SUBSET ContractKey
      BY <2>3
    <3> QED
      BY <3>1, CodeBytesType
  <2>14. CodeBytes[R \ {d}] = CodeLength[x] + CodeBytes[(R \ {x}) \ {d}]
    BY <2>9, <2>11, Zenon
  <2>15. PICK p \in Nat, q \in Nat, r \in Nat :
            p = CodeLength[x] /\ q = CodeLength[d] /\ r = CodeBytes[(R \ {x}) \ {d}]
    BY <2>12, <2>13
  <2>16. CodeBytes[R] = q + (p + r) /\ CodeBytes[R \ {x}] = q + r
    BY <2>6, <2>10, <2>14, <2>15, Zenon
  <2>17. q + (p + r) = p + (q + r)
    OBVIOUS
  <2>18. CodeBytes[R] # p + (q + r)
    BY <2>4, <2>15, <2>16, Zenon
  <2> QED
    BY <2>16, <2>17, <2>18, Zenon
<1>2. Holds(S)
  <2>1. Cardinality(S) \in Nat
    BY SubsetFinite
  <2> HIDE DEF Holds
  <2> QED
    BY <1>1, <1>b, <2>1
<1> QED
  BY <1>2

\* The bytes of the contracts pending in the commit are within the counters
\* and, as no deploy over the caps is accepted, within the caps.
DeployInv ==
  /\ CodeBytes[Deployed] <= limits.deploy
  /\ CodeBytes[Deployed] <= limits.carrier
  /\ DeployedWithinCaps

LEMMA NextDeploy == ExecBase /\ DeployInv /\ [ExecNext]_execVars => DeployInv'
<1> SUFFICES ASSUME ExecBase, DeployInv, [ExecNext]_execVars PROVE DeployInv'
  OBVIOUS
<1>0. /\ limits.deploy \in Nat /\ limits.carrier \in Nat /\ commit \in BlockCommit
      /\ limits'.deploy \in Nat /\ limits'.carrier \in Nat
      /\ Deployed \in SUBSET ContractKey /\ CodeBytes[Deployed] \in Nat
  <2>1. Deployed \in SUBSET ContractKey
    BY DEF Deployed
  <2> QED
    BY <2>1, NextBase, CodeBytesType DEF ExecBase, ExecTypeOK
<1>s. ASSUME Deployed' = Deployed, limits'.deploy >= limits.deploy,
             limits'.carrier >= limits.carrier
      PROVE  DeployInv'
  <2>1. CodeBytes[Deployed'] <= limits'.deploy /\ CodeBytes[Deployed'] <= limits'.carrier
    BY <1>0, <1>s DEF DeployInv
  <2> QED
    BY <1>s, <2>1 DEF DeployInv, DeployedWithinCaps
<1>1. CASE begin_block
  <2>1. commit' = EmptyCommit /\ limits'.deploy = 0 /\ limits'.carrier = 0
    BY <1>1 DEF begin_block, NoLimits
  <2>2. Deployed' = {}
    BY <2>1 DEF Deployed, EmptyCommit, DbKey
  <2>3. CodeBytes[Deployed'] = 0
    BY <2>2, CodeBytesUnfolds
  <2> QED
    BY <2>1, <2>3, LimitsAssumption DEF DeployInv, DeployedWithinCaps
<1>2. CASE begin_tx \/ end_tx \/ end_block \/ Runs \/ UNCHANGED execVars
  <2>1. commit' = commit /\ limits' = limits
    BY <1>2 DEF begin_tx, end_tx, end_block, Runs, Quiet, execVars
  <2>2. Deployed' = Deployed
    BY <2>1 DEF Deployed
  <2> QED
    BY <1>0, <1>s, <2>1, <2>2
<1>3. CASE Skips \/ Starts
  <2>1. commit' = commit /\ Reads
    BY <1>3 DEF Skips, Starts, Quiet
  <2>2. Deployed' = Deployed
    BY <2>1 DEF Deployed
  <2> QED
    BY <1>s, <2>1, <2>2 DEF Reads
<1>4. CASE Misses \/ Ends
  <2>1. limits'.deploy >= limits.deploy /\ limits'.carrier >= limits.carrier
    <3>1. CASE Misses
      BY <3>1 DEF Misses, Reads
    <3>2. CASE Ends
      <4>1. PICK used : limits' = [limits EXCEPT !.fuel = @ + used]
        BY <3>2, Zenon DEF Ends
      <4>2. limits \in Limits
        BY DEF ExecBase, ExecTypeOK, Limits
      <4> QED
        BY <1>0, <4>1, <4>2 DEF Limits
    <3> QED
      BY <1>4, <3>1, <3>2
  <2>2. PICK w : commit' = ApplyWrites(commit, w)
    BY <1>4, Zenon DEF Misses, Ends, RecordOf
  <2>3. \A c \in ContractKey : commit'.put[c] = commit.put[c]
    BY <2>2, PrefixAssumption DEF ApplyWrites, DbKey
  <2>4. Deployed' = Deployed
    BY <2>3 DEF Deployed
  <2> QED
    BY <1>s, <2>1, <2>4
<1>5. CASE Deploys
  <2>1. PICK c \in ContractKey \ Deployed :
          /\ BytesOk(WithDeploy(CodeLength[c]))
          /\ limits' = WithDeploy(CodeLength[c])
          /\ commit'.put = [commit.put EXCEPT ![c] = CodeOf[c]]
    BY <1>5 DEF Deploys
  <2>2. CodeLength[c] \in Nat /\ CodeOf[c] \in Value /\ CodeOf[c] # NoOp
    BY CodeAssumption, NoOpAssumption
  <2>3. commit.put \in [DbKey -> Value \union {NoOp}]
    BY <1>0 DEF BlockCommit
  <2>4. Deployed' = Deployed \union {c}
    BY <2>1, <2>2, <2>3 DEF Deployed, DbKey
  <2>5. Deployed' \in SUBSET ContractKey /\ c \in Deployed' /\ Deployed' \ {c} = Deployed
    BY <1>0, <2>1, <2>4
  <2>6. CodeBytes[Deployed'] = CodeLength[c] + CodeBytes[Deployed]
    BY <2>5, CodeBytesAny
  <2>7. limits'.deploy = limits.deploy + CodeLength[c]
        /\ limits'.carrier = limits.carrier + CodeLength[c]
    BY <2>1, <2>2, CountersType DEF ExecBase
  <2>8. limits'.deploy <= MAX_DEPLOY_BYTES_PER_BLOCK
        /\ limits'.carrier <= MAX_CARRIER_BYTES_PER_BLOCK
    BY <2>1 DEF BytesOk
  <2>9. CodeBytes[Deployed'] <= limits'.deploy /\ CodeBytes[Deployed'] <= limits'.carrier
    BY <1>0, <2>2, <2>6, <2>7 DEF DeployInv
  <2>10. CodeBytes[Deployed'] \in Nat
    BY <1>0, <2>2, <2>6
  <2> QED
    BY <1>0, <2>8, <2>9, <2>10, LimitsAssumption DEF DeployInv, DeployedWithinCaps
<1> QED
  BY <1>1, <1>2, <1>3, <1>4, <1>5, StepKinds DEF Kinds

(* handle_deploy: the code a block deploys is within its deploy and carrier *)
(* budgets, with the bytes of the skipped deploys charged first.            *)
THEOREM ExecDeployedWithinCaps == ExecSpec => []DeployedWithinCaps
<1>1. ExecInit => DeployInv
  <2> SUFFICES ASSUME ExecInit PROVE DeployInv
    OBVIOUS
  <2>1. Deployed = {} /\ limits.deploy = 0 /\ limits.carrier = 0
    BY DEF ExecInit, Deployed, EmptyCommit, NoLimits, DbKey
  <2> QED
    BY <2>1, CodeBytesUnfolds, LimitsAssumption DEF DeployInv, DeployedWithinCaps
<1>2. DeployInv => DeployedWithinCaps
  BY DEF DeployInv
<1> QED
  BY <1>1, <1>2, NextDeploy, ExecBaseInvariant, PTL DEF ExecSpec
=============================================================================
