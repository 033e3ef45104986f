----------------------------- MODULE Deployment -----------------------------
(***************************************************************************)
(* `zalkanes contract deploy' and `contract call' end to end: the CLI      *)
(* (crates/zalkanes-cli/src/main.rs, wallet_cmd.rs), the transparent plan  *)
(* and its verification (crates/zalkanes-wallet/src/transparent.rs,        *)
(* plan.rs, funding.rs), the node the transactions go to, and what the     *)
(* indexer makes of the blocks they end up in.                             *)
(*                                                                         *)
(* A transaction is kept as a reference: what it is, which coin it comes   *)
(* from and what became of it on the way (`alter' between signing and      *)
(* verification, `relay' between the node and the block).  PlanOf, Built   *)
(* and InBlock give the transaction itself.  Two references with the same  *)
(* kind, pool and coin have the same effecting data, hence the same txid:  *)
(* a v5 txid leaves the scriptSigs out.                                    *)
(*                                                                         *)
(* The journal and the note locks of execute_request are in WalletSpend,   *)
(* the verification of shielded transactions is in ShieldedTx.             *)
(***************************************************************************)
EXTENDS TxPlan

CONSTANTS
    Command,      \* what the user may ask for, see CommandOK
    Alteration,   \* what may happen to a signed transaction before it is verified
    Relayed,      \* what may happen to scriptSigs on the way into a block
    MaxRuns,      \* bound: how often the command is run
    MaxBlocks,    \* bound: blocks the network adds on its own
    MaxReorgs     \* bound: reorganisations

VARIABLES
    cmd,      \* the command, with the wallet it finds
    job,      \* the running command
    sized,    \* chunks and carrier_each, once contract_deploy has computed them
    armed,    \* session_is_armed
    tip,      \* identity of the canonical tip
    pending,  \* transactions the node holds in its mempool
    mined,    \* transactions on the canonical chain
    contracts,  \* what the indexer has registered from them
    printed,  \* contract ids the CLI has reported
    env       \* blocks and reorganisations so far

deployVars == <<cmd, job, sized, armed, tip, pending, mined, contracts, printed, env>>

EffectAlteration == {"version", "expiry", "drop_input", "prevout", "swap_inputs",
                     "value", "script", "drop_output", "extra_output", "swap_outputs"}
SigAlteration == {"pubkey", "no_sig", "index", "redeem", "data", "short",
                  "swap_sigs", "split", "extra_push"}

CommandOK(c) ==
    /\ c.verb \in {"deploy", "call"}
    /\ c.net \in {"mainnet", "testnet", "regtest"}
    /\ c.mode \in {"transparent", "shielded", "auto"}
    /\ c.len \in Nat /\ c.funds \in Nat /\ c.balance \in Nat
    /\ c.sig \in 1..MAX_SIGNATURE_LEN     \* a DER signature with its sighash byte
    /\ {c.dry, c.confirm_mainnet, c.db} \subseteq BOOLEAN

ASSUME DeployConstants ==
    /\ \A c \in Command : CommandOK(c)
    /\ Alteration \subseteq {"none"} \cup EffectAlteration \cup SigAlteration
    /\ Relayed \subseteq {"none"} \cup SigAlteration
    /\ {MaxRuns, MaxBlocks, MaxReorgs} \subseteq Nat

(***************************************************************************)
(* What the command publishes.                                             *)
(***************************************************************************)
Wasm == Stretch(<<"wasm">>, cmd.len)
Chunks == sized.chunks

deploy_op_return(chunks) == encode_deploy([hash |-> Wasm, length |-> cmd.len,
                                           count |-> Len(chunks), index |-> 0])

call_op_return == encode_call([id |-> "contract", opcode |-> 7, length |-> cmd.len])

\* The probe plan is only there for its fee.  The code gives each carrier
\* 10^9 zatoshi; a hundredth of that also exceeds every fee and keeps the sum
\* within TLC's integers.
PROBE_VALUE == 10000000
CARRIER_MARGIN == 50000

deploy_fee(chunks) ==
    deploy_plan(Each(Len(chunks), LAMBDA i : <<"probe", "transparent", 0, i - 1>>),
                Const(Len(chunks), PROBE_VALUE), chunks, deploy_op_return(chunks)).fee

\* Sizing the carriers by the number of inputs instead of their bytes.
carrier_each_by_count(chunks) ==
    CeilDiv(zip317_fee(Len(chunks), 2) + CARRIER_MARGIN, Len(chunks))

carrier_each(chunks) == CeilDiv(deploy_fee(chunks) + CARRIER_MARGIN, Len(chunks))

carrier_values == Const(Len(Chunks), sized.each)

\* required_zat of the three requests; build_source compares it with the balance.
required_zat(req) == CASE req = "prepare" -> Sum(carrier_values) + CARRIER_MARGIN
                       [] req = "deploy"  -> 0
                       [] req = "call"    -> 50000

(***************************************************************************)
(* Transactions.  On regtest every request mines itself a coin; on testnet *)
(* the coin is the one the user names in the environment, each time.       *)
(***************************************************************************)
Txid(t) == <<t.kind, t.pool, t.coin>>
TheCoin(pool, run) == IF cmd.net = "testnet" /\ pool = "transparent" THEN 0 ELSE run
FundingCoin(c) == <<"coin", "transparent", c, 0>>

CarrierOutpoints(t) == Each(Len(Chunks), LAMBDA i : <<"prepare", t.pool, t.coin, i - 1>>)

\* TransparentFunding::build_plan, and the transparent side of a shielded plan:
\* carriers or message, the change being shielded.
PlanOf(t) ==
    LET utxo == [outpoint |-> FundingCoin(t.coin), value |-> cmd.funds]
    IN  CASE t.kind = "deploy" ->
               deploy_plan(CarrierOutpoints(t), carrier_values, Chunks, deploy_op_return(Chunks))
          [] t.kind = "prepare" /\ t.pool = "transparent" -> prepare_plan(<<utxo>>, carrier_values)
          [] t.kind = "call" /\ t.pool = "transparent" -> call_plan(utxo, call_op_return)
          [] t.kind = "prepare" /\ t.pool = "shielded" ->
               PreparedTx(<<>>, Map(LAMBDA v : Pay(v, p2sh_script_pubkey), carrier_values), 0, 0)
          [] t.kind = "call" /\ t.pool = "shielded" ->
               PreparedTx(<<>>, <<Pay(0, op_return_script(call_op_return))>>, 0, 0)

Other(n) == Stretch(<<"other">>, n)

\* What alteration a does to the scriptSig of the first input.
AlteredSig(a, sig) ==
    LET with(pushes, i, d) ==
          CatAll([j \in DOMAIN pushes |-> push_data(IF j = i THEN d ELSE pushes[j])])
        altered(pushes, n) ==
          CASE a = "pubkey" -> with(pushes, n, Other(33))
            [] a = "no_sig" -> with(pushes, n - 1, Other(71))
            [] a = "index"  -> with(pushes, 1, Byte((ByteAt(pushes[1], 0) + 1) % U8))
            [] a = "redeem" -> with(pushes, n, Other(36))
            [] a = "data"   -> with(pushes, 2, Other(Size(pushes[2])))
            [] a = "short"  -> with(pushes, 2, Slice(pushes[2], 0, Size(pushes[2]) - 1))
            [] a = "split"  -> CatAll(Map(push_data,
                                   <<pushes[1], Slice(pushes[2], 0, 1),
                                     Slice(pushes[2], 1, Size(pushes[2]))>> \o SubSeq(pushes, 3, n)))
            [] a = "extra_push" -> Cat(push_data(pushes[1]), sig)
        parsed(pushes) == altered(pushes, Len(pushes))
    IN  parsed(parse_script_pushes(sig))

Altered(a, tx) ==
    CASE a = "none"         -> tx
      [] a = "version"      -> [tx EXCEPT !.version = 4]
      [] a = "expiry"       -> [tx EXCEPT !.expiry = 1]
      [] a = "drop_input"   -> [tx EXCEPT !.vin = Tail(@)]
      [] a = "prevout"      -> [tx EXCEPT !.vin[1].prevout = <<"other", "transparent", 0, 0>>]
      [] a = "swap_inputs"  -> [tx EXCEPT !.vin = Swap(@)]
      [] a = "value"        -> [tx EXCEPT !.vout[Len(tx.vout)].value = @ - 1]
      [] a = "script"       -> [tx EXCEPT !.vout[Len(tx.vout)].script = Other(25)]
      [] a = "drop_output"  -> [tx EXCEPT !.vout = Front(@)]
      [] a = "extra_output" -> [tx EXCEPT !.vout = Append(@, Pay(0, p2pkh_script_pubkey))]
      [] a = "swap_outputs" -> [tx EXCEPT !.vout = Swap(@)]
      [] a = "swap_sigs"    -> [tx EXCEPT !.vin =
                                  [i \in DOMAIN tx.vin |->
                                     [tx.vin[i] EXCEPT !.script_sig = Swap(tx.vin)[i].script_sig]]]
      [] OTHER -> [tx EXCEPT !.vin[1].script_sig = AlteredSig(a, @)]

\* Which alterations of a transaction of this kind are alterations at all.
Applies(a, t) ==
    /\ t.pool = "shielded" /\ t.kind # "deploy" => a = "none"
    /\ a \in {"index", "redeem", "data", "short", "split", "extra_push"} => t.kind = "deploy"
    /\ a = "pubkey" => t.kind # "deploy"
    /\ a = "split" => Size(Chunks[1]) > 1
    /\ a \in {"swap_inputs", "swap_sigs"} => t.kind = "deploy" /\ Len(Chunks) > 1

Built(t) == Altered(t.alter, build_transparent_tx(PlanOf(t), cmd.sig))
InBlock(t) == Altered(t.relay, Built(t))

(***************************************************************************)
(* TransparentPlan::verify_extracted: what may be handed to the network.   *)
(***************************************************************************)
verify_p2pkh(pushes) ==
    /\ Len(pushes) = 2
    /\ pushes[2] = PubKey
    /\ ByteAt(pushes[1], 0) = DER_LEAD

verify_carrier(pushes, kind) ==
    LET n == Len(pushes)
    IN  /\ ~(n < 4)
        /\ pushes[1] = Byte(kind.index)
        /\ pushes[n] = redeem_script
        /\ ByteAt(pushes[n - 1], 0) = DER_LEAD
        /\ CatAll(SubSeq(pushes, 2, n - 2)) = kind.data

TotalValue(coins) == Sum(Map(LAMBDA c : c.value, coins))

\* For a DEPLOY the module is put together again from the final scriptSigs.
verify_script_sigs(plan, t, tx) ==
    LET parsed == parse_op_return(deploy_op_return(Chunks))
        finals(pushes) == Each(Len(tx.vin), LAMBDA i :
                             [index |-> plan.inputs[i].kind.index,
                              data  |-> CatAll(SubSeq(pushes[i], 2, Len(pushes[i]) - 2))])
        good(pushes) ==
          /\ \A i \in DOMAIN tx.vin :
                IF plan.inputs[i].kind.carrier
                  THEN verify_carrier(pushes[i], plan.inputs[i].kind)
                  ELSE verify_p2pkh(pushes[i])
          /\ t.kind = "deploy" =>
                /\ parsed.is = "deploy"
                /\ reconstruct(finals(pushes), parsed.m.count, parsed.m.length, parsed.m.hash).ok
    IN  good(Map(LAMBDA in : parse_script_pushes(in.script_sig), tx.vin))

\* Verification that trusts the builder with the scriptSigs.
verify_extracted_effects(t) ==
    LET plan == PlanOf(t)
        tx   == Built(t)
    IN  /\ tx.version = 5 /\ tx.expiry = 0
        /\ Map(LAMBDA in : in.prevout, tx.vin) = Map(LAMBDA in : in.outpoint, plan.inputs)
        /\ tx.vout = plan.outputs

verify_extracted(t) ==
    LET same(plan, tx) ==
          /\ tx.version = 5
          /\ tx.expiry = 0
          /\ Map(LAMBDA in : in.prevout, tx.vin) = Map(LAMBDA in : in.outpoint, plan.inputs)
          /\ tx.vout = plan.outputs
          /\ verify_script_sigs(plan, t, tx)
          /\ t.pool = "transparent" \/ t.kind = "deploy" =>
                TotalValue(plan.inputs) - TotalValue(tx.vout) = plan.fee
    IN  same(PlanOf(t), Built(t))

(***************************************************************************)
(* The node: what it takes into its mempool and what a block may hold.     *)
(* External.  A coin is spendable when the chain holds it and no mined     *)
(* transaction spends it.                                                  *)
(***************************************************************************)
Spends(t) == IF t.kind = "deploy" THEN Range(CarrierOutpoints(t))
             ELSE IF t.pool = "transparent" THEN {FundingCoin(t.coin)} ELSE {}

OnChain(outpoint) ==
    \/ outpoint[1] = "coin"
    \/ \E t \in mined : Txid(t) = SubSeq(outpoint, 1, 3)

Spendable(t, others) ==
    /\ \A o \in Spends(t) : OnChain(o)
    /\ \A u \in others : Txid(u) # Txid(t) /\ Spends(u) \cap Spends(t) = {}

(***************************************************************************)
(* The indexer on a block that holds t: parse_block and handle_deploy.     *)
(* A contract id is what it is derived from.                               *)
(***************************************************************************)
ContractId(txid, index, hash) == [net |-> cmd.net, txid |-> txid, index |-> index, hash |-> hash]

\* An input that carries no chunk is passed over.
Push(chunks, c) == IF c.ok THEN Append(chunks, [index |-> c.index, data |-> c.data]) ELSE chunks

CarriedChunks(tx) ==
    Fold(Push, <<>>, Map(LAMBDA in : chunk_from_script_sig(in.script_sig), tx.vin))

handle_deploy(txid, tx, m) ==
    LET registered(r) ==
          IF r.ok THEN {[id |-> ContractId(txid, m.index, m.hash), code |-> r.wasm]} ELSE {}
    IN  registered(reconstruct(CarriedChunks(tx), m.count, m.length, m.hash))

MessageIn(output) ==
    LET message(p) == IF p.ok /\ p.data # <<>> /\ Head(p.data).src[1] = "message"
                        THEN parse_op_return(Head(p.data).src[2]) ELSE Skip
    IN  message(extract_op_return_data(output.script))

IndexedFrom(t) ==
    LET handled(tx, i, m) == IF m.is = "deploy" /\ m.m.index = i - 1
                               THEN handle_deploy(Txid(t), tx, m.m) ELSE {}
        indexed(tx) == UNION {handled(tx, i, MessageIn(tx.vout[i])) : i \in DOMAIN tx.vout}
    IN  indexed(InBlock(t))

(***************************************************************************)
(* The command.  job.pc is the next step of it; req is the request that    *)
(* execute_request works on.                                               *)
(***************************************************************************)
Start(run) == [run |-> run, pc |-> "size", req |-> "none", pool |-> "none", coin |-> 0,
               pin |-> 0, alter |-> "none"]

DeployInit ==
    /\ cmd \in Command
    /\ job = Start(1)
    /\ sized = [chunks |-> <<>>, each |-> 0]
    /\ armed \in {a \in BOOLEAN : a => cmd.db}
    /\ tip = 0
    /\ pending = {}
    /\ mined = {}
    /\ contracts = {}
    /\ printed = {}
    /\ env = [blocks |-> 0, reorgs |-> 0]

Here == [kind |-> job.req, pool |-> job.pool, coin |-> job.coin, alter |-> job.alter,
         relay |-> "none"]

At(pc) == job.pc = pc
Goto(pc) == job' = [job EXCEPT !.pc = pc]
\* A command that is over keeps nothing.
Over(pc) == job' = [Start(job.run) EXCEPT !.pc = pc]
Failed == Over("failed")
nodeVars == <<tip, pending, mined, contracts, env>>

\* contract_deploy up to PREPARE, contract_call up to CALL: validate and size.
size_request ==
    /\ At("size")
    /\ IF cmd.verb = "deploy"
         THEN \E split \in {split_chunks(Wasm)} :
                  IF split.ok
                    THEN /\ job' = [job EXCEPT !.pc = "source", !.req = "prepare"]
                         /\ sized' = [chunks |-> split.chunks, each |-> carrier_each(split.chunks)]
                    ELSE Failed /\ UNCHANGED sized
         ELSE /\ IF cmd.len <= MAX_CALL_INLINE_BYTES
                   THEN job' = [job EXCEPT !.pc = "source", !.req = "call"] ELSE Failed
              /\ UNCHANGED sized
    /\ UNCHANGED <<cmd, armed, printed>> /\ UNCHANGED nodeVars

\* The pending transactions a block may hold; no two of them conflict.
Includable == {t \in pending : Spendable(t, mined)}

\* Regtest: the node mines, and takes what its mempool holds into the block.
generate_to_address ==
    /\ tip' = tip + 1
    /\ mined' = mined \cup Includable
    /\ contracts' = contracts \cup UNION {IndexedFrom(t) : t \in Includable}
    /\ pending' = pending \ Includable

mainnet_guard == cmd.net = "mainnet" => cmd.confirm_mainnet \/ cmd.dry

\* DEPLOY is always transparent: contract_deploy overrides the mode.
Mode == IF job.req = "deploy" THEN "transparent" ELSE cmd.mode

\* obtain_funding_utxo: regtest mines the coin and 109 more blocks; mainnet
\* has no coin.  The carriers of a DEPLOY are at hand.
obtain_funding ==
    /\ Mode = "transparent" \/ (Mode = "auto" /\ ~(cmd.db /\ armed /\ cmd.balance >= required_zat(job.req)))
    /\ IF job.req = "deploy" THEN Goto("plan")
       ELSE IF cmd.net = "mainnet" THEN Failed
       ELSE job' = [job EXCEPT !.pc = "plan", !.pool = "transparent",
                               !.coin = TheCoin("transparent", job.run)]
    /\ IF cmd.net = "regtest" /\ job.req # "deploy" THEN generate_to_address
       ELSE UNCHANGED <<tip, pending, mined, contracts>>

\* make_shielded: refused unless a wallet is there and armed.
make_shielded ==
    /\ Mode = "shielded" \/ (Mode = "auto" /\ cmd.db /\ armed /\ cmd.balance >= required_zat(job.req))
    /\ IF cmd.db /\ armed
         THEN job' = [job EXCEPT !.pc = "plan", !.pool = "shielded",
                                 !.coin = TheCoin("shielded", job.run)]
         ELSE Failed
    /\ UNCHANGED <<tip, pending, mined, contracts>>

build_source ==
    /\ At("source")
    /\ IF mainnet_guard THEN obtain_funding \/ make_shielded
       ELSE Failed /\ UNCHANGED <<tip, pending, mined, contracts>>
    /\ UNCHANGED <<cmd, sized, armed, printed, env>>

\* source.plan for the tip of this moment.  A shielded plan may also find that
\* the notes do not cover the request.
make_plan ==
    /\ At("plan")
    /\ \/ /\ PlanOf(Here).ok
          /\ job' = [job EXCEPT !.pc = "confirm", !.pin = tip, !.alter = "none"]
       \/ /\ ~PlanOf(Here).ok \/ (job.pool = "shielded" /\ job.req # "deploy")
          /\ Failed
    /\ UNCHANGED <<cmd, sized, armed, printed>> /\ UNCHANGED nodeVars

\* A dry run and a user who says no end the command without an error.
confirm ==
    /\ At("confirm")
    /\ \/ ~cmd.dry /\ Goto("prove")
       \/ Over("ended")
    /\ UNCHANGED <<cmd, sized, armed, printed>> /\ UNCHANGED nodeVars

fresh == job.pin = tip

prove ==
    /\ At("prove")
    /\ IF fresh THEN Goto("sign") ELSE Failed
    /\ UNCHANGED <<cmd, sized, armed, printed>> /\ UNCHANGED nodeVars

\* The built transaction may differ from the plan: that is what the next step
\* is there to find out.
sign ==
    /\ At("sign")
    /\ IF fresh
         THEN \E a \in Alteration :
                /\ Applies(a, Here)
                /\ job' = [job EXCEPT !.pc = "extract", !.alter = a]
         ELSE Failed
    /\ UNCHANGED <<cmd, sized, armed, printed>> /\ UNCHANGED nodeVars

extract_verified ==
    /\ At("extract")
    /\ IF fresh /\ verify_extracted(Here) THEN Goto("broadcast") ELSE Failed
    /\ UNCHANGED <<cmd, sized, armed, printed>> /\ UNCHANGED nodeVars

\* Accepted, rejected, or an answer that does not say which: the command then
\* goes on as if accepted, whether or not the node has the transaction.
broadcast_verified ==
    /\ At("broadcast")
    /\ \/ fresh /\ Spendable(Here, mined \cup pending)
          /\ pending' = pending \cup {Here} /\ Goto("confirm_tx")
       \/ fresh /\ ~Spendable(Here, mined \cup pending)
          /\ UNCHANGED pending /\ Failed
       \/ fresh /\ UNCHANGED pending /\ Goto("confirm_tx")     \* unknown, not received
       \/ ~fresh /\ UNCHANGED pending /\ Failed
    /\ UNCHANGED <<cmd, sized, armed, printed, tip, mined, contracts, env>>

\* What follows a confirmed transaction: DEPLOY spends what PREPARE made.
NextStage ==
    CASE job.req = "prepare" -> job' = [job EXCEPT !.pc = "source", !.req = "deploy"]
      [] job.req = "deploy"  -> Goto("print")
      [] job.req = "call"    -> Over("ended")

\* confirm_tx.  Regtest mines a block and takes the transaction to be in it;
\* testnet asks until it is mined, however long that takes.
confirm_tx ==
    /\ At("confirm_tx")
    /\ \/ /\ cmd.net = "regtest"
          /\ NextStage
          /\ generate_to_address
       \/ /\ cmd.net = "testnet"
          /\ \E t \in mined : Txid(t) = Txid(Here)
          /\ NextStage
          /\ UNCHANGED <<tip, mined, contracts, pending>>
       \/ /\ cmd.net = "mainnet"
          /\ Failed
          /\ UNCHANGED <<tip, mined, contracts, pending>>
    /\ UNCHANGED <<cmd, sized, armed, printed, env>>

\* A printed id that names the message after the change output.
print_id_of_change == ContractId(Txid(Here), 1, Wasm)

printed_id == ContractId(Txid(Here), 0, Wasm)

print_contract_id ==
    /\ At("print")
    /\ printed' = printed \cup {printed_id}
    /\ Goto("wait")
    /\ UNCHANGED <<cmd, sized, armed>> /\ UNCHANGED nodeVars

\* wait_for_contract: found on one of 120 polls, or given up on.
wait_for_contract ==
    /\ At("wait")
    /\ \/ (\E c \in contracts : c.id = printed_id) /\ Over("ended")
       \/ Failed
    /\ UNCHANGED <<cmd, sized, armed, printed>> /\ UNCHANGED nodeVars

\* The user runs the command again.
run_again ==
    /\ job.pc \in {"ended", "failed"}
    /\ job.run < MaxRuns
    /\ job' = Start(job.run + 1)
    /\ UNCHANGED <<cmd, sized, armed, printed>> /\ UNCHANGED nodeVars

\* wallet lock, and the expiry of the session.
disarm_session ==
    /\ armed
    /\ armed' = FALSE
    /\ UNCHANGED <<cmd, job, sized, printed>> /\ UNCHANGED nodeVars

(***************************************************************************)
(* The network.                                                            *)
(***************************************************************************)
\* A block, with at most one of our transactions in it.
new_block ==
    /\ env.blocks < MaxBlocks
    /\ env' = [env EXCEPT !.blocks = @ + 1]
    /\ tip' = tip + 1
    /\ \/ UNCHANGED <<mined, contracts, pending>>
       \/ \E t \in Includable, a \in Relayed :
            /\ Applies(a, t)
            /\ mined' = mined \cup {[t EXCEPT !.relay = a]}
            /\ contracts' = contracts \cup IndexedFrom([t EXCEPT !.relay = a])
            /\ pending' = pending \ {t}
    /\ UNCHANGED <<cmd, job, sized, armed, printed>>

\* A block is replaced by one without the transaction it held.
chain_reorg ==
    /\ env.reorgs < MaxReorgs
    /\ env' = [env EXCEPT !.reorgs = @ + 1]
    /\ tip' = tip + 1
    /\ \E t \in mined :
         /\ \A o \in UNION {Spends(u) : u \in mined} :
               SubSeq(o, 1, 3) # Txid(t)
         /\ mined' = mined \ {t}
         /\ contracts' = {c \in contracts : c.id.txid # Txid(t)}
         /\ pending' = pending \cup {[t EXCEPT !.relay = "none"]}
    /\ UNCHANGED <<cmd, job, sized, armed, printed>>

DeployNext ==
    \/ size_request \/ build_source \/ make_plan \/ confirm
    \/ prove \/ sign \/ extract_verified \/ broadcast_verified
    \/ confirm_tx \/ print_contract_id \/ wait_for_contract
    \/ run_again \/ disarm_session
    \/ new_block \/ chain_reorg

DeploySpec == DeployInit /\ [][DeployNext]_deployVars

(***************************************************************************)
(* Properties.                                                             *)
(***************************************************************************)
\* What the node receives from us spends the planned coins and pays the
\* planned outputs, costs the planned fee, and the indexer reads the module
\* back from its scriptSigs - whatever was built after planning
\* (TransparentPlan::verify_extracted, plan.rs:633).
PublishedIsPlanned ==
    At("confirm_tx") => \A t \in {Here} \cap pending :
        \A plan \in {PlanOf(t)}, tx \in {Built(t)} :
            /\ {tx.vin[i].prevout : i \in DOMAIN tx.vin} = Spends(t)
            /\ tx.vout = plan.outputs
            /\ plan.inputs # <<>> =>
                 TotalValue(plan.inputs) = plan.fee + TotalValue(tx.vout)
            /\ t.kind = "deploy" =>
                 {c.code : c \in IndexedFrom(t)} = {Wasm}

\* A contract is registered under an id only with the bytes the id commits to,
\* also when a block carries our transaction with other scriptSigs: the txid
\* does not cover them (handle_deploy and reconstruct).
IndexedIsCommitted ==
    \A c \in contracts : c.code = c.id.hash

\* The id the CLI prints is the id under which the indexer registers the
\* contract of that transaction, if it registers one at all; and it does when
\* the block holds the transaction as it was sent (main.rs:875).
PrintedIdIsIndexed ==
    \A id \in printed : \A t \in mined :
        Txid(t) = id.txid =>
            LET ids == {c.id : c \in {c \in contracts : c.id.txid = id.txid}}
            IN  IF t.relay = "none" THEN ids = {id} ELSE ids \subseteq {id}

\* The carriers PREPARE pays for are what DEPLOY spends: planning DEPLOY never
\* fails for lack of value, leaves change, and each planned input has the value
\* and the script of the PREPARE output it names.  A user who is past PREPARE
\* has already paid (main.rs:796, plan.rs:697).
CarriersPayDeploy ==
    At("plan") /\ job.req = "deploy" =>
        \A plan \in {PlanOf(Here)}, paid \in {PlanOf([Here EXCEPT !.kind = "prepare"]).outputs} :
            /\ plan.ok
            /\ plan.change > 0
            /\ \A i \in DOMAIN plan.inputs :
                  LET o == plan.inputs[i].outpoint
                  IN  /\ paid[o[4] + 1].value = plan.inputs[i].value
                      /\ paid[o[4] + 1].script = p2sh_script_pubkey

\* Every transparent transaction we build and send meets the relay rules: the
\* fee covers the ZIP-317 fee of its actual bytes, scriptSigs are at most 1650
\* bytes, pushes at most 520 and OP_RETURN payloads at most 80
\* (tx lib.rs:504-543).  verify_extracted does not weigh the bytes again.
MeetsRelayPolicy ==
    At("confirm_tx") /\ job.alter = "none" => \A t \in {Here} \cap pending :
        \A plan \in {PlanOf(t)}, tx \in {Built(t)} :
            plan.inputs # <<>> =>
              /\ plan.fee >= zip317_fee_from_sizes(
                     Sum(Map(LAMBDA in : input_serialized_size(Size(in.script_sig)), tx.vin)),
                     Sum(Map(LAMBDA out : output_serialized_size(Size(out.script)), tx.vout)))
              /\ \A in \in Range(tx.vin) :
                    /\ Size(in.script_sig) <= MAX_STANDARD_SCRIPTSIG_SIZE
                    /\ \A p \in Range(parse_script_pushes(in.script_sig)) : Size(p) <= MAX_PUSH_SIZE
              /\ \A i \in DOMAIN tx.vout :
                    Size(extract_op_return_data(tx.vout[i].script).data) <= 80
=============================================================================
