------------------------------ MODULE MCParts -------------------------------
(***************************************************************************)
(* The store on its own, driven by any caller, and the parts around the    *)
(* indexer, which share no state with each other, checked side by side:    *)
(* Init picks one of them, and the others stand still.                     *)
(***************************************************************************)
EXTENDS StateStore, Deployment, ShieldedTx, Messages, WalletScan, Keystore, Health

VARIABLE side

partsVars == <<storeVars, deployVars, shieldedVars, scanVars, keyVars, healthVars, side, payload>>

(***************************************************************************)
(* Commands for Deployment: code lengths around the chunk size and the     *)
(* limits, on every network and in every funding mode.                     *)
(***************************************************************************)
Deploy(len, net, mode) ==
    [verb |-> "deploy", net |-> net, mode |-> mode, len |-> len, dry |-> FALSE,
     confirm_mainnet |-> TRUE, db |-> mode # "transparent", balance |-> 200000, sig |-> 71 + (len % 3),
     funds |-> 100000000]

Call(len, net, mode) == [Deploy(len, net, mode) EXCEPT !.verb = "call"]

Commands ==
    {Deploy(n, "testnet", "transparent") : n \in {0, 1, 520, 1401, MAX_CODE_BYTES + 1}}
    \cup {Deploy(2801, "testnet", "auto"), Deploy(1400, "regtest", "transparent"),
          Deploy(4200, "testnet", "shielded"), Deploy(2, "mainnet", "shielded"),
          [Deploy(76, "mainnet", "transparent") EXCEPT !.confirm_mainnet = FALSE],
          [Deploy(76, "mainnet", "transparent") EXCEPT !.dry = TRUE],
          [Deploy(600, "testnet", "transparent") EXCEPT !.funds = 60000],
          [Deploy(600, "testnet", "auto") EXCEPT !.db = FALSE],
          [Deploy(600, "regtest", "transparent") EXCEPT !.dry = TRUE]}
    \cup {Call(n, "testnet", "transparent") : n \in {0, 38, 39}}
    \cup {Call(38, "regtest", "auto"), [Call(5, "testnet", "transparent") EXCEPT !.funds = 15000]}

(***************************************************************************)
(* Payloads: messages at the limits of their fields, and near misses.      *)
(***************************************************************************)
Well == {encode_deploy([hash |-> "h", length |-> n, count |-> k, index |-> 0])
            : n \in {0, 1, MAX_CODE_BYTES, MAX_CODE_BYTES + 1}, k \in {0, 1, 188, 256}}
        \cup {encode_call([id |-> "c", opcode |-> 1, length |-> n]) : n \in {0, 38, 39, 65536}}
        \cup {encode_call_carrier([id |-> "c", opcode |-> 1, hash |-> "h", length |-> n, count |-> k])
                 : n \in {0, 1, 65536, 65537}, k \in {0, 1, 47, 48}}

Payloads ==
    Well \cup {[p EXCEPT !.size = @ + d] : p \in Well, d \in {-1, 1}}
         \cup {[p EXCEPT !.size = s, !.magic = m] : p \in {encode_call([id |-> "c", opcode |-> 1, length |-> 0])},
                                                     s \in {0, 3, 5}, m \in {2, 3, 4}}
         \cup {[p EXCEPT !.version = 1] : p \in Well}
         \cup {[p EXCEPT !.type = 4] : p \in Well}
         \cup {[p EXCEPT !.magic = 3] : p \in Well}

(***************************************************************************)
(* Requests for ShieldedTx, each with a wallet: one and two notes, in one  *)
(* pool and in both, before and after NU6.3, and every reason to refuse.   *)
(***************************************************************************)
O(id, v) == [id |-> id, pool |-> "orchard", value |-> v]
I(id, v) == [id |-> id, pool |-> "ironwood", value |-> v]

Request(kind, carriers, branch, notes) ==
    [kind |-> kind, size |-> 42, carriers |-> carriers, carrier_key |-> TRUE, branch |-> branch,
     notes |-> notes,
     anchor |-> [p \in ValuePool |-> IF p = "ironwood" /\ branch # "nu6_3" THEN NoAnchor ELSE p]]

Fundings ==
   {Request("call", <<>>, "nu6_2", <<O("n1", 40000)>>),
    Request("call", <<>>, "nu6_3", <<I("n1", 40000)>>),
    Request("call", <<>>, "nu6_3", <<O("n1", 12000), I("n2", 30000)>>),
    Request("prepare", <<30000, 20000>>, "nu6_3", <<O("n1", 60000), O("n2", 30000)>>),
    Request("prepare", <<30000>>, "nu6_2", <<O("n1", 40000), O("n2", 30000)>>),
    Request("call", <<>>, "nu6_3", <<I("n1", 20000)>>),
    Request("call", <<>>, "older", <<O("n1", 40000)>>),
    Request("call", <<>>, "nu6_3", <<>>),
    Request("deploy", <<>>, "nu6_3", <<I("n1", 40000)>>),
    Request("prepare", <<>>, "nu6_3", <<I("n1", 40000)>>),
    [Request("call", <<>>, "nu6_3", <<O("n1", 60000)>>) EXCEPT !.anchor["ironwood"] = NoAnchor],
    [Request("prepare", <<30000>>, "nu6_3", <<I("n1", 90000)>>) EXCEPT !.carrier_key = FALSE]}

(***************************************************************************)
(* One side moves.  The others keep a single fixed state.                  *)
(***************************************************************************)
Side == {"store", "deploy", "messages", "shielded", "scan", "files", "health"}

NoDeploy ==
    /\ cmd = CHOOSE c \in Command : TRUE
    /\ job = Start(0) /\ sized = [chunks |-> <<>>, each |-> 0] /\ armed = FALSE
    /\ tip = 0 /\ pending = {} /\ mined = {} /\ contracts = {} /\ printed = {}
    /\ env = [blocks |-> 0, reorgs |-> 0]

NoShielded ==
    /\ fund = CHOOSE f \in Funding : TRUE
    /\ splan = NoShieldedPlan /\ pczt = NoPczt /\ vtx = NoTx /\ tampers = 0 /\ moved = FALSE

NoScan ==
    /\ zchain = [i \in 1..Birthday |-> Trunk]
    /\ wdb = <<zchain>> /\ wtip = 0 /\ scan = Resting /\ picked = Nothing
    /\ wproc = [NewProcess EXCEPT !.tip = zchain]
    /\ world = [switches |-> 0, exits |-> 0, unseen |-> FALSE, birth |-> Block(zchain, Birthday - 1)]

NoKeys ==
    /\ keyfile = NoFile /\ tmpfile = NoFile /\ accounts = <<>> /\ session = FALSE
    /\ shell = [p \in Terminal |-> Prompt] /\ desk = [typed |-> 0, killed |-> 0]

NoHealth ==
    /\ now = 0 /\ upstream = 1 /\ indexed = 0 /\ worker = [pc |-> "down", tip |-> 0, before |-> 0]
    /\ status = NewStatus /\ really = [moved |-> 0, at_tip |-> Never]
    /\ events = [activated |-> TRUE, reorged |-> 0, restarts |-> 0]

PartsInit ==
    /\ side \in Side
    /\ StoreInit
    /\ IF side = "deploy" THEN DeployInit ELSE NoDeploy
    /\ IF side = "shielded" THEN ShieldedInit ELSE NoShielded
    /\ IF side = "scan" THEN ScanInit ELSE NoScan
    /\ IF side = "files" THEN KeyInit ELSE NoKeys
    /\ IF side = "health" THEN HealthInit ELSE NoHealth
    /\ IF side = "messages" THEN MessagesInit ELSE payload = CHOOSE p \in Received : TRUE

PartsNext ==
    \/ /\ side = "store" /\ StoreNext
       /\ UNCHANGED <<deployVars, shieldedVars, scanVars, keyVars, healthVars, side, payload>>
    \/ /\ side = "deploy" /\ DeployNext
       /\ UNCHANGED <<storeVars, shieldedVars, scanVars, keyVars, healthVars, side, payload>>
    \/ /\ side = "shielded" /\ ShieldedNext
       /\ UNCHANGED <<storeVars, deployVars, scanVars, keyVars, healthVars, side, payload>>
    \/ /\ side = "scan" /\ ScanNext
       /\ UNCHANGED <<storeVars, deployVars, shieldedVars, keyVars, healthVars, side, payload>>
    \/ /\ side = "files" /\ KeyNext
       /\ UNCHANGED <<storeVars, deployVars, shieldedVars, scanVars, healthVars, side, payload>>
    \/ /\ side = "health" /\ HealthNext
       /\ UNCHANGED <<storeVars, deployVars, shieldedVars, scanVars, keyVars, side, payload>>
    \/ /\ side = "messages" /\ next_payload
       /\ UNCHANGED <<storeVars, deployVars, shieldedVars, scanVars, keyVars, healthVars, side>>

\* A scan that can go on goes on, and is started again after it ends: the user
\* scans before every spend.
PartsSpec == PartsInit /\ [][PartsNext]_partsVars
             /\ WF_partsVars(side = "scan" /\ ScanStep
                             /\ UNCHANGED <<storeVars, deployVars, shieldedVars, keyVars, healthVars, side, payload>>)
=============================================================================
