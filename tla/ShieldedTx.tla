----------------------------- MODULE ShieldedTx -----------------------------
(***************************************************************************)
(* Shielded funding: crates/zalkanes-wallet/src/shielded.rs and the stages *)
(* and freshness checks of plan.rs.  A plan selects notes, fixes fee and   *)
(* change, has the builder make a PCZT, and writes down what it expects of *)
(* it.  The PCZT is then proven, signed, compared with the expectations,   *)
(* extracted, and the transaction is compared with the plan once more.     *)
(*                                                                         *)
(* Between planning and extraction the PCZT may be altered, the way        *)
(* tamper_matrix_shielded.rs alters it, but up to MaxTampers times: two    *)
(* alterations can compensate each other.                                  *)
(*                                                                         *)
(* External, and modelled by what the code relies on: note selection of    *)
(* zcash_client_sqlite, the transaction builder (which puts spends and     *)
(* outputs into actions at random), the PCZT signer and the extractor.     *)
(***************************************************************************)
EXTENDS TxPlan

CONSTANTS
    Funding,     \* the requests, each with the wallet that is to fund it
    MaxTampers   \* bound: alterations of one PCZT and its transaction

VARIABLES
    fund,     \* the request and the wallet
    splan,    \* the ShieldedPlan
    pczt,     \* its PCZT; NoPczt once taken out
    vtx,      \* the VerifiedTransaction; NoTx before
    tampers,  \* alterations so far
    moved     \* the canonical tip has moved since the plan was made

shieldedVars == <<fund, splan, pczt, vtx, tampers, moved>>

ValuePool == {"orchard", "ironwood"}
NoAnchor == "none"
NoPczt == [made |-> FALSE]
NoTx == [made |-> FALSE]
Missing == -1          \* an absent value field

\* Carriers and notes have values, and a CALL has no carriers; a note without
\* value is never selected.  A nullifier belongs to one note, and none of ours is
\* a stranger's ("other").
ASSUME FundingAssumption ==
    \A f \in Funding :
        /\ f.size \in Nat
        /\ f.carriers \in Seq(Nat)
        /\ f.kind = "call" => f.carriers = <<>>
        /\ f.notes \in Seq(Range(f.notes))
        /\ \A n \in Range(f.notes) :
             n.pool \in ValuePool /\ n.value \in Nat \ {0} /\ n.id # "other"
        /\ \A i, j \in DOMAIN f.notes : f.notes[i].id = f.notes[j].id => i = j

(***************************************************************************)
(* The request.                                                            *)
(***************************************************************************)
carrier_total(f) == Sum(f.carriers)

transparent_outputs(f) ==
    IF f.kind = "call" THEN <<[value |-> 0, script |-> "message"]>>
    ELSE Map(LAMBDA v : [value |-> v, script |-> "carrier"], f.carriers)

\* Bytes of the transparent outputs, for the fee.
OutBytes(f) ==
    IF f.kind = "call" THEN output_serialized_size(1 + push_overhead(f.size) + f.size)
    ELSE Len(f.carriers) * output_serialized_size(Size(p2sh_script_pubkey))

\* Change goes to Ironwood from NU6.3 on: no value may enter Orchard any more.
change_pool(f) == IF f.branch = "nu6_3" THEN "ironwood" ELSE "orchard"

circuit_known(f) == f.branch \in {"nu6_2", "nu6_3"}

(***************************************************************************)
(* Selection and fee.                                                      *)
(***************************************************************************)
Values(notes) == Sum(Map(LAMBDA n : n.value, notes))
InPool(notes, pool) ==
    Fold(LAMBDA kept, n : IF n.pool = pool THEN Append(kept, n) ELSE kept, <<>>, notes)

\* External: notes in the wallet's order until they cover the target, or all.
\* select_spends lists the Orchard ones first.
select_spends(f, required) ==
    LET enough(k)   == k = Len(f.notes) \/ Values(SubSeq(f.notes, 1, k)) >= required
        least(ks)   == CHOOSE i \in ks : \A j \in ks : i <= j
        both(taken) == InPool(taken, "orchard") \o InPool(taken, "ironwood")
    IN  both(SubSeq(f.notes, 1, least({k \in 0..Len(f.notes) : enough(k)})))

\* External: actions the builder makes, padded to two.  In Orchard the change
\* output gets an action of its own, with a fabricated spend.
ActionCount(f, sel, pool) ==
    LET spends    == Len(InPool(sel, pool))
        outs      == IF change_pool(f) = pool THEN 1 ELSE 0
        padded(n) == IF n = 0 THEN 0 ELSE Greater(2, n)
    IN  padded(IF pool = "orchard" THEN spends + outs ELSE Greater(spends, outs))

\* External: FeeRule::standard.
get_fee(f, sel) ==
    MARGINAL_FEE * Greater(GRACE_ACTIONS, CeilDiv(OutBytes(f), 34)
                             + ActionCount(f, sel, "orchard") + ActionCount(f, sel, "ironwood"))

MINIMUM_FEE == 10000
SELECT_ROUNDS == 16      \* MAX_SELECT_ITERATIONS

\* Select for a guess of the fee, measure the fee, and select again for that
\* until something is left for change.
select_for(f) ==
    LET measured(acc, sel, fee) ==
          IF sel = <<>> THEN [acc EXCEPT !.done = TRUE]
          ELSE IF Values(sel) > carrier_total(f) + fee
            THEN [acc EXCEPT !.done = TRUE, !.ok = TRUE, !.sel = sel, !.fee = fee]
          ELSE [acc EXCEPT !.required = carrier_total(f) + fee + 1]
        selected(acc, sel) == measured(acc, sel, get_fee(f, sel))
        round(acc, i) == IF acc.done THEN acc ELSE selected(acc, select_spends(f, acc.required))
    IN  Fold(round, [done |-> FALSE, ok |-> FALSE, sel |-> <<>>, fee |-> 0,
                     required |-> carrier_total(f) + MINIMUM_FEE],
             [i \in 1..SELECT_ROUNDS |-> i])

(***************************************************************************)
(* The builder.  Metadata: the action of every spend, by pool and in the   *)
(* order of the selection, and the action of the change output.            *)
(***************************************************************************)
Injective(k, n) == {s \in [1..k -> 1..n] : \A i, j \in 1..k : s[i] = s[j] => i = j}

Metadata(f, sel) ==
    LET spends(pool) == Injective(Len(InPool(sel, pool)), ActionCount(f, sel, pool))
    IN  {m \in [orchard : spends("orchard"), ironwood : spends("ironwood"),
                out : 1..ActionCount(f, sel, change_pool(f))] :
           change_pool(f) = "orchard" => \A j \in DOMAIN m.orchard : m.orchard[j] # m.out}

\* `key' is who can sign the spend; the builder signs its own dummies.
NoteSpend(n) == [nf |-> n.id, spend_value |-> n.value, key |-> "account", signed |-> FALSE]
ChangeSpend == [nf |-> "fabricated", spend_value |-> 0, key |-> "account", signed |-> FALSE]
DummySpend == [nf |-> "dummy", spend_value |-> 0, key |-> "builder", signed |-> TRUE]

\* An output with what its commitment and its ciphertext hold.
PayTo(to, value) == [recipient |-> to, out_value |-> value,
                     cmx |-> <<to, value>>, enc |-> <<to, value>>]

\* An action has a spend and an output, which need not belong together.
Action(spend, output) ==
    [nf |-> spend.nf, spend_value |-> spend.spend_value, key |-> spend.key,
     signed |-> spend.signed, recipient |-> output.recipient, out_value |-> output.out_value,
     cmx |-> output.cmx, enc |-> output.enc]

build_actions(f, sel, m, pool, change) ==
    LET notes == InPool(sel, pool)
        here(i) == pool = change_pool(f) /\ i = m.out
        spend(i) == IF \E j \in DOMAIN notes : m[pool][j] = i
                      THEN NoteSpend(notes[CHOOSE j \in DOMAIN notes : m[pool][j] = i])
                    ELSE IF here(i) /\ pool = "orchard" THEN ChangeSpend ELSE DummySpend
        output(i) == IF here(i) THEN PayTo("change", change) ELSE PayTo("dummy", 0)
    IN  Each(ActionCount(f, sel, pool), LAMBDA i : Action(spend(i), output(i)))

SpendSum(actions) == Sum(Map(LAMBDA a : a.spend_value, actions))
OutSum(actions) == Sum(Map(LAMBDA a : a.out_value, actions))

\* assemble_and_build: the PCZT as the builder hands it out.
assemble_and_build(f, sel, m, change) ==
    LET with(pool, actions) == [pool |-> pool, anchor |-> f.anchor[pool], actions |-> actions,
                                sum |-> SpendSum(actions) - OutSum(actions)]
        bundle(pool) == with(pool, build_actions(f, sel, m, pool, change))
    IN  [made |-> TRUE, expiry |-> "planned", branch |-> f.branch, vin |-> 0,
         vout |-> transparent_outputs(f),
         orchard |-> bundle("orchard"), ironwood |-> bundle("ironwood")]

\* What the plan expects, from the selection and the metadata.  Spends are
\* numbered within their pool.
build_expectations(f, sel, m, change) ==
    LET notes(pool) == InPool(sel, pool)
        out(pool)   == IF pool = change_pool(f) THEN change ELSE 0
    IN  [spends  |-> [pool \in ValuePool |->
                        {[index |-> m[pool][j], nf |-> notes(pool)[j].id,
                          value |-> notes(pool)[j].value] : j \in DOMAIN notes(pool)}],
         change  |-> [pool |-> change_pool(f), index |-> m.out, value |-> change, to |-> "change"],
         actions |-> [pool \in ValuePool |-> ActionCount(f, sel, pool)],
         anchor  |-> f.anchor,
         net     |-> [pool \in ValuePool |-> Values(notes(pool)) - out(pool)]]

\* Signing that forgets the fabricated spend of an Orchard change output.
signing_plans_notes_only(f, sel, m) ==
    [pool \in ValuePool |-> {m[pool][j] : j \in DOMAIN m[pool]}]

\* The actions the account has to sign.  Only an Orchard change output brings a
\* spend of ours with it.
signing_plans(f, sel, m) ==
    [pool \in ValuePool |-> {m[pool][j] : j \in DOMAIN m[pool]}
                              \cup (IF pool = "orchard" /\ change_pool(f) = "orchard"
                                      THEN {m.out} ELSE {})]

\* commit_shielded and the builder want an anchor for every pool in use.
AnchorsKnown(f, sel) ==
    \A pool \in ValuePool : ActionCount(f, sel, pool) > 0 => f.anchor[pool] # NoAnchor

(***************************************************************************)
(* Planning.                                                               *)
(***************************************************************************)
NoShieldedPlan == [stage |-> "none"]
RefusedPlan == [stage |-> "refused"]

ShieldedInit ==
    /\ fund \in Funding
    /\ splan = NoShieldedPlan
    /\ pczt = NoPczt
    /\ vtx = NoTx
    /\ tampers = 0
    /\ moved = FALSE

\* DEPLOY is never shielded, and carriers need a key to spend them with.
Fundable(f) ==
    /\ f.kind # "deploy"
    /\ f.kind = "prepare" => f.carrier_key /\ f.carriers # <<>>

plan_shielded ==
    /\ splan = NoShieldedPlan
    /\ \E s \in {select_for(fund)} :
         LET change == Values(s.sel) - carrier_total(fund) - s.fee
         IN  IF Fundable(fund) /\ s.ok /\ AnchorsKnown(fund, s.sel) /\ circuit_known(fund)
             THEN \E m \in Metadata(fund, s.sel) :
                    /\ pczt' = assemble_and_build(fund, s.sel, m, change)
                    /\ splan' = [stage |-> "planned", fee |-> s.fee, change |-> change,
                                 selected |-> Values(s.sel), vout |-> transparent_outputs(fund),
                                 branch |-> fund.branch, expiry |-> "planned",
                                 sign |-> signing_plans(fund, s.sel, m),
                                 expected |-> build_expectations(fund, s.sel, m, change)]
             ELSE splan' = RefusedPlan /\ UNCHANGED pczt
    /\ UNCHANGED <<fund, vtx, tampers, moved>>

(***************************************************************************)
(* Alterations.  Each is one field, or one output built afresh.            *)
(***************************************************************************)
GlobalTamper == {"expiry", "branch", "vin", "vout_value", "vout_script", "vout_drop", "vout_swap"}
BundleTamper == {"anchor", "sum_up", "pool", "drop_action", "copy_action", "swap_actions"}
ActionTamper == {"nf", "spend_up", "spend_missing", "redirect", "recipient", "pay_less",
                 "pay_more", "out_missing", "cmx", "enc"}

TamperedGlobal(p, t) ==
    CASE t = "expiry"      -> [p EXCEPT !.expiry = "other"]
      [] t = "branch"      -> [p EXCEPT !.branch = "other"]
      [] t = "vin"         -> [p EXCEPT !.vin = 1]
      [] t = "vout_value"  -> [p EXCEPT !.vout[1].value = @ + 1]
      [] t = "vout_script" -> [p EXCEPT !.vout[1].script = "other"]
      [] t = "vout_drop"   -> [p EXCEPT !.vout = Front(@)]
      [] t = "vout_swap"   -> [p EXCEPT !.vout = Swap(@)]

TamperedBundle(b, t) ==
    CASE t = "anchor"       -> [b EXCEPT !.anchor = "other"]
      [] t = "sum_up"       -> [b EXCEPT !.sum = @ + 1]
      [] t = "pool"         -> [b EXCEPT !.pool = CHOOSE q \in ValuePool : q # b.pool]
      [] t = "drop_action"  -> [b EXCEPT !.actions = Front(@)]
      [] t = "copy_action"  -> [b EXCEPT !.actions = Append(@, Last(@))]
      [] t = "swap_actions" -> [b EXCEPT !.actions = Swap(@)]

TamperedAction(a, t) ==
    CASE t = "nf"            -> [a EXCEPT !.nf = "other"]
      [] t = "spend_up"      -> [a EXCEPT !.spend_value = @ + 1]
      [] t = "spend_missing" -> [a EXCEPT !.spend_value = Missing]
      [] t = "redirect"      -> Action(a, PayTo("other", a.out_value))
      [] t = "recipient"     -> [a EXCEPT !.recipient = "other"]
      [] t = "pay_less"      -> Action(a, PayTo(a.recipient, a.out_value - 1))
      [] t = "pay_more"      -> Action(a, PayTo(a.recipient, a.out_value + 1))
      [] t = "out_missing"   -> [a EXCEPT !.out_value = Missing]
      [] t = "cmx"           -> [a EXCEPT !.cmx = <<"other", a.out_value>>]
      [] t = "enc"           -> [a EXCEPT !.enc = <<"other", a.out_value>>]

\* Some alteration that changes something.  A ciphertext or commitment that
\* differs from the plaintext fields matters for the change output only: the
\* proof ties the other outputs to theirs.
tamper ==
    /\ pczt.made
    /\ tampers < MaxTampers
    /\ \/ \E t \in GlobalTamper :
            /\ t \in {"vout_value", "vout_script"} => pczt.vout # <<>>
            /\ t = "vout_drop" => pczt.vout # <<>>
            /\ pczt' = TamperedGlobal(pczt, t)
       \/ \E pool \in ValuePool :
            /\ pczt[pool].actions # <<>>
            /\ \/ \E t \in BundleTamper : pczt' = [pczt EXCEPT ![pool] = TamperedBundle(@, t)]
               \/ \E i \in DOMAIN pczt[pool].actions, t \in ActionTamper :
                    LET a == pczt[pool].actions[i]
                    IN  /\ t \in {"recipient", "cmx", "enc"} => a.recipient = "change"
                        /\ t \in {"redirect", "pay_less"} => a.out_value > 0
                        /\ t = "spend_up" => a.spend_value # Missing
                        /\ t = "pay_more" => a.out_value # Missing
                        /\ pczt' = [pczt EXCEPT ![pool].actions[i] = TamperedAction(a, t)]
    /\ pczt' # pczt
    /\ tampers' = tampers + 1
    /\ UNCHANGED <<fund, splan, vtx, moved>>

(***************************************************************************)
(* Verification of the finalized PCZT.                                     *)
(***************************************************************************)
PlannedSpend(exp, pool, i) == {s \in exp.spends[pool] : s.index = i}

verify_spend(a, exp, pool, i) ==
    IF PlannedSpend(exp, pool, i) = {} THEN a.spend_value = 0
    ELSE \E s \in PlannedSpend(exp, pool, i) : a.nf = s.nf /\ a.spend_value = s.value

\* recipient, value, commitment, and what our viewing key decrypts.
verify_change(a, exp) ==
    /\ a.recipient = exp.change.to
    /\ a.out_value = exp.change.value
    /\ a.cmx = <<a.recipient, a.out_value>>
    /\ a.enc = <<exp.change.to, exp.change.value>>

IsChange(exp, pool, i) == exp.change.pool = pool /\ exp.change.index = i

\* A bundle check that looks at the change output and at no other output.
verify_pool_bundle_change_only(b, pool, exp) ==
    /\ Len(b.actions) = exp.actions[pool]
    /\ exp.actions[pool] > 0 =>
         /\ b.pool = pool
         /\ exp.anchor[pool] # NoAnchor
         /\ b.anchor = exp.anchor[pool]
         /\ \A i \in DOMAIN b.actions :
              /\ PlannedSpend(exp, pool, i) # {} => verify_spend(b.actions[i], exp, pool, i)
              /\ IsChange(exp, pool, i) => verify_change(b.actions[i], exp)
         /\ b.sum = exp.net[pool]

verify_pool_bundle(b, pool, exp) ==
    /\ Len(b.actions) = exp.actions[pool]
    /\ exp.actions[pool] > 0 =>
         /\ b.pool = pool
         /\ exp.anchor[pool] # NoAnchor
         /\ b.anchor = exp.anchor[pool]
         /\ \A i \in DOMAIN b.actions :
              /\ verify_spend(b.actions[i], exp, pool, i)
              /\ IF IsChange(exp, pool, i) THEN verify_change(b.actions[i], exp)
                 ELSE b.actions[i].out_value = 0
         /\ b.sum = exp.net[pool]

verify_finalized_pczt(p) ==
    /\ p.expiry = splan.expiry
    /\ p.branch = splan.branch
    /\ p.vin = 0
    /\ p.vout = splan.vout
    /\ \A pool \in ValuePool : verify_pool_bundle(p[pool], pool, splan.expected)
    /\ splan.expected.actions[splan.expected.change.pool] > 0    \* the change was seen

(***************************************************************************)
(* The final transaction: what is left of a PCZT when it is extracted.     *)
(* `spent' and `paid' are the notes and payments behind the commitments.   *)
(***************************************************************************)
Extracted(p) ==
    LET bundle(b) == [anchor |-> b.anchor, balance |-> b.sum,
                      nfs |-> Map(LAMBDA a : a.nf, b.actions),
                      cmxs |-> Map(LAMBDA a : a.cmx, b.actions)]
        acts == Range(p.orchard.actions) \cup Range(p.ironwood.actions)
    IN  [made |-> TRUE, version |-> IF p.branch = "nu6_3" THEN 6 ELSE 5, expiry |-> p.expiry,
         vin |-> p.vin, vout |-> p.vout,
         orchard |-> bundle(p.orchard), ironwood |-> bundle(p.ironwood),
         spent |-> {<<a.nf, a.spend_value>> : a \in {a \in acts : a.spend_value # 0}},
         paid  |-> {a.enc : a \in {a \in acts : a.out_value # 0}}]

\* External: the extractor refuses a missing signature and a value balance that
\* does not follow from the actions.
Extractable(p) ==
    \A pool \in ValuePool :
        /\ \A i \in DOMAIN p[pool].actions : p[pool].actions[i].signed
        /\ p[pool].sum = SpendSum(p[pool].actions) - OutSum(p[pool].actions)

FinalTamper == {"version", "expiry", "vin", "vout", "anchor", "nf", "balance", "cmx"}

TamperedFinal(x, t, pool) ==
    CASE t = "version" -> [x EXCEPT !.version = 4]
      [] t = "expiry"  -> [x EXCEPT !.expiry = "other"]
      [] t = "vin"     -> [x EXCEPT !.vin = 1]
      [] t = "vout"    -> [x EXCEPT !.vout = Append(@, [value |-> 0, script |-> "other"])]
      [] t = "anchor"  -> [x EXCEPT ![pool].anchor = "other"]
      [] t = "nf"      -> [x EXCEPT ![pool].nfs[1] = "other"]
      [] t = "balance" -> [x EXCEPT ![pool].balance = @ + 1]
      [] t = "cmx"     -> [x EXCEPT ![pool].cmxs[1] = <<"other", 0>>]

verify_final_pool(b, pool, exp, cmx) ==
    /\ Len(b.nfs) = exp.actions[pool]
    /\ exp.actions[pool] > 0 =>
         /\ exp.anchor[pool] # NoAnchor
         /\ b.anchor = exp.anchor[pool]
         /\ \A s \in exp.spends[pool] : b.nfs[s.index] = s.nf
         /\ b.balance = exp.net[pool]
         /\ exp.change.pool = pool => b.cmxs[exp.change.index] = cmx

verify_extracted_shielded(x, cmx) ==
    /\ x.version = IF splan.branch = "nu6_3" THEN 6 ELSE 5
    /\ x.expiry = splan.expiry
    /\ x.vin = 0
    /\ x.vout = splan.vout
    /\ \A pool \in ValuePool : verify_final_pool(x[pool], pool, splan.expected, cmx)
    /\ x.orchard.balance + x.ironwood.balance - Sum(Map(LAMBDA o : o.value, x.vout)) = splan.fee

(***************************************************************************)
(* The stages.  A call at the wrong stage or for a tip that has moved is   *)
(* an error that changes nothing; a call that fails later has taken the    *)
(* PCZT out of the plan and does not put it back.                          *)
(***************************************************************************)
InStage(s) == splan.stage = s /\ pczt.made /\ ~moved

prove_pczt ==
    /\ InStage("planned")
    /\ splan' = [splan EXCEPT !.stage = "proven"]
    /\ UNCHANGED <<fund, pczt, vtx, tampers, moved>>

\* External: the signer refuses an action that is not there, a spend that is
\* not the account's, and one whose nullifier does not belong to its note.
Signs(p) ==
    \A pool \in ValuePool : \A i \in splan.sign[pool] :
        /\ i \in DOMAIN p[pool].actions
        /\ p[pool].actions[i].key = "account"
        /\ p[pool].actions[i].nf # "other"

sign_pczt ==
    LET signed(pool) == Each(Len(pczt[pool].actions), LAMBDA i :
                          IF i \in splan.sign[pool]
                            THEN [pczt[pool].actions[i] EXCEPT !.signed = TRUE]
                            ELSE pczt[pool].actions[i])
    IN  /\ InStage("proven")
        /\ IF Signs(pczt)
             THEN /\ splan' = [splan EXCEPT !.stage = "signed"]
                  /\ pczt' = [pczt EXCEPT !.orchard.actions = signed("orchard"),
                                          !.ironwood.actions = signed("ironwood")]
             ELSE pczt' = NoPczt /\ UNCHANGED splan
        /\ UNCHANGED <<fund, vtx, tampers, moved>>

\* extract_verified: verify the PCZT, extract, verify the transaction.
extract_verified_shielded ==
    LET change == splan.expected.change
    IN  /\ InStage("signed")
        /\ pczt' = NoPczt
        /\ IF verify_finalized_pczt(pczt) /\ Extractable(pczt)
             THEN LET cmx == pczt[change.pool].actions[change.index].cmx
                  IN  \E x \in {Extracted(pczt)} \cup
                               {TamperedFinal(Extracted(pczt), t, change.pool) :
                                   t \in {t \in FinalTamper : tampers < MaxTampers}} :
                        /\ splan' = [splan EXCEPT !.stage = "extracted"]
                        /\ tampers' = IF x = Extracted(pczt) THEN tampers ELSE tampers + 1
                        /\ vtx' = IF verify_extracted_shielded(x, cmx) THEN x ELSE NoTx
             ELSE UNCHANGED <<splan, vtx, tampers>>
        /\ UNCHANGED <<fund, moved>>

\* The tip moves: from here on every stage refuses the plan as stale.
move_tip ==
    /\ ~moved
    /\ splan.stage \in {"planned", "proven", "signed"}
    /\ moved' = TRUE
    /\ UNCHANGED <<fund, splan, pczt, vtx, tampers>>

ShieldedNext ==
    \/ plan_shielded \/ tamper \/ prove_pczt \/ sign_pczt
    \/ extract_verified_shielded \/ move_tip

ShieldedSpec == ShieldedInit /\ [][ShieldedNext]_shieldedVars

(***************************************************************************)
(* Properties.                                                             *)
(***************************************************************************)
\* A transaction that may be broadcast spends the selected notes and nothing
\* else, pays the planned transparent outputs and the change we can decrypt and
\* nothing else, and leaves the planned fee to the miner - whatever was done to
\* the PCZT, also when two alterations make up for each other
\* (verify_pool_bundle, verify_final_pool and the fee check, shielded.rs:701).
VerifiedIsPlanned ==
    vtx.made =>
        /\ vtx.vin = 0 /\ vtx.vout = transparent_outputs(fund)
        /\ vtx.spent = {<<n.id, n.value>> : n \in Range(select_for(fund).sel)}
        /\ vtx.paid = {<<"change", splan.change>>}
        /\ Sum(Map(LAMBDA p : p[2], SetToSeq(vtx.spent)))
             = carrier_total(fund) + splan.change + splan.fee

\* A plan nobody altered can be carried through: when its PCZT is gone there is
\* a verified transaction.  It costs what the fee rule asks of the actions it
\* really has, leaves change, and from NU6.3 on brings no value into Orchard
\* (select_for measures the fee before the transaction is built; signing_plans
\* must name every action the builder did not sign).
CleanPlanSucceeds ==
    splan.stage \notin {"none", "refused"} /\ tampers = 0 =>
        /\ ~pczt.made => vtx.made
        /\ splan.change > 0
        /\ splan.selected = carrier_total(fund) + splan.change + splan.fee
        /\ pczt.made =>
             /\ splan.fee = MARGINAL_FEE * Greater(GRACE_ACTIONS,
                              CeilDiv(OutBytes(fund), 34) + Len(pczt.orchard.actions)
                                                          + Len(pczt.ironwood.actions))
             /\ fund.branch = "nu6_3" => pczt.orchard.sum >= 0
=============================================================================
