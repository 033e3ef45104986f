---------------------------- MODULE WalletSpend ----------------------------
(***************************************************************************)
(* The shielded spend pipeline of crates/zalkanes-wallet, as the CLI's     *)
(* execute_request drives it: note reservation (sqlite.rs, shielded.rs),   *)
(* the operation journal (journal.rs), broadcast and reconciliation        *)
(* (broadcast.rs) and startup recovery (recovery.rs), against a Zebra node *)
(* that may be slow, drop transactions and reorganise.                     *)
(*                                                                         *)
(* The journal and the note locks are two databases with no common         *)
(* transaction; proofs and signatures live in process memory only.  Each   *)
(* plan is one run of the CLI, which may end anywhere: a crash, an error,  *)
(* a declined confirmation.  Recovery reads the rows and the locks once    *)
(* and then acts row by row, possibly next to a CLI run that is alive.     *)
(* The transaction's content is abstracted to the notes it spends.         *)
(***************************************************************************)
EXTENDS Integers, FiniteSets

CONSTANTS
  Plan,           \* plan ids
  Note,           \* the wallet's notes
  None,           \* no lock owner, no journal row, no answer
  MaxHeight,      \* bound on chain heights
  TxDelta,        \* blocks from planning to the transaction's expiry height
  LockDelta,      \* blocks from planning to the lock's expiry (128)
  EXPIRY_ABSENT_MARGIN,
  ReorgDepth,     \* bound on the blocks one reorganisation takes off
  MaxReorgs,      \* bound on reorganisations
  MAX_SELECT_ITERATIONS,
  PinLag,         \* bound on blocks between a run's two reads of the tip
  MaxLiveRuns     \* bound on CLI runs alive at once

ASSUME WalletNoneAssumption == None \notin Plan
ASSUME WalletBoundsAssumption ==
  /\ MaxHeight \in Nat /\ TxDelta \in Nat \ {0} /\ LockDelta \in Nat
  /\ EXPIRY_ABSENT_MARGIN \in Nat /\ ReorgDepth \in Nat /\ MaxReorgs \in Nat
  /\ MAX_SELECT_ITERATIONS \in Nat \ {0} /\ PinLag \in Nat /\ MaxLiveRuns \in Nat
\* What the constants of the code are chosen for: a transaction lives longer (41
\* blocks) than the margin (6), and a lock (128) outlasts both together.
ASSUME MarginAssumption ==
  /\ EXPIRY_ABSENT_MARGIN <= TxDelta
  /\ LockDelta > PinLag + TxDelta + EXPIRY_ABSENT_MARGIN

VARIABLES
  tip,     \* the node's tip: height and branch
  net,     \* where each plan's transaction is
  locks,   \* the lock store: owner and expiry per note
  row,     \* the journal: one row per plan
  run,     \* the CLI run of each plan: position, tip, selection
  rec,     \* a running startup_recover
  past     \* history: the highest tip so far, and whether a reorganisation
           \* has put the chain below it by more than the margin

walletVars == <<tip, past, net, locks, row, run, rec>>
----------------------------------------------------------------------------
(* The journal *)

Terminal == {"Mined", "Cancelled", "Expired", "Rejected", "Reorged"}
BroadcastPhase == {"Broadcasting", "BroadcastUnknown", "BroadcastAccepted"}
JournalStage ==
  {"Planned", "Reserved", "Proving", "Proven", "Signing", "Signed", "Extracted",
   "Verified"} \union BroadcastPhase \union Terminal

AllowedSteps ==
  {<<"Planned", "Reserved">>, <<"Planned", "Cancelled">>,
   <<"Reserved", "Proving">>, <<"Reserved", "Cancelled">>, <<"Reserved", "Expired">>,
   <<"Reserved", "Reorged">>,
   <<"Proving", "Proven">>, <<"Proving", "Cancelled">>,
   <<"Proven", "Signing">>, <<"Proven", "Cancelled">>,
   <<"Signing", "Signed">>, <<"Signing", "Cancelled">>,
   <<"Signed", "Extracted">>, <<"Extracted", "Verified">>, <<"Verified", "Broadcasting">>,
   <<"Broadcasting", "BroadcastAccepted">>, <<"Broadcasting", "BroadcastUnknown">>,
   <<"Broadcasting", "Rejected">>, <<"Broadcasting", "Mined">>,
   <<"BroadcastUnknown", "BroadcastAccepted">>, <<"BroadcastUnknown", "Mined">>,
   <<"BroadcastUnknown", "Rejected">>, <<"BroadcastUnknown", "Expired">>,
   <<"BroadcastUnknown", "Reorged">>,
   <<"BroadcastAccepted", "Mined">>, <<"BroadcastAccepted", "Reorged">>,
   <<"BroadcastAccepted", "Expired">>}
  \union {"Signed", "Extracted", "Verified"} \X {"Cancelled", "Expired", "Reorged"}

\* Faulty variant: a plan can be cancelled while its transaction is being sent.
can_transition_late_cancel(from, to) ==
  from = to \/ <<from, to>> \in AllowedSteps \union {<<"Broadcasting", "Cancelled">>}

can_transition(from, to) == from = to \/ <<from, to>> \in AllowedSteps

Row == [stage : JournalStage, txid : BOOLEAN, inputs : SUBSET Note,
        expiry : 0..(MaxHeight + TxDelta)]

\* None is neither a row, nor a stage, nor the answer of a status query.
ASSUME RowNoneAssumption ==
  /\ None \notin Row
  /\ None \notin JournalStage \union {"mined", "mempool", "absent"}

\* transition: refused, and the caller's run ends, if the CURRENT stage does
\* not allow it, whatever stage the caller believes the row is in.
transition(p, to) ==
  /\ row[p] # None
  /\ can_transition(row[p].stage, to)
  /\ row' = [row EXCEPT ![p].stage = to]
----------------------------------------------------------------------------
(* The lock store *)

Lock == [owner : Plan \union {None}, until : 0..(MaxHeight + LockDelta)]

HeldBy(p) == {n \in Note : locks[n].owner = p /\ tip.h < locks[n].until}

\* release: unlock every output this plan owns.
Released(p) == [n \in Note |-> IF locks[n].owner = p THEN [owner |-> None, until |-> 0]
                               ELSE locks[n]]
----------------------------------------------------------------------------
(* The node *)

\* "wire": sent and not yet processed; "gone": known to the network though
\* not to our node; "refused": rejected, and known to nobody.
TxPlace == {"none", "wire", "refused", "mempool", "gone", "mined"}

Public(p) == net[p].at \in {"mempool", "gone"}

Conflict(p, q) == p # q /\ run[p].inputs \cap run[q].inputs # {}

SpentOnChain(n) == \E p \in Plan : net[p].at = "mined" /\ n \in run[p].inputs

\* The transaction could be part of a block on top of height h.
MinableAt(p, h) ==
  /\ h < run[p].expiry
  /\ \A n \in run[p].inputs : ~SpentOnChain(n)

deliver(p) ==
  /\ net[p].at = "wire"
  /\ \/ /\ MinableAt(p, tip.h)
        /\ \A q \in Plan : Conflict(p, q) => net[q].at # "mempool"
        /\ net' = [net EXCEPT ![p].at = "mempool"]
     \/ net' = [net EXCEPT ![p].at = "refused"]
  /\ UNCHANGED <<tip, past, locks, row, run, rec>>

mempool_drop(p) ==
  /\ net[p].at = "mempool"
  /\ net' = [net EXCEPT ![p].at = "gone"]
  /\ UNCHANGED <<tip, past, locks, row, run, rec>>

mempool_relay(p) ==
  /\ net[p].at = "gone"
  /\ MinableAt(p, tip.h)
  /\ \A q \in Plan : Conflict(p, q) => net[q].at # "mempool"
  /\ net' = [net EXCEPT ![p].at = "mempool"]
  /\ UNCHANGED <<tip, past, locks, row, run, rec>>

mine_block ==
  /\ tip.h < MaxHeight
  /\ tip' = [tip EXCEPT !.h = @ + 1]
  /\ past' = [past EXCEPT !.peak = IF tip.h + 1 > @ THEN tip.h + 1 ELSE @]
  /\ \E M \in SUBSET {p \in Plan : Public(p) /\ MinableAt(p, tip.h)} :
        /\ \A p, q \in M : ~Conflict(p, q)
        /\ net' = [p \in Plan |-> IF p \in M THEN [at |-> "mined", height |-> tip.h + 1]
                                  ELSE net[p]]
  /\ UNCHANGED <<locks, row, run, rec>>

\* The node goes back to the block d below its tip, from where mine_block builds
\* the other branch.
chain_reorg(d) ==
  /\ tip.b < MaxReorgs
  /\ d <= tip.h
  /\ tip' = [h |-> tip.h - d, b |-> tip.b + 1]
  /\ past' = [past EXCEPT !.deep = @ \/ past.peak > tip.h - d + EXPIRY_ABSENT_MARGIN]
  /\ net' = [p \in Plan |-> IF net[p].at = "mined" /\ net[p].height > tip.h - d
                            THEN [at |-> "gone", height |-> 0] ELSE net[p]]
  /\ UNCHANGED <<locks, row, run, rec>>
----------------------------------------------------------------------------
(* One run of execute_request.  pc is the last stage the run has journaled, *)
(* or the step it is at between two of them.                                *)

InMemory == {"idle", "pinned", "selecting", "reserving", "planned", "proved", "signed",
             "extracted", "sending", "awaiting", "rejected", "reported", "ended"}
OverPcs == {"idle", "reported", "ended"}
RunPc == InMemory \union JournalStage

Tip == [h : 0..MaxHeight, b : 0..MaxReorgs]

Run == [pc : RunPc, pin : 0..MaxHeight, tip : Tip, inputs : SUBSET Note,
        expiry : 0..(MaxHeight + TxDelta), rounds : 0..MAX_SELECT_ITERATIONS]

NewRun == [pc |-> "idle", pin |-> 0, tip |-> [h |-> 0, b |-> 0], inputs |-> {},
           expiry |-> 0, rounds |-> 0]

\* The process is over: what remains is the transaction it may have sent.
Ended(p) == [NewRun EXCEPT !.pc = "ended", !.inputs = run[p].inputs,
                           !.expiry = run[p].expiry]

\* build_source: scan the wallet to the tip and pin it.
build_source(p) ==
  /\ run[p].pc = "idle"
  /\ Cardinality({q \in Plan : run[q].pc \notin OverPcs}) < MaxLiveRuns
  /\ run' = [run EXCEPT ![p].pc = "pinned", ![p].pin = tip.h]
  /\ UNCHANGED <<tip, past, net, locks, row, rec>>

\* canonical_tip is asked again, and the plan is bound to the second answer.
fund_context(p) ==
  /\ run[p].pc = "pinned"
  /\ tip.h <= run[p].pin + PinLag
  /\ run' = [run EXCEPT ![p].pc = "selecting", ![p].tip = tip,
                        ![p].expiry = tip.h + TxDelta]
  /\ UNCHANGED <<tip, past, net, locks, row, rec>>

\* What select_spendable_notes offers: nothing locked, by this plan or
\* another, and nothing the pinned scan saw spent.
Spendable(p) ==
  {n \in Note :
     /\ \A q \in Plan : n \notin HeldBy(q)
     /\ \A q \in Plan : net[q].at = "mined" /\ n \in run[q].inputs
                       => net[q].height > run[p].pin}

\* One round of select_for: choose notes, build their witnesses, then reserve them.
select_spends(p, S) ==
  /\ run[p].pc = "selecting"
  /\ run[p].rounds < MAX_SELECT_ITERATIONS
  /\ S # {} /\ S \subseteq Spendable(p)
  /\ run' = [run EXCEPT ![p].pc = "reserving", ![p].inputs = S, ![p].rounds = @ + 1]
  /\ UNCHANGED <<tip, past, net, locks, row, rec>>

\* The chosen notes locked by p, and the next round of the selection or its end.
Reserve(p) ==
  /\ locks' = [n \in Note |-> IF n \in run[p].inputs
                             THEN [owner |-> p, until |-> run[p].pin + LockDelta]
                             ELSE locks[n]]
  /\ \E next \in {"selecting", "planned"} : run' = [run EXCEPT ![p].pc = next]
  /\ UNCHANGED <<tip, past, net, row, rec>>

\* Faulty variant: the reservation trusts the selection.
lock_outputs_trusting(p) == run[p].pc = "reserving" /\ Reserve(p)

\* The reservation is refused, and the run ends, if another plan has locked one
\* of the notes since they were chosen.  If their value does not cover the fee,
\* the run goes round again, leaving them locked.
lock_outputs(p) ==
  /\ run[p].pc = "reserving"
  /\ \A q \in Plan \ {p} : run[p].inputs \cap HeldBy(q) = {}
  /\ Reserve(p)

\* Faulty variant: the expiry delta is added twice.
create_plan_late_expiry(p) ==
  /\ run[p].pc = "planned"
  /\ row[p] = None
  /\ row' = [row EXCEPT ![p] = [stage |-> "Planned", txid |-> FALSE, inputs |-> run[p].inputs,
                                expiry |-> run[p].expiry + TxDelta]]
  /\ run' = [run EXCEPT ![p].pc = "Planned"]
  /\ UNCHANGED <<tip, past, net, locks, rec>>

create_plan(p) ==
  /\ run[p].pc = "planned"
  /\ row[p] = None
  /\ row' = [row EXCEPT ![p] = [stage |-> "Planned", txid |-> FALSE,
                                inputs |-> run[p].inputs, expiry |-> run[p].expiry]]
  /\ run' = [run EXCEPT ![p].pc = "Planned"]
  /\ UNCHANGED <<tip, past, net, locks, rec>>

check_freshness(p) == run[p].tip = tip

\* The three stages that ask the node for the tip and then work in memory.
AuthorizationSteps ==
  {<<"Reserved", "proved">>, <<"Proven", "signed">>, <<"Signed", "extracted">>}

authorize(p) ==
  /\ check_freshness(p)
  /\ \E s \in AuthorizationSteps :
        /\ run[p].pc = s[1]
        /\ run' = [run EXCEPT ![p].pc = s[2]]
  /\ UNCHANGED <<tip, past, net, locks, row, rec>>

\* The stages execute_request journals, each after the work it names.
JournaledSteps ==
  {<<"Planned", "Reserved">>, <<"proved", "Proving">>, <<"Proving", "Proven">>,
   <<"signed", "Signing">>, <<"Signing", "Signed">>, <<"extracted", "Extracted">>,
   <<"Extracted", "Verified">>}

journal_stage(p) ==
  \E s \in JournaledSteps :
    /\ run[p].pc = s[1]
    /\ transition(p, s[2])
    /\ run' = [run EXCEPT ![p].pc = s[2]]
    /\ UNCHANGED <<tip, past, net, locks, rec>>

\* broadcast_verified up to the RPC: fresh, and journaled with the txid.
broadcast_verified(p) ==
  /\ run[p].pc = "Verified"
  /\ check_freshness(p)
  /\ row[p] # None
  /\ can_transition(row[p].stage, "Broadcasting")
  /\ row' = [row EXCEPT ![p].stage = "Broadcasting", ![p].txid = TRUE]
  /\ run' = [run EXCEPT ![p].pc = "sending"]
  /\ UNCHANGED <<tip, past, net, locks, rec>>

\* Faulty variant: the RPC leaves before the journal is written.
send_raw_transaction_early(p) ==
  /\ run[p].pc \in {"Verified", "sending"}
  /\ net' = [net EXCEPT ![p].at = "wire"]
  /\ run' = [run EXCEPT ![p].pc = "awaiting"]
  /\ UNCHANGED <<tip, past, locks, row, rec>>

send_raw_transaction(p) ==
  /\ run[p].pc = "sending"
  /\ net' = [net EXCEPT ![p].at = "wire"]
  /\ run' = [run EXCEPT ![p].pc = "awaiting"]
  /\ UNCHANGED <<tip, past, locks, row, rec>>

\* The three classes of answer; an ambiguous one (a timeout, a reset) may
\* come wherever the transaction is.
Answers(p) ==
  {"BroadcastUnknown"}
  \union (IF net[p].at \in {"mempool", "gone", "mined"} THEN {"BroadcastAccepted"} ELSE {})
  \union (IF net[p].at = "refused" THEN {"Rejected"} ELSE {})

broadcast_answer(p) ==
  /\ run[p].pc = "awaiting"
  /\ \E a \in Answers(p) :
        /\ transition(p, a)
        /\ run' = [run EXCEPT ![p] = IF a = "Rejected" THEN [@ EXCEPT !.pc = "rejected"]
                                    ELSE Ended(p)]
  /\ UNCHANGED <<tip, past, net, locks, rec>>

\* release.release after a rejection: the hook execute_request passes is
\* NoopRelease, for shielded plans too.
release_rejected(p) ==
  /\ run[p].pc = "rejected"
  /\ run' = [run EXCEPT ![p] = [Ended(p) EXCEPT !.pc = "reported"]]
  /\ UNCHANGED <<tip, past, net, locks, row, rec>>

\* The run ends: killed, declined, a failed request, a stale plan, a refused
\* transition.  What it held in memory is gone; nothing is undone.
end_run(p) ==
  /\ run[p].pc \notin OverPcs
  /\ run' = [run EXCEPT ![p] = Ended(p)]
  /\ UNCHANGED <<tip, past, net, locks, row, rec>>
----------------------------------------------------------------------------
(* startup_recover.  The locks are read, then the rows; each row is judged *)
(* by what was read, while the journal checks the transition against what  *)
(* the row is now.                                                         *)

RecPc == {"idle", "locks", "policy", "status", "apply", "expire", "release"}

Recovery ==
  [pc : RecPc, tip : 0..MaxHeight, held : [Note -> Plan \union {None}],
   stage : [Plan -> JournalStage \union {None}],
   todo : SUBSET Plan, cur : Plan \union {None}, then : RecPc,
   seen : {None, "mined", "mempool", "absent"}]

NoRecovery ==
  [pc |-> "idle", tip |-> 0, held |-> [n \in Note |-> None],
   stage |-> [p \in Plan |-> None], todo |-> {}, cur |-> None,
   then |-> "idle", seen |-> None]

non_terminal_rows == {p \in Plan : row[p] # None /\ row[p].stage \notin Terminal}

StagesOf(P) == [p \in Plan |-> IF p \in P THEN row[p].stage ELSE None]

RecoverLocks ==
  /\ rec.pc = "idle"
  /\ rec' = [NoRecovery EXCEPT !.pc = "locks", !.tip = tip.h,
               !.held = [n \in Note |-> IF \E p \in Plan : n \in HeldBy(p)
                                       THEN locks[n].owner ELSE None]]
  /\ UNCHANGED <<tip, past, net, locks, row, run>>

RecoverRows ==
  /\ rec.pc = "locks"
  /\ rec' = [rec EXCEPT !.pc = "policy",
               !.todo = non_terminal_rows, !.stage = StagesOf(non_terminal_rows)]
  /\ UNCHANGED <<tip, past, net, locks, row, run>>

locks_of(p) == {n \in Note : rec.held[n] = p}

inputs_match(p) == locks_of(p) = row[p].inputs

\* What the row policy wants: a target stage and whether to release, or None
\* for a row left alone (an anomaly, or the reconciler's).
Policy(p) ==
  LET held == locks_of(p) # {} IN
  CASE rec.stage[p] = "Planned" /\ ~held -> <<"Cancelled", FALSE>>
    [] rec.stage[p] = "Planned" /\ held /\ inputs_match(p) -> <<"Reserved", FALSE>>
    [] rec.stage[p] = "Reserved" /\ ~held /\ rec.tip > row[p].expiry -> <<"Expired", FALSE>>
    [] rec.stage[p] = "Reserved" /\ held /\ inputs_match(p) -> <<"Cancelled", TRUE>>
    [] rec.stage[p] \in {"Proving", "Proven"} -> <<"Cancelled", held>>
    [] rec.stage[p] \in {"Signing", "Signed", "Extracted", "Verified"} -> <<"Cancelled", FALSE>>
    [] OTHER -> None

\* The pass goes on without p, releasing its locks first if asked to.
Onward(p, release, next) ==
  [rec EXCEPT !.todo = @ \ {p}, !.stage[p] = None, !.cur = IF release THEN p ELSE None, !.seen = None,
              !.then = IF release THEN next ELSE "idle",
              !.pc = IF release THEN "release" ELSE next]

\* Faulty variant: a row whose locks do not match is unlocked.
RecoverRow_unlocks(p) ==
  /\ rec.pc = "policy" /\ p \in rec.todo
  /\ Policy(p) = None
  /\ rec' = Onward(p, FALSE, "policy")
  /\ locks' = Released(p)
  /\ UNCHANGED <<tip, past, net, row, run>>

RecoverRow(p) ==
  /\ rec.pc = "policy" /\ p \in rec.todo
  /\ \/ /\ Policy(p) = None
        /\ rec' = Onward(p, FALSE, "policy")
        /\ UNCHANGED row
     \/ /\ Policy(p) # None
        /\ transition(p, Policy(p)[1])
        /\ rec' = Onward(p, Policy(p)[2], "policy")
  /\ UNCHANGED <<tip, past, net, locks, run>>

\* release: its own step; a crash before it leaves the row terminal and the
\* notes locked.
RecoverRelease ==
  /\ rec.pc = "release"
  /\ locks' = Released(rec.cur)
  /\ rec' = [rec EXCEPT !.pc = rec.then, !.then = "idle", !.cur = None]
  /\ UNCHANGED <<tip, past, net, row, run>>

\* reconcile reads the rows again and keeps those in a broadcast stage.
ReconcileStart ==
  /\ rec.pc = "policy" /\ rec.todo = {}
  /\ LET P == {p \in non_terminal_rows : row[p].stage \in BroadcastPhase /\ row[p].txid} IN
     rec' = [rec EXCEPT !.pc = "status", !.held = NoRecovery.held, !.todo = P,
                          !.stage = StagesOf(P)]
  /\ UNCHANGED <<tip, past, net, locks, row, run>>

tx_status(p) ==
  CASE net[p].at = "mined" -> "mined"
    [] net[p].at = "mempool" -> "mempool"
    [] OTHER -> "absent"

\* A query that fails is reported and the row is left.
ReconcileQuery(p) ==
  /\ rec.pc = "status" /\ p \in rec.todo
  /\ \/ rec' = [rec EXCEPT !.pc = "apply", !.cur = p, !.seen = tx_status(p)]
     \/ rec' = Onward(p, FALSE, "status")
  /\ UNCHANGED <<tip, past, net, locks, row, run>>

\* Faulty variant: expired as soon as the expiry height is reached.
definitely_expired_no_margin(p) == rec.tip >= row[p].expiry

definitely_expired(p) == rec.tip > row[p].expiry + EXPIRY_ABSENT_MARGIN

\* What the observed status wants of the row; None leaves it ambiguous.
Reconciled(p) ==
  CASE rec.seen = "mined" -> "Mined"
    [] rec.seen = "mempool" /\ rec.stage[p] # "BroadcastAccepted" -> "BroadcastAccepted"
    [] rec.seen = "absent" /\ rec.stage[p] = "Broadcasting" -> "BroadcastUnknown"
    [] rec.seen = "absent" /\ rec.stage[p] # "Broadcasting" /\ definitely_expired(p) -> "Expired"
    [] OTHER -> None

ReconcileApply ==
  LET p == rec.cur
      to == Reconciled(p)
      expire == to = "BroadcastUnknown" /\ definitely_expired(p)
  IN
  /\ rec.pc = "apply"
  /\ IF to = None THEN UNCHANGED row ELSE transition(p, to)
  /\ rec' = IF expire THEN [rec EXCEPT !.pc = "expire", !.seen = None]
            ELSE Onward(p, to = "Expired", "status")
  /\ UNCHANGED <<tip, past, net, locks, run>>

ReconcileExpire ==
  /\ rec.pc = "expire"
  /\ transition(rec.cur, "Expired")
  /\ rec' = Onward(rec.cur, TRUE, "status")
  /\ UNCHANGED <<tip, past, net, locks, run>>

\* The report of orphaned locks is output only.
RecoverFinish ==
  /\ rec.pc = "status" /\ rec.todo = {}
  /\ rec' = NoRecovery
  /\ UNCHANGED <<tip, past, net, locks, row, run>>

\* The pass stops: a crash, or a transition the journal refused.
RecoverCrash ==
  /\ rec.pc # "idle"
  /\ rec' = NoRecovery
  /\ UNCHANGED <<tip, past, net, locks, row, run>>
----------------------------------------------------------------------------
(* The specification *)

WalletInit ==
  /\ tip = [h |-> 0, b |-> 0]
  /\ past = [peak |-> 0, deep |-> FALSE]
  /\ net = [p \in Plan |-> [at |-> "none", height |-> 0]]
  /\ locks = [n \in Note |-> [owner |-> None, until |-> 0]]
  /\ row = [p \in Plan |-> None]
  /\ run = [p \in Plan |-> NewRun]
  /\ rec = NoRecovery

RunStep(p) ==
  \/ build_source(p)
  \/ fund_context(p)
  \/ \E S \in SUBSET Note : select_spends(p, S)
  \/ lock_outputs(p)
  \/ create_plan(p)
  \/ authorize(p)
  \/ journal_stage(p)
  \/ broadcast_verified(p)
  \/ send_raw_transaction(p)
  \/ broadcast_answer(p)
  \/ release_rejected(p)
  \/ end_run(p)

NodeStep ==
  \/ \E p \in Plan : deliver(p) \/ mempool_drop(p) \/ mempool_relay(p)
  \/ mine_block
  \/ \E d \in 1..ReorgDepth : chain_reorg(d)

RecoverStep ==
  \/ RecoverLocks
  \/ RecoverRows
  \/ \E p \in Plan : RecoverRow(p) \/ ReconcileQuery(p)
  \/ RecoverRelease
  \/ ReconcileStart
  \/ ReconcileApply
  \/ ReconcileExpire
  \/ RecoverFinish
  \/ RecoverCrash

WalletNext == (\E p \in Plan : RunStep(p)) \/ NodeStep \/ RecoverStep

WalletSpec == WalletInit /\ [][WalletNext]_walletVars
----------------------------------------------------------------------------
(* Properties *)

\* Every variable keeps its type.
WalletTypeOK ==
  /\ tip \in Tip
  /\ past \in [peak : 0..MaxHeight, deep : BOOLEAN]
  /\ net \in [Plan -> [at : TxPlace, height : 0..MaxHeight]]
  /\ locks \in [Note -> Lock]
  /\ row \in [Plan -> Row \union {None}]
  /\ run \in [Plan -> Run]
  /\ rec \in Recovery

\* The transaction is out of the process, or about to be, and a block could
\* still include it.
InFlight(p) ==
  /\ run[p].pc = "sending" \/ net[p].at \in {"wire", "mempool", "gone"}
  /\ MinableAt(p, tip.h)

\* The notes of a transaction that could still be mined are locked by its plan,
\* through ambiguous answers, expiry, any number of reorganisations, and a
\* recovery that works from an old reading of the journal and the locks next to
\* live runs: as long as no reorganisation has put the chain more than
\* EXPIRY_ABSENT_MARGIN below its highest tip.
LocksCoverInFlight ==
  ~past.deep => \A p \in Plan : InFlight(p) => run[p].inputs \subseteq HeldBy(p)

NeverMined(p) == net[p].at # "mined" /\ ~InFlight(p)

\* A row that reports failure is never contradicted by the chain: a Cancelled or
\* Rejected plan's transaction is with nobody, however the chain is reorganised,
\* and an Expired one's is not mined and cannot be, in spite of late deliveries
\* and of reorganisations no deeper than EXPIRY_ABSENT_MARGIN.
FailureIsFinal ==
  \A p \in Plan : row[p] # None =>
    /\ row[p].stage \in {"Cancelled", "Rejected"} =>
          run[p].pc # "sending" /\ net[p].at \in {"none", "refused"}
    /\ row[p].stage = "Expired" /\ ~past.deep => NeverMined(p)

\* A transaction that has left the process is in the journal with its txid, so
\* that a crash in the send window can be reconciled.
SentIsJournaled ==
  \A p \in Plan : net[p].at # "none" =>
    /\ row[p] # None
    /\ row[p].txid
    /\ row[p].inputs = run[p].inputs
    /\ row[p].stage \in BroadcastPhase \union Terminal

\* A note leaves its plan only when its lock lapses or after the journal has
\* declared the plan over: no release runs ahead of the row, and no selection
\* takes a note from a plan that still holds it.
ReleaseFollowsJournal ==
  [][\A p \in Plan : \A n \in HeldBy(p) :
        locks'[n].owner # p => row[p] # None /\ row[p].stage \in Terminal]_walletVars

\* A run that reports a rejection has given its notes back (broadcast.rs:
\* "Deterministic rejection; note locks were released").
RejectedHoldsNothing == \A p \in Plan : run[p].pc = "reported" => HeldBy(p) = {}
=============================================================================
