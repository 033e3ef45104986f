------------------------- MODULE WalletSpendProofs -------------------------
(***************************************************************************)
(* The safety properties of WalletSpend, for any plans and notes, any      *)
(* number of reorganisations of any depth, and any constants that relate   *)
(* as MarginAssumption says.  What depends on the expiry margin is claimed *)
(* as long as no reorganisation has put the chain more than the margin     *)
(* below its highest tip (past.deep); the rest holds whatever happens.     *)
(*                                                                         *)
(* Two arguments carry the proof.  The journal: a row enters a broadcast   *)
(* stage only on the way to the RPC and never comes back from there, so a  *)
(* plan recovery cancels has sent nothing and never will.  The heights:    *)
(* the highest tip the chain has had never goes down.  Once it is past a   *)
(* transaction's expiry by the margin, the tip is past the expiry for as   *)
(* long as no reorganisation reaches deeper than the margin; and that is   *)
(* where it is when a lock lapses or when recovery calls a transaction     *)
(* expired, however old its reading of the tip.                            *)
(***************************************************************************)
EXTENDS WalletSpend, TLAPS

Reach == past.peak

\* A run between its second reading of the tip and its RPC.
BeforeTip == {"idle", "pinned"}
AfterRpc  == {"awaiting", "rejected", "reported", "ended"}
Working   == RunPc \ (BeforeTip \union {"sending"} \union AfterRpc)

Sent(p) == run[p].pc = "sending" \/ net[p].at # "none"

\* The tip is past the transaction's expiry, now and after every reorganisation
\* that keeps to the margin.
PastExpiry(p) == past.deep \/ Reach > run[p].expiry + EXPIRY_ABSENT_MARGIN

OffChain(p) == past.deep \/ net[p].at # "mined"

\* A run that has no journal row yet.
Choosing == {"selecting", "reserving", "planned"}

\* A row belongs to a run that has planned, and has its notes and expiry.
RowOfRun(p) ==
  row[p] # None =>
    /\ run[p].pc \notin BeforeTip \union Choosing
    /\ row[p].inputs = run[p].inputs
    /\ row[p].expiry = run[p].expiry

\* What a run that has not chosen its notes yet has in its hands.
RunBegins(p) ==
  /\ run[p].pc \in BeforeTip => run[p].inputs = {}
  /\ run[p].pc \in {"selecting", "reserving"} =>
       run[p].expiry <= run[p].pin + PinLag + TxDelta

\* Only an RPC puts a transaction on the network, and it follows the journal.
SentByRun(p) ==
  /\ net[p].at # "none" => run[p].pc \in AfterRpc
  /\ Sent(p) => row[p] # None /\ row[p].txid /\ row[p].stage \in BroadcastPhase \union Terminal

\* A working run is bound to a tip that the chain has been at.
TipSeen(p) ==
  run[p].pc \in Working =>
    /\ run[p].expiry = run[p].tip.h + TxDelta
    /\ run[p].tip.b <= tip.b
    /\ run[p].tip.b = tip.b => run[p].tip.h <= tip.h

\* What the stages of failure say of the transaction.
FailedStages(p) ==
  row[p] # None =>
    /\ row[p].stage = "Cancelled" => ~Sent(p)
    /\ row[p].stage = "Rejected" => net[p].at = "refused"
    /\ row[p].stage = "Expired" => ~Sent(p) \/ (OffChain(p) /\ PastExpiry(p))

\* What recovery has read of a plan still means something when it acts on it.
RecoveryReads(p) ==
  /\ run[p].pc \in Working /\ rec.tip > run[p].expiry =>
       past.deep \/ run[p].tip # tip
  /\ rec.stage[p] = "Reserved" =>
       row[p] # None /\ (rec.tip > run[p].expiry => past.deep \/ ~Sent(p))
  /\ rec.cur = p /\ rec.pc \in {"expire", "release"} => row[p] # None
  /\ rec.cur = p /\ rec.pc = "apply" /\ rec.seen = "absent" /\ definitely_expired(p) =>
        OffChain(p)
  /\ rec.cur = p /\ rec.pc = "expire" => definitely_expired(p) /\ OffChain(p)
  /\ rec.cur = p /\ rec.pc = "release" => row[p].stage \in {"Cancelled", "Expired"}

\* From the end of the selection, every note of the plan is locked by it beyond
\* the expiry, unless the lock may have lapsed or has been released.
NotesLocked(p) ==
  run[p].pc = "planned" \/ row[p] # None => \A n \in run[p].inputs :
    \/ locks[n].owner = p /\ locks[n].until > run[p].expiry + EXPIRY_ABSENT_MARGIN
    \/ PastExpiry(p)
    \/ row[p] # None /\ row[p].stage \in {"Cancelled", "Expired"}

PlanInv(p) ==
  /\ RowOfRun(p)
  /\ RunBegins(p)
  /\ SentByRun(p)
  /\ TipSeen(p)
  /\ FailedStages(p)
  /\ RecoveryReads(p)
  /\ NotesLocked(p)

\* The tip is not above the highest it has been, nor below it by more than the
\* margin while no reorganisation has gone deeper.
HeightsOK ==
  /\ tip.h <= past.peak
  /\ past.deep \/ past.peak <= tip.h + EXPIRY_ABSENT_MARGIN

\* Recovery's reading of the tip is not ahead of the chain, and it has a row in
\* its hands whenever it acts on one.
RecoveryOK ==
  /\ HeightsOK
  /\ rec.tip <= Reach
  /\ rec.then \notin {"apply", "expire", "release"}
  /\ rec.pc \in {"apply", "expire", "release"} => rec.cur \in Plan

WalletInv == WalletTypeOK /\ RecoveryOK /\ \A p \in Plan : PlanInv(p)
----------------------------------------------------------------------------
(* Types *)

\* The numbers of a state, without their bounds.
LEMMA Numbers ==
  ASSUME WalletTypeOK, NEW p \in Plan
  PROVE  /\ tip.h \in Nat /\ tip.b \in Nat /\ past.peak \in Nat /\ past.deep \in BOOLEAN
         /\ run[p].pin \in Nat /\ run[p].expiry \in Nat
         /\ run[p].tip.h \in Nat /\ run[p].tip.b \in Nat
         /\ rec.tip \in Nat
  BY WalletBoundsAssumption DEF WalletTypeOK, Tip, Run, Recovery

\* A row that is there is a record.
LEMMA RowIsRecord ==
  ASSUME WalletTypeOK, NEW p \in Plan, row[p] # None
  PROVE  row[p] \in Row
  BY DEF WalletTypeOK

LEMMA WalletInitType == WalletInit => WalletTypeOK
<1> SUFFICES ASSUME WalletInit PROVE WalletTypeOK
  OBVIOUS
<1>1. /\ tip \in Tip /\ past \in [peak : 0..MaxHeight, deep : BOOLEAN]
      /\ net \in [Plan -> [at : TxPlace, height : 0..MaxHeight]]
  BY WalletBoundsAssumption DEF WalletInit, Tip, TxPlace
<1>2. locks \in [Note -> Lock] /\ row \in [Plan -> Row \union {None}]
  BY WalletBoundsAssumption DEF WalletInit, Lock
<1>3. NewRun \in Run
  BY WalletBoundsAssumption DEF NewRun, Run, RunPc, InMemory, Tip
<1>4. NoRecovery \in Recovery
  BY WalletBoundsAssumption DEF NoRecovery, Recovery, RecPc
<1> QED
  BY <1>1, <1>2, <1>3, <1>4 DEF WalletInit, WalletTypeOK

\* A journal write keeps the journal's type.
LEMMA TransitionType ==
  ASSUME WalletTypeOK, NEW p \in Plan, NEW to \in JournalStage, transition(p, to)
  PROVE  row' \in [Plan -> Row \union {None}]
<1>1. row[p] \in Row
  BY RowIsRecord DEF transition
<1>2. [row[p] EXCEPT !.stage = to] \in Row
  BY <1>1 DEF Row
<1>3. row' = [row EXCEPT ![p] = [row[p] EXCEPT !.stage = to]]
  BY DEF transition, WalletTypeOK
<1> QED
  BY <1>2, <1>3 DEF WalletTypeOK

\* A run's steps keep the types.
LEMMA RunStepType ==
  ASSUME WalletTypeOK, NEW p \in Plan, RunStep(p)
  PROVE  WalletTypeOK'
<1>0. /\ run \in [Plan -> Run] /\ run[p] \in Run /\ tip \in Tip
      /\ past \in [peak : 0..MaxHeight, deep : BOOLEAN]
      /\ net \in [Plan -> [at : TxPlace, height : 0..MaxHeight]]
      /\ net[p] \in [at : TxPlace, height : 0..MaxHeight]
      /\ locks \in [Note -> Lock]
      /\ row \in [Plan -> Row \union {None}]
      /\ rec \in Recovery
  BY DEF WalletTypeOK
<1>e. Ended(p) \in Run /\ [Ended(p) EXCEPT !.pc = "reported"] \in Run
  <2>1. NewRun \in Run
    BY WalletBoundsAssumption DEF NewRun, Run, RunPc, InMemory, Tip
  <2>2. Ended(p) \in Run
    BY <1>0, <2>1 DEF Ended, Run, RunPc, InMemory
  <2> QED
    BY <2>2 DEF Run, RunPc, InMemory
<1>1. CASE build_source(p)
  <2>1. [run[p] EXCEPT !.pc = "pinned", !.pin = tip.h] \in Run
    BY <1>0 DEF Run, RunPc, InMemory, Tip
  <2>2. run' = [run EXCEPT ![p] = [run[p] EXCEPT !.pc = "pinned", !.pin = tip.h]]
    BY <1>0, <1>1 DEF build_source
  <2>3. run' \in [Plan -> Run]
    BY <1>0, <2>1, <2>2
  <2> QED
    BY <1>0, <1>1, <2>3 DEF build_source, WalletTypeOK
<1>2. CASE fund_context(p)
  <2>1. [run[p] EXCEPT !.pc = "selecting", !.tip = tip, !.expiry = tip.h + TxDelta] \in Run
    <3>1. tip.h + TxDelta \in 0..(MaxHeight + TxDelta)
      BY <1>0, WalletBoundsAssumption DEF Tip
    <3> QED
      BY <1>0, <3>1 DEF Run, RunPc, InMemory
  <2>a. run' = [run EXCEPT ![p].pc = "selecting", ![p].tip = tip,
                           ![p].expiry = tip.h + TxDelta]
    BY <1>2 DEF fund_context
  <2>2. run' = [run EXCEPT ![p] = [run[p] EXCEPT !.pc = "selecting", !.tip = tip,
                                                 !.expiry = tip.h + TxDelta]]
    BY <1>0, <2>a
  <2>3. run' \in [Plan -> Run]
    BY <1>0, <2>1, <2>2
  <2> QED
    BY <1>0, <1>2, <2>3 DEF fund_context, WalletTypeOK
<1>3. CASE \E S \in SUBSET Note : select_spends(p, S)
  <2>1. PICK S \in SUBSET Note : select_spends(p, S)
    BY <1>3
  <2>2. run' = [run EXCEPT ![p].pc = "reserving", ![p].inputs = S, ![p].rounds = @ + 1]
    BY <2>1 DEF select_spends
  <2>3. [run[p] EXCEPT !.pc = "reserving", !.inputs = S, !.rounds = @ + 1] \in Run
    BY <1>0, <2>1, WalletBoundsAssumption DEF select_spends, Run, RunPc, InMemory
  <2>4. run' = [run EXCEPT ![p] = [run[p] EXCEPT !.pc = "reserving", !.inputs = S,
                                                 !.rounds = @ + 1]]
    BY <1>0, <2>2
  <2>5. run' \in [Plan -> Run]
    BY <1>0, <2>3, <2>4
  <2> QED
    BY <1>0, <2>1, <2>5 DEF select_spends, WalletTypeOK
<1>3a. CASE lock_outputs(p)
  <2>1. PICK next \in {"selecting", "planned"} : run' = [run EXCEPT ![p].pc = next]
    BY <1>3a DEF lock_outputs, Reserve
  <2>2. run' \in [Plan -> Run]
    BY <1>0, <2>1 DEF Run, RunPc, InMemory
  <2>3. [owner |-> p, until |-> run[p].pin + LockDelta] \in Lock
    BY <1>0, WalletBoundsAssumption DEF Run, Lock
  <2>4. locks' \in [Note -> Lock]
    BY <1>0, <1>3a, <2>3 DEF lock_outputs, Reserve
  <2> QED
    BY <1>0, <1>3a, <2>2, <2>4 DEF lock_outputs, Reserve, WalletTypeOK
<1>4. CASE create_plan(p)
  <2> DEFINE w == [stage |-> "Planned", txid |-> FALSE, inputs |-> run[p].inputs,
                   expiry |-> run[p].expiry]
  <2>1. w \in Row
    BY <1>0 DEF Run, Row, JournalStage
  <2>2. row' \in [Plan -> Row \union {None}]
    BY <1>0, <1>4, <2>1 DEF create_plan
  <2>3. [run[p] EXCEPT !.pc = "Planned"] \in Run
    BY <1>0 DEF Run, RunPc, JournalStage
  <2>4. run' \in [Plan -> Run]
    BY <1>0, <1>4, <2>3 DEF create_plan
  <2> QED
    BY <1>0, <1>4, <2>2, <2>4 DEF create_plan, WalletTypeOK
<1>5. CASE authorize(p)
  <2>1. PICK s \in AuthorizationSteps : run' = [run EXCEPT ![p].pc = s[2]]
    BY <1>5 DEF authorize
  <2>2. s[2] \in RunPc
    BY DEF AuthorizationSteps, RunPc, InMemory
  <2>3. run' \in [Plan -> Run]
    BY <1>0, <2>1, <2>2 DEF Run
  <2> QED
    BY <1>0, <1>5, <2>3 DEF authorize, WalletTypeOK
<1>6. CASE journal_stage(p)
  <2>1. PICK s \in JournaledSteps : transition(p, s[2]) /\ run' = [run EXCEPT ![p].pc = s[2]]
    BY <1>6 DEF journal_stage
  <2>2. s[2] \in RunPc /\ s[2] \in JournalStage
    BY DEF JournaledSteps, RunPc, JournalStage
  <2>3. run' \in [Plan -> Run]
    BY <1>0, <2>1, <2>2 DEF Run
  <2>4. row' \in [Plan -> Row \union {None}]
    BY <2>1, <2>2, TransitionType
  <2> QED
    BY <1>0, <1>6, <2>3, <2>4 DEF journal_stage, WalletTypeOK
<1>7. CASE broadcast_verified(p)
  <2>1. row[p] \in Row
    BY <1>7, RowIsRecord DEF broadcast_verified
  <2>2. [row[p] EXCEPT !.stage = "Broadcasting", !.txid = TRUE] \in Row
    BY <2>1 DEF Row, JournalStage, BroadcastPhase
  <2>3. row' = [row EXCEPT ![p] = [row[p] EXCEPT !.stage = "Broadcasting", !.txid = TRUE]]
    BY <1>0, <1>7 DEF broadcast_verified
  <2>4. row' \in [Plan -> Row \union {None}]
    BY <1>0, <2>2, <2>3
  <2>5. run' \in [Plan -> Run]
    BY <1>0, <1>7 DEF broadcast_verified, Run, RunPc, InMemory
  <2> QED
    BY <1>0, <1>7, <2>4, <2>5 DEF broadcast_verified, WalletTypeOK
<1>8. CASE send_raw_transaction(p)
  <2>1. run' \in [Plan -> Run]
    BY <1>0, <1>8 DEF send_raw_transaction, Run, RunPc, InMemory
  <2>2. net' \in [Plan -> [at : TxPlace, height : 0..MaxHeight]]
    BY <1>0, <1>8 DEF send_raw_transaction, TxPlace
  <2> QED
    BY <1>0, <1>8, <2>1, <2>2 DEF send_raw_transaction, WalletTypeOK
<1>9. CASE broadcast_answer(p)
  <2>1. PICK a \in Answers(p) :
          /\ transition(p, a)
          /\ run' = [run EXCEPT ![p] = IF a = "Rejected" THEN [@ EXCEPT !.pc = "rejected"]
                                       ELSE Ended(p)]
    BY <1>9 DEF broadcast_answer
  <2>2. a \in JournalStage
    BY DEF Answers, JournalStage, BroadcastPhase, Terminal
  <2>3. row' \in [Plan -> Row \union {None}]
    BY <2>1, <2>2, TransitionType
  <2>4. [run[p] EXCEPT !.pc = "rejected"] \in Run
    BY <1>0 DEF Run, RunPc, InMemory
  <2>5. run' \in [Plan -> Run]
    BY <1>0, <1>e, <2>1, <2>4
  <2> QED
    BY <1>0, <1>9, <2>3, <2>5 DEF broadcast_answer, WalletTypeOK
<1>10. CASE release_rejected(p)
  BY <1>0, <1>e, <1>10 DEF release_rejected, WalletTypeOK
<1>11. CASE end_run(p)
  BY <1>0, <1>e, <1>11 DEF end_run, WalletTypeOK
<1> QED
  BY <1>1, <1>2, <1>3, <1>3a, <1>4, <1>5, <1>6, <1>7, <1>8, <1>9, <1>10, <1>11 DEF RunStep

\* The node's steps keep the types.
LEMMA NodeStepType ==
  ASSUME WalletTypeOK, NodeStep
  PROVE  WalletTypeOK'
<1>0. /\ run \in [Plan -> Run] /\ tip \in Tip
      /\ past \in [peak : 0..MaxHeight, deep : BOOLEAN]
      /\ net \in [Plan -> [at : TxPlace, height : 0..MaxHeight]]
      /\ locks \in [Note -> Lock]
      /\ row \in [Plan -> Row \union {None}]
      /\ rec \in Recovery
  BY DEF WalletTypeOK
<1>1. ASSUME NEW p \in Plan, deliver(p) \/ mempool_drop(p) \/ mempool_relay(p)
      PROVE  WalletTypeOK'
  <2>1. PICK a \in TxPlace : net' = [net EXCEPT ![p].at = a]
    BY <1>1 DEF deliver, mempool_drop, mempool_relay, TxPlace
  <2>2. net' \in [Plan -> [at : TxPlace, height : 0..MaxHeight]]
    BY <1>0, <2>1
  <2> QED
    BY <1>0, <1>1, <2>2 DEF deliver, mempool_drop, mempool_relay, WalletTypeOK
<1>2. CASE mine_block
  <2>1. tip.h + 1 \in 0..MaxHeight
    BY <1>0, <1>2, WalletBoundsAssumption DEF mine_block, Tip
  <2>2. tip' \in Tip
    BY <1>0, <1>2, <2>1 DEF mine_block, Tip
  <2>a. past' \in [peak : 0..MaxHeight, deep : BOOLEAN]
    BY <1>0, <1>2, <2>1 DEF mine_block
  <2>3. PICK M \in SUBSET Plan :
          net' = [p \in Plan |-> IF p \in M THEN [at |-> "mined", height |-> tip.h + 1]
                                 ELSE net[p]]
    BY <1>2 DEF mine_block
  <2>4. [at |-> "mined", height |-> tip.h + 1] \in [at : TxPlace, height : 0..MaxHeight]
    BY <2>1 DEF TxPlace
  <2>5. net' \in [Plan -> [at : TxPlace, height : 0..MaxHeight]]
    BY <1>0, <2>3, <2>4
  <2> QED
    BY <1>0, <1>2, <2>2, <2>a, <2>5 DEF mine_block, WalletTypeOK
<1>3. ASSUME NEW d \in 1..ReorgDepth, chain_reorg(d)
      PROVE  WalletTypeOK'
  <2>1. tip.h - d \in 0..MaxHeight /\ tip.b + 1 \in 0..MaxReorgs
    BY <1>0, <1>3, WalletBoundsAssumption DEF chain_reorg, Tip
  <2>2. tip' \in Tip
    BY <1>3, <2>1 DEF chain_reorg, Tip
  <2>a. past' \in [peak : 0..MaxHeight, deep : BOOLEAN]
    <3>1. past' = [past EXCEPT !.deep =
                     past.deep \/ past.peak > tip.h - d + EXPIRY_ABSENT_MARGIN]
      BY <1>0, <1>3 DEF chain_reorg
    <3>2. PICK x \in BOOLEAN :
            x <=> past.deep \/ past.peak > tip.h - d + EXPIRY_ABSENT_MARGIN
      OBVIOUS
    <3>3. past' = [past EXCEPT !.deep = x]
      BY <1>0, <3>1, <3>2
    <3> QED
      BY <1>0, <3>3
  <2>3. [at |-> "gone", height |-> 0] \in [at : TxPlace, height : 0..MaxHeight]
    BY WalletBoundsAssumption DEF TxPlace
  <2>4. net' \in [Plan -> [at : TxPlace, height : 0..MaxHeight]]
    BY <1>0, <1>3, <2>3 DEF chain_reorg
  <2> QED
    BY <1>0, <1>3, <2>2, <2>a, <2>4 DEF chain_reorg, WalletTypeOK
<1> QED
  BY <1>1, <1>2, <1>3 DEF NodeStep

\* What Onward leaves in the recovery's memory.
LEMMA OnwardIs ==
  ASSUME WalletTypeOK, NEW p \in Plan, NEW release \in BOOLEAN, NEW next \in RecPc
  PROVE  LET o == Onward(p, release, next) IN
         /\ o \in Recovery
         /\ o.tip = rec.tip
         /\ o.stage[p] = None
         /\ \A q \in Plan \ {p} : o.stage[q] = rec.stage[q]
         /\ o.pc = IF release THEN "release" ELSE next
         /\ o.cur = IF release THEN p ELSE None
<1> DEFINE st == [rec.stage EXCEPT ![p] = None]
           pc == IF release THEN "release" ELSE next
           cur == IF release THEN p ELSE None
           then == IF release THEN next ELSE "idle"
<1>0. rec \in Recovery
  BY DEF WalletTypeOK
<1>1. st \in [Plan -> JournalStage \union {None}]
  BY <1>0 DEF Recovery
<1>2. pc \in RecPc /\ then \in RecPc /\ cur \in Plan \union {None}
  BY DEF RecPc
<1>3. Onward(p, release, next) =
        [rec EXCEPT !.todo = rec.todo \ {p}, !.stage = st, !.cur = cur, !.seen = None,
                    !.then = then, !.pc = pc]
  BY <1>0 DEF Onward, Recovery
<1>4. rec.todo \ {p} \in SUBSET Plan
  BY <1>0 DEF Recovery
<1> HIDE DEF st, pc, cur, then
<1>5. Onward(p, release, next) \in Recovery
  BY <1>0, <1>1, <1>2, <1>3, <1>4 DEF Recovery
<1>6. LET o == Onward(p, release, next) IN
        o.tip = rec.tip /\ o.stage = st /\ o.pc = pc /\ o.cur = cur
  BY <1>0, <1>3 DEF Recovery
<1>7. st[p] = None /\ \A q \in Plan \ {p} : st[q] = rec.stage[q]
  BY <1>0 DEF st, Recovery
<1> QED
  BY <1>5, <1>6, <1>7 DEF pc, cur

\* What a row policy that is not None asks for.
LEMMA PolicyIs ==
  ASSUME NEW p, Policy(p) # None
  PROVE  \/ Policy(p)[1] = "Reserved" /\ Policy(p)[2] = FALSE
         \/ Policy(p)[1] = "Cancelled" /\ Policy(p)[2] \in BOOLEAN
         \/ /\ Policy(p)[1] = "Expired" /\ Policy(p)[2] = FALSE
            /\ rec.stage[p] = "Reserved" /\ rec.tip > row[p].expiry
<1> DEFINE held == locks_of(p) # {}
<1>1. CASE rec.stage[p] = "Planned"
  BY <1>1 DEF Policy
<1>2. CASE rec.stage[p] = "Reserved"
  BY <1>2 DEF Policy
<1>3. CASE rec.stage[p] \in {"Proving", "Proven"}
  BY <1>3 DEF Policy
<1>4. CASE rec.stage[p] \in {"Signing", "Signed", "Extracted", "Verified"}
  BY <1>4 DEF Policy
<1> QED
  BY <1>1, <1>2, <1>3, <1>4 DEF Policy

\* Recovery's steps keep the types.
LEMMA RecoverStepType ==
  ASSUME WalletTypeOK, RecoveryOK, RecoverStep
  PROVE  WalletTypeOK'
<1>0. /\ run \in [Plan -> Run] /\ tip \in Tip
      /\ past \in [peak : 0..MaxHeight, deep : BOOLEAN]
      /\ net \in [Plan -> [at : TxPlace, height : 0..MaxHeight]]
      /\ locks \in [Note -> Lock]
      /\ row \in [Plan -> Row \union {None}]
      /\ rec \in Recovery
  BY DEF WalletTypeOK
<1>n. NoRecovery \in Recovery
  BY WalletBoundsAssumption DEF NoRecovery, Recovery, RecPc
<1>s. ASSUME NEW P \in SUBSET non_terminal_rows
      PROVE  P \in SUBSET Plan /\ StagesOf(P) \in [Plan -> JournalStage \union {None}]
  BY <1>0 DEF non_terminal_rows, StagesOf, Row
<1>1. CASE RecoverLocks
  <2> DEFINE held == [n \in Note |-> IF \E p \in Plan : n \in HeldBy(p)
                                     THEN locks[n].owner ELSE None]
  <2>1. held \in [Note -> Plan \union {None}]
    BY <1>0 DEF Lock
  <2>2. rec' = [NoRecovery EXCEPT !.pc = "locks", !.tip = tip.h, !.held = held]
    BY <1>1 DEF RecoverLocks
  <2> HIDE DEF held
  <2>3. tip.h \in 0..MaxHeight
    BY <1>0 DEF Tip
  <2>4. rec' \in Recovery
    BY <1>n, <2>1, <2>2, <2>3 DEF Recovery, RecPc
  <2> QED
    BY <1>0, <1>1, <2>4 DEF RecoverLocks, WalletTypeOK
<1>2. CASE RecoverRows
  <2>1. rec' \in Recovery
    BY <1>0, <1>2, <1>s DEF RecoverRows, Recovery, RecPc
  <2> QED
    BY <1>0, <1>2, <2>1 DEF RecoverRows, WalletTypeOK
<1>3. ASSUME NEW p \in Plan, RecoverRow(p)
      PROVE  WalletTypeOK'
  <2>1. CASE Policy(p) = None /\ rec' = Onward(p, FALSE, "policy") /\ UNCHANGED row
    <3>1. rec' \in Recovery
      BY <2>1, OnwardIs DEF RecPc
    <3> QED
      BY <1>0, <1>3, <2>1, <3>1 DEF RecoverRow, WalletTypeOK
  <2>2. CASE /\ Policy(p) # None
             /\ transition(p, Policy(p)[1])
             /\ rec' = Onward(p, Policy(p)[2], "policy")
    <3>1. Policy(p)[1] \in JournalStage /\ Policy(p)[2] \in BOOLEAN
      BY <2>2, PolicyIs DEF JournalStage, Terminal
    <3>2. row' \in [Plan -> Row \union {None}]
      BY <2>2, <3>1, TransitionType
    <3>3. rec' \in Recovery
      BY <2>2, <3>1, OnwardIs DEF RecPc
    <3> QED
      BY <1>0, <1>3, <3>2, <3>3 DEF RecoverRow, WalletTypeOK
  <2> QED
    BY <1>3, <2>1, <2>2 DEF RecoverRow
<1>4. ASSUME NEW p \in Plan, ReconcileQuery(p)
      PROVE  WalletTypeOK'
  <2>1. tx_status(p) \in {"mined", "mempool", "absent"}
    BY DEF tx_status
  <2>2. CASE rec' = [rec EXCEPT !.pc = "apply", !.cur = p, !.seen = tx_status(p)]
    BY <1>0, <1>4, <2>1, <2>2 DEF ReconcileQuery, WalletTypeOK, Recovery, RecPc
  <2>3. CASE rec' = Onward(p, FALSE, "status")
    <3>1. rec' \in Recovery
      BY <2>3, OnwardIs DEF RecPc
    <3> QED
      BY <1>0, <1>4, <3>1 DEF ReconcileQuery, WalletTypeOK
  <2> QED
    BY <1>4, <2>2, <2>3 DEF ReconcileQuery
<1>5. CASE RecoverRelease
  <2>1. [owner |-> None, until |-> 0] \in Lock
    BY WalletBoundsAssumption DEF Lock
  <2>2. locks' \in [Note -> Lock]
    BY <1>0, <1>5, <2>1 DEF RecoverRelease, Released
  <2>3. rec' \in Recovery
    BY <1>0, <1>5 DEF RecoverRelease, Recovery, RecPc
  <2> QED
    BY <1>0, <1>5, <2>2, <2>3 DEF RecoverRelease, WalletTypeOK
<1>6. CASE ReconcileStart
  <2> DEFINE P == {p \in non_terminal_rows : row[p].stage \in BroadcastPhase /\ row[p].txid}
  <2>1. P \in SUBSET Plan /\ StagesOf(P) \in [Plan -> JournalStage \union {None}]
    BY <1>s
  <2>2. rec' = [rec EXCEPT !.pc = "status", !.held = NoRecovery.held, !.todo = P,
                           !.stage = StagesOf(P)]
    BY <1>6 DEF ReconcileStart
  <2> HIDE DEF P
  <2>3. NoRecovery.held \in [Note -> Plan \union {None}]
    BY <1>n DEF Recovery
  <2>4. rec' \in Recovery
    BY <1>0, <2>1, <2>2, <2>3 DEF Recovery, RecPc
  <2> QED
    BY <1>0, <1>6, <2>4 DEF ReconcileStart, WalletTypeOK
<1>7. CASE ReconcileApply
  <2> DEFINE p == rec.cur
             to == Reconciled(p)
             expire == to = "BroadcastUnknown" /\ definitely_expired(p)
  <2>1. p \in Plan
    BY <1>7 DEF ReconcileApply, RecoveryOK
  <2>2. to \in JournalStage \union {None}
    BY DEF Reconciled, JournalStage, BroadcastPhase, Terminal
  <2>3. row' \in [Plan -> Row \union {None}]
    <3>1. CASE to = None
      BY <1>0, <1>7, <3>1 DEF ReconcileApply
    <3>2. CASE to # None
      BY <1>7, <2>1, <2>2, <3>2, TransitionType DEF ReconcileApply
    <3> QED
      BY <3>1, <3>2
  <2>4. rec' \in Recovery
    <3>1. CASE expire
      BY <1>0, <1>7, <3>1 DEF ReconcileApply, Recovery, RecPc
    <3>2. CASE ~expire
      <4>1. rec' = Onward(p, to = "Expired", "status")
        BY <1>7, <3>2 DEF ReconcileApply
      <4>2. (to = "Expired") \in BOOLEAN /\ "status" \in RecPc
        BY DEF RecPc
      <4> HIDE DEF p, to
      <4> QED
        BY <2>1, <4>1, <4>2, OnwardIs
    <3> QED
      BY <3>1, <3>2
  <2> QED
    BY <1>0, <1>7, <2>3, <2>4 DEF ReconcileApply, WalletTypeOK
<1>8. CASE ReconcileExpire
  <2>1. rec.cur \in Plan
    BY <1>8 DEF ReconcileExpire, RecoveryOK
  <2>2. row' \in [Plan -> Row \union {None}]
    BY <1>8, <2>1, TransitionType DEF ReconcileExpire, JournalStage, Terminal
  <2>3. rec' \in Recovery
    BY <1>8, <2>1, OnwardIs DEF ReconcileExpire, RecPc
  <2> QED
    BY <1>0, <1>8, <2>2, <2>3 DEF ReconcileExpire, WalletTypeOK
<1>9. CASE RecoverFinish
  BY <1>0, <1>9, <1>n DEF RecoverFinish, WalletTypeOK
<1>10. CASE RecoverCrash
  BY <1>0, <1>10, <1>n DEF RecoverCrash, WalletTypeOK
<1> QED
  BY <1>1, <1>2, <1>3, <1>4, <1>5, <1>6, <1>7, <1>8, <1>9, <1>10 DEF RecoverStep
----------------------------------------------------------------------------
(* Heights *)

\* The tip is never below Reach by more than the margin, nor by more than the
\* life of a transaction.
LEMMA ReachBound ==
  ASSUME WalletTypeOK, HeightsOK
  PROVE  /\ Reach \in Nat /\ tip.h \in Nat /\ tip.h <= Reach
         /\ past.deep \/ Reach <= tip.h + EXPIRY_ABSENT_MARGIN
         /\ past.deep \/ Reach <= tip.h + TxDelta
<1>1. tip.h \in Nat /\ past.peak \in Nat
  BY WalletBoundsAssumption DEF WalletTypeOK, Tip
<1> QED
  BY <1>1, MarginAssumption, WalletBoundsAssumption DEF HeightsOK, Reach

\* What a step of the node does to a plan: the chain reaches as far as before,
\* and only a transaction that has not expired is mined.
LEMMA NodeEffect ==
  ASSUME WalletTypeOK, HeightsOK, NodeStep
  PROVE  /\ UNCHANGED <<locks, row, run, rec>>
         /\ Reach' >= Reach
         /\ past.deep => past'.deep
         /\ HeightsOK'
         /\ \/ tip' = tip
            \/ tip'.b = tip.b /\ tip'.h = tip.h + 1
            \/ tip'.b = tip.b + 1
         /\ \A q \in Plan :
              /\ net'[q].at = "none" <=> net[q].at = "none"
              /\ net[q].at = "refused" => net'[q].at = "refused"
              /\ net'[q].at = "mined" => net[q].at = "mined" \/ tip.h < run[q].expiry
<1>0. /\ net \in [Plan -> [at : TxPlace, height : 0..MaxHeight]]
      /\ tip \in Tip /\ past \in [peak : 0..MaxHeight, deep : BOOLEAN]
  BY DEF WalletTypeOK
<1>t. /\ tip.h \in Nat /\ tip.b \in Nat /\ past.peak \in Nat /\ past.deep \in BOOLEAN
      /\ EXPIRY_ABSENT_MARGIN \in Nat
  BY <1>0, WalletBoundsAssumption DEF Tip
<1>1. ASSUME NEW p \in Plan, deliver(p) \/ mempool_drop(p) \/ mempool_relay(p)
      PROVE  /\ UNCHANGED <<tip, past, locks, row, run, rec>>
             /\ \A q \in Plan :
                  /\ net'[q].at = "none" <=> net[q].at = "none"
                  /\ net[q].at = "refused" => net'[q].at = "refused"
                  /\ net'[q].at = "mined" => net[q].at = "mined"
  BY <1>0, <1>1 DEF deliver, mempool_drop, mempool_relay
<1>2. CASE mine_block
  <2>1. PICK M \in SUBSET {p \in Plan : Public(p) /\ MinableAt(p, tip.h)} :
          net' = [p \in Plan |-> IF p \in M THEN [at |-> "mined", height |-> tip.h + 1]
                                 ELSE net[p]]
    BY <1>2 DEF mine_block
  <2>2. \A q \in Plan :
              /\ net'[q].at = "none" <=> net[q].at = "none"
              /\ net[q].at = "refused" => net'[q].at = "refused"
              /\ net'[q].at = "mined" => net[q].at = "mined" \/ tip.h < run[q].expiry
    BY <2>1 DEF Public, MinableAt
  <2>3. tip'.b = tip.b /\ tip'.h = tip.h + 1
    BY <1>0, <1>2 DEF mine_block, Tip
  <2>4. /\ past'.peak = IF tip.h + 1 > past.peak THEN tip.h + 1 ELSE past.peak
        /\ past'.deep = past.deep
    BY <1>0, <1>2 DEF mine_block
  <2>5. Reach' >= Reach /\ HeightsOK'
    BY <1>t, <2>3, <2>4 DEF Reach, HeightsOK
  <2> QED
    BY <1>2, <2>2, <2>3, <2>4, <2>5 DEF mine_block
<1>3. ASSUME NEW d \in 1..ReorgDepth, chain_reorg(d)
      PROVE  /\ UNCHANGED <<locks, row, run, rec>>
             /\ Reach' >= Reach
             /\ past.deep => past'.deep
             /\ HeightsOK'
             /\ tip'.b = tip.b + 1
             /\ \A q \in Plan :
                  /\ net'[q].at = "none" <=> net[q].at = "none"
                  /\ net[q].at = "refused" => net'[q].at = "refused"
                  /\ net'[q].at = "mined" => net[q].at = "mined"
  <2>1. tip'.b = tip.b + 1 /\ tip'.h = tip.h - d
    BY <1>3 DEF chain_reorg
  <2>2. /\ past'.peak = past.peak
        /\ past'.deep <=> past.deep \/ past.peak > tip.h - d + EXPIRY_ABSENT_MARGIN
    BY <1>0, <1>3 DEF chain_reorg
  <2>3. d \in Nat /\ d <= tip.h
    BY <1>3, WalletBoundsAssumption DEF chain_reorg
  <2>4. Reach' >= Reach /\ HeightsOK' /\ (past.deep => past'.deep)
    BY <1>t, <2>1, <2>2, <2>3 DEF Reach, HeightsOK
  <2>5. \A q \in Plan :
                  /\ net'[q].at = "none" <=> net[q].at = "none"
                  /\ net[q].at = "refused" => net'[q].at = "refused"
                  /\ net'[q].at = "mined" => net[q].at = "mined"
    BY <1>3 DEF chain_reorg
  <2> QED
    BY <1>3, <2>1, <2>4, <2>5 DEF chain_reorg
<1>4. CASE \E p \in Plan : deliver(p) \/ mempool_drop(p) \/ mempool_relay(p)
  <2>1. UNCHANGED <<tip, past>> /\ Reach' = Reach /\ HeightsOK'
    BY <1>1, <1>4 DEF Reach, HeightsOK
  <2>2. Reach' >= Reach
    BY <1>t, <2>1 DEF Reach
  <2> QED
    BY <1>1, <1>4, <2>1, <2>2
<1> QED
  BY <1>2, <1>3, <1>4 DEF NodeStep

\* Once a transaction is past its expiry for good, no tip can include it.
LEMMA PastExpiryNotMinable ==
  ASSUME WalletTypeOK, HeightsOK, NEW p \in Plan, PastExpiry(p), ~past.deep
  PROVE  tip.h > run[p].expiry
  BY ReachBound, Numbers, WalletBoundsAssumption DEF PastExpiry
----------------------------------------------------------------------------
(* The node *)

LEMMA NodeKeeps ==
  ASSUME WalletInv, NodeStep
  PROVE  WalletInv'
<1>0. WalletTypeOK /\ WalletTypeOK' /\ RecoveryOK /\ HeightsOK
  BY NodeStepType DEF WalletInv, RecoveryOK
<1>e. /\ UNCHANGED <<locks, row, run, rec>> /\ Reach' >= Reach /\ HeightsOK'
      /\ past.deep => past'.deep
  BY <1>0, NodeEffect
<1>r. /\ Reach \in Nat /\ Reach' \in Nat /\ tip.h \in Nat /\ rec.tip \in Nat
      /\ EXPIRY_ABSENT_MARGIN \in Nat
  BY <1>0, WalletBoundsAssumption DEF WalletTypeOK, Tip, Recovery, Reach
<1>1. RecoveryOK'
  BY <1>0, <1>e, <1>r DEF RecoveryOK
<1>2. ASSUME NEW p \in Plan PROVE PlanInv(p)'
  <2>0. PlanInv(p) /\ p \in Plan
    BY DEF WalletInv
  <2>n. /\ run[p].expiry \in Nat /\ run[p].tip.h \in Nat /\ run[p].tip.b \in Nat
        /\ tip.b \in Nat
    BY <1>0, Numbers
  <2>e. /\ net'[p].at = "none" <=> net[p].at = "none"
        /\ net[p].at = "refused" => net'[p].at = "refused"
        /\ net'[p].at = "mined" => net[p].at = "mined" \/ tip.h < run[p].expiry
    BY <1>0, NodeEffect
  <2>t. \/ tip' = tip
        \/ tip'.b = tip.b /\ tip'.h = tip.h + 1
        \/ tip'.b = tip.b + 1
    BY <1>0, NodeEffect
  <2>s. Sent(p)' <=> Sent(p)
    BY <1>e, <2>e DEF Sent
  <2>p. PastExpiry(p) => PastExpiry(p)' /\ (OffChain(p) => OffChain(p)')
    <3>1. ASSUME PastExpiry(p) PROVE PastExpiry(p)'
      BY <1>e, <1>r, <2>n, <3>1 DEF PastExpiry
    <3>2. ASSUME PastExpiry(p), OffChain(p) PROVE OffChain(p)'
      <4>1. CASE past.deep
        BY <1>e, <4>1 DEF OffChain
      <4>2. CASE ~past.deep
        <5>1. tip.h > run[p].expiry
          BY <1>0, <3>2, <4>2, PastExpiryNotMinable
        <5> QED
          BY <1>r, <2>e, <2>n, <3>2, <4>2, <5>1 DEF OffChain
      <4> QED
        BY <4>1, <4>2
    <3> QED
      BY <3>1, <3>2
  <2>1. RowOfRun(p)' /\ RunBegins(p)'
    BY <1>e, <2>0 DEF PlanInv, RowOfRun, RunBegins
  <2>2. SentByRun(p)'
    BY <1>e, <2>0, <2>e, <2>s DEF PlanInv, SentByRun
  <2>3. TipSeen(p)' /\ (run[p].pc \in Working /\ run[p].tip = tip' => tip' = tip)
    BY <1>e, <1>r, <2>0, <2>n, <2>t DEF PlanInv, TipSeen
  <2>4. FailedStages(p)'
    BY <1>e, <2>0, <2>e, <2>s, <2>p DEF PlanInv, FailedStages
  <2>5. RecoveryReads(p)'
    <3>0. definitely_expired(p)' = definitely_expired(p)
      BY <1>e DEF definitely_expired
    <3>1. ASSUME row[p] # None, definitely_expired(p) PROVE PastExpiry(p)
      BY <1>0, <1>r, <2>0, <2>n, <3>1, WalletBoundsAssumption
         DEF PlanInv, RowOfRun, definitely_expired, PastExpiry, RecoveryOK
    <3>2. row[p] = None => net[p].at = "none"
      BY <2>0 DEF PlanInv, SentByRun, Sent
    <3>3. definitely_expired(p) /\ OffChain(p) => OffChain(p)'
      BY <2>e, <2>p, <3>1, <3>2 DEF OffChain
    <3> QED
      BY <1>e, <2>0, <2>s, <2>3, <3>0, <3>3 DEF PlanInv, RecoveryReads
  <2>6. NotesLocked(p)'
    BY <1>e, <2>0, <2>p DEF PlanInv, NotesLocked
  <2> QED
    BY <2>1, <2>2, <2>3, <2>4, <2>5, <2>6 DEF PlanInv
<1> QED
  BY <1>0, <1>1, <1>2 DEF WalletInv
----------------------------------------------------------------------------
(* Runs *)

\* A step of another plan's run leaves a plan alone, except for its locks.
LEMMA OthersKeep ==
  ASSUME NEW q \in Plan, PlanInv(q), UNCHANGED <<tip, past, rec>>,
         run'[q] = run[q], row'[q] = row[q], net'[q] = net[q], NotesLocked(q)'
  PROVE  PlanInv(q)'
<1>1. RowOfRun(q)' /\ RunBegins(q)' /\ TipSeen(q)'
  BY DEF PlanInv, RowOfRun, RunBegins, TipSeen
<1>2. SentByRun(q)' /\ FailedStages(q)'
  BY DEF PlanInv, SentByRun, FailedStages, Sent, PastExpiry, OffChain, Reach
<1>3. RecoveryReads(q)'
  BY DEF PlanInv, RecoveryReads, Sent, definitely_expired,
         OffChain, Choosing
<1> QED
  BY <1>1, <1>2, <1>3 DEF PlanInv

\* A plan that has no journal row has nothing on the network, and recovery is
\* not acting on it.
LEMMA NoRowNothing ==
  ASSUME NEW p \in Plan, PlanInv(p), row[p] = None
  PROVE  /\ ~Sent(p) /\ net[p].at = "none"
         /\ rec.stage[p] # "Reserved"
         /\ ~(rec.cur = p /\ rec.pc \in {"expire", "release"})
  BY DEF PlanInv, SentByRun, RecoveryReads, Sent

LEMMA build_source_keeps ==
  ASSUME WalletInv, NEW p \in Plan, build_source(p)
  PROVE  PlanInv(p)'
<1>0. /\ run \in [Plan -> Run] /\ PlanInv(p)
  BY DEF WalletInv, WalletTypeOK
<1>1. /\ run'[p].pc = "pinned" /\ run'[p].inputs = run[p].inputs
      /\ UNCHANGED <<tip, past, net, locks, row, rec>>
  BY <1>0 DEF build_source, Run
<1>2. row[p] = None /\ run[p].inputs = {}
  BY <1>0 DEF PlanInv, RowOfRun, RunBegins, BeforeTip, build_source
<1>3. /\ ~Sent(p) /\ net[p].at = "none"
      /\ rec.stage[p] # "Reserved"
      /\ ~(rec.cur = p /\ rec.pc \in {"expire", "release"})
  BY <1>0, <1>2, NoRowNothing
<1> QED
  BY <1>1, <1>2, <1>3 DEF PlanInv, RowOfRun, RunBegins, SentByRun, TipSeen, FailedStages,
                          RecoveryReads, NotesLocked, Sent, BeforeTip, Working, AfterRpc,
         OffChain, Choosing, PastExpiry, Reach

LEMMA fund_context_keeps ==
  ASSUME WalletInv, NEW p \in Plan, fund_context(p)
  PROVE  PlanInv(p)'
<1>0. /\ run \in [Plan -> Run] /\ PlanInv(p) /\ RecoveryOK /\ WalletTypeOK
  BY DEF WalletInv, WalletTypeOK
<1>1. /\ run'[p].pc = "selecting" /\ run'[p].inputs = run[p].inputs
      /\ run'[p].tip = tip /\ run'[p].expiry = tip.h + TxDelta /\ run'[p].pin = run[p].pin
      /\ UNCHANGED <<tip, past, net, locks, row, rec>>
      /\ tip.h <= run[p].pin + PinLag
  BY <1>0 DEF fund_context, Run
<1>2. row[p] = None /\ run[p].inputs = {}
  BY <1>0 DEF PlanInv, RowOfRun, RunBegins, BeforeTip, fund_context
<1>3. /\ ~Sent(p) /\ net[p].at = "none"
      /\ rec.stage[p] # "Reserved"
      /\ ~(rec.cur = p /\ rec.pc \in {"expire", "release"})
  BY <1>0, <1>2, NoRowNothing
<1>4. past.deep \/ ~(rec.tip > run'[p].expiry)
  BY <1>0, <1>1, ReachBound, Numbers, WalletBoundsAssumption DEF RecoveryOK
<1>5. RunBegins(p)' /\ TipSeen(p)'
  BY <1>0, <1>1, Numbers, WalletBoundsAssumption DEF RunBegins, TipSeen, BeforeTip
<1> QED
  BY <1>1, <1>2, <1>3, <1>4, <1>5 DEF PlanInv, RowOfRun, SentByRun, FailedStages,
                          RecoveryReads, NotesLocked, Sent, BeforeTip, Working, AfterRpc,
         OffChain, Choosing, PastExpiry, Reach

LEMMA select_spends_keeps ==
  ASSUME WalletInv, NEW p \in Plan, NEW S \in SUBSET Note, select_spends(p, S)
  PROVE  PlanInv(p)'
<1>0. run \in [Plan -> Run] /\ PlanInv(p)
  BY DEF WalletInv, WalletTypeOK
<1>1. /\ run[p].pc = "selecting" /\ run'[p].pc = "reserving"
      /\ run'[p].tip = run[p].tip /\ run'[p].expiry = run[p].expiry
      /\ run'[p].pin = run[p].pin
      /\ UNCHANGED <<tip, past, net, locks, row, rec>>
  BY <1>0 DEF select_spends, Run
<1>2. row[p] = None
  BY <1>0, <1>1 DEF PlanInv, RowOfRun, Choosing
<1>3. /\ ~Sent(p) /\ net[p].at = "none"
      /\ rec.stage[p] # "Reserved"
      /\ ~(rec.cur = p /\ rec.pc \in {"expire", "release"})
  BY <1>0, <1>2, NoRowNothing
<1>4. RunBegins(p)' /\ TipSeen(p)'
  BY <1>0, <1>1 DEF PlanInv, RunBegins, TipSeen, BeforeTip, Working, AfterRpc, RunPc, InMemory
<1>5. RecoveryReads(p)'
  BY <1>0, <1>1, <1>2, <1>3 DEF PlanInv, RecoveryReads, BeforeTip, Working, AfterRpc,
                    RunPc, InMemory, Sent, OffChain
<1> QED
  BY <1>1, <1>2, <1>3, <1>4, <1>5
     DEF PlanInv, RowOfRun, SentByRun, FailedStages, NotesLocked, Sent

\* A reservation locks what was chosen beyond the expiry, and takes from another
\* plan only what that plan's lapsed locks no longer cover.
LEMMA lock_outputs_keeps ==
  ASSUME WalletInv, NEW p \in Plan, lock_outputs(p)
  PROVE  \A q \in Plan : PlanInv(q)'
<1>0. /\ run \in [Plan -> Run] /\ PlanInv(p) /\ RecoveryOK /\ HeightsOK /\ WalletTypeOK
      /\ locks \in [Note -> Lock]
  BY DEF WalletInv, WalletTypeOK, RecoveryOK
<1>1. /\ run[p].pc = "reserving" /\ run'[p].pc \in {"selecting", "planned"}
      /\ run'[p].inputs = run[p].inputs
      /\ run'[p].tip = run[p].tip /\ run'[p].expiry = run[p].expiry
      /\ run'[p].pin = run[p].pin
      /\ \A q \in Plan \ {p} : run'[q] = run[q]
      /\ UNCHANGED <<tip, past, net, row, rec>>
  BY <1>0 DEF lock_outputs, Reserve, Run
<1>2. row[p] = None
  BY <1>0, <1>1 DEF PlanInv, RowOfRun, Choosing
<1>3. /\ ~Sent(p) /\ net[p].at = "none"
      /\ rec.stage[p] # "Reserved"
      /\ ~(rec.cur = p /\ rec.pc \in {"expire", "release"})
  BY <1>0, <1>2, NoRowNothing
<1>i. run[p].inputs \subseteq Note
  BY <1>0 DEF Run
<1>4. NotesLocked(p)'
  <2>1. run[p].pin + LockDelta > run[p].expiry + EXPIRY_ABSENT_MARGIN
    BY <1>0, <1>1, Numbers, MarginAssumption, WalletBoundsAssumption
       DEF PlanInv, RunBegins
  <2>2. \A n \in run[p].inputs :
          locks'[n].owner = p /\ locks'[n].until = run[p].pin + LockDelta
    BY <1>i DEF lock_outputs, Reserve
  <2> QED
    BY <1>1, <2>1, <2>2 DEF NotesLocked
<1>5. PlanInv(p)'
  <2>1. RunBegins(p)' /\ TipSeen(p)'
    BY <1>0, <1>1 DEF PlanInv, RunBegins, TipSeen, BeforeTip, Working, AfterRpc,
                      RunPc, InMemory
  <2>2. RecoveryReads(p)'
    BY <1>0, <1>1, <1>2, <1>3 DEF PlanInv, RecoveryReads, BeforeTip, Working, AfterRpc,
                      RunPc, InMemory, Sent, OffChain
  <2> QED
    BY <1>1, <1>2, <1>3, <1>4, <2>1, <2>2 DEF PlanInv, RowOfRun, SentByRun, FailedStages, Sent
<1>6. ASSUME NEW q \in Plan \ {p} PROVE PlanInv(q)'
  <2>0. PlanInv(q)
    BY DEF WalletInv
  <2>1. ASSUME run[q].pc = "planned" \/ row[q] # None, NEW n \in run[q].inputs PROVE
          \/ locks'[n].owner = q /\ locks'[n].until > run[q].expiry + EXPIRY_ABSENT_MARGIN
          \/ PastExpiry(q)
          \/ row[q] # None /\ row[q].stage \in {"Cancelled", "Expired"}
    <3>0. n \in Note
      BY <1>0 DEF Run
    <3>1. CASE n \in run[p].inputs
      <4>1. n \notin HeldBy(q)
        BY <3>1 DEF lock_outputs
      <4>2. ASSUME locks[n].owner = q, locks[n].until > run[q].expiry + EXPIRY_ABSENT_MARGIN
            PROVE  PastExpiry(q)
        <5>1. tip.h >= locks[n].until /\ locks[n].until \in Nat
          BY <1>0, <3>0, <4>1, <4>2, Numbers, WalletBoundsAssumption DEF HeldBy, Lock
        <5> QED
          BY <1>0, <4>2, <5>1, ReachBound, Numbers, WalletBoundsAssumption DEF PastExpiry
      <4> QED
        BY <2>0, <2>1, <4>2 DEF PlanInv, NotesLocked
    <3>2. CASE n \notin run[p].inputs
      BY <2>0, <2>1, <3>0, <3>2 DEF PlanInv, NotesLocked, lock_outputs, Reserve
    <3> QED
      BY <3>1, <3>2
  <2>2. NotesLocked(q)'
    BY <1>1, <2>1 DEF NotesLocked, PastExpiry, Reach
  <2> QED
    BY <1>1, <2>0, <2>2, OthersKeep
<1> QED
  BY <1>5, <1>6

LEMMA create_plan_keeps ==
  ASSUME WalletInv, NEW p \in Plan, create_plan(p)
  PROVE  PlanInv(p)'
<1>0. /\ run \in [Plan -> Run] /\ PlanInv(p) /\ WalletTypeOK /\ row \in [Plan -> Row \union {None}]
  BY DEF WalletInv, WalletTypeOK
<1>1. /\ run'[p] = [run[p] EXCEPT !.pc = "Planned"] /\ run'[p].pc = "Planned"
      /\ run'[p].inputs = run[p].inputs /\ run'[p].tip = run[p].tip
      /\ run'[p].expiry = run[p].expiry
      /\ UNCHANGED <<tip, past, net, locks, rec>>
      /\ row[p] = None /\ run[p].pc = "planned"
  BY <1>0 DEF create_plan, Run
<1>2. /\ row'[p].stage = "Planned" /\ row'[p].inputs = run[p].inputs
      /\ row'[p].expiry = run[p].expiry /\ row'[p] \in Row
  BY <1>0 DEF create_plan, Run, Row, JournalStage
<1>3. row'[p] # None
  BY <1>2, RowNoneAssumption
<1>4. /\ ~Sent(p) /\ net[p].at = "none"
      /\ rec.stage[p] # "Reserved"
      /\ ~(rec.cur = p /\ rec.pc \in {"expire", "release"})
  BY <1>0, <1>1, NoRowNothing
<1>5. RowOfRun(p)' /\ RunBegins(p)' /\ SentByRun(p)' /\ FailedStages(p)'
  BY <1>1, <1>2, <1>3, <1>4 DEF RowOfRun, RunBegins, SentByRun, FailedStages, Sent, BeforeTip, Choosing
<1>6. TipSeen(p)' /\ RecoveryReads(p)'
  BY <1>0, <1>1, <1>2, <1>3, <1>4
     DEF PlanInv, TipSeen, RecoveryReads, Working, BeforeTip, AfterRpc, RunPc, InMemory, Sent,
         OffChain, Choosing
<1>7. NotesLocked(p)'
  BY <1>0, <1>1 DEF PlanInv, NotesLocked, PastExpiry, Reach
<1> QED
  BY <1>5, <1>6, <1>7 DEF PlanInv

LEMMA authorize_keeps ==
  ASSUME WalletInv, NEW p \in Plan, authorize(p)
  PROVE  PlanInv(p)'
<1>0. /\ run \in [Plan -> Run] /\ PlanInv(p)
  BY DEF WalletInv, WalletTypeOK
<1>1. /\ run[p].pc \in Working \ Choosing
      /\ run'[p].pc \in Working \ Choosing
      /\ run'[p].inputs = run[p].inputs /\ run'[p].tip = run[p].tip
      /\ run'[p].expiry = run[p].expiry
      /\ UNCHANGED <<tip, past, net, locks, row, rec>>
  BY <1>0 DEF authorize, AuthorizationSteps, Run, Working, RunPc, InMemory, JournalStage,
              BeforeTip, AfterRpc, Choosing
<1>2. Sent(p)' <=> Sent(p)
  BY <1>1 DEF Sent, Working
<1>3. RowOfRun(p)' /\ RunBegins(p)' /\ FailedStages(p)' /\ TipSeen(p)'
  BY <1>0, <1>1, <1>2 DEF PlanInv, RowOfRun, RunBegins, FailedStages, TipSeen, Working,
                          PastExpiry, Reach,
         OffChain, Choosing
<1>4. SentByRun(p)'
  BY <1>0, <1>1, <1>2 DEF PlanInv, SentByRun, Working
<1>5. RecoveryReads(p)' /\ NotesLocked(p)'
  BY <1>0, <1>1, <1>2 DEF PlanInv, RecoveryReads, NotesLocked, definitely_expired,
                          PastExpiry, Reach,
         OffChain, Choosing
<1> QED
  BY <1>3, <1>4, <1>5 DEF PlanInv

\* What a journal write leaves in a row.
LEMMA TransitionIs ==
  ASSUME WalletTypeOK, NEW p \in Plan, NEW to \in JournalStage, transition(p, to)
  PROVE  /\ row[p] # None /\ row'[p] # None
         /\ row'[p].stage = to
         /\ row'[p].txid = row[p].txid
         /\ row'[p].inputs = row[p].inputs
         /\ row'[p].expiry = row[p].expiry
         /\ can_transition(row[p].stage, to)
         /\ \A q \in Plan \ {p} : row'[q] = row[q]
<1>1. row[p] \in Row
  BY RowIsRecord DEF transition
<1>2. row'[p] = [row[p] EXCEPT !.stage = to]
  BY DEF transition, WalletTypeOK
<1>3. [row[p] EXCEPT !.stage = to] \in Row
  BY <1>1 DEF Row
<1>4. row'[p] # None
  BY <1>2, <1>3, RowNoneAssumption
<1> QED
  BY <1>1, <1>2, <1>4 DEF transition, Row, WalletTypeOK

\* The stages a run journals before its RPC are reached from such stages only.
PreBroadcast == JournalStage \ (BroadcastPhase \union Terminal)

LEMMA OnlyFromPreBroadcast ==
  ASSUME NEW from, NEW to \in PreBroadcast, can_transition(from, to)
  PROVE  from \in PreBroadcast
  BY DEF can_transition, AllowedSteps, PreBroadcast, JournalStage, BroadcastPhase, Terminal

LEMMA journal_stage_keeps ==
  ASSUME WalletInv, NEW p \in Plan, journal_stage(p)
  PROVE  PlanInv(p)'
<1>0. /\ run \in [Plan -> Run] /\ PlanInv(p) /\ WalletTypeOK
  BY DEF WalletInv, WalletTypeOK
<1>1. PICK s \in JournaledSteps :
        /\ run[p].pc = s[1] /\ transition(p, s[2])
        /\ run' = [run EXCEPT ![p].pc = s[2]]
        /\ UNCHANGED <<tip, past, net, locks, rec>>
  BY DEF journal_stage
<1>2. s[2] \in PreBroadcast /\ s[1] \in Working /\ s[2] \in Working \ Choosing
      /\ s[2] \in JournalStage
  BY DEF JournaledSteps, Working, RunPc, InMemory, JournalStage, BeforeTip, AfterRpc,
         Choosing, PreBroadcast, BroadcastPhase, Terminal
<1>3. /\ run'[p].pc = s[2]
      /\ run'[p].inputs = run[p].inputs /\ run'[p].tip = run[p].tip
      /\ run'[p].expiry = run[p].expiry
  BY <1>0, <1>1 DEF Run
<1>4. /\ row[p] # None /\ row'[p] # None /\ row'[p].stage = s[2]
      /\ row'[p].txid = row[p].txid /\ row'[p].inputs = row[p].inputs
      /\ row'[p].expiry = row[p].expiry
      /\ row[p].stage \in PreBroadcast
  BY <1>0, <1>1, <1>2, TransitionIs, OnlyFromPreBroadcast
<1>5. ~Sent(p) /\ ~Sent(p)' /\ net[p].at = "none"
  BY <1>0, <1>1, <1>2, <1>3, <1>4 DEF PlanInv, SentByRun, Sent, PreBroadcast, Working
<1>6. RowOfRun(p)' /\ RunBegins(p)' /\ SentByRun(p)' /\ TipSeen(p)'
  BY <1>0, <1>1, <1>2, <1>3, <1>4, <1>5
     DEF PlanInv, RowOfRun, RunBegins, SentByRun, TipSeen, Working,
         Choosing
<1>7. FailedStages(p)'
  BY <1>2, <1>4, <1>5 DEF FailedStages, PreBroadcast, Terminal
<1>8. RecoveryReads(p)'
  BY <1>0, <1>1, <1>2, <1>3, <1>4, <1>5 DEF PlanInv, RecoveryReads, definitely_expired,
     PreBroadcast, Terminal,
         OffChain, Choosing
<1>9. NotesLocked(p)'
  BY <1>0, <1>1, <1>2, <1>3, <1>4 DEF PlanInv, NotesLocked, PastExpiry, Reach,
     PreBroadcast, Terminal
<1> QED
  BY <1>6, <1>7, <1>8, <1>9 DEF PlanInv

\* The run is fresh when it sends, so a recovery that saw its row Reserved does
\* not take it for expired.
LEMMA broadcast_verified_keeps ==
  ASSUME WalletInv, NEW p \in Plan, broadcast_verified(p)
  PROVE  PlanInv(p)'
<1>0. /\ run \in [Plan -> Run] /\ PlanInv(p) /\ WalletTypeOK /\ row \in [Plan -> Row \union {None}]
  BY DEF WalletInv, WalletTypeOK
<1>1. /\ run[p].pc = "Verified" /\ run[p].tip = tip
      /\ run'[p].pc = "sending"
      /\ run'[p].inputs = run[p].inputs /\ run'[p].tip = run[p].tip
      /\ run'[p].expiry = run[p].expiry
      /\ UNCHANGED <<tip, past, net, locks, rec>>
  BY <1>0 DEF broadcast_verified, check_freshness, Run
<1>2. row[p] # None /\ row[p] \in Row
  BY <1>0, RowIsRecord DEF broadcast_verified
<1>3. row'[p] = [row[p] EXCEPT !.stage = "Broadcasting", !.txid = TRUE]
  BY <1>0 DEF broadcast_verified
<1>4. /\ row'[p].stage = "Broadcasting" /\ row'[p].txid
      /\ row'[p].inputs = row[p].inputs /\ row'[p].expiry = row[p].expiry /\ row'[p] \in Row
  BY <1>2, <1>3 DEF Row, JournalStage, BroadcastPhase
<1>5. row'[p] # None
  BY <1>4, RowNoneAssumption
<1>6. row[p].stage \in {"Verified", "Broadcasting"}
  BY DEF broadcast_verified, can_transition, AllowedSteps
<1>7. net[p].at = "none" /\ "Verified" \in Working
  BY <1>0, <1>1 DEF PlanInv, SentByRun, AfterRpc, Working, RunPc, JournalStage, BeforeTip
<1>8. past.deep \/ ~(rec.tip > run[p].expiry)
  BY <1>0, <1>1, <1>7 DEF PlanInv, RecoveryReads
<1>9. RowOfRun(p)' /\ RunBegins(p)' /\ SentByRun(p)' /\ TipSeen(p)' /\ FailedStages(p)'
  BY <1>0, <1>1, <1>2, <1>4, <1>5, <1>7
     DEF PlanInv, RowOfRun, RunBegins, SentByRun, TipSeen, FailedStages, BeforeTip, Working,
         BroadcastPhase,
         OffChain, Choosing, PastExpiry, Reach
<1>10. RecoveryReads(p)'
  BY <1>0, <1>1, <1>4, <1>5, <1>6, <1>7, <1>8
     DEF PlanInv, RecoveryReads, definitely_expired, Working,
         OffChain, Choosing
<1>11. NotesLocked(p)'
  BY <1>0, <1>1, <1>2, <1>6 DEF PlanInv, NotesLocked, PastExpiry, Reach
<1> QED
  BY <1>9, <1>10, <1>11 DEF PlanInv

LEMMA send_raw_transaction_keeps ==
  ASSUME WalletInv, NEW p \in Plan, send_raw_transaction(p)
  PROVE  PlanInv(p)'
<1>0. /\ run \in [Plan -> Run] /\ PlanInv(p)
      /\ net \in [Plan -> [at : TxPlace, height : 0..MaxHeight]]
  BY DEF WalletInv, WalletTypeOK
<1>1. /\ run[p].pc = "sending" /\ run'[p].pc = "awaiting"
      /\ run'[p].inputs = run[p].inputs /\ run'[p].tip = run[p].tip
      /\ run'[p].expiry = run[p].expiry
      /\ net'[p].at = "wire"
      /\ UNCHANGED <<tip, past, locks, row, rec>>
  BY <1>0 DEF send_raw_transaction, Run
<1>2. Sent(p) /\ net[p].at = "none"
  BY <1>0, <1>1 DEF PlanInv, SentByRun, AfterRpc, Sent
<1>3. RowOfRun(p)' /\ RunBegins(p)' /\ TipSeen(p)' /\ NotesLocked(p)'
  BY <1>0, <1>1 DEF PlanInv, RowOfRun, RunBegins, TipSeen, NotesLocked, PastExpiry, Reach,
     BeforeTip, Working, AfterRpc,
         Choosing
<1>4. SentByRun(p)' /\ FailedStages(p)'
  BY <1>0, <1>1, <1>2 DEF PlanInv, SentByRun, FailedStages, PastExpiry, Reach, AfterRpc,
         OffChain
<1>5. RecoveryReads(p)'
  BY <1>0, <1>1, <1>2 DEF PlanInv, RecoveryReads, definitely_expired, Working, AfterRpc,
         OffChain, Choosing
<1> QED
  BY <1>3, <1>4, <1>5 DEF PlanInv

\* A run that is over keeps the transaction's notes and expiry, and nothing else.
LEMMA EndedIs ==
  ASSUME NEW p
  PROVE  /\ Ended(p).pc = "ended" /\ [Ended(p) EXCEPT !.pc = "reported"].pc = "reported"
         /\ Ended(p).inputs = run[p].inputs /\ Ended(p).expiry = run[p].expiry
         /\ [Ended(p) EXCEPT !.pc = "reported"].inputs = run[p].inputs
         /\ [Ended(p) EXCEPT !.pc = "reported"].expiry = run[p].expiry
  BY DEF Ended, NewRun

\* The class of the answer is the stage, and only a refusal is a Rejected.
LEMMA broadcast_answer_keeps ==
  ASSUME WalletInv, NEW p \in Plan, broadcast_answer(p)
  PROVE  PlanInv(p)'
<1>0. /\ run \in [Plan -> Run] /\ PlanInv(p) /\ WalletTypeOK
  BY DEF WalletInv, WalletTypeOK
<1>1. PICK a \in Answers(p) :
          /\ transition(p, a)
          /\ run' = [run EXCEPT ![p] = IF a = "Rejected" THEN [@ EXCEPT !.pc = "rejected"]
                                       ELSE Ended(p)]
  BY DEF broadcast_answer
<1>2. UNCHANGED <<tip, past, net, locks, rec>> /\ run[p].pc = "awaiting"
  BY DEF broadcast_answer
<1>3. /\ a \in {"BroadcastUnknown", "BroadcastAccepted", "Rejected"}
      /\ a = "Rejected" => net[p].at = "refused"
      /\ a \in JournalStage
  BY DEF Answers, JournalStage, BroadcastPhase, Terminal
<1>4. /\ run'[p].pc \in {"rejected", "ended"}
      /\ run'[p].inputs = run[p].inputs /\ run'[p].expiry = run[p].expiry
  BY <1>0, <1>1, EndedIs DEF Run
<1>5. /\ row[p] # None /\ row'[p] # None /\ row'[p].stage = a
      /\ row'[p].txid = row[p].txid /\ row'[p].inputs = row[p].inputs
      /\ row'[p].expiry = row[p].expiry
      /\ can_transition(row[p].stage, a)
  BY <1>0, <1>1, <1>3, TransitionIs
<1>6. row[p].stage \notin {"Cancelled", "Expired"}
  BY <1>3, <1>5 DEF can_transition, AllowedSteps
<1>7. Sent(p)' <=> Sent(p)
  BY <1>2, <1>4 DEF Sent
<1>8. RowOfRun(p)' /\ RunBegins(p)' /\ TipSeen(p)'
  BY <1>0, <1>4, <1>5 DEF PlanInv, RowOfRun, RunBegins, TipSeen, BeforeTip, Working, AfterRpc,
         Choosing
<1>9. SentByRun(p)' /\ FailedStages(p)'
  BY <1>0, <1>2, <1>3, <1>4, <1>5, <1>7
     DEF PlanInv, SentByRun, FailedStages, AfterRpc, BroadcastPhase, Terminal
<1>10. RecoveryReads(p)'
  BY <1>0, <1>2, <1>4, <1>5, <1>6, <1>7
     DEF PlanInv, RecoveryReads, definitely_expired, Working, AfterRpc,
         OffChain, Choosing
<1>11. NotesLocked(p)'
  BY <1>0, <1>2, <1>4, <1>5, <1>6 DEF PlanInv, NotesLocked, PastExpiry, Reach
<1> QED
  BY <1>8, <1>9, <1>10, <1>11 DEF PlanInv

\* A run may end anywhere.
LEMMA run_over_keeps ==
  ASSUME WalletInv, NEW p \in Plan, release_rejected(p) \/ end_run(p)
  PROVE  PlanInv(p)'
<1>0. /\ run \in [Plan -> Run] /\ PlanInv(p)
  BY DEF WalletInv, WalletTypeOK
<1>1. /\ UNCHANGED <<tip, past, net, locks, row, rec>>
      /\ run'[p].pc \in {"reported", "ended"}
      /\ run'[p].inputs = run[p].inputs /\ run'[p].expiry = run[p].expiry
  BY <1>0, EndedIs DEF release_rejected, end_run
<1>2. Sent(p)' => Sent(p)
  BY <1>1 DEF Sent
<1>3. RowOfRun(p)' /\ RunBegins(p)' /\ TipSeen(p)' /\ SentByRun(p)'
  BY <1>0, <1>1, <1>2
     DEF PlanInv, RowOfRun, RunBegins, TipSeen, SentByRun, BeforeTip, Working, AfterRpc,
         Choosing
<1>4. FailedStages(p)' /\ NotesLocked(p)'
  BY <1>0, <1>1, <1>2 DEF PlanInv, FailedStages, NotesLocked, PastExpiry, Reach,
         OffChain
<1>5. RecoveryReads(p)'
  BY <1>0, <1>1, <1>2 DEF PlanInv, RecoveryReads, definitely_expired, Working, AfterRpc,
         OffChain, Choosing
<1> QED
  BY <1>3, <1>4, <1>5 DEF PlanInv

LEMMA RunKeeps ==
  ASSUME WalletInv, NEW p \in Plan, RunStep(p)
  PROVE  WalletInv'
<1>0. /\ run \in [Plan -> Run] /\ row \in [Plan -> Row \union {None}]
      /\ net \in [Plan -> [at : TxPlace, height : 0..MaxHeight]]
      /\ WalletTypeOK /\ RecoveryOK
  BY DEF WalletInv, WalletTypeOK
<1>1. WalletTypeOK'
  BY <1>0, RunStepType
<1>2. UNCHANGED <<tip, past, rec>>
  BY DEF RunStep, build_source, fund_context, select_spends, lock_outputs, Reserve, create_plan,
         authorize,
         journal_stage, broadcast_verified, send_raw_transaction, broadcast_answer,
         release_rejected, end_run
<1>3. RecoveryOK'
  BY <1>0, <1>2 DEF RecoveryOK, HeightsOK, Reach
<1>4. CASE lock_outputs(p)
  BY <1>1, <1>3, <1>4, lock_outputs_keeps DEF WalletInv
<1>5. CASE ~lock_outputs(p)
  <2>1. PlanInv(p)'
    BY <1>5, build_source_keeps, fund_context_keeps, select_spends_keeps, create_plan_keeps,
       authorize_keeps, journal_stage_keeps, broadcast_verified_keeps,
       send_raw_transaction_keeps, broadcast_answer_keeps, run_over_keeps DEF RunStep
  <2>2. UNCHANGED locks
    BY <1>5 DEF RunStep, build_source, fund_context, select_spends, create_plan, authorize,
         journal_stage, broadcast_verified, send_raw_transaction, broadcast_answer,
         release_rejected, end_run
  <2>3. \A q \in Plan \ {p} : run'[q] = run[q]
    BY <1>0, <1>5 DEF RunStep, build_source, fund_context, select_spends, create_plan,
         authorize, journal_stage, broadcast_verified, send_raw_transaction, broadcast_answer,
         release_rejected, end_run
  <2>4. \A q \in Plan \ {p} : row'[q] = row[q] /\ net'[q] = net[q]
    BY <1>0, <1>5 DEF RunStep, build_source, fund_context, select_spends, create_plan,
         authorize, journal_stage, broadcast_verified, send_raw_transaction, broadcast_answer,
         release_rejected, end_run, transition
  <2>5. ASSUME NEW q \in Plan \ {p} PROVE PlanInv(q)'
    <3>1. PlanInv(q) /\ NotesLocked(q)
      BY DEF WalletInv, PlanInv
    <3>2. NotesLocked(q)'
      BY <1>2, <2>2, <2>3, <2>4, <3>1 DEF NotesLocked, PastExpiry, Reach
    <3> QED
      BY <1>2, <2>3, <2>4, <3>1, <3>2, OthersKeep
  <2> QED
    BY <1>1, <1>3, <2>1, <2>5 DEF WalletInv
<1> QED
  BY <1>4, <1>5
----------------------------------------------------------------------------
(* Recovery *)

\* Recovery's own steps leave a plan alone that they do not touch: what matters
\* of the memory of recovery is the tip, the stage it read and what it acts on.
LEMMA UntouchedKeep ==
  ASSUME NEW q \in Plan, PlanInv(q), UNCHANGED <<tip, past, net, run>>,
         row'[q] = row[q], rec'.tip = rec.tip,
         rec'.stage[q] = "Reserved" => rec.stage[q] = "Reserved",
         ~(rec'.cur = q /\ rec'.pc \in {"apply", "expire", "release"}),
         NotesLocked(q)'
  PROVE  PlanInv(q)'
<1>1. RowOfRun(q)' /\ RunBegins(q)' /\ TipSeen(q)'
  BY DEF PlanInv, RowOfRun, RunBegins, TipSeen
<1>2. SentByRun(q)' /\ FailedStages(q)'
  BY DEF PlanInv, SentByRun, FailedStages, Sent, PastExpiry, OffChain, Reach
<1>3. RecoveryReads(q)'
  BY DEF PlanInv, RecoveryReads, Sent, OffChain
<1> QED
  BY <1>1, <1>2, <1>3 DEF PlanInv

\* A fresh reading of the tip is not past the expiry of a run that is fresh.
LEMMA RecoverLocks_keeps ==
  ASSUME WalletInv, RecoverLocks
  PROVE  RecoveryOK' /\ \A p \in Plan : PlanInv(p)'
<1>0. WalletTypeOK /\ HeightsOK /\ UNCHANGED <<tip, past, net, locks, row, run>>
  BY DEF WalletInv, RecoveryOK, RecoverLocks
<1>1. /\ rec'.pc = "locks" /\ rec'.tip = tip.h /\ rec'.cur = None /\ rec'.then = "idle"
      /\ \A p \in Plan : rec'.stage[p] = None
  BY DEF RecoverLocks, NoRecovery
<1>2. RecoveryOK'
  BY <1>0, <1>1, ReachBound DEF RecoveryOK, HeightsOK, Reach
<1>3. ASSUME NEW p \in Plan PROVE PlanInv(p)'
  <2>0. PlanInv(p)
    BY DEF WalletInv
  <2>1. run[p].pc \in Working /\ tip.h > run[p].expiry => run[p].tip # tip
    BY <1>0, <2>0, Numbers, WalletBoundsAssumption DEF PlanInv, TipSeen
  <2>2. None # "Reserved" /\ None # p
    BY RowNoneAssumption, WalletNoneAssumption DEF JournalStage
  <2>3. RecoveryReads(p)'
    BY <1>0, <1>1, <2>1, <2>2 DEF RecoveryReads
  <2>4. RowOfRun(p)' /\ RunBegins(p)' /\ TipSeen(p)' /\ SentByRun(p)'
    BY <1>0, <2>0 DEF PlanInv, RowOfRun, RunBegins, TipSeen, SentByRun, Sent
  <2>5. FailedStages(p)' /\ NotesLocked(p)'
    BY <1>0, <2>0 DEF PlanInv, FailedStages, NotesLocked, Sent, PastExpiry, OffChain, Reach
  <2> QED
    BY <2>3, <2>4, <2>5 DEF PlanInv
<1> QED
  BY <1>2, <1>3

\* The rows are read after the tip: one that is Reserved now has sent nothing.
LEMMA RecoverRows_keeps ==
  ASSUME WalletInv, RecoverRows
  PROVE  RecoveryOK' /\ \A p \in Plan : PlanInv(p)'
<1>0. /\ UNCHANGED <<tip, past, net, locks, row, run>> /\ rec \in Recovery /\ RecoveryOK
  BY DEF WalletInv, WalletTypeOK, RecoverRows
<1>1. /\ rec'.pc = "policy" /\ rec'.tip = rec.tip /\ rec'.then = rec.then
      /\ rec'.stage = StagesOf(non_terminal_rows)
  BY <1>0 DEF RecoverRows, Recovery
<1>2. RecoveryOK'
  BY <1>0, <1>1 DEF RecoveryOK, HeightsOK, Reach
<1>3. ASSUME NEW p \in Plan PROVE PlanInv(p)'
  <2>0. PlanInv(p)
    BY DEF WalletInv
  <2>1. rec'.stage[p] = "Reserved" => row[p] # None /\ row[p].stage = "Reserved"
    BY <1>1, RowNoneAssumption DEF StagesOf, non_terminal_rows, JournalStage
  <2>2. rec'.stage[p] = "Reserved" => row[p] # None /\ ~Sent(p)
    BY <2>0, <2>1 DEF PlanInv, SentByRun, BroadcastPhase, Terminal
  <2>3. RecoveryReads(p)'
    BY <1>0, <1>1, <2>0, <2>2 DEF PlanInv, RecoveryReads, Sent, OffChain
  <2>4. RowOfRun(p)' /\ RunBegins(p)' /\ TipSeen(p)' /\ SentByRun(p)'
    BY <1>0, <2>0 DEF PlanInv, RowOfRun, RunBegins, TipSeen, SentByRun, Sent
  <2>5. FailedStages(p)' /\ NotesLocked(p)'
    BY <1>0, <2>0 DEF PlanInv, FailedStages, NotesLocked, Sent, PastExpiry, OffChain, Reach
  <2> QED
    BY <2>3, <2>4, <2>5 DEF PlanInv
<1> QED
  BY <1>2, <1>3

\* Onward forgets the row it was at, unless a release is due.
LEMMA OnwardOK ==
  ASSUME WalletTypeOK, RecoveryOK, NEW p \in Plan, NEW release \in BOOLEAN,
         NEW next \in {"policy", "status"}, rec' = Onward(p, release, next), UNCHANGED <<tip, past>>
  PROVE  /\ RecoveryOK'
         /\ rec'.tip = rec.tip
         /\ rec'.stage[p] # "Reserved"
         /\ \A q \in Plan \ {p} : rec'.stage[q] = rec.stage[q]
         /\ rec'.cur = IF release THEN p ELSE None
         /\ rec'.pc = IF release THEN "release" ELSE next
<1>1. next \in RecPc /\ rec \in Recovery
  BY DEF RecPc, WalletTypeOK
<1>2. /\ rec'.tip = rec.tip /\ rec'.stage[p] = None
      /\ \A q \in Plan \ {p} : rec'.stage[q] = rec.stage[q]
      /\ rec'.pc = IF release THEN "release" ELSE next
      /\ rec'.cur = IF release THEN p ELSE None
  BY <1>1, OnwardIs
<1>3. rec'.then = IF release THEN next ELSE "idle"
  BY <1>1 DEF Onward, Recovery
<1>4. RecoveryOK'
  BY <1>2, <1>3 DEF RecoveryOK, HeightsOK, Reach
<1> QED
  BY <1>2, <1>4, RowNoneAssumption DEF JournalStage

\* A row is written by recovery: what has to hold for the written plan.
LEMMA WrittenKeep ==
  ASSUME WalletTypeOK, NEW p \in Plan, NEW to \in JournalStage, PlanInv(p), transition(p, to),
         UNCHANGED <<tip, past, net, locks, run>>,
         rec'.tip = rec.tip, rec'.stage[p] # "Reserved",
         to \in BroadcastPhase \union Terminal \/ ~Sent(p),
         to = "Cancelled" => ~Sent(p),
         to # "Rejected",
         to = "Expired" => ~Sent(p) \/ (OffChain(p) /\ PastExpiry(p)),
         ~(rec'.cur = p /\ rec'.pc = "apply"),
         rec'.cur = p /\ rec'.pc = "expire" => definitely_expired(p) /\ OffChain(p),
         rec'.cur = p /\ rec'.pc = "release" => to \in {"Cancelled", "Expired"},
         row[p].stage \in {"Cancelled", "Expired"} => to \in {"Cancelled", "Expired"}
  PROVE  PlanInv(p)'
<1>1. /\ row[p] # None /\ row'[p] # None /\ row'[p].stage = to
      /\ row'[p].txid = row[p].txid /\ row'[p].inputs = row[p].inputs
      /\ row'[p].expiry = row[p].expiry
  BY TransitionIs
<1>2. Sent(p)' <=> Sent(p)
  BY DEF Sent
<1>3. RowOfRun(p)' /\ RunBegins(p)' /\ TipSeen(p)' /\ SentByRun(p)'
  BY <1>1, <1>2 DEF PlanInv, RowOfRun, RunBegins, TipSeen, SentByRun
<1>4. FailedStages(p)'
  BY <1>1, <1>2 DEF FailedStages, PastExpiry, OffChain, Reach
<1>5. RecoveryReads(p)'
  BY <1>1 DEF PlanInv, RecoveryReads, definitely_expired, OffChain
<1>6. NotesLocked(p)'
  BY <1>1 DEF PlanInv, NotesLocked, PastExpiry, Reach
<1> QED
  BY <1>3, <1>4, <1>5, <1>6 DEF PlanInv

\* The row policy cancels only what has sent nothing, and expires only a plan
\* that was Reserved when the tip was past its expiry.
LEMMA RecoverRow_keeps ==
  ASSUME WalletInv, NEW p \in Plan, RecoverRow(p)
  PROVE  RecoveryOK' /\ \A q \in Plan : PlanInv(q)'
<1>0. /\ UNCHANGED <<tip, past, net, locks, run>> /\ WalletTypeOK /\ RecoveryOK
      /\ PlanInv(p) /\ rec.pc = "policy"
  BY DEF WalletInv, RecoverRow
<1>a. ASSUME NEW release \in BOOLEAN, rec' = Onward(p, release, "policy"),
             \A q \in Plan \ {p} : row'[q] = row[q]
      PROVE  RecoveryOK' /\ \A q \in Plan \ {p} : PlanInv(q)'
  <2>1. /\ RecoveryOK' /\ rec'.tip = rec.tip
        /\ \A q \in Plan \ {p} : rec'.stage[q] = rec.stage[q]
        /\ rec'.cur = IF release THEN p ELSE None
    BY <1>0, <1>a, OnwardOK
  <2>2. ASSUME NEW q \in Plan \ {p} PROVE PlanInv(q)'
    <3>1. PlanInv(q) /\ row'[q] = row[q] /\ rec'.cur # q
      BY <1>a, <2>1, WalletNoneAssumption DEF WalletInv
    <3>2. NotesLocked(q)'
      BY <1>0, <3>1 DEF PlanInv, NotesLocked, PastExpiry, Reach
    <3> QED
      BY <1>0, <2>1, <3>1, <3>2, UntouchedKeep
  <2> QED
    BY <2>1, <2>2
<1>1. CASE Policy(p) = None /\ rec' = Onward(p, FALSE, "policy") /\ UNCHANGED row
  <2>1. /\ rec'.tip = rec.tip /\ rec'.stage[p] # "Reserved" /\ rec'.cur = None
    BY <1>0, <1>1, OnwardOK
  <2>2. NotesLocked(p)'
    BY <1>0, <1>1 DEF PlanInv, NotesLocked, PastExpiry, Reach
  <2>3. PlanInv(p)'
    BY <1>0, <1>1, <2>1, <2>2, UntouchedKeep, WalletNoneAssumption
  <2> QED
    BY <1>1, <1>a, <2>3
<1>2. CASE /\ Policy(p) # None
           /\ transition(p, Policy(p)[1])
           /\ rec' = Onward(p, Policy(p)[2], "policy")
  <2> DEFINE to == Policy(p)[1]
             release == Policy(p)[2]
  <2>1. \/ to = "Reserved" /\ release = FALSE
        \/ to = "Cancelled" /\ release \in BOOLEAN
        \/ /\ to = "Expired" /\ release = FALSE
           /\ rec.stage[p] = "Reserved" /\ rec.tip > row[p].expiry
    BY <1>2, PolicyIs
  <2>2. transition(p, to) /\ rec' = Onward(p, release, "policy")
    BY <1>2
  <2> HIDE DEF to, release
  <2>3. to \in JournalStage /\ release \in BOOLEAN
    BY <2>1 DEF JournalStage, Terminal
  <2>4. /\ row[p] # None /\ can_transition(row[p].stage, to)
        /\ \A q \in Plan \ {p} : row'[q] = row[q]
    BY <1>0, <2>2, <2>3, TransitionIs
  <2>5. /\ rec'.tip = rec.tip /\ rec'.stage[p] # "Reserved"
        /\ rec'.cur = IF release THEN p ELSE None
        /\ rec'.pc = IF release THEN "release" ELSE "policy"
    BY <1>0, <2>2, <2>3, OnwardOK
  <2>6. to \in {"Reserved", "Cancelled"} => ~Sent(p)
    <3>1. to = "Reserved" => row[p].stage \in PreBroadcast
      BY <2>4, OnlyFromPreBroadcast DEF PreBroadcast, JournalStage, BroadcastPhase, Terminal
    <3>2. to = "Cancelled" => row[p].stage \in PreBroadcast \union {"Cancelled"}
      BY <2>4 DEF can_transition, AllowedSteps, PreBroadcast, JournalStage, BroadcastPhase, Terminal
    <3> QED
      BY <1>0, <2>4, <3>1, <3>2 DEF PlanInv, SentByRun, FailedStages, PreBroadcast
  <2>7. to = "Expired" => ~Sent(p) \/ (OffChain(p) /\ PastExpiry(p))
    BY <1>0, <2>1, <2>4 DEF PlanInv, RowOfRun, RecoveryReads, OffChain, PastExpiry
  <2>8. row[p].stage \in {"Cancelled", "Expired"} => to \in {"Cancelled", "Expired"}
    BY <2>1, <2>4 DEF can_transition, AllowedSteps
  <2>9. PlanInv(p)'
    BY <1>0, <2>1, <2>2, <2>3, <2>5, <2>6, <2>7, <2>8, WrittenKeep, WalletNoneAssumption
       DEF Terminal
  <2> QED
    BY <1>a, <2>2, <2>3, <2>4, <2>9
<1> QED
  BY <1>1, <1>2 DEF RecoverRow

\* Only the locks of a plan that is over are released.
LEMMA RecoverRelease_keeps ==
  ASSUME WalletInv, RecoverRelease
  PROVE  RecoveryOK' /\ \A q \in Plan : PlanInv(q)'
<1>0. /\ UNCHANGED <<tip, past, net, row, run>> /\ rec \in Recovery /\ RecoveryOK
      /\ locks' = Released(rec.cur) /\ run \in [Plan -> Run]
  BY DEF WalletInv, WalletTypeOK, RecoverRelease
<1>1. /\ rec'.pc = rec.then /\ rec'.tip = rec.tip /\ rec'.then = "idle" /\ rec'.cur = None
      /\ rec'.stage = rec.stage
  BY <1>0 DEF RecoverRelease, Recovery
<1>2. RecoveryOK'
  BY <1>0, <1>1 DEF RecoveryOK, HeightsOK, Reach
<1>3. ASSUME NEW q \in Plan PROVE PlanInv(q)'
  <2>0. PlanInv(q)
    BY DEF WalletInv
  <2>1. q = rec.cur => row[q] # None /\ row[q].stage \in {"Cancelled", "Expired"}
    BY <2>0 DEF PlanInv, RecoveryReads, RecoverRelease
  <2>2. \A n \in run[q].inputs : q # rec.cur /\ locks[n].owner = q => locks'[n] = locks[n]
    BY <1>0 DEF Released, Run
  <2>3. NotesLocked(q)'
    BY <1>0, <2>0, <2>1, <2>2 DEF PlanInv, NotesLocked, PastExpiry, Reach
  <2> QED
    BY <1>0, <1>1, <2>0, <2>3, UntouchedKeep, WalletNoneAssumption
<1> QED
  BY <1>2, <1>3

LEMMA ReconcileStart_keeps ==
  ASSUME WalletInv, ReconcileStart
  PROVE  RecoveryOK' /\ \A q \in Plan : PlanInv(q)'
<1> DEFINE P == {p \in non_terminal_rows : row[p].stage \in BroadcastPhase /\ row[p].txid}
<1>0. /\ UNCHANGED <<tip, past, net, locks, row, run>> /\ rec \in Recovery /\ RecoveryOK
  BY DEF WalletInv, WalletTypeOK, ReconcileStart
<1>1. /\ rec'.pc = "status" /\ rec'.tip = rec.tip /\ rec'.then = rec.then
      /\ rec'.stage = StagesOf(P)
  BY <1>0 DEF ReconcileStart, Recovery
<1>2. RecoveryOK'
  BY <1>0, <1>1 DEF RecoveryOK, HeightsOK, Reach
<1>3. ASSUME NEW q \in Plan PROVE PlanInv(q)'
  <2>0. PlanInv(q)
    BY DEF WalletInv
  <2>1. rec'.stage[q] # "Reserved"
    BY <1>1, RowNoneAssumption DEF StagesOf, BroadcastPhase, JournalStage
  <2>2. NotesLocked(q)'
    BY <1>0, <2>0 DEF PlanInv, NotesLocked, PastExpiry, Reach
  <2> QED
    BY <1>0, <1>1, <2>0, <2>1, <2>2, UntouchedKeep
<1> QED
  BY <1>2, <1>3

\* A transaction that is seen absent is not mined.
LEMMA ReconcileQuery_keeps ==
  ASSUME WalletInv, NEW p \in Plan, ReconcileQuery(p)
  PROVE  RecoveryOK' /\ \A q \in Plan : PlanInv(q)'
<1>0. /\ UNCHANGED <<tip, past, net, locks, row, run>> /\ rec \in Recovery /\ RecoveryOK
      /\ WalletTypeOK /\ PlanInv(p)
  BY DEF WalletInv, WalletTypeOK, ReconcileQuery
<1>l. ASSUME NEW q \in Plan PROVE NotesLocked(q)'
  <2>1. NotesLocked(q)
    BY DEF WalletInv, PlanInv
  <2> QED
    BY <1>0, <2>1 DEF NotesLocked, PastExpiry, Reach
<1>1. CASE rec' = [rec EXCEPT !.pc = "apply", !.cur = p, !.seen = tx_status(p)]
  <2>1. /\ rec'.pc = "apply" /\ rec'.cur = p /\ rec'.seen = tx_status(p)
        /\ rec'.tip = rec.tip /\ rec'.stage = rec.stage /\ rec'.then = rec.then
    BY <1>0, <1>1 DEF Recovery
  <2>2. RecoveryOK'
    BY <1>0, <2>1 DEF RecoveryOK, HeightsOK, Reach
  <2>3. rec'.seen = "absent" => OffChain(p)
    BY <2>1 DEF tx_status, OffChain
  <2>4. PlanInv(p)'
    <3>1. RowOfRun(p)' /\ RunBegins(p)' /\ TipSeen(p)'
      BY <1>0 DEF PlanInv, RowOfRun, RunBegins, TipSeen
    <3>2. SentByRun(p)' /\ FailedStages(p)'
      BY <1>0 DEF PlanInv, SentByRun, FailedStages, Sent, PastExpiry, OffChain, Reach
    <3>3. RecoveryReads(p)'
      BY <1>0, <2>1, <2>3 DEF PlanInv, RecoveryReads, Sent, OffChain
    <3> QED
      BY <1>l, <3>1, <3>2, <3>3 DEF PlanInv
  <2>5. ASSUME NEW q \in Plan \ {p} PROVE PlanInv(q)'
    <3>1. PlanInv(q)
      BY DEF WalletInv
    <3> QED
      BY <1>0, <1>l, <2>1, <3>1, UntouchedKeep
  <2> QED
    BY <2>2, <2>4, <2>5
<1>2. CASE rec' = Onward(p, FALSE, "status")
  <2>1. /\ RecoveryOK' /\ rec'.tip = rec.tip /\ rec'.stage[p] # "Reserved" /\ rec'.cur = None
        /\ \A q \in Plan \ {p} : rec'.stage[q] = rec.stage[q]
    BY <1>0, <1>2, OnwardOK
  <2>2. ASSUME NEW q \in Plan PROVE PlanInv(q)'
    <3>1. PlanInv(q)
      BY DEF WalletInv
    <3> QED
      BY <1>0, <1>l, <2>1, <3>1, UntouchedKeep, WalletNoneAssumption
  <2> QED
    BY <2>1, <2>2
<1> QED
  BY <1>1, <1>2 DEF ReconcileQuery

\* A row that recovery takes for expired has a transaction no tip can include.
LEMMA ExpiredForGood ==
  ASSUME WalletTypeOK, RecoveryOK, NEW p \in Plan, PlanInv(p), row[p] # None,
         definitely_expired(p)
  PROVE  PastExpiry(p)
  BY ReachBound, Numbers, WalletBoundsAssumption
     DEF PlanInv, RowOfRun, definitely_expired, PastExpiry, RecoveryOK

LEMMA ReconcileApply_keeps ==
  ASSUME WalletInv, ReconcileApply
  PROVE  RecoveryOK' /\ \A q \in Plan : PlanInv(q)'
<1>0. /\ UNCHANGED <<tip, past, net, locks, run>> /\ rec \in Recovery /\ RecoveryOK
      /\ WalletTypeOK /\ rec.pc = "apply"
  BY DEF WalletInv, WalletTypeOK, ReconcileApply
<1>p. PICK p \in Plan : p = rec.cur /\ PlanInv(p)
  BY <1>0 DEF RecoveryOK, WalletInv
<1>t. PICK to : to = Reconciled(p)
  OBVIOUS
<1>x. PICK expire \in BOOLEAN : expire <=> to = "BroadcastUnknown" /\ definitely_expired(p)
  OBVIOUS
<1>1. /\ to \in {None, "Mined", "BroadcastAccepted", "BroadcastUnknown", "Expired"}
      /\ to = "Expired" => rec.seen = "absent" /\ definitely_expired(p)
      /\ to = "BroadcastUnknown" => rec.seen = "absent" /\ rec.stage[p] = "Broadcasting"
  BY <1>t, RowNoneAssumption DEF Reconciled, JournalStage, Terminal, BroadcastPhase
<1>2. IF to = None THEN UNCHANGED row ELSE transition(p, to)
  BY <1>p, <1>t DEF ReconcileApply
<1>3. rec' = IF expire THEN [rec EXCEPT !.pc = "expire", !.seen = None]
             ELSE Onward(p, to = "Expired", "status")
  BY <1>p, <1>t, <1>x DEF ReconcileApply
<1>n. to # None => row[p] # None /\ \A q \in Plan \ {p} : row'[q] = row[q]
  <2>1. to # None => to \in JournalStage
    BY <1>1 DEF JournalStage, BroadcastPhase, Terminal
  <2> QED
    BY <1>0, <1>2, <1>p, <2>1, TransitionIs
<1>c. (to = "Expired") \in BOOLEAN
  OBVIOUS
<1>4. /\ RecoveryOK' /\ rec'.tip = rec.tip /\ rec'.stage[p] # "Reserved"
      /\ \A q \in Plan \ {p} : rec'.stage[q] = rec.stage[q] /\ rec'.cur # q
      /\ rec'.pc # "apply"
      /\ rec'.pc = "expire" => expire
      /\ rec'.cur = p /\ rec'.pc = "release" => to = "Expired"
  <2>1. CASE expire
    <3>1. /\ rec'.pc = "expire" /\ rec'.tip = rec.tip /\ rec'.stage = rec.stage
          /\ rec'.cur = p /\ rec'.then = rec.then
      BY <1>0, <1>3, <1>p, <2>1 DEF Recovery
    <3> QED
      BY <1>0, <1>1, <1>p, <1>x, <2>1, <3>1 DEF RecoveryOK, HeightsOK, Reach
  <2>2. CASE ~expire
    <3>1. rec' = Onward(p, to = "Expired", "status")
      BY <1>3, <2>2
    <3>2. /\ RecoveryOK' /\ rec'.tip = rec.tip /\ rec'.stage[p] # "Reserved"
          /\ \A q \in Plan \ {p} : rec'.stage[q] = rec.stage[q]
          /\ rec'.cur = IF to = "Expired" THEN p ELSE None
          /\ rec'.pc = IF to = "Expired" THEN "release" ELSE "status"
      BY <1>0, <1>c, <1>p, <3>1, OnwardOK
    <3> QED
      BY <3>2, WalletNoneAssumption
  <2> QED
    BY <2>1, <2>2
<1>5. ASSUME NEW q \in Plan \ {p} PROVE PlanInv(q)'
  <2>1. PlanInv(q) /\ row'[q] = row[q]
    BY <1>2, <1>n DEF WalletInv
  <2>2. NotesLocked(q)'
    BY <1>0, <2>1 DEF PlanInv, NotesLocked, PastExpiry, Reach
  <2> QED
    BY <1>0, <1>4, <2>1, <2>2, UntouchedKeep
<1>6. PlanInv(p)'
  <2>1. CASE to = None
    <3>1. UNCHANGED row /\ ~expire
      BY <1>2, <1>x, <2>1, RowNoneAssumption DEF JournalStage, BroadcastPhase
    <3>2. NotesLocked(p)'
      BY <1>0, <1>p, <3>1 DEF PlanInv, NotesLocked, PastExpiry, Reach
    <3>3. rec'.cur # p \/ rec'.pc \notin {"apply", "expire", "release"}
      BY <1>4, <2>1, <3>1, RowNoneAssumption DEF JournalStage, Terminal
    <3> QED
      BY <1>0, <1>p, <1>4, <3>1, <3>2, <3>3, UntouchedKeep
  <2>2. CASE to # None
    <3>1. /\ to \in JournalStage /\ transition(p, to)
          /\ to \in BroadcastPhase \union Terminal
          /\ to \notin {"Cancelled", "Rejected"}
      BY <1>1, <1>2, <2>2 DEF JournalStage, BroadcastPhase, Terminal
    <3>2. row[p] # None
      BY <1>n, <2>2
    <3>3. can_transition(row[p].stage, to)
      BY <3>1 DEF transition
    <3>4. row[p].stage \in {"Cancelled", "Expired"} => to \in {"Cancelled", "Expired"}
      BY <1>1, <2>2, <3>3 DEF can_transition, AllowedSteps
    <3>5. to = "Expired" \/ expire => definitely_expired(p) /\ OffChain(p)
      BY <1>0, <1>1, <1>p, <1>x DEF PlanInv, RecoveryReads
    <3>6. to = "Expired" => PastExpiry(p)
      BY <1>0, <1>p, <3>2, <3>5, ExpiredForGood
    <3> QED
      BY <1>0, <1>p, <1>4, <3>1, <3>4, <3>5, <3>6, WrittenKeep
  <2> QED
    BY <2>1, <2>2
<1> QED
  BY <1>4, <1>5, <1>6

LEMMA ReconcileExpire_keeps ==
  ASSUME WalletInv, ReconcileExpire
  PROVE  RecoveryOK' /\ \A q \in Plan : PlanInv(q)'
<1>0. /\ UNCHANGED <<tip, past, net, locks, run>> /\ RecoveryOK
      /\ WalletTypeOK /\ rec.pc = "expire" /\ "Expired" \in JournalStage
  BY DEF WalletInv, WalletTypeOK, ReconcileExpire, JournalStage, Terminal
<1>p. PICK p \in Plan : p = rec.cur /\ PlanInv(p)
  BY <1>0 DEF RecoveryOK, WalletInv
<1>1. transition(p, "Expired") /\ rec' = Onward(p, TRUE, "status")
  BY <1>p DEF ReconcileExpire
<1>2. row[p] # None /\ definitely_expired(p) /\ OffChain(p)
  BY <1>0, <1>p DEF PlanInv, RecoveryReads
<1>3. PastExpiry(p)
  BY <1>0, <1>p, <1>2, ExpiredForGood
<1>4. /\ RecoveryOK' /\ rec'.tip = rec.tip /\ rec'.stage[p] # "Reserved"
      /\ \A q \in Plan \ {p} : rec'.stage[q] = rec.stage[q]
      /\ rec'.cur = p /\ rec'.pc = "release"
  BY <1>0, <1>p, <1>1, OnwardOK
<1>5. \A q \in Plan \ {p} : row'[q] = row[q]
  BY <1>0, <1>p, <1>1, TransitionIs
<1>6. ASSUME NEW q \in Plan \ {p} PROVE PlanInv(q)'
  <2>1. PlanInv(q) /\ row'[q] = row[q]
    BY <1>5 DEF WalletInv
  <2>2. NotesLocked(q)'
    BY <1>0, <2>1 DEF PlanInv, NotesLocked, PastExpiry, Reach
  <2> QED
    BY <1>0, <1>4, <2>1, <2>2, UntouchedKeep
<1>7. PlanInv(p)'
  BY <1>0, <1>p, <1>1, <1>2, <1>3, <1>4, WrittenKeep DEF Terminal
<1> QED
  BY <1>4, <1>6, <1>7

\* A pass that is over, or has crashed, remembers nothing.
LEMMA RecoveryOver_keeps ==
  ASSUME WalletInv, RecoverFinish \/ RecoverCrash
  PROVE  RecoveryOK' /\ \A q \in Plan : PlanInv(q)'
<1>0. /\ UNCHANGED <<tip, past, net, locks, row, run>> /\ WalletTypeOK /\ HeightsOK
      /\ rec' = NoRecovery
  BY DEF WalletInv, RecoveryOK, RecoverFinish, RecoverCrash
<1>1. /\ rec'.pc = "idle" /\ rec'.tip = 0 /\ rec'.then = "idle" /\ rec'.cur = None
      /\ \A p \in Plan : rec'.stage[p] = None
  BY <1>0 DEF NoRecovery
<1>2. RecoveryOK'
  BY <1>0, <1>1, ReachBound DEF RecoveryOK, HeightsOK, Reach
<1>3. ASSUME NEW p \in Plan PROVE PlanInv(p)'
  <2>0. PlanInv(p)
    BY DEF WalletInv
  <2>1. ~(0 > run[p].expiry) /\ None # "Reserved" /\ None # p
    BY <1>0, Numbers, RowNoneAssumption, WalletNoneAssumption DEF JournalStage
  <2>2. RecoveryReads(p)'
    BY <1>0, <1>1, <2>1 DEF RecoveryReads
  <2>3. RowOfRun(p)' /\ RunBegins(p)' /\ TipSeen(p)' /\ SentByRun(p)'
    BY <1>0, <2>0 DEF PlanInv, RowOfRun, RunBegins, TipSeen, SentByRun, Sent
  <2>4. FailedStages(p)' /\ NotesLocked(p)'
    BY <1>0, <2>0 DEF PlanInv, FailedStages, NotesLocked, Sent, PastExpiry, OffChain, Reach
  <2> QED
    BY <2>2, <2>3, <2>4 DEF PlanInv
<1> QED
  BY <1>2, <1>3

LEMMA RecoverKeeps ==
  ASSUME WalletInv, RecoverStep
  PROVE  WalletInv'
<1>1. WalletTypeOK'
  BY RecoverStepType DEF WalletInv
<1>2. RecoveryOK' /\ \A q \in Plan : PlanInv(q)'
  BY RecoverLocks_keeps, RecoverRows_keeps, RecoverRow_keeps, RecoverRelease_keeps,
     ReconcileStart_keeps, ReconcileQuery_keeps, ReconcileApply_keeps, ReconcileExpire_keeps,
     RecoveryOver_keeps DEF RecoverStep
<1> QED
  BY <1>1, <1>2 DEF WalletInv
----------------------------------------------------------------------------
(* The theorems *)

LEMMA WalletInitInv == WalletInit => WalletInv
<1> SUFFICES ASSUME WalletInit PROVE WalletInv
  OBVIOUS
<1>1. WalletTypeOK
  BY WalletInitType
<1>h. HeightsOK /\ Reach = 0
  BY WalletBoundsAssumption DEF WalletInit, HeightsOK, Reach
<1>2. /\ rec.tip = 0 /\ rec.pc = "idle" /\ rec.then = "idle" /\ rec.cur = None
      /\ \A p \in Plan : rec.stage[p] = None
  BY DEF WalletInit, NoRecovery
<1>3. RecoveryOK
  BY <1>h, <1>2 DEF RecoveryOK
<1>4. ASSUME NEW p \in Plan PROVE PlanInv(p)
  <2>1. /\ row[p] = None /\ net[p].at = "none" /\ run[p].pc = "idle"
        /\ run[p].inputs = {} /\ run[p].expiry = 0
    BY DEF WalletInit, NewRun
  <2>2. None # "Reserved" /\ None # p
    BY RowNoneAssumption, WalletNoneAssumption DEF JournalStage
  <2>3. RowOfRun(p) /\ RunBegins(p) /\ SentByRun(p) /\ TipSeen(p) /\ FailedStages(p)
    BY <2>1 DEF RowOfRun, RunBegins, SentByRun, TipSeen, FailedStages, Sent, Working, BeforeTip,
                Choosing
  <2>4. RecoveryReads(p) /\ NotesLocked(p)
    BY <1>2, <2>1, <2>2 DEF RecoveryReads, NotesLocked, Working, BeforeTip
  <2> QED
    BY <2>3, <2>4 DEF PlanInv
<1> QED
  BY <1>1, <1>3, <1>4 DEF WalletInv

LEMMA WalletStutter ==
  ASSUME WalletInv, UNCHANGED walletVars
  PROVE  WalletInv'
<1>0. UNCHANGED <<tip, past, net, locks, row, run, rec>>
  BY DEF walletVars
<1>1. WalletTypeOK' /\ RecoveryOK'
  BY <1>0 DEF WalletInv, WalletTypeOK, RecoveryOK, HeightsOK, Reach
<1>2. ASSUME NEW q \in Plan PROVE PlanInv(q)'
  <2>1. PlanInv(q)
    BY DEF WalletInv
  <2>2. NotesLocked(q)'
    BY <1>0, <2>1 DEF PlanInv, NotesLocked, PastExpiry, Reach
  <2> QED
    BY <1>0, <2>1, <2>2, OthersKeep
<1> QED
  BY <1>1, <1>2 DEF WalletInv

\* The inductive invariant holds in every reachable state: run by run, what the
\* journal, the locks, the network and recovery's memory say agrees.
THEOREM WalletInvariant == WalletSpec => []WalletInv
<1>1. WalletInv /\ [WalletNext]_walletVars => WalletInv'
  BY RunKeeps, NodeKeeps, RecoverKeeps, WalletStutter DEF WalletNext
<1> QED
  BY <1>1, WalletInitInv, PTL DEF WalletSpec

\* Every variable keeps its type.
THEOREM WalletTypeCorrect == WalletSpec => []WalletTypeOK
<1>1. WalletInv => WalletTypeOK
  BY DEF WalletInv
<1> QED
  BY <1>1, WalletInvariant, PTL

\* The notes of a transaction that could still be mined are locked by its plan,
\* whatever answers, crashes, reorganisations and recoveries come in between, as
\* long as the chain has not been put more than the margin below its highest tip.
THEOREM WalletLocksCover == WalletSpec => []LocksCoverInFlight
<1>1. ASSUME WalletInv PROVE LocksCoverInFlight
  <2> SUFFICES ASSUME ~past.deep, NEW p \in Plan, InFlight(p), NEW n \in run[p].inputs
               PROVE  n \in HeldBy(p)
    BY DEF LocksCoverInFlight
  <2>0. /\ WalletTypeOK /\ HeightsOK /\ PlanInv(p)
        /\ run \in [Plan -> Run] /\ locks \in [Note -> Lock]
    BY <1>1 DEF WalletInv, RecoveryOK, WalletTypeOK
  <2>1. Sent(p) /\ tip.h < run[p].expiry
    BY DEF InFlight, MinableAt, Sent
  <2>2. ~PastExpiry(p)
    BY <2>0, <2>1, PastExpiryNotMinable, Numbers
  <2>3. ~(row[p] # None /\ row[p].stage \in {"Cancelled", "Expired"})
    BY <2>0, <2>1, <2>2 DEF PlanInv, FailedStages
  <2>s. row[p] # None
    BY <2>0, <2>1 DEF PlanInv, SentByRun
  <2>4. locks[n].owner = p /\ locks[n].until > run[p].expiry + EXPIRY_ABSENT_MARGIN
    BY <2>0, <2>2, <2>3, <2>s DEF PlanInv, NotesLocked
  <2>5. n \in Note /\ locks[n].until \in Nat
    <3>1. n \in Note
      BY <2>0 DEF Run
    <3> QED
      BY <2>0, <3>1, WalletBoundsAssumption DEF Lock
  <2> QED
    BY <2>0, <2>1, <2>4, <2>5, Numbers, WalletBoundsAssumption DEF HeldBy
<1> QED
  BY <1>1, WalletInvariant, PTL

\* A row that reports failure is never contradicted by the chain: Cancelled and
\* Rejected whatever happens, Expired as long as the chain has not been put more
\* than the margin below its highest tip.
THEOREM WalletFailureFinal == WalletSpec => []FailureIsFinal
<1>1. ASSUME WalletInv PROVE FailureIsFinal
  <2> SUFFICES ASSUME NEW p \in Plan, row[p] # None
               PROVE  /\ row[p].stage \in {"Cancelled", "Rejected"} =>
                            run[p].pc # "sending" /\ net[p].at \in {"none", "refused"}
                      /\ row[p].stage = "Expired" /\ ~past.deep => NeverMined(p)
    BY DEF FailureIsFinal
  <2>0. WalletTypeOK /\ HeightsOK /\ PlanInv(p)
    BY <1>1 DEF WalletInv, RecoveryOK
  <2>1. row[p].stage = "Cancelled" => run[p].pc # "sending" /\ net[p].at = "none"
    BY <2>0 DEF PlanInv, FailedStages, Sent
  <2>2. row[p].stage = "Rejected" => run[p].pc # "sending" /\ net[p].at = "refused"
    BY <2>0 DEF PlanInv, FailedStages, SentByRun, AfterRpc
  <2>3. ASSUME row[p].stage = "Expired", ~past.deep PROVE NeverMined(p)
    <3>1. CASE ~Sent(p)
      BY <3>1 DEF Sent, InFlight, NeverMined
    <3>2. CASE OffChain(p) /\ PastExpiry(p)
      <4>1. tip.h > run[p].expiry
        BY <2>0, <2>3, <3>2, PastExpiryNotMinable
      <4>2. ~(tip.h < run[p].expiry)
        BY <2>0, <4>1, Numbers
      <4> QED
        BY <2>3, <3>2, <4>2 DEF OffChain, NeverMined, InFlight, MinableAt
    <3> QED
      BY <2>0, <2>3, <3>1, <3>2 DEF PlanInv, FailedStages
  <2> QED
    BY <2>1, <2>2, <2>3
<1> QED
  BY <1>1, WalletInvariant, PTL

\* A transaction that has left the process is in the journal with its txid.
THEOREM WalletSentJournaled == WalletSpec => []SentIsJournaled
<1>1. WalletInv => SentIsJournaled
  BY DEF WalletInv, SentIsJournaled, PlanInv, RowOfRun, SentByRun, Sent
<1> QED
  BY <1>1, WalletInvariant, PTL

\* No release runs ahead of the journal, and no selection takes a note from a
\* plan that still holds it.
THEOREM WalletReleaseOrdered == WalletSpec => ReleaseFollowsJournal
<1> DEFINE Kept == \A p \in Plan : \A n \in HeldBy(p) :
                      locks'[n].owner # p => row[p] # None /\ row[p].stage \in Terminal
<1>1. ASSUME WalletInv, WalletNext PROVE Kept
  <2> SUFFICES ASSUME NEW p \in Plan, NEW n \in HeldBy(p), locks'[n].owner # p
               PROVE  row[p] # None /\ row[p].stage \in Terminal
    OBVIOUS
  <2>0. n \in Note /\ locks[n].owner = p
    BY DEF HeldBy
  <2>1. locks' # locks
    BY <2>0
  <2>2. CASE \E q \in Plan : lock_outputs(q)
    BY <2>0, <2>2 DEF lock_outputs, Reserve
  <2>3. CASE RecoverRelease
    <3>1. rec.pc = "release" /\ rec.cur = p
      BY <2>0, <2>3 DEF RecoverRelease, Released
    <3>2. PlanInv(p)
      BY <1>1 DEF WalletInv
    <3> QED
      BY <3>1, <3>2 DEF PlanInv, RecoveryReads, Terminal
  <2>4. CASE NodeStep
    BY <2>1, <2>4 DEF NodeStep, deliver, mempool_drop, mempool_relay, mine_block, chain_reorg
  <2>5. CASE RecoverStep /\ ~RecoverRelease
    BY <2>1, <2>5 DEF RecoverStep, RecoverLocks, RecoverRows, RecoverRow, ReconcileQuery,
       ReconcileStart, ReconcileApply, ReconcileExpire, RecoverFinish, RecoverCrash
  <2>6. ASSUME NEW q \in Plan, RunStep(q), ~lock_outputs(q)
        PROVE  FALSE
    BY <2>1, <2>6 DEF RunStep, build_source, fund_context, select_spends, create_plan, authorize,
         journal_stage, broadcast_verified, send_raw_transaction, broadcast_answer,
         release_rejected, end_run
  <2> QED
    BY <1>1, <2>2, <2>3, <2>4, <2>5, <2>6 DEF WalletNext
<1>2. WalletInv /\ [WalletNext]_walletVars => [Kept]_walletVars
  BY <1>1
<1> QED
  BY <1>2, WalletInvariant, PTL DEF WalletSpec, ReleaseFollowsJournal
=============================================================================
