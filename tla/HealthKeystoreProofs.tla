------------------------ MODULE HealthKeystoreProofs ------------------------
(***************************************************************************)
(* Two components that keep to themselves, the indexer's Health and the    *)
(* wallet's Keystore.                                                      *)
(***************************************************************************)
EXTENDS Health, Keystore, FiniteSetTheorems, TLAPS

(***************************************************************************)
(* ReadyIsRecent of Health, for any stale_after and without the bounds of  *)
(* the clock, the heights and the restarts mattering.                      *)
(*                                                                         *)
(* The property speaks of what the loop really did; the endpoint only      *)
(* knows what IndexerHealth was told.  The invariant relates the two: what *)
(* is recorded is never later than what happened.                          *)
(***************************************************************************)
HealthTypes ==
    /\ now \in Int
    /\ upstream \in Int
    /\ indexed \in Int
    /\ worker \in [pc : {"down", "idle", "reorg", "index", "dead"}, tip : Int, before : Int]
    /\ status \in [started_at : Int, last_progress : Int, indexed_height : Int,
                   tip_height : Int, dead : BOOLEAN]
    /\ really \in [moved : Int, at_tip : Int]

\* A loop that has ended on a fatal error has said so.
DeadIsMarked == Working("dead") => status.dead

\* Progress is recorded at a moment the loop was at the tip, and the loop has
\* not moved less recently than that, or than it was started.
RecordedHappened ==
    /\ status.started_at <= really.moved
    /\ really.moved <= now
    /\ status.last_progress # Never => /\ status.last_progress <= really.moved
                                       /\ really.at_tip = status.last_progress

HealthInv == HealthTypes /\ DeadIsMarked /\ RecordedHappened

\* The invariant holds in a node that is about to start.
LEMMA HealthInitInv == HealthInit => HealthInv
<1> SUFFICES ASSUME HealthInit PROVE HealthInv
  OBVIOUS
<1>1. HealthTypes
  BY HealthConstants DEF HealthInit, HealthTypes, NewStatus, Never
<1>2. DeadIsMarked
  BY DEF HealthInit, DeadIsMarked, Working
<1>3. RecordedHappened
  BY DEF HealthInit, RecordedHappened, NewStatus, Never
<1> QED
  BY <1>1, <1>2, <1>3 DEF HealthInv

\* Every step of the loop, the process, the clock and the chain keeps it.
LEMMA HealthStepInv == HealthInv /\ [HealthNext]_healthVars => HealthInv'
<1> SUFFICES ASSUME HealthInv, [HealthNext]_healthVars PROVE HealthInv'
  OBVIOUS
<1> USE DEF HealthInv, HealthTypes, DeadIsMarked, RecordedHappened, Working, Move
<1>1. CASE node_serve
  BY <1>1 DEF node_serve
<1>2. CASE tick_begin
  BY <1>2 DEF tick_begin
<1>3. CASE tick_rollback
  BY <1>3 DEF tick_rollback
<1>4. CASE tick_agrees
  BY <1>4 DEF tick_agrees
<1>5. CASE tick_block
  BY <1>5 DEF tick_block
<1>6. CASE tick_done
  <2>1. /\ status' = [status EXCEPT !.last_progress = now, !.indexed_height = indexed,
                                   !.tip_height = worker.tip]
        /\ really' = [moved |-> now, at_tip |-> now]
        /\ worker' = [worker EXCEPT !.pc = "idle"]
        /\ UNCHANGED <<now, upstream, indexed>>
    BY <1>6 DEF tick_done, record_tick_ok
  <2>2. HealthTypes'
    BY <2>1
  <2>3. DeadIsMarked'
    BY <2>1
  <2>4. RecordedHappened'
    BY <2>1
  <2> QED
    BY <2>2, <2>3, <2>4
<1>7. CASE tick_transient
  BY <1>7 DEF tick_transient, record_failure
<1>8. CASE tick_fatal
  BY <1>8 DEF tick_fatal, mark_dead
<1>9. CASE restart
  BY <1>9 DEF restart, NewStatus, Never
<1>10. CASE time_passes
  BY <1>10 DEF time_passes
<1>11. CASE upstream_moves
  BY <1>11, HealthConstants DEF upstream_moves
<1>12. CASE UNCHANGED healthVars
  BY <1>12 DEF healthVars
<1> QED
  BY <1>1, <1>2, <1>3, <1>4, <1>5, <1>6, <1>7, <1>8, <1>9, <1>10, <1>11, <1>12 DEF HealthNext

\* The invariant is enough: whatever assess is derived from is old when what
\* happened is old.
LEMMA InvImpliesReady == HealthInv => ReadyIsRecent
<1> SUFFICES ASSUME HealthInv PROVE ReadyIsRecent
  OBVIOUS
<1> USE HealthConstants DEF HealthInv, HealthTypes, Working, Ago
<1>1. status.dead => assess = "dead"
  BY DEF assess
<1>2. Working("dead") => readiness = "unhealthy"
  BY <1>1 DEF readiness, DeadIsMarked
<1>3. ASSUME ~Working("down"), Ago(really.moved) > StaleAfter
      PROVE  readiness = "unhealthy"
  <2>1. status.last_progress # Never => ~(Ago(status.last_progress) <= StaleAfter)
    BY <1>3 DEF RecordedHappened
  <2>2. ~(Ago(status.started_at) <= StaleAfter)
    BY <1>3 DEF RecordedHappened
  <2>3. assess \in {"dead", "stalled"}
    BY <2>1, <2>2 DEF assess
  <2> QED
    BY <1>3, <2>3 DEF readiness
<1>4. ASSUME readiness = "caught_up"
      PROVE  really.at_tip # Never /\ Ago(really.at_tip) <= StaleAfter
  <2>1. assess = "caught_up"
    BY <1>4 DEF readiness
  <2>2. status.last_progress # Never /\ Ago(status.last_progress) <= StaleAfter
    BY <2>1 DEF assess
  <2> QED
    BY <2>2 DEF RecordedHappened
<1> QED
  BY <1>2, <1>3, <1>4 DEF ReadyIsRecent

\* What IndexerHealth has recorded never runs ahead of what the loop did.
THEOREM HealthInvariant == HealthSpec => []HealthInv
<1> QED
  BY HealthInitInv, HealthStepInv, PTL DEF HealthSpec

\* A dead or stalled loop is never reported as healthy, and a node is reported
\* as caught up only when its loop was at the tip within stale_after: assess and
\* readiness over every sequence of ticks, failures, restarts and waits.
THEOREM HealthReadyIsRecent == HealthSpec => []ReadyIsRecent
<1> QED
  BY HealthInvariant, InvImpliesReady, PTL

(***************************************************************************)
(* AccountHasKeystore of Keystore: for any terminals, any number of        *)
(* commands and kills, as long as no two `wallet create' overlap.          *)
(*                                                                         *)
(* A creation that is past its existence check and not yet past its rename *)
(* knows that there is no keystore: nothing else puts one there.  So the   *)
(* rename never replaces one, and a keystore, once there, stays.           *)
(***************************************************************************)
Blob == [is : {TRUE}, seed : Nat, net : {"here", "elsewhere"}, whole : BOOLEAN]

KeyPc == {"prompt", "create", "open", "write", "rename", "account", "birthday"}

KeyCommand == [pc : KeyPc, verb : {"none", "create", "restore"}, seed : Nat]

KeyTypes ==
    /\ keyfile \in {NoFile} \cup Blob
    /\ tmpfile \in {NoFile} \cup Blob
    /\ accounts \in Seq(Nat)
    /\ shell \in [Terminal -> KeyCommand]
    /\ desk \in [typed : Nat, killed : Nat]

\* Only a creation is at the steps of a creation, and there is one of them.
OneCreation ==
    /\ \A p \in Terminal : shell[p].pc \in {"create", "open", "write", "rename"} =>
                              shell[p].verb = "create"
    /\ \A p, q \in Terminal : shell[p].verb = "create" /\ shell[q].verb = "create" => p = q

\* Between the check and the rename there is no keystore, and the temporary
\* file is the creation's own.
CreationAlone ==
    \A p \in Terminal :
        /\ shell[p].pc \in {"open", "write", "rename"} => keyfile = NoFile
        /\ shell[p].pc = "write" => tmpfile \in Blob /\ tmpfile.seed = shell[p].seed /\ tmpfile.net = "here"
        /\ shell[p].pc = "rename" => tmpfile = KeyBlob(shell[p].seed, "here", TRUE)

\* A command that is about to make the account holds the seed of the keystore.
SeedInHand ==
    \A p \in Terminal : shell[p].pc \in {"account", "birthday"} =>
                           Opens(keyfile) /\ keyfile.seed = shell[p].seed

KeyInv == KeyTypes /\ OneCreation /\ CreationAlone /\ SeedInHand /\ AccountHasKeystore

\* No file is not a file.
LEMMA NoFileIsNone == NoFile \notin Blob /\ ~NoFile.is /\ \A b \in Blob : b.is
BY DEF NoFile, Blob

\* What the header and the ciphertext are made of.
LEMMA BlobType ==
    \A seed \in Nat, net \in {"here", "elsewhere"}, whole \in BOOLEAN :
        /\ KeyBlob(seed, net, whole) \in Blob
        /\ KeyBlob(seed, net, whole).seed = seed
        /\ net = "here" /\ whole => Opens(KeyBlob(seed, net, whole))
BY DEF KeyBlob, Blob, Opens

\* The wallet directory starts out empty, or with a keystore brought along.
LEMMA KeyInitInv == KeyInit => KeyInv
<1> SUFFICES ASSUME KeyInit PROVE KeyInv
  OBVIOUS
<1>1. keyfile \in {NoFile} \cup Blob /\ tmpfile \in {NoFile} \cup Blob
  <2>1. \A net \in {"here", "elsewhere"} : KeyBlob(Backup, net, TRUE) \in Blob
    BY BlobType DEF Backup
  <2> QED
    BY <2>1 DEF KeyInit
<1>2. KeyTypes
  BY <1>1 DEF KeyInit, KeyTypes, KeyCommand, KeyPc, Prompt
<1>3. OneCreation /\ CreationAlone /\ SeedInHand
  BY DEF KeyInit, OneCreation, CreationAlone, SeedInHand, Prompt
<1>4. AccountHasKeystore
  BY DEF KeyInit, AccountHasKeystore
<1> QED
  BY <1>2, <1>3, <1>4 DEF KeyInv

\* No creation starts while another one runs.
LEMMA FirstCreation ==
    ASSUME CreatesAtOnce = 1, NEW p \in Terminal, wallet_create(p)
    PROVE  \A q \in Terminal : shell[q].verb # "create"
<1> DEFINE Creating == {q \in Terminal : shell[q].verb = "create"}
<1>1. IsFiniteSet(Creating)
  BY KeyConstants, FS_Subset
<1>2. Cardinality(Creating) < 1
  BY DEF wallet_create
<1>3. Creating = {}
  BY <1>1, <1>2, FS_CardinalityType, FS_EmptySet
<1> QED
  BY <1>3

\* A command takes a step that leaves the keystore and the accounts alone: what
\* the invariant asks of the step is about the terminal it happens in.
LEMMA StepOfOne ==
    ASSUME KeyInv, NEW p \in Terminal, NEW r \in KeyCommand,
           shell' = [shell EXCEPT ![p] = r],
           UNCHANGED <<keyfile, accounts>>,
           tmpfile' \in {NoFile} \cup Blob,
           desk' \in [typed : Nat, killed : Nat],
           tmpfile' = tmpfile \/ shell[p].verb = "create",
           r.pc \in {"create", "open", "write", "rename"} => r.verb = "create",
           r.verb = "create" => \A q \in Terminal : shell[q].verb = "create" => q = p,
           r.pc \in {"open", "write", "rename"} => keyfile = NoFile,
           r.pc = "write" => tmpfile' \in Blob /\ tmpfile'.seed = r.seed /\ tmpfile'.net = "here",
           r.pc = "rename" => tmpfile' = KeyBlob(r.seed, "here", TRUE),
           r.pc \in {"account", "birthday"} => Opens(keyfile) /\ keyfile.seed = r.seed
    PROVE  KeyInv'
<1>1. shell \in [Terminal -> KeyCommand]
  BY DEF KeyInv, KeyTypes
<1>2. shell'[p] = r /\ \A q \in Terminal : q # p => shell'[q] = shell[q]
  BY <1>1
<1>3. KeyTypes'
  BY <1>1 DEF KeyInv, KeyTypes
<1>4. OneCreation'
  BY <1>2 DEF KeyInv, OneCreation
<1>5. CreationAlone'
  <2> SUFFICES ASSUME NEW q \in Terminal
      PROVE  /\ shell'[q].pc \in {"open", "write", "rename"} => keyfile' = NoFile
             /\ shell'[q].pc = "write" =>
                  tmpfile' \in Blob /\ tmpfile'.seed = shell'[q].seed /\ tmpfile'.net = "here"
             /\ shell'[q].pc = "rename" => tmpfile' = KeyBlob(shell'[q].seed, "here", TRUE)
    BY DEF CreationAlone
  <2>1. CASE q = p
    BY <1>2, <2>1
  <2>2. CASE q # p
    <3>1. shell'[q] = shell[q]
      BY <1>2, <2>2
    <3>2. shell[q].pc \in {"write", "rename"} => tmpfile' = tmpfile
      BY <2>2 DEF KeyInv, OneCreation
    <3> QED
      BY <3>1, <3>2 DEF KeyInv, CreationAlone
  <2> QED
    BY <2>1, <2>2
<1>6. SeedInHand'
  <2> SUFFICES ASSUME NEW q \in Terminal, shell'[q].pc \in {"account", "birthday"}
      PROVE  Opens(keyfile) /\ keyfile.seed = shell'[q].seed
    BY DEF SeedInHand, Opens
  <2> QED
    BY <1>2 DEF KeyInv, SeedInHand
<1>7. AccountHasKeystore'
  BY DEF KeyInv, AccountHasKeystore, Opens
<1> QED
  BY <1>3, <1>4, <1>5, <1>6, <1>7 DEF KeyInv

\* A command that ends.
LEMMA StepEnds ==
    ASSUME KeyInv, NEW p \in Terminal, Ends(p), UNCHANGED <<keyfile, tmpfile, accounts>>,
           desk' \in [typed : Nat, killed : Nat]
    PROVE  KeyInv'
<1>1. Prompt \in KeyCommand /\ Prompt.pc = "prompt" /\ Prompt.verb = "none"
  BY DEF Prompt, KeyCommand, KeyPc
<1>2. shell' = [shell EXCEPT ![p] = Prompt]
  BY DEF Ends
<1>3. tmpfile' \in {NoFile} \cup Blob
  BY DEF KeyInv, KeyTypes
<1> QED
  BY <1>1, <1>2, <1>3, StepOfOne

\* A command that was refused before it did anything.
LEMMA StepRefused ==
    ASSUME KeyInv, UNCHANGED <<keyfile, tmpfile, accounts, shell>>,
           desk' \in [typed : Nat, killed : Nat]
    PROVE  KeyInv'
BY DEF KeyInv, KeyTypes, OneCreation, CreationAlone, SeedInHand, AccountHasKeystore, Opens

\* One lemma for every command step.
LEMMA KeyCreateInv ==
    ASSUME CreatesAtOnce = 1, KeyInv, NEW p \in Terminal, wallet_create(p)
    PROVE  KeyInv'
<1> DEFINE new == [pc |-> "create", verb |-> "create", seed |-> desk.typed + 1]
<1>1. desk \in [typed : Nat, killed : Nat] /\ tmpfile \in {NoFile} \cup Blob
  BY DEF KeyInv, KeyTypes
<1>2. new \in KeyCommand /\ new.pc = "create" /\ new.verb = "create"
  BY <1>1 DEF KeyCommand, KeyPc
<1>3. UNCHANGED <<keyfile, tmpfile, accounts>> /\ desk' \in [typed : Nat, killed : Nat]
  BY <1>1 DEF wallet_create
<1>4. CASE shell' = [shell EXCEPT ![p] = new]
  <2>1. \A q \in Terminal : shell[q].verb # "create"
    BY FirstCreation
  <2> HIDE DEF new
  <2> QED
    BY <1>1, <1>2, <1>3, <1>4, <2>1, StepOfOne
<1>5. CASE shell' = shell
  BY <1>3, <1>5, StepRefused
<1> QED
  BY <1>4, <1>5 DEF wallet_create

\* The second existence check, next to the passphrase checks.
LEMMA KeyCheckedInv ==
    ASSUME KeyInv, NEW p \in Terminal, create_checked(p)
    PROVE  KeyInv'
<1>1. UNCHANGED <<keyfile, tmpfile, accounts, desk>> /\ shell[p].pc = "create"
  BY DEF create_checked, Doing
<1>2. /\ desk \in [typed : Nat, killed : Nat] /\ tmpfile \in {NoFile} \cup Blob
      /\ shell \in [Terminal -> KeyCommand]
  BY DEF KeyInv, KeyTypes
<1>3. CASE Ends(p)
  BY <1>1, <1>2, <1>3, StepEnds
<1>4. CASE ~exists /\ Proceed(p, "open")
  <2> DEFINE r == [shell[p] EXCEPT !.pc = "open"]
  <2>1. shell' = [shell EXCEPT ![p] = r]
    BY <1>4 DEF Proceed
  <2>2. r \in KeyCommand /\ r.pc = "open" /\ r.verb = shell[p].verb
    BY <1>2 DEF KeyCommand, KeyPc
  <2>3. shell[p].verb = "create" /\ \A q \in Terminal : shell[q].verb = "create" => q = p
    BY <1>1 DEF KeyInv, OneCreation
  <2>4. keyfile = NoFile
    BY <1>4, NoFileIsNone DEF KeyInv, KeyTypes, exists
  <2> HIDE DEF r
  <2> QED
    BY <1>1, <1>2, <2>1, <2>2, <2>3, <2>4, StepOfOne
<1> QED
  BY <1>3, <1>4 DEF create_checked

\* The temporary file is opened: nobody else has one open.
LEMMA KeyOpenInv ==
    ASSUME KeyInv, NEW p \in Terminal, create_tmp(p)
    PROVE  KeyInv'
<1>1. UNCHANGED <<keyfile, accounts, desk>> /\ shell[p].pc = "open"
  BY DEF create_tmp, Doing
<1>2. /\ desk \in [typed : Nat, killed : Nat] /\ tmpfile \in {NoFile} \cup Blob
      /\ shell \in [Terminal -> KeyCommand]
  BY DEF KeyInv, KeyTypes
<1>3. CASE Ends(p) /\ UNCHANGED tmpfile
  BY <1>1, <1>2, <1>3, StepEnds
<1>4. CASE tmpfile' = KeyBlob(shell[p].seed, "here", FALSE) /\ Proceed(p, "write")
  <2> DEFINE r == [shell[p] EXCEPT !.pc = "write"]
  <2>1. shell' = [shell EXCEPT ![p] = r]
    BY <1>4 DEF Proceed
  <2>2. /\ r \in KeyCommand /\ r.pc = "write" /\ r.verb = shell[p].verb
        /\ r.seed = shell[p].seed /\ r.seed \in Nat
    BY <1>2 DEF KeyCommand, KeyPc
  <2>3. shell[p].verb = "create" /\ \A q \in Terminal : shell[q].verb = "create" => q = p
    BY <1>1 DEF KeyInv, OneCreation
  <2>4. keyfile = NoFile
    BY <1>1 DEF KeyInv, CreationAlone
  <2>5. tmpfile' \in Blob /\ tmpfile'.seed = r.seed /\ tmpfile'.net = "here"
    BY <1>4, <2>2 DEF KeyBlob, Blob
  <2> HIDE DEF r
  <2> QED
    BY <1>1, <1>2, <2>1, <2>2, <2>3, <2>4, <2>5, StepOfOne
<1> QED
  BY <1>3, <1>4 DEF create_tmp

\* The temporary file is written and flushed.
LEMMA KeyWriteInv ==
    ASSUME KeyInv, NEW p \in Terminal, write_tmp(p)
    PROVE  KeyInv'
<1>1. UNCHANGED <<keyfile, accounts, desk>> /\ shell[p].pc = "write"
  BY DEF write_tmp, Doing
<1>2. /\ desk \in [typed : Nat, killed : Nat] /\ shell \in [Terminal -> KeyCommand]
  BY DEF KeyInv, KeyTypes
<1> DEFINE r == [shell[p] EXCEPT !.pc = "rename"]
<1>3. shell' = [shell EXCEPT ![p] = r]
  BY DEF write_tmp, Proceed
<1>4. /\ r \in KeyCommand /\ r.pc = "rename" /\ r.verb = shell[p].verb
      /\ r.seed = shell[p].seed /\ r.seed \in Nat
  BY <1>2 DEF KeyCommand, KeyPc
<1>5. shell[p].verb = "create" /\ \A q \in Terminal : shell[q].verb = "create" => q = p
  BY <1>1 DEF KeyInv, OneCreation
<1>6. keyfile = NoFile /\ tmpfile \in Blob /\ tmpfile.seed = shell[p].seed /\ tmpfile.net = "here"
  BY <1>1 DEF KeyInv, CreationAlone
<1>7. tmpfile' = [tmpfile EXCEPT !.whole = TRUE]
  BY DEF write_tmp
<1>8. tmpfile' = KeyBlob(r.seed, "here", TRUE)
  BY <1>4, <1>6, <1>7 DEF KeyBlob, Blob
<1>9. tmpfile' \in Blob
  BY <1>4, <1>8, BlobType
<1> HIDE DEF r
<1> QED
  BY <1>1, <1>2, <1>3, <1>4, <1>5, <1>6, <1>8, <1>9, StepOfOne

\* The rename puts a whole keystore where there was none, so no command holds a
\* seed yet and there is no account.
LEMMA KeyRenameInv ==
    ASSUME KeyInv, NEW p \in Terminal, rename_tmp(p)
    PROVE  KeyInv'
<1>1. /\ UNCHANGED <<accounts, desk>> /\ shell[p].pc = "rename"
      /\ keyfile' = tmpfile /\ tmpfile' = NoFile
  BY DEF rename_tmp, Doing
<1>2. /\ desk \in [typed : Nat, killed : Nat] /\ shell \in [Terminal -> KeyCommand]
      /\ accounts \in Seq(Nat)
  BY DEF KeyInv, KeyTypes
<1> DEFINE r == [shell[p] EXCEPT !.pc = "account"]
<1>3. shell' = [shell EXCEPT ![p] = r]
  BY DEF rename_tmp, Proceed
<1>4. /\ r \in KeyCommand /\ r.pc = "account" /\ r.verb = shell[p].verb
      /\ r.seed = shell[p].seed /\ r.seed \in Nat
  BY <1>2 DEF KeyCommand, KeyPc
<1> HIDE DEF r
<1>5. shell'[p] = r /\ \A q \in Terminal : q # p => shell'[q] = shell[q]
  BY <1>2, <1>3
<1>6. shell[p].verb = "create" /\ \A q \in Terminal : shell[q].verb = "create" => q = p
  BY <1>1 DEF KeyInv, OneCreation
<1>7. keyfile = NoFile /\ tmpfile = KeyBlob(r.seed, "here", TRUE)
  BY <1>1, <1>4 DEF KeyInv, CreationAlone
<1>8. keyfile' \in Blob /\ Opens(keyfile') /\ keyfile'.seed = r.seed
  BY <1>1, <1>4, <1>7, BlobType
<1>9. ~Opens(keyfile)
  BY <1>7, NoFileIsNone DEF Opens
<1>10. KeyTypes'
  BY <1>1, <1>2, <1>3, <1>4, <1>8 DEF KeyTypes
<1>11. OneCreation'
  BY <1>4, <1>5, <1>6 DEF KeyInv, OneCreation
<1>12. CreationAlone'
  <2>1. \A q \in Terminal : shell'[q].pc \notin {"open", "write", "rename"}
    BY <1>4, <1>5, <1>6 DEF KeyInv, OneCreation
  <2> QED
    BY <2>1 DEF CreationAlone
<1>13. SeedInHand'
  <2> SUFFICES ASSUME NEW q \in Terminal, shell'[q].pc \in {"account", "birthday"}
      PROVE  Opens(keyfile') /\ keyfile'.seed = shell'[q].seed
    BY DEF SeedInHand, Opens
  <2>1. q = p
    BY <1>5, <1>9 DEF KeyInv, SeedInHand
  <2> QED
    BY <1>5, <1>8, <2>1
<1>14. AccountHasKeystore'
  <2>1. accounts = <<>>
    BY <1>9 DEF KeyInv, AccountHasKeystore
  <2> QED
    BY <1>1, <2>1 DEF AccountHasKeystore
<1> QED
  BY <1>10, <1>11, <1>12, <1>13, <1>14 DEF KeyInv

\* Restoring takes the seed out of the keystore that is there.
LEMMA KeyRestoreInv ==
    ASSUME KeyInv, NEW p \in Terminal, wallet_restore(p)
    PROVE  KeyInv'
<1> DEFINE new == [pc |-> "account", verb |-> "restore", seed |-> keyfile.seed]
<1>1. desk \in [typed : Nat, killed : Nat] /\ tmpfile \in {NoFile} \cup Blob
  BY DEF KeyInv, KeyTypes
<1>2. UNCHANGED <<keyfile, tmpfile, accounts>> /\ desk' \in [typed : Nat, killed : Nat]
  BY <1>1 DEF wallet_restore
<1>3. CASE Opens(keyfile) /\ shell' = [shell EXCEPT ![p] = new]
  <2>1. keyfile \in Blob
    BY <1>3, NoFileIsNone DEF KeyInv, KeyTypes, Opens
  <2>2. new \in KeyCommand /\ new.pc = "account" /\ new.verb = "restore" /\ new.seed = keyfile.seed
    BY <2>1 DEF KeyCommand, KeyPc, Blob
  <2> HIDE DEF new
  <2> QED
    BY <1>1, <1>2, <1>3, <2>2, StepOfOne
<1>4. CASE shell' = shell
  BY <1>2, <1>4, StepRefused
<1> QED
  BY <1>3, <1>4 DEF wallet_restore

\* The database is asked for an account before one is made.
LEMMA KeyNoAccountInv ==
    ASSUME KeyInv, NEW p \in Terminal, no_account(p)
    PROVE  KeyInv'
<1>1. UNCHANGED <<keyfile, tmpfile, accounts, desk>> /\ shell[p].pc = "account"
  BY DEF no_account, Doing
<1>2. /\ desk \in [typed : Nat, killed : Nat] /\ tmpfile \in {NoFile} \cup Blob
      /\ shell \in [Terminal -> KeyCommand]
  BY DEF KeyInv, KeyTypes
<1>3. CASE Ends(p)
  BY <1>1, <1>2, <1>3, StepEnds
<1>4. CASE Proceed(p, "birthday")
  <2> DEFINE r == [shell[p] EXCEPT !.pc = "birthday"]
  <2>1. shell' = [shell EXCEPT ![p] = r]
    BY <1>4 DEF Proceed
  <2>2. /\ r \in KeyCommand /\ r.pc = "birthday" /\ r.verb = shell[p].verb
        /\ r.seed = shell[p].seed
    BY <1>2 DEF KeyCommand, KeyPc
  <2>3. shell[p].verb = "create" => \A q \in Terminal : shell[q].verb = "create" => q = p
    BY DEF KeyInv, OneCreation
  <2>4. Opens(keyfile) /\ keyfile.seed = r.seed
    BY <1>1, <2>2 DEF KeyInv, SeedInHand
  <2> HIDE DEF r
  <2> QED
    BY <1>1, <1>2, <2>1, <2>2, <2>3, <2>4, StepOfOne
<1> QED
  BY <1>3, <1>4 DEF no_account

\* The account is made from the seed in hand.  A second one does not become the
\* wallet's account: the first is used.
LEMMA KeyAccountInv ==
    ASSUME KeyInv, NEW p \in Terminal, create_account(p)
    PROVE  KeyInv'
<1>1. UNCHANGED <<keyfile, tmpfile, desk>> /\ shell[p].pc = "birthday" /\ Ends(p)
  BY DEF create_account, Doing
<1>2. /\ desk \in [typed : Nat, killed : Nat] /\ shell \in [Terminal -> KeyCommand]
      /\ accounts \in Seq(Nat)
  BY DEF KeyInv, KeyTypes
<1>3. CASE UNCHANGED accounts
  BY <1>1, <1>2, <1>3, StepEnds
<1>4. CASE accounts' = Append(accounts, shell[p].seed)
  <2>1. Prompt \in KeyCommand /\ Prompt.pc = "prompt" /\ Prompt.verb = "none"
    BY DEF Prompt, KeyCommand, KeyPc
  <2>2. /\ shell' \in [Terminal -> KeyCommand]
        /\ shell'[p] = Prompt /\ \A q \in Terminal : q # p => shell'[q] = shell[q]
    BY <1>1, <1>2, <2>1 DEF Ends
  <2>3. Opens(keyfile) /\ keyfile.seed = shell[p].seed
    BY <1>1 DEF KeyInv, SeedInHand
  <2>4. shell[p].seed \in Nat
    BY <1>2 DEF KeyCommand
  <2>5. accounts' \in Seq(Nat) /\ Head(accounts') = IF accounts = <<>> THEN shell[p].seed ELSE Head(accounts)
    BY <1>2, <1>4, <2>4
  <2>6. KeyTypes'
    BY <1>1, <1>2, <2>2, <2>5 DEF KeyInv, KeyTypes
  <2>7. OneCreation'
    BY <2>1, <2>2 DEF KeyInv, OneCreation
  <2>8. CreationAlone'
    BY <1>1, <2>1, <2>2 DEF KeyInv, CreationAlone
  <2>9. SeedInHand'
    BY <1>1, <2>1, <2>2 DEF KeyInv, SeedInHand, Opens
  <2>10. AccountHasKeystore'
    BY <1>1, <2>3, <2>5 DEF KeyInv, AccountHasKeystore, Opens
  <2> QED
    BY <2>6, <2>7, <2>8, <2>9, <2>10 DEF KeyInv
<1> QED
  BY <1>3, <1>4 DEF create_account

\* Every command step, a kill at any of them, and the session.
LEMMA KeyStepInv ==
    ASSUME CreatesAtOnce = 1, KeyInv, [KeyNext]_keyVars
    PROVE  KeyInv'
<1>1. desk \in [typed : Nat, killed : Nat]
  BY DEF KeyInv, KeyTypes
<1>2. ASSUME NEW p \in Terminal, killed(p) PROVE KeyInv'
  <2>1. Ends(p) /\ UNCHANGED <<keyfile, tmpfile, accounts>> /\ desk' \in [typed : Nat, killed : Nat]
    BY <1>1, <1>2 DEF killed
  <2> QED
    BY <2>1, StepEnds
<1>3. CASE wallet_unlock \/ wallet_lock \/ UNCHANGED keyVars
  <2>1. UNCHANGED <<keyfile, tmpfile, accounts, shell, desk>>
    BY <1>3 DEF wallet_unlock, wallet_lock, keyVars
  <2> QED
    BY <1>1, <2>1, StepRefused
<1>4. CASE \E p \in Terminal :
             \/ wallet_create(p) \/ create_checked(p) \/ create_tmp(p) \/ write_tmp(p)
             \/ rename_tmp(p) \/ wallet_restore(p) \/ no_account(p) \/ create_account(p)
             \/ killed(p)
  BY <1>2, <1>4, KeyCreateInv, KeyCheckedInv, KeyOpenInv, KeyWriteInv, KeyRenameInv,
     KeyRestoreInv, KeyNoAccountInv, KeyAccountInv
<1> QED
  BY <1>3, <1>4 DEF KeyNext

\* An account always belongs to the seed of a keystore that opens, wherever
\* commands are killed and however many there are, if no two `wallet create'
\* overlap.  The condition is needed: exists() and rename are not one step.
THEOREM KeyAccountHasKeystore ==
    ASSUME CreatesAtOnce = 1
    PROVE  KeySpec => []AccountHasKeystore
<1>1. KeyInit => KeyInv
  BY KeyInitInv
<1>2. KeyInv /\ [KeyNext]_keyVars => KeyInv'
  BY KeyStepInv
<1>3. KeyInv => AccountHasKeystore
  BY DEF KeyInv
<1> QED
  BY <1>1, <1>2, <1>3, PTL DEF KeySpec
=============================================================================
