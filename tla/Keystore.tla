------------------------------ MODULE Keystore ------------------------------
(***************************************************************************)
(* The files of a wallet directory: the encrypted keystore                 *)
(* (crates/zalkanes-wallet/src/keystore.rs), the account in the wallet     *)
(* database (sqlite.rs: create_new, restore, unlock_with_seed), and the    *)
(* commands that bring them about (crates/zalkanes-cli/src/wallet_cmd.rs). *)
(* Every step that touches a file is a step of its own; a command may be   *)
(* killed between any two, and several commands may run at once.           *)
(*                                                                         *)
(* The seed of a file stands for its ciphertext: age is authenticated, so  *)
(* a file that is not whole does not decrypt.  A command either knows the  *)
(* passphrase or not; a seed is fresh for every run of `wallet create'.    *)
(***************************************************************************)
EXTENDS Integers, Sequences, FiniteSets

CONSTANTS
    Terminal,     \* the shells commands are typed into
    CreatesAtOnce,  \* how many `wallet create' may run at the same time
    MaxCommands,  \* bound: commands typed
    MaxKills      \* bound: commands killed

ASSUME KeyConstants ==
    /\ IsFiniteSet(Terminal)
    /\ {CreatesAtOnce, MaxCommands, MaxKills} \subseteq Nat

VARIABLES
    keyfile,   \* keystore.age; NoFile when it is not there
    tmpfile,   \* keystore.tmp
    accounts,  \* seeds of the accounts in wallet.sqlite; the first one is used
    session,   \* the session marker is there
    shell,     \* what runs in a terminal
    desk       \* commands typed and killed so far

keyVars == <<keyfile, tmpfile, accounts, session, shell, desk>>

NoFile == [is |-> FALSE]
KeyBlob(seed, net, whole) == [is |-> TRUE, seed |-> seed, net |-> net, whole |-> whole]
Prompt == [pc |-> "prompt", verb |-> "none", seed |-> 0]
Backup == 0      \* the seed of a keystore the user brings along

KeyInit ==
    /\ keyfile \in {NoFile} \cup {KeyBlob(Backup, net, TRUE) : net \in {"here", "elsewhere"}}
    /\ tmpfile = NoFile
    /\ accounts = <<>>
    /\ session = FALSE
    /\ shell = [p \in Terminal |-> Prompt]
    /\ desk = [typed |-> 0, killed |-> 0]

Doing(p, pc) == shell[p].pc = pc
Proceed(p, pc) == shell' = [shell EXCEPT ![p].pc = pc]
Ends(p) == shell' = [shell EXCEPT ![p] = Prompt]

\* An existence check that never finds anything.
exists_never == FALSE

exists == keyfile.is

(***************************************************************************)
(* wallet create.                                                          *)
(***************************************************************************)
\* Refused at once when there is a keystore.  The prompts follow: they take
\* as long as the user does.
wallet_create(p) ==
    /\ Doing(p, "prompt")
    /\ desk.typed < MaxCommands
    /\ Cardinality({q \in Terminal : shell[q].verb = "create"}) < CreatesAtOnce
    /\ desk' = [desk EXCEPT !.typed = @ + 1]
    /\ shell' = IF exists THEN shell
                ELSE [shell EXCEPT ![p] = [pc |-> "create", verb |-> "create", seed |-> desk.typed + 1]]
    /\ UNCHANGED <<keyfile, tmpfile, accounts, session>>

\* Keystore::create up to the encryption: passphrases that differ and an empty
\* one are refused as well.
create_checked(p) ==
    /\ Doing(p, "create")
    /\ \/ ~exists /\ Proceed(p, "open")
       \/ Ends(p)
    /\ UNCHANGED <<keyfile, tmpfile, accounts, session, desk>>

\* create_new(true): a temporary file someone left behind is an error.
create_tmp(p) ==
    /\ Doing(p, "open")
    /\ IF tmpfile.is THEN Ends(p) /\ UNCHANGED tmpfile
       ELSE /\ tmpfile' = KeyBlob(shell[p].seed, "here", FALSE)
            /\ Proceed(p, "write")
    /\ UNCHANGED <<keyfile, accounts, session, desk>>

\* write_all and sync_all.
write_tmp(p) ==
    /\ Doing(p, "write")
    /\ tmpfile' = [tmpfile EXCEPT !.whole = TRUE]
    /\ Proceed(p, "rename")
    /\ UNCHANGED <<keyfile, accounts, session, desk>>

\* chmod and rename.  rename replaces what is there.
rename_tmp(p) ==
    /\ Doing(p, "rename")
    /\ keyfile' = tmpfile
    /\ tmpfile' = NoFile
    /\ Proceed(p, "account")
    /\ UNCHANGED <<accounts, session, desk>>

(***************************************************************************)
(* wallet restore.                                                         *)
(***************************************************************************)
\* Keystore::unlock: a whole file of this network, and the passphrase.
Opens(file) == file.is /\ file.whole /\ file.net = "here"

wallet_restore(p) ==
    /\ Doing(p, "prompt")
    /\ desk.typed < MaxCommands
    /\ desk' = [desk EXCEPT !.typed = @ + 1]
    /\ shell' = IF Opens(keyfile)
                  THEN [shell EXCEPT ![p] = [pc |-> "account", verb |-> "restore", seed |-> keyfile.seed]]
                  ELSE shell
    /\ UNCHANGED <<keyfile, tmpfile, accounts, session>>

(***************************************************************************)
(* create_new and restore of the database.                                 *)
(***************************************************************************)
no_account(p) ==
    /\ Doing(p, "account")
    /\ IF accounts = <<>> THEN Proceed(p, "birthday") ELSE Ends(p)
    /\ UNCHANGED <<keyfile, tmpfile, accounts, session, desk>>

\* The birthday comes from the node, which may not answer.
create_account(p) ==
    /\ Doing(p, "birthday")
    /\ Ends(p)
    /\ \/ accounts' = Append(accounts, shell[p].seed)
       \/ UNCHANGED accounts
    /\ UNCHANGED <<keyfile, tmpfile, session, desk>>

(***************************************************************************)
(* wallet unlock, lock, and a command that is killed.                      *)
(***************************************************************************)
wallet_unlock ==
    /\ ~session
    /\ Opens(keyfile)
    /\ session' = TRUE
    /\ UNCHANGED <<keyfile, tmpfile, accounts, shell, desk>>

wallet_lock ==
    /\ session
    /\ session' = FALSE
    /\ UNCHANGED <<keyfile, tmpfile, accounts, shell, desk>>

killed(p) ==
    /\ ~Doing(p, "prompt")
    /\ desk.killed < MaxKills
    /\ desk' = [desk EXCEPT !.killed = @ + 1]
    /\ Ends(p)
    /\ UNCHANGED <<keyfile, tmpfile, accounts, session>>

KeyNext ==
    \/ \E p \in Terminal :
         \/ wallet_create(p) \/ create_checked(p) \/ create_tmp(p) \/ write_tmp(p) \/ rename_tmp(p)
         \/ wallet_restore(p) \/ no_account(p) \/ create_account(p) \/ killed(p)
    \/ wallet_unlock \/ wallet_lock

KeySpec == KeyInit /\ [][KeyNext]_keyVars

(***************************************************************************)
(* Properties.                                                             *)
(***************************************************************************)
\* Funds the wallet can receive can be spent: the account belongs to the seed
\* in the keystore, and the keystore opens.  Holds wherever a command is
\* killed, because the keystore is complete before the account exists
\* (wallet_create; Keystore::create writes aside and renames), and only if
\* no two creations overlap: exists() does not keep the second from renaming
\* over the first (keystore.rs:126 says that it refuses to overwrite).
AccountHasKeystore ==
    accounts # <<>> => Opens(keyfile) /\ keyfile.seed = Head(accounts)
=============================================================================
