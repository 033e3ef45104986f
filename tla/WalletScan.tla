----------------------------- MODULE WalletScan -----------------------------
(***************************************************************************)
(* The shielded wallet following the chain:                                *)
(* crates/zalkanes-wallet/src/sqlite.rs (scan_to_tip and                   *)
(* rewind_to_common_ancestor, select_spends up to the anchor, lock and     *)
(* unlock) and chain_source.rs.  Every question to the node is a step of   *)
(* its own, so the best chain can change between any two of them, and any  *)
(* of them can fail for good.                                              *)
(*                                                                         *)
(* A block is the list of choices that leads to it from genesis, so its    *)
(* parent is its Front, its height its length, and the hash, the tree      *)
(* state and the block at a height of a chain are the same prefix.         *)
(***************************************************************************)
EXTENDS Integers, Sequences, SequencesExt

CONSTANTS
    Choice,        \* the blocks that may follow a block
    MaxLength,     \* bound: length of a chain
    Birthday,      \* the first height the account scans
    MaxSwitches,   \* bound: how often the best chain changes
    MaxExits,      \* bound: how often the process ends without finishing
    Nothing        \* no block

VARIABLES
    zchain,   \* the node's best chain
    wdb,      \* hashes of the scanned blocks, from the birthday up
    wtip,     \* update_chain_tip: the tip height the database knows
    scan,     \* the scan in progress
    wproc,    \* the process: spending material, and the tip it plans against
    picked,   \* the last selection
    world     \* switches and exits so far, and whether a switch was one no check can see

scanVars == <<zchain, wdb, wtip, scan, wproc, picked, world>>

ScanPc == {"idle", "boundary", "rewind", "apply", "rewound", "loop", "fetch", "stored", "finish"}

\* After these the code takes the node's hash for that of a block it has just
\* stored or rewound to, without comparing the two.
UncheckedPoints == {"apply", "rewound", "stored"}

ASSUME ScanConstants ==
    /\ Choice # {} /\ Birthday \in 2..MaxLength
    /\ {MaxLength, MaxSwitches, MaxExits} \subseteq Nat

\* No block is `no block'.
ASSUME NothingAssumption == \A n \in 0..MaxLength : Nothing \notin [1..n -> Choice]

Chain == UNION {[1..n -> Choice] : n \in Birthday..MaxLength}
Trunk == CHOOSE x \in Choice : TRUE    \* the choices the first chain is made of
Block(c, h) == SubSeq(c, 1, h)          \* block_hash, tree_state, block
Has(h) == h <= Len(zchain)

(***************************************************************************)
(* The database.                                                           *)
(***************************************************************************)
ScannedTop == Birthday + Len(wdb) - 1
block_fully_scanned == IF wdb = <<>> THEN Nothing ELSE Last(wdb)
get_block_hash(h) == IF h \in Birthday..ScannedTop THEN wdb[h - Birthday + 1] ELSE Nothing
next_scan_height == ScannedTop + 1

Resting == [pc |-> "idle", target |-> Nothing, height |-> 0, prev |-> Nothing, from |-> Nothing]
NewProcess == [unlocked |-> FALSE, tip |-> Nothing]

ScanInit ==
    /\ zchain \in {c \in Chain : Range(c) = {Trunk}}
    /\ wdb = <<>>
    /\ wtip = 0
    /\ scan = Resting
    /\ wproc = NewProcess
    /\ picked = Nothing
    /\ world = [switches |-> 0, exits |-> 0, unseen |-> FALSE, birth |-> Block(zchain, Birthday - 1)]

Scanning(pc) == scan.pc = pc

(***************************************************************************)
(* scan_to_tip.                                                            *)
(***************************************************************************)
Boundary == IF scan.height - 1 <= Len(scan.target) THEN scan.height - 1 ELSE Len(scan.target)

\* The height the next request is about.
Asked == CASE Scanning("boundary")                   -> Boundary
           [] scan.pc \in {"loop", "rewound"} -> scan.height - 1
           [] OTHER                           -> scan.height

\* The target, and where the database stands.
scan_begin ==
    /\ Scanning("idle")
    /\ scan' = [pc     |-> IF block_fully_scanned = Nothing THEN "loop" ELSE "boundary",
                target |-> zchain, height |-> next_scan_height,
                prev   |-> block_fully_scanned, from |-> Nothing]
    /\ picked' = Nothing      \* the plan made from it was for the former tip
    /\ UNCHANGED <<zchain, wdb, wtip, wproc, world>>

\* Leaving every comparison to the loop below, which may have nothing to do.
scan_boundary_forward ==
    /\ Scanning("boundary")
    /\ scan' = [scan EXCEPT !.pc = "loop"]
    /\ UNCHANGED <<zchain, wdb, wtip, wproc, picked, world>>

\* The wallet is ahead of the target, or on another branch at the boundary.
scan_boundary ==
    LET ahead  == scan.height - 1 > Len(scan.target)
        rewind == [scan EXCEPT !.pc = "rewind", !.height = Boundary]
    IN  /\ Scanning("boundary")
        /\ \/ ahead /\ scan' = rewind
           \/ /\ ~ahead /\ Has(Boundary)
              /\ scan' = IF get_block_hash(Boundary) # Block(zchain, Boundary) THEN rewind
                         ELSE [scan EXCEPT !.pc = "loop"]
        /\ UNCHANGED <<zchain, wdb, wtip, wproc, picked, world>>

\* One round of rewind_to_common_ancestor.  It gives up at the birthday.
rewind_probe ==
    /\ Scanning("rewind")
    /\ Has(scan.height)
    /\ scan' = IF get_block_hash(scan.height) = Block(zchain, scan.height)
                 THEN [scan EXCEPT !.pc = "apply"]
               ELSE IF scan.height <= Birthday THEN Resting
               ELSE [scan EXCEPT !.height = @ - 1]
    /\ UNCHANGED <<zchain, wdb, wtip, wproc, picked, world>>

rewind_to_chain_state ==
    /\ Scanning("apply")
    /\ Has(scan.height)
    /\ wdb' = SubSeq(wdb, 1, scan.height - Birthday + 1)
    /\ scan' = [scan EXCEPT !.pc = "rewound", !.height = @ + 1]
    /\ UNCHANGED <<zchain, wtip, wproc, picked, world>>

after_rewind ==
    /\ Scanning("rewound")
    /\ Has(scan.height - 1)
    /\ scan' = [scan EXCEPT !.pc = "loop", !.prev = Block(zchain, scan.height - 1)]
    /\ UNCHANGED <<zchain, wdb, wtip, wproc, picked, world>>

\* Going on without the comparison below.
scan_loop_trusting ==
    /\ Scanning("loop")
    /\ \/ scan.height > Len(scan.target) /\ scan' = [scan EXCEPT !.pc = "finish"]
       \/ /\ scan.height <= Len(scan.target) /\ Has(scan.height - 1)
          /\ scan' = [scan EXCEPT !.pc = "fetch", !.from = Block(zchain, scan.height - 1)]
    /\ UNCHANGED <<zchain, wdb, wtip, wproc, picked, world>>

\* The tree state below the next block has to belong to the previous block.
scan_loop ==
    LET from == Block(zchain, scan.height - 1)
    IN  /\ Scanning("loop")
        /\ \/ scan.height > Len(scan.target) /\ scan' = [scan EXCEPT !.pc = "finish"]
           \/ /\ scan.height <= Len(scan.target) /\ Has(scan.height - 1)
              /\ scan' = IF scan.prev # Nothing /\ from # scan.prev
                           THEN [scan EXCEPT !.pc = "rewind", !.height = @ - 1]
                           ELSE [scan EXCEPT !.pc = "fetch", !.from = from]
        /\ UNCHANGED <<zchain, wdb, wtip, wproc, picked, world>>

\* External: scan_block refuses a block that does not follow the tree state,
\* put_blocks one that does not follow the account's birthday.
Follows(block) == /\ Front(block) = scan.from
                  /\ wdb = <<>> => scan.from = world.birth

scan_block ==
    /\ Scanning("fetch")
    /\ Has(scan.height)
    /\ LET block == Block(zchain, scan.height)
       IN  IF Follows(block)
             THEN wdb' = Append(wdb, block) /\ scan' = [scan EXCEPT !.pc = "stored"]
             ELSE scan' = Resting /\ UNCHANGED wdb
    /\ UNCHANGED <<zchain, wtip, wproc, picked, world>>

after_store ==
    /\ Scanning("stored")
    /\ Has(scan.height)
    /\ scan' = [scan EXCEPT !.pc = "loop", !.prev = Block(zchain, scan.height),
                            !.height = @ + 1, !.from = Nothing]
    /\ UNCHANGED <<zchain, wdb, wtip, wproc, picked, world>>

\* The tip the process plans against is set when the target is still there.
scan_finish ==
    /\ Scanning("finish")
    /\ wtip' = Len(scan.target)
    /\ wproc' = IF Has(Len(scan.target)) /\ Block(zchain, Len(scan.target)) = scan.target
                  THEN [wproc EXCEPT !.tip = scan.target] ELSE wproc
    /\ scan' = Resting
    /\ UNCHANGED <<zchain, wdb, picked, world>>

\* A request for a height the chain no longer has ends the scan.  One that fails
\* for another reason ends the command: see exit.
scan_failed ==
    /\ scan.pc \notin {"idle", "finish"}
    /\ ~Has(Asked)
    /\ scan' = Resting
    /\ UNCHANGED <<zchain, wdb, wtip, wproc, picked, world>>

(***************************************************************************)
(* The process.                                                            *)
(***************************************************************************)
unlock_with_seed ==
    /\ Scanning("idle") /\ ~wproc.unlocked
    /\ wproc' = [wproc EXCEPT !.unlocked = TRUE]
    /\ UNCHANGED <<zchain, wdb, wtip, scan, picked, world>>

\* The process ends or dies, or the node stops answering it: what is in the
\* database stays.
exit ==
    /\ world.exits < MaxExits
    /\ world' = [world EXCEPT !.exits = @ + 1]
    /\ scan' = Resting
    /\ wproc' = NewProcess
    /\ picked' = Nothing
    /\ UNCHANGED <<zchain, wdb, wtip>>

\* sync_status: height and hash.
synced == block_fully_scanned # Nothing /\ block_fully_scanned = wproc.tip

\* build_source asks for the tip once more after the scan, and plans against it
\* whether or not it is the one scanned to.
set_canonical_tip ==
    /\ Scanning("idle") /\ wproc.tip # Nothing
    /\ wproc' = [wproc EXCEPT !.tip = zchain]
    /\ UNCHANGED <<zchain, wdb, wtip, scan, picked, world>>

\* select_spends: unlocked, and synced with the tip the process plans against;
\* notes up to the block below the tip, witnesses from there.
select_spends_at_tip ==
    /\ Scanning("idle")
    /\ wproc.unlocked
    /\ wproc.tip # Nothing
    /\ synced
    /\ Len(wproc.tip) >= 2
    /\ picked' = [tip |-> wproc.tip, anchor |-> get_block_hash(Len(wproc.tip) - 1),
                  blocks |-> {wdb[i] : i \in 1..Len(wdb)}]
    /\ UNCHANGED <<zchain, wdb, wtip, scan, wproc, world>>

\* The block just stored or rewound to is not on c.
Replaces(c) == Asked > Len(c) \/ Block(c, Asked) # Block(zchain, Asked)

\* The node's best chain grows or gives way to another one, between any two
\* requests of a scan.
zebra_switch ==
    /\ world.switches < MaxSwitches
    /\ \E c \in Chain \ {zchain} :
          /\ zchain' = c
          /\ world' = [world EXCEPT !.switches = @ + 1,
                                    !.unseen = @ \/ (scan.pc \in UncheckedPoints /\ Replaces(c))]
    /\ UNCHANGED <<wdb, wtip, scan, wproc, picked>>

ScanStep ==
    \/ scan_begin \/ scan_boundary \/ rewind_probe \/ rewind_to_chain_state \/ after_rewind
    \/ scan_loop \/ scan_block \/ after_store \/ scan_finish \/ scan_failed

ScanNext ==
    \/ ScanStep \/ unlock_with_seed \/ exit \/ set_canonical_tip
    \/ select_spends_at_tip \/ zebra_switch

ScanSpec == ScanInit /\ [][ScanNext]_scanVars /\ WF_scanVars(ScanStep)

(***************************************************************************)
(* Properties.                                                             *)
(***************************************************************************)
FromOneChain ==
    picked # Nothing =>
        /\ \A b \in picked.blocks : IsPrefix(b, picked.tip)
        /\ picked.anchor # Nothing => picked.anchor = Front(picked.tip)

\* A selection takes notes and witnesses from blocks of one chain only, the one
\* its tip is on: the wallet never mixes what it scanned before and after a
\* reorganisation, wherever the process was stopped, under one condition: no
\* switch so far has replaced a block between its being stored, or rewound to,
\* and the request for its hash that follows (scan_to_tip, sqlite.rs:277).
SelectsFromOneChain == ~world.unseen => FromOneChain

\* The same without the condition.  The comment of scan_to_tip (sqlite.rs:258)
\* says a scan is rejected when the chain changes under it, but the three
\* requests of UncheckedPoints take the node's answer for the hash of the block
\* in the database: the loop then compares the new chain with itself.
SelectsFromOneChainAlways == FromOneChain

\* The first block the wallet knows is still on the best chain.
Reachable == IsPrefix(IF wdb = <<>> THEN world.birth ELSE Head(wdb), zchain)

\* Once the best chain stays as it is, repeated scans bring the wallet to its
\* tip, also when that is lower than what was scanned or replaces it at the same
\* height, unless the reorganisation crosses the birthday (scan_to_tip,
\* rewind_to_common_ancestor).
ScanCatchesUp ==
    <>[](~Reachable \/ (block_fully_scanned = zchain /\ wproc.tip = zchain))
=============================================================================
