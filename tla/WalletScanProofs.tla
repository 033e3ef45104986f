-------------------------- MODULE WalletScanProofs --------------------------
(***************************************************************************)
(* The wallet's scan, for any number of choices, any length of chain, any  *)
(* birthday, any number of exits, and any number of switches at any point  *)
(* of a scan: a selection is from one chain as long as no switch has       *)
(* replaced a block the wallet had just stored or rewound to before it     *)
(* asked the node for that block's hash (world.unseen).                    *)
(*                                                                         *)
(* The scanned blocks are then at all times prefixes of one another, so it *)
(* is enough that the last of them is the tip.  A block is added only      *)
(* under a tree state that was compared with the previous block, and what  *)
(* the scan takes for the previous block is the last one in the database.  *)
(***************************************************************************)
EXTENDS WalletScan, SequenceTheorems, TLAPS

\* s is t up to the length of s.
Below(s, t) == Len(s) <= Len(t) /\ \A m \in 1..Len(s) : t[m] = s[m]

ScanTypes ==
  /\ zchain \in Seq(Choice) /\ Len(zchain) \in Birthday..MaxLength
  /\ scan \in [pc : ScanPc, target : Seq(Choice) \union {Nothing}, height : Nat,
               prev : Seq(Choice) \union {Nothing}, from : Seq(Choice) \union {Nothing}]
  /\ scan.pc # "idle" => scan.target \in Seq(Choice)

\* The scanned blocks, from the birthday up, one on top of the other.
DbOrdered ==
  /\ wdb \in Seq(Seq(Choice))
  /\ \A i \in 1..Len(wdb) : Len(wdb[i]) = Birthday + i - 1 /\ Len(wdb[i]) <= MaxLength
  /\ \A i, j \in 1..Len(wdb) : i <= j => Below(wdb[i], wdb[j])

\* What a scan knows about the database at each of its points.
ScanKnows ==
  /\ scan.pc \in {"boundary", "loop", "fetch"} => scan.height = next_scan_height
  /\ scan.pc \in {"boundary", "loop"} /\ wdb # <<>> => scan.prev = Last(wdb)
  /\ scan.pc = "fetch" /\ wdb # <<>> => scan.from = Last(wdb)
  /\ scan.pc = "apply" => /\ scan.height \in Birthday..ScannedTop
                          /\ get_block_hash(scan.height) = Block(zchain, scan.height)
                          /\ Has(scan.height)
  /\ scan.pc = "rewound" => /\ wdb # <<>> /\ scan.height = next_scan_height
                            /\ Last(wdb) = Block(zchain, scan.height - 1)
  /\ scan.pc = "stored" => /\ wdb # <<>> /\ scan.height = ScannedTop
                           /\ Last(wdb) = Block(zchain, scan.height)

ScanInv == ScanTypes /\ DbOrdered /\ ScanKnows /\ FromOneChain

WorldOK == world \in [switches : Int, exits : Int, unseen : BOOLEAN, birth : Seq(Choice)]

\* The inductive invariant.
ScanInvIfSeen == WorldOK /\ (~world.unseen => ScanInv)

LEMMA Numbers == Birthday \in Nat /\ MaxLength \in Nat /\ Birthday >= 2 /\ Birthday <= MaxLength
  BY ScanConstants

LEMMA BlockKnown ==
  ASSUME NEW b \in Seq(Choice), Len(b) <= MaxLength
  PROVE  b # Nothing
<1>1. Len(b) \in 0..MaxLength /\ b \in [1..Len(b) -> Choice]
  BY Numbers
<1> QED
  BY <1>1, NothingAssumption

LEMMA ChainType ==
  ASSUME NEW c \in Chain
  PROVE  c \in Seq(Choice) /\ Len(c) \in Birthday..MaxLength
<1>1. PICK n \in Birthday..MaxLength : c \in [1..n -> Choice]
  BY DEF Chain
<1>2. n \in Nat
  BY Numbers
<1> QED
  BY <1>1, <1>2

LEMMA BlockType ==
  ASSUME NEW c \in Seq(Choice), NEW h \in Nat, h <= Len(c)
  PROVE  /\ Block(c, h) \in Seq(Choice) /\ Len(Block(c, h)) = h
         /\ \A m \in 1..h : Block(c, h)[m] = c[m]
  BY DEF Block

\* Below, in the words of the community modules.
LEMMA BelowIsPrefix ==
  ASSUME NEW s \in Seq(Choice), NEW t \in Seq(Choice), Below(s, t)
  PROVE  IsPrefix(s, t) /\ SubSeq(t, 1, Len(s)) = s
<1>1. Len(s) \in Nat /\ Len(t) \in Nat /\ Len(s) <= Len(t)
  BY DEF Below
<1>2. /\ SubSeq(t, 1, Len(s)) \in Seq(Choice) /\ Len(SubSeq(t, 1, Len(s))) = Len(s)
      /\ \A m \in 1..Len(s) : SubSeq(t, 1, Len(s))[m] = t[m]
  BY <1>1
<1>3. SubSeq(t, 1, Len(s)) = s
  BY <1>1, <1>2, SeqEqual DEF Below
<1>4. /\ SubSeq(s, 1, Len(s)) \in Seq(Choice) /\ Len(SubSeq(s, 1, Len(s))) = Len(s)
      /\ \A m \in 1..Len(s) : SubSeq(s, 1, Len(s))[m] = s[m]
  BY <1>1
<1>5. SubSeq(s, 1, Len(s)) = s
  BY <1>1, <1>4, SeqEqual
<1> QED
  BY <1>1, <1>3, <1>5 DEF IsPrefix

LEMMA ScanInitially == ScanInit => ScanInv
<1> SUFFICES ASSUME ScanInit PROVE ScanInv
  OBVIOUS
<1>1. zchain \in Seq(Choice) /\ Len(zchain) \in Birthday..MaxLength
  <2>1. zchain \in Chain
    BY DEF ScanInit
  <2> QED
    BY <2>1, ChainType
<1>2. ScanTypes
  BY <1>1 DEF ScanTypes, ScanInit, Resting, ScanPc
<1>3. DbOrdered
  BY DEF DbOrdered, ScanInit
<1>4. ScanKnows
  BY DEF ScanKnows, ScanInit, Resting
<1>5. FromOneChain
  BY DEF FromOneChain, ScanInit
<1> QED
  BY <1>2, <1>3, <1>4, <1>5 DEF ScanInv

\* The last scanned block: its height, and that it is known.
LEMMA LastScanned ==
  ASSUME DbOrdered, wdb # <<>>
  PROVE  /\ Len(wdb) \in Nat \ {0}
         /\ Last(wdb) = wdb[Len(wdb)] /\ Last(wdb) \in Seq(Choice) /\ Last(wdb) # Nothing
         /\ Len(Last(wdb)) = ScannedTop
         /\ block_fully_scanned = Last(wdb)
<1>1. Len(wdb) \in Nat \ {0}
  BY DEF DbOrdered
<1>2. Last(wdb) = wdb[Len(wdb)]
  BY DEF Last
<1>3. wdb[Len(wdb)] \in Seq(Choice)
  BY <1>1 DEF DbOrdered
<1>4. Len(wdb[Len(wdb)]) = ScannedTop /\ Len(wdb[Len(wdb)]) <= MaxLength
  BY <1>1, Numbers DEF DbOrdered, ScannedTop
<1>5. wdb[Len(wdb)] # Nothing
  BY <1>3, <1>4, BlockKnown
<1> QED
  BY <1>1, <1>2, <1>3, <1>4, <1>5 DEF block_fully_scanned

\* Where the next scan starts.
LEMMA NextHeight ==
  ASSUME DbOrdered
  PROVE  /\ next_scan_height \in Nat /\ ScannedTop \in Nat
         /\ next_scan_height = ScannedTop + 1 /\ next_scan_height >= 2
         /\ next_scan_height = Birthday + Len(wdb)
<1>1. Len(wdb) \in Nat
  BY DEF DbOrdered
<1> QED
  BY <1>1, Numbers DEF next_scan_height, ScannedTop

\* The block of the best chain at a height it has is known.
LEMMA BestBlock ==
  ASSUME ScanTypes, NEW h \in Nat, Has(h)
  PROVE  /\ Block(zchain, h) \in Seq(Choice) /\ Len(Block(zchain, h)) = h
         /\ h <= MaxLength /\ Block(zchain, h) # Nothing
<1>1. zchain \in Seq(Choice) /\ Len(zchain) \in Birthday..MaxLength /\ h <= Len(zchain)
  BY DEF ScanTypes, Has
<1>2. Block(zchain, h) \in Seq(Choice) /\ Len(Block(zchain, h)) = h
  BY <1>1, BlockType
<1>3. h <= MaxLength
  BY <1>1, Numbers
<1> QED
  BY <1>2, <1>3, BlockKnown
\* Steps that leave the database alone and end the scan.
LEMMA ScanEnds ==
  ASSUME ScanInv, scan' = Resting, UNCHANGED <<zchain, wdb>>,
         picked' = picked \/ picked' = Nothing
  PROVE  ScanInv'
<1>1. ScanTypes'
  BY DEF ScanInv, ScanTypes, Resting, ScanPc
<1>2. DbOrdered'
  BY DEF ScanInv, DbOrdered
<1>3. ScanKnows'
  BY DEF ScanKnows, Resting
<1>4. FromOneChain'
  BY DEF ScanInv, FromOneChain
<1> QED
  BY <1>1, <1>2, <1>3, <1>4 DEF ScanInv

LEMMA ScanBegins == ScanInv /\ scan_begin => ScanInv'
<1> SUFFICES ASSUME ScanInv, scan_begin PROVE ScanInv'
  OBVIOUS
<1>1. next_scan_height \in Nat
  BY NextHeight DEF ScanInv
<1>2. block_fully_scanned \in Seq(Choice) \union {Nothing}
  BY LastScanned DEF ScanInv, block_fully_scanned
<1>3. ScanTypes'
  BY <1>1, <1>2 DEF ScanInv, ScanTypes, scan_begin, ScanPc
<1>4. DbOrdered'
  BY DEF ScanInv, DbOrdered, scan_begin
<1>5. ScanKnows'
  <2>1. scan'.height = next_scan_height' /\ scan'.pc \in {"loop", "boundary"}
    BY DEF scan_begin, next_scan_height, ScannedTop
  <2>2. wdb' # <<>> => scan'.prev = Last(wdb')
    <3>1. ASSUME wdb # <<>> PROVE block_fully_scanned = Last(wdb)
      BY <3>1, LastScanned DEF ScanInv
    <3> QED
      BY <3>1 DEF scan_begin
  <2> QED
    BY <2>1, <2>2 DEF ScanKnows
<1>6. FromOneChain'
  BY DEF FromOneChain, scan_begin
<1> QED
  BY <1>3, <1>4, <1>5, <1>6 DEF ScanInv

LEMMA ScanBoundary == ScanInv /\ scan_boundary => ScanInv'
<1> SUFFICES ASSUME ScanInv, scan_boundary PROVE ScanInv'
  OBVIOUS
<1>1. /\ scan.height = next_scan_height /\ scan.pc = "boundary" /\ scan.height \in Nat
      /\ scan.height >= 2 /\ scan.target \in Seq(Choice)
  <2>1. scan.pc = "boundary"
    BY DEF scan_boundary, Scanning
  <2> QED
    BY <2>1, NextHeight DEF ScanInv, ScanTypes, ScanKnows
<1>2. Boundary \in Nat
  BY <1>1 DEF Boundary
<1>3. \/ scan' = [scan EXCEPT !.pc = "rewind", !.height = Boundary]
      \/ scan' = [scan EXCEPT !.pc = "loop"]
  BY DEF scan_boundary
<1>4. ScanTypes'
  BY <1>1, <1>2, <1>3 DEF ScanInv, ScanTypes, scan_boundary, ScanPc
<1>5. DbOrdered'
  BY DEF ScanInv, DbOrdered, scan_boundary
<1>6. ScanKnows'
  <2>1. UNCHANGED wdb /\ next_scan_height' = next_scan_height
    BY DEF scan_boundary, next_scan_height, ScannedTop
  <2>2. CASE scan' = [scan EXCEPT !.pc = "rewind", !.height = Boundary]
    <3>1. scan'.pc = "rewind"
      BY <2>2 DEF ScanInv, ScanTypes
    <3> QED
      BY <3>1 DEF ScanKnows
  <2>3. CASE scan' = [scan EXCEPT !.pc = "loop"]
    <3>1. scan'.pc = "loop" /\ scan'.height = scan.height /\ scan'.prev = scan.prev
      BY <2>3 DEF ScanInv, ScanTypes
    <3> QED
      BY <1>1, <2>1, <3>1 DEF ScanInv, ScanKnows
  <2> QED
    BY <1>3, <2>2, <2>3
<1>7. FromOneChain'
  BY DEF ScanInv, FromOneChain, scan_boundary
<1> QED
  BY <1>4, <1>5, <1>6, <1>7 DEF ScanInv

LEMMA ScanProbes == ScanInv /\ rewind_probe => ScanInv'
<1> SUFFICES ASSUME ScanInv, rewind_probe PROVE ScanInv'
  OBVIOUS
<1>1. scan.pc = "rewind" /\ scan.height \in Nat /\ scan.target \in Seq(Choice)
  BY DEF rewind_probe, Scanning, ScanInv, ScanTypes
<1>2. UNCHANGED <<zchain, wdb, picked>> /\ Has(scan.height)
  BY DEF rewind_probe
<1>3. CASE scan' = Resting
  BY <1>2, <1>3, ScanEnds
<1>4. CASE scan.height > Birthday /\ scan' = [scan EXCEPT !.height = @ - 1]
  <2>1. scan.height - 1 \in Nat
    BY <1>1, <1>4, Numbers
  <2>2. scan'.pc = "rewind" /\ scan'.height \in Nat
    BY <1>1, <1>4, <2>1 DEF ScanInv, ScanTypes
  <2>3. ScanTypes'
    BY <1>1, <1>2, <1>4, <2>1 DEF ScanInv, ScanTypes
  <2>4. DbOrdered'
    BY <1>2 DEF ScanInv, DbOrdered
  <2>5. ScanKnows'
    BY <2>2 DEF ScanKnows
  <2>6. FromOneChain'
    BY <1>2 DEF ScanInv, FromOneChain
  <2> QED
    BY <2>3, <2>4, <2>5, <2>6 DEF ScanInv
<1>5. CASE /\ get_block_hash(scan.height) = Block(zchain, scan.height)
           /\ scan' = [scan EXCEPT !.pc = "apply"]
  <2>1. scan.height \in Birthday..ScannedTop
    <3>1. Block(zchain, scan.height) # Nothing
      BY <1>1, <1>2, BestBlock DEF ScanInv
    <3> QED
      BY <1>5, <3>1 DEF get_block_hash
  <2>2. scan'.pc = "apply" /\ scan'.height = scan.height
    BY <1>1, <1>5 DEF ScanInv, ScanTypes
  <2>3. ScanTypes'
    BY <1>1, <1>2, <1>5 DEF ScanInv, ScanTypes, ScanPc
  <2>4. DbOrdered'
    BY <1>2 DEF ScanInv, DbOrdered
  <2>5. ScanKnows'
    <3>1. scan'.height \in Birthday..ScannedTop'
      BY <1>2, <2>1, <2>2 DEF ScannedTop
    <3>2. get_block_hash(scan.height)' = get_block_hash(scan.height)
      BY <1>2, <2>2 DEF get_block_hash, ScannedTop
    <3>3. Block(zchain, scan.height)' = Block(zchain, scan.height) /\ Has(scan.height)'
      BY <1>2, <2>2 DEF Block, Has
    <3> QED
      BY <1>5, <2>2, <3>1, <3>2, <3>3 DEF ScanKnows
  <2>6. FromOneChain'
    BY <1>2 DEF ScanInv, FromOneChain
  <2> QED
    BY <2>3, <2>4, <2>5, <2>6 DEF ScanInv
<1> QED
  BY <1>1, <1>3, <1>4, <1>5, Numbers DEF rewind_probe
\* A rewound database is the old one up to the block found on the best chain.
LEMMA ScanRewinds == ScanInv /\ rewind_to_chain_state => ScanInv'
<1> SUFFICES ASSUME ScanInv, rewind_to_chain_state PROVE ScanInv'
  OBVIOUS
<1>1. scan.pc = "apply" /\ scan.height \in Nat /\ scan.target \in Seq(Choice)
  BY DEF rewind_to_chain_state, Scanning, ScanInv, ScanTypes
<1>2. UNCHANGED <<zchain, picked>>
  BY DEF rewind_to_chain_state
<1>3. /\ scan.height \in Birthday..ScannedTop
      /\ get_block_hash(scan.height) = Block(zchain, scan.height)
  BY <1>1 DEF ScanInv, ScanKnows
<1>4. PICK k \in Nat : k = scan.height - Birthday + 1
  BY <1>1, <1>3, Numbers
<1>5. Len(wdb) \in Nat /\ k \in 1..Len(wdb) /\ wdb \in Seq(Seq(Choice))
  BY <1>1, <1>3, <1>4, Numbers DEF ScanInv, DbOrdered, ScannedTop
<1>6. wdb' = SubSeq(wdb, 1, k)
  BY <1>4 DEF rewind_to_chain_state
<1>7. wdb' \in Seq(Seq(Choice)) /\ Len(wdb') = k /\ \A i \in 1..k : wdb'[i] = wdb[i]
  BY <1>5, <1>6
<1>8. scan' = [scan EXCEPT !.pc = "rewound", !.height = scan.height + 1]
  BY DEF rewind_to_chain_state
<1>9. scan'.pc = "rewound" /\ scan'.height = scan.height + 1
  BY <1>8 DEF ScanInv, ScanTypes
<1>10. ScanTypes'
  <2>1. PICK h \in Nat : h = scan.height + 1
    BY <1>1
  <2>2. scan' = [scan EXCEPT !.pc = "rewound", !.height = h]
    BY <1>8, <2>1
  <2> QED
    BY <1>1, <1>2, <2>2 DEF ScanInv, ScanTypes, ScanPc
<1>11. DbOrdered'
  <2>1. \A i \in 1..k : i \in 1..Len(wdb)
    BY <1>5
  <2>2. \A i \in 1..k : Len(wdb'[i]) = Birthday + i - 1 /\ Len(wdb'[i]) <= MaxLength
    BY <1>7, <2>1 DEF ScanInv, DbOrdered
  <2>3. \A i, j \in 1..k : i <= j => Below(wdb'[i], wdb'[j])
    BY <1>7, <2>1 DEF ScanInv, DbOrdered
  <2> QED
    BY <1>7, <2>2, <2>3 DEF DbOrdered
<1>12. ScanKnows'
  <2>1. wdb' # <<>>
    BY <1>5, <1>7
  <2>2. scan'.height = next_scan_height'
    BY <1>1, <1>4, <1>7, <1>9, Numbers DEF next_scan_height, ScannedTop
  <2>3. Last(wdb') = wdb[k]
    BY <1>5, <1>7 DEF Last
  <2>4. wdb[k] = Block(zchain, scan.height)
    BY <1>3, <1>4 DEF get_block_hash
  <2>5. scan'.height - 1 = scan.height
    BY <1>1, <1>9
  <2>6. Last(wdb') = Block(zchain', scan'.height - 1)
    BY <1>2, <2>3, <2>4, <2>5
  <2> QED
    BY <1>9, <2>1, <2>2, <2>6 DEF ScanKnows
<1>13. FromOneChain'
  BY <1>2 DEF ScanInv, FromOneChain
<1> QED
  BY <1>10, <1>11, <1>12, <1>13 DEF ScanInv

\* The node's hash for the block rewound to is that block's.
LEMMA ScanResumes == ScanInv /\ after_rewind => ScanInv'
<1> SUFFICES ASSUME ScanInv, after_rewind PROVE ScanInv'
  OBVIOUS
<1>1. scan.pc = "rewound" /\ scan.height \in Nat /\ scan.target \in Seq(Choice)
  BY DEF after_rewind, Scanning, ScanInv, ScanTypes
<1>2. UNCHANGED <<zchain, wdb, picked>>
  BY DEF after_rewind
<1>3. wdb # <<>> /\ scan.height = next_scan_height /\ Last(wdb) = Block(zchain, scan.height - 1)
  BY <1>1 DEF ScanInv, ScanKnows
<1>4. scan' = [scan EXCEPT !.pc = "loop", !.prev = Last(wdb)]
  BY <1>3 DEF after_rewind
<1>5. scan'.pc = "loop" /\ scan'.height = scan.height /\ scan'.prev = Last(wdb)
  BY <1>4 DEF ScanInv, ScanTypes
<1>6. ScanTypes'
  <2>1. Last(wdb) \in Seq(Choice)
    BY <1>3, LastScanned DEF ScanInv
  <2> QED
    BY <1>1, <1>2, <1>4, <2>1 DEF ScanInv, ScanTypes, ScanPc
<1>7. DbOrdered'
  BY <1>2 DEF ScanInv, DbOrdered
<1>8. ScanKnows'
  BY <1>2, <1>3, <1>5 DEF ScanKnows, next_scan_height, ScannedTop
<1>9. FromOneChain'
  BY <1>2 DEF ScanInv, FromOneChain
<1> QED
  BY <1>6, <1>7, <1>8, <1>9 DEF ScanInv

\* A tree state the loop goes on with is the last block's.
LEMMA ScanLoops == ScanInv /\ scan_loop => ScanInv'
<1> SUFFICES ASSUME ScanInv, scan_loop PROVE ScanInv'
  OBVIOUS
<1>1. /\ scan.pc = "loop" /\ scan.height \in Nat /\ scan.target \in Seq(Choice)
      /\ scan.height = next_scan_height /\ scan.height >= 2
      /\ (wdb # <<>> => scan.prev = Last(wdb))
  <2>1. scan.pc = "loop"
    BY DEF scan_loop, Scanning
  <2> QED
    BY <2>1, NextHeight DEF ScanInv, ScanTypes, ScanKnows
<1>2. UNCHANGED <<zchain, wdb, picked>>
  BY DEF scan_loop
<1>3. DbOrdered'
  BY <1>2 DEF ScanInv, DbOrdered
<1>4. FromOneChain'
  BY <1>2 DEF ScanInv, FromOneChain
<1>5. PICK from : from = Block(zchain, scan.height - 1)
  OBVIOUS
<1>6. CASE \/ scan' = [scan EXCEPT !.pc = "finish"]
           \/ scan' = [scan EXCEPT !.pc = "rewind", !.height = scan.height - 1]
  <2>1. scan.height - 1 \in Nat
    BY <1>1
  <2>2. ScanTypes'
    BY <1>1, <1>2, <1>6, <2>1 DEF ScanInv, ScanTypes, ScanPc
  <2>3. scan'.pc \in {"finish", "rewind"}
    BY <1>6 DEF ScanInv, ScanTypes
  <2>4. ScanKnows'
    BY <2>3 DEF ScanKnows
  <2> QED
    BY <1>3, <1>4, <2>2, <2>4 DEF ScanInv
<1>7. CASE /\ Has(scan.height - 1)
           /\ ~(scan.prev # Nothing /\ from # scan.prev)
           /\ scan' = [scan EXCEPT !.pc = "fetch", !.from = from]
  <2>1. from \in Seq(Choice)
    BY <1>1, <1>5, <1>7, BestBlock DEF ScanInv
  <2>2. ScanTypes'
    BY <1>1, <1>2, <1>7, <2>1 DEF ScanInv, ScanTypes, ScanPc
  <2>3. scan'.pc = "fetch" /\ scan'.height = scan.height /\ scan'.from = from
    BY <1>7 DEF ScanInv, ScanTypes
  <2>4. wdb # <<>> => from = Last(wdb)
    BY <1>1, <1>7, LastScanned DEF ScanInv
  <2>5. next_scan_height' = next_scan_height
    BY <1>2 DEF next_scan_height, ScannedTop
  <2>6. ScanKnows'
    BY <1>1, <1>2, <2>3, <2>4, <2>5 DEF ScanKnows
  <2> QED
    BY <1>3, <1>4, <2>2, <2>6 DEF ScanInv
<1> QED
  BY <1>5, <1>6, <1>7 DEF scan_loop
\* A block that follows the last one keeps the database in order.
LEMMA ScanStores == ScanInv /\ scan_block => ScanInv'
<1> SUFFICES ASSUME ScanInv, scan_block PROVE ScanInv'
  OBVIOUS
<1>1. /\ scan.pc = "fetch" /\ scan.height \in Nat /\ scan.target \in Seq(Choice)
      /\ scan.height = Birthday + Len(wdb) /\ Len(wdb) \in Nat
      /\ (wdb # <<>> => scan.from = Last(wdb))
  <2>1. scan.pc = "fetch"
    BY DEF scan_block, Scanning
  <2> QED
    BY <2>1, NextHeight DEF ScanInv, ScanTypes, ScanKnows, DbOrdered
<1>2. UNCHANGED <<zchain, picked>> /\ Has(scan.height)
  BY DEF scan_block
<1>3. PICK b : b = Block(zchain, scan.height)
  OBVIOUS
<1>4. b \in Seq(Choice) /\ Len(b) = scan.height /\ scan.height <= MaxLength
  BY <1>1, <1>2, <1>3, BestBlock DEF ScanInv
<1>5. CASE scan' = Resting /\ UNCHANGED wdb
  BY <1>2, <1>5, ScanEnds
<1>6. CASE Follows(b) /\ wdb' = Append(wdb, b) /\ scan' = [scan EXCEPT !.pc = "stored"]
  <2>1. wdb \in Seq(Seq(Choice))
    BY DEF ScanInv, DbOrdered
  <2>2. PICK n \in Nat : n = Len(wdb)
    BY <1>1
  <2>3. /\ wdb' \in Seq(Seq(Choice)) /\ Len(wdb') = n + 1
        /\ wdb'[n + 1] = b /\ \A i \in 1..n : wdb'[i] = wdb[i]
    BY <1>4, <1>6, <2>1, <2>2
  <2>4. \A i \in 1..(n + 1) : i \in 1..n \/ i = n + 1
    OBVIOUS
  <2>5. ASSUME NEW i \in 1..n PROVE Below(wdb[i], b)
    <3>1. wdb # <<>> /\ n \in 1..n
      BY <2>1, <2>2
    <3>2. PICK l : l = wdb[n]
      OBVIOUS
    <3>3. l \in Seq(Choice) /\ Len(l) = Birthday + n - 1
      BY <2>1, <2>2, <3>1, <3>2 DEF ScanInv, DbOrdered
    <3>4. Front(b) = l
      BY <1>1, <1>6, <2>2, <3>1, <3>2 DEF Follows, Last
    <3>5. Len(b) = Birthday + n
      BY <1>1, <1>4, <2>2
    <3>6. \A m \in 1..Len(l) : b[m] = l[m]
      <4>1. Len(l) = Len(b) - 1 /\ Len(l) \in Nat
        BY <3>3, <3>5, Numbers
      <4>2. \A m \in 1..(Len(b) - 1) : SubSeq(b, 1, Len(b) - 1)[m] = b[m]
        BY <1>4, <4>1
      <4> QED
        BY <3>4, <4>1, <4>2 DEF Front
    <3>7. Below(wdb[i], l)
      BY <2>2, <3>1, <3>2 DEF ScanInv, DbOrdered
    <3>8. wdb[i] \in Seq(Choice) /\ Len(wdb[i]) \in Nat
      BY <2>1, <2>2
    <3>9. Len(wdb[i]) <= Len(b)
      BY <3>3, <3>5, <3>7, <3>8, Numbers DEF Below
    <3>10. \A m \in 1..Len(wdb[i]) : m \in 1..Len(l)
      BY <3>3, <3>7, <3>8, Numbers DEF Below
    <3> QED
      BY <3>6, <3>7, <3>9, <3>10 DEF Below
  <2>6. Below(b, b)
    BY <1>4 DEF Below
  <2>7. DbOrdered'
    <3>1. \A i \in 1..(n + 1) : Len(wdb'[i]) = Birthday + i - 1 /\ Len(wdb'[i]) <= MaxLength
      <4> SUFFICES ASSUME NEW i \in 1..(n + 1)
                   PROVE  Len(wdb'[i]) = Birthday + i - 1 /\ Len(wdb'[i]) <= MaxLength
        OBVIOUS
      <4>1. CASE i \in 1..n
        BY <2>2, <2>3, <4>1 DEF ScanInv, DbOrdered
      <4>2. CASE i = n + 1
        <5>1. Len(b) = Birthday + i - 1
          BY <1>1, <1>4, <2>2, <4>2, Numbers
        <5> QED
          BY <1>4, <2>3, <4>2, <5>1
      <4> QED
        BY <2>4, <4>1, <4>2
    <3>2. \A i, j \in 1..(n + 1) : i <= j => Below(wdb'[i], wdb'[j])
      <4> SUFFICES ASSUME NEW i \in 1..(n + 1), NEW j \in 1..(n + 1), i <= j
                   PROVE  Below(wdb'[i], wdb'[j])
        OBVIOUS
      <4>1. CASE j \in 1..n
        <5>1. i \in 1..n
          BY <4>1
        <5> QED
          BY <2>2, <2>3, <4>1, <5>1 DEF ScanInv, DbOrdered
      <4>2. CASE j = n + 1 /\ i \in 1..n
        BY <2>3, <2>5, <4>2
      <4>3. CASE j = n + 1 /\ i = n + 1
        BY <2>3, <2>6, <4>3
      <4> QED
        BY <2>4, <4>1, <4>2, <4>3
    <3> QED
      BY <2>3, <3>1, <3>2 DEF DbOrdered
  <2>8. ScanTypes'
    BY <1>1, <1>2, <1>6 DEF ScanInv, ScanTypes, ScanPc
  <2>9. scan'.pc = "stored" /\ scan'.height = scan.height
    BY <1>6 DEF ScanInv, ScanTypes
  <2>10. ScanKnows'
    <3>1. wdb' # <<>> /\ Last(wdb') = b
      BY <2>3 DEF Last
    <3>2. scan'.height = ScannedTop'
      BY <1>1, <2>2, <2>3, <2>9, Numbers DEF ScannedTop
    <3>3. b = Block(zchain', scan'.height)
      BY <1>2, <1>3, <2>9
    <3> QED
      BY <2>9, <3>1, <3>2, <3>3 DEF ScanKnows
  <2>11. FromOneChain'
    BY <1>2 DEF ScanInv, FromOneChain
  <2> QED
    BY <2>7, <2>8, <2>10, <2>11 DEF ScanInv
<1> QED
  BY <1>3, <1>5, <1>6 DEF scan_block

\* The node's hash for the block just stored is that block's.
LEMMA ScanGoesOn == ScanInv /\ after_store => ScanInv'
<1> SUFFICES ASSUME ScanInv, after_store PROVE ScanInv'
  OBVIOUS
<1>1. scan.pc = "stored" /\ scan.height \in Nat /\ scan.target \in Seq(Choice)
  BY DEF after_store, Scanning, ScanInv, ScanTypes
<1>2. UNCHANGED <<zchain, wdb, picked>>
  BY DEF after_store
<1>3. wdb # <<>> /\ scan.height = ScannedTop /\ Last(wdb) = Block(zchain, scan.height)
  BY <1>1 DEF ScanInv, ScanKnows
<1>4. scan' = [scan EXCEPT !.pc = "loop", !.prev = Last(wdb), !.height = scan.height + 1,
                           !.from = Nothing]
  BY <1>3 DEF after_store
<1>5. scan'.pc = "loop" /\ scan'.height = scan.height + 1 /\ scan'.prev = Last(wdb)
  BY <1>4 DEF ScanInv, ScanTypes
<1>6. ScanTypes'
  <2>1. Last(wdb) \in Seq(Choice)
    BY <1>3, LastScanned DEF ScanInv
  <2>2. PICK h \in Nat : h = scan.height + 1
    BY <1>1
  <2>3. scan' = [scan EXCEPT !.pc = "loop", !.prev = Last(wdb), !.height = h, !.from = Nothing]
    BY <1>4, <2>2
  <2> QED
    BY <1>1, <1>2, <2>1, <2>3 DEF ScanInv, ScanTypes, ScanPc
<1>7. DbOrdered'
  BY <1>2 DEF ScanInv, DbOrdered
<1>8. ScanKnows'
  BY <1>2, <1>3, <1>5 DEF ScanKnows, next_scan_height, ScannedTop
<1>9. FromOneChain'
  BY <1>2 DEF ScanInv, FromOneChain
<1> QED
  BY <1>6, <1>7, <1>8, <1>9 DEF ScanInv

\* The tip is the last scanned block, and every scanned block is below that.
LEMMA ScanSelects == ScanInv /\ select_spends_at_tip => ScanInv'
<1> SUFFICES ASSUME ScanInv, select_spends_at_tip PROVE ScanInv'
  OBVIOUS
<1>1. UNCHANGED <<zchain, wdb, scan>>
  BY DEF select_spends_at_tip
<1>2. wdb # <<>> /\ block_fully_scanned = wproc.tip
  BY DEF select_spends_at_tip, synced, block_fully_scanned
<1>3. PICK n \in Nat : n = Len(wdb)
  BY DEF ScanInv, DbOrdered
<1>4. PICK t : t = wproc.tip
  OBVIOUS
<1>5. t = wdb[n] /\ t \in Seq(Choice) /\ Len(t) = Birthday + n - 1 /\ n \in 1..n
  BY <1>2, <1>3, <1>4, LastScanned, Numbers DEF ScanInv, ScannedTop
<1>6. \A i \in 1..n : wdb[i] \in Seq(Choice) /\ Len(wdb[i]) = Birthday + i - 1
                      /\ Below(wdb[i], t)
  BY <1>3, <1>5 DEF ScanInv, DbOrdered
<1>7. \A i \in 1..n : IsPrefix(wdb[i], t) /\ SubSeq(t, 1, Len(wdb[i])) = wdb[i]
  BY <1>5, <1>6, BelowIsPrefix
<1>8. ASSUME get_block_hash(Len(t) - 1) # Nothing
      PROVE  get_block_hash(Len(t) - 1) = Front(t)
  <2>1. Len(t) - 1 \in Birthday..ScannedTop
    BY <1>8 DEF get_block_hash
  <2>2. n - 1 \in 1..n /\ Len(t) - 1 - Birthday + 1 = n - 1
    BY <1>3, <1>5, <2>1, Numbers DEF ScannedTop
  <2>3. get_block_hash(Len(t) - 1) = wdb[n - 1]
    BY <2>1, <2>2 DEF get_block_hash
  <2>4. Len(wdb[n - 1]) = Len(t) - 1
    <3>1. PICK k \in 1..n : k = n - 1
      BY <2>2
    <3>2. Len(wdb[k]) = Birthday + k - 1
      BY <1>6, <3>1
    <3> QED
      BY <1>5, <3>1, <3>2, Numbers
  <2> QED
    BY <1>7, <2>2, <2>3, <2>4 DEF Front
<1>9. picked' = [tip |-> t, anchor |-> get_block_hash(Len(t) - 1),
                 blocks |-> {wdb[i] : i \in 1..n}]
  BY <1>3, <1>4 DEF select_spends_at_tip
<1>10. FromOneChain'
  <2>1. picked'.tip = t /\ picked'.anchor = get_block_hash(Len(t) - 1)
        /\ picked'.blocks = {wdb[i] : i \in 1..n}
    BY <1>9
  <2>2. \A b \in picked'.blocks : IsPrefix(b, picked'.tip)
    BY <1>7, <2>1
  <2>3. picked'.anchor # Nothing => picked'.anchor = Front(picked'.tip)
    BY <1>8, <2>1
  <2> QED
    BY <2>2, <2>3 DEF FromOneChain
<1>11. ScanTypes' /\ DbOrdered'
  BY <1>1 DEF ScanInv, ScanTypes, DbOrdered
<1>12. ScanKnows'
  BY <1>1 DEF ScanInv, ScanKnows, next_scan_height, ScannedTop, get_block_hash, Has, Block
<1> QED
  BY <1>10, <1>11, <1>12 DEF ScanInv
\* The best chain changes, and still has the block just stored or rewound to.
LEMMA ScanSwitches ==
  ASSUME ScanInv, WorldOK, zebra_switch, ~world'.unseen
  PROVE  ScanInv'
<1>1. UNCHANGED <<wdb, scan, picked>>
  BY DEF zebra_switch
<1>2. PICK c \in Chain :
         /\ zchain' = c
         /\ world' = [world EXCEPT !.switches = @ + 1,
                         !.unseen = @ \/ (scan.pc \in UncheckedPoints /\ Replaces(c))]
  BY DEF zebra_switch
<1>3. c \in Seq(Choice) /\ Len(c) \in Birthday..MaxLength
  BY <1>2, ChainType
<1>4. scan.pc \in UncheckedPoints => ~Replaces(c)
  <2>1. PICK u : u = (world.unseen \/ (scan.pc \in UncheckedPoints /\ Replaces(c)))
    OBVIOUS
  <2>2. world'.unseen = u
    BY <1>2, <2>1 DEF WorldOK
  <2> QED
    BY <2>1, <2>2
<1>5. ScanTypes'
  BY <1>1, <1>2, <1>3 DEF ScanInv, ScanTypes
<1>6. DbOrdered' /\ FromOneChain'
  BY <1>1 DEF ScanInv, DbOrdered, FromOneChain
<1>7. scan.height \in Nat /\ Asked \in Int
  <2>1. scan.height \in Nat
    BY DEF ScanInv, ScanTypes
  <2>2. CASE scan.pc \in {"apply", "rewound", "stored"}
    BY <2>1, <2>2 DEF Asked, Scanning
  <2>3. CASE scan.pc \notin {"apply", "rewound", "stored"}
    BY <2>1, <2>3 DEF Asked, Scanning, Boundary, ScanInv, ScanTypes
  <2> QED
    BY <2>1, <2>2, <2>3
<1>8. ASSUME scan.pc \in UncheckedPoints
      PROVE  Asked <= Len(c) /\ Block(c, Asked) = Block(zchain, Asked)
  BY <1>3, <1>4, <1>7, <1>8 DEF Replaces
<1>9. ScanKnows'
  <2>1. next_scan_height' = next_scan_height /\ ScannedTop' = ScannedTop
    BY <1>1 DEF next_scan_height, ScannedTop
  <2>2. CASE scan.pc = "apply"
    <3>1. Asked = scan.height
      BY <2>2 DEF Asked, Scanning
    <3>2. scan.height <= Len(c) /\ Block(c, scan.height) = Block(zchain, scan.height)
      BY <1>8, <2>2, <3>1 DEF UncheckedPoints
    <3>3. get_block_hash(scan.height)' = get_block_hash(scan.height)
      BY <1>1 DEF get_block_hash, ScannedTop
    <3>4. Block(zchain, scan.height)' = Block(c, scan.height) /\ Has(scan.height)'
      BY <1>1, <1>2, <3>2 DEF Block, Has
    <3> QED
      BY <1>1, <2>1, <2>2, <3>2, <3>3, <3>4 DEF ScanInv, ScanKnows
  <2>3. CASE scan.pc = "rewound"
    <3>1. Asked = scan.height - 1
      BY <2>3 DEF Asked, Scanning
    <3>2. Block(zchain', scan'.height - 1) = Block(zchain, scan.height - 1)
      BY <1>1, <1>2, <1>8, <2>3, <3>1 DEF UncheckedPoints
    <3> QED
      BY <1>1, <2>1, <2>3, <3>2 DEF ScanInv, ScanKnows
  <2>4. CASE scan.pc = "stored"
    <3>1. Asked = scan.height
      BY <2>4 DEF Asked, Scanning
    <3>2. Block(zchain', scan'.height) = Block(zchain, scan.height)
      BY <1>1, <1>2, <1>8, <2>4, <3>1 DEF UncheckedPoints
    <3> QED
      BY <1>1, <2>1, <2>4, <3>2 DEF ScanInv, ScanKnows
  <2>5. CASE scan.pc \notin {"apply", "rewound", "stored"}
    BY <1>1, <2>1, <2>5 DEF ScanInv, ScanKnows
  <2> QED
    BY <2>2, <2>3, <2>4, <2>5
<1> QED
  BY <1>5, <1>6, <1>9 DEF ScanInv

\* Every switch that went unseen stays so.
LEMMA WorldKept ==
  ASSUME WorldOK, [ScanNext]_scanVars
  PROVE  WorldOK' /\ (world.unseen => world'.unseen)
<1>1. CASE UNCHANGED world
  BY <1>1 DEF WorldOK
<1>2. CASE exit
  <2>1. world' = [world EXCEPT !.exits = @ + 1]
    BY <1>2 DEF exit
  <2> QED
    BY <2>1 DEF WorldOK
<1>3. CASE zebra_switch
  <2>1. PICK c \in Chain :
          world' = [world EXCEPT !.switches = @ + 1,
                      !.unseen = @ \/ (scan.pc \in UncheckedPoints /\ Replaces(c))]
    BY <1>3 DEF zebra_switch
  <2>2. PICK u \in BOOLEAN : u = (world.unseen \/ (scan.pc \in UncheckedPoints /\ Replaces(c)))
    OBVIOUS
  <2>3. world' = [world EXCEPT !.switches = @ + 1, !.unseen = u]
    BY <2>1, <2>2
  <2>4. WorldOK' /\ world'.unseen = u
    <3>1. PICK w : w = [world EXCEPT !.switches = @ + 1]
      OBVIOUS
    <3>2. w \in [switches : Int, exits : Int, unseen : BOOLEAN, birth : Seq(Choice)]
      BY <3>1 DEF WorldOK
    <3>3. world' = [w EXCEPT !.unseen = u]
      BY <2>3, <3>1 DEF WorldOK
    <3> QED
      BY <3>2, <3>3, Zenon DEF WorldOK
  <2> QED
    BY <2>2, <2>4
<1>4. CASE ScanStep
  BY <1>1, <1>4 DEF ScanStep, scan_begin, scan_boundary, rewind_probe, rewind_to_chain_state,
     after_rewind, scan_loop, scan_block, after_store, scan_finish, scan_failed
<1>5. CASE unlock_with_seed \/ set_canonical_tip \/ select_spends_at_tip
  BY <1>1, <1>5 DEF unlock_with_seed, set_canonical_tip, select_spends_at_tip
<1> QED
  BY <1>1, <1>2, <1>3, <1>4, <1>5 DEF ScanNext, scanVars

\* Steps of the process leave the scan and the database alone.
LEMMA ScanKept ==
  ASSUME ScanInv, UNCHANGED <<zchain, wdb, scan, picked>>
  PROVE  ScanInv'
<1>1. ScanTypes' /\ DbOrdered' /\ FromOneChain'
  BY DEF ScanInv, ScanTypes, DbOrdered, FromOneChain
<1>2. ScanKnows'
  BY DEF ScanInv, ScanKnows, next_scan_height, ScannedTop, get_block_hash, Has, Block
<1> QED
  BY <1>1, <1>2 DEF ScanInv

\* The scanned blocks stay on top of one another, and a scan knows the last of
\* them, however the best chain changes and wherever the process is stopped, as
\* long as no switch replaces a block between its being stored, or rewound to,
\* and the request for its hash that follows (scan_to_tip, sqlite.rs:277).
THEOREM ScanInvariant == ScanSpec => [](~world.unseen => ScanInv)
<1>1. ScanInv /\ WorldOK /\ [ScanNext]_scanVars /\ ~world'.unseen => ScanInv'
  <2> SUFFICES ASSUME ScanInv, WorldOK, [ScanNext]_scanVars, ~world'.unseen PROVE ScanInv'
    OBVIOUS
  <2>1. CASE scan_begin
    BY <2>1, ScanBegins
  <2>2. CASE scan_boundary
    BY <2>2, ScanBoundary
  <2>3. CASE rewind_probe
    BY <2>3, ScanProbes
  <2>4. CASE rewind_to_chain_state
    BY <2>4, ScanRewinds
  <2>5. CASE after_rewind
    BY <2>5, ScanResumes
  <2>6. CASE scan_loop
    BY <2>6, ScanLoops
  <2>7. CASE scan_block
    BY <2>7, ScanStores
  <2>8. CASE after_store
    BY <2>8, ScanGoesOn
  <2>9. CASE scan_finish
    BY <2>9, ScanEnds DEF scan_finish
  <2>10. CASE scan_failed
    BY <2>10, ScanEnds DEF scan_failed
  <2>11. CASE unlock_with_seed
    BY <2>11, ScanKept DEF unlock_with_seed
  <2>12. CASE exit
    BY <2>12, ScanEnds DEF exit
  <2>13. CASE set_canonical_tip
    BY <2>13, ScanKept DEF set_canonical_tip
  <2>14. CASE select_spends_at_tip
    BY <2>14, ScanSelects
  <2>15. CASE zebra_switch
    BY <2>15, ScanSwitches
  <2>16. CASE UNCHANGED scanVars
    BY <2>16, ScanKept DEF scanVars
  <2> QED
    BY <2>1, <2>2, <2>3, <2>4, <2>5, <2>6, <2>7, <2>8, <2>9, <2>10, <2>11, <2>12, <2>13,
       <2>14, <2>15, <2>16 DEF ScanNext, ScanStep
<1>2. ScanInvIfSeen /\ [ScanNext]_scanVars => ScanInvIfSeen'
  BY <1>1, WorldKept DEF ScanInvIfSeen
<1>3. ScanInit => ScanInvIfSeen
  <2> SUFFICES ASSUME ScanInit PROVE ScanInvIfSeen
    OBVIOUS
  <2>1. ScanInv
    BY ScanInitially
  <2>2. Birthday - 1 \in Nat /\ Birthday - 1 <= Len(zchain) /\ zchain \in Seq(Choice)
    BY <2>1, Numbers DEF ScanInv, ScanTypes
  <2>3. Block(zchain, Birthday - 1) \in Seq(Choice)
    BY <2>2, BlockType
  <2>4. WorldOK
    BY <2>3 DEF WorldOK, ScanInit
  <2> QED
    BY <2>1, <2>4 DEF ScanInvIfSeen
<1>4. ScanInvIfSeen => (~world.unseen => ScanInv)
  BY DEF ScanInvIfSeen
<1> QED
  BY <1>2, <1>3, <1>4, PTL DEF ScanSpec

\* A selection takes notes and witnesses from the blocks of one chain only, the
\* one its tip is on, as long as no switch has replaced a block the wallet had
\* just stored or rewound to before it asked for its hash (select_spends and
\* scan_to_tip).
THEOREM ScanSelectsFromOneChain == ScanSpec => []SelectsFromOneChain
<1>1. (~world.unseen => ScanInv) => SelectsFromOneChain
  BY DEF ScanInv, SelectsFromOneChain
<1> QED
  BY <1>1, ScanInvariant, PTL
=============================================================================
