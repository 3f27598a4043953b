----------------------------- MODULE Persistence -----------------------------
(***************************************************************************)
(* What a node has on disk, and in which order it gets there: block files  *)
(* (blk), undo files (rev), the block index and the coin database.  One    *)
(* chain of blocks, 2 above 1 and so on, is enough: blocks arrive in any   *)
(* order, so the undo data of a block may go to a file that is no longer   *)
(* the last one.                                                           *)
(*                                                                         *)
(* A file is a set of pairs of a position and the block written there.     *)
(* What was written to it survives the end of the process; only what was   *)
(* also committed (FileCommit) is sure to survive a power loss.            *)
(***************************************************************************)
EXTENDS Integers, FiniteSets

CONSTANTS
  MaxHeight,          \* blocks 1..MaxHeight
  MaxFile,            \* files 0..MaxFile
  BlocksPerFile,      \* MAX_BLOCKFILE_SIZE
  MIN_BLOCKS_TO_KEEP,
  nPruneAfterHeight,
  MaxRestarts         \* bound on the crashes of a behaviour

ASSUME SizesAssumption ==
  /\ MaxHeight \in Nat /\ MaxFile \in Nat /\ BlocksPerFile \in Nat /\ MaxRestarts \in Nat
  /\ MIN_BLOCKS_TO_KEEP \in Nat /\ nPruneAfterHeight \in Nat

\* So the height up to which files may be pruned, an unsigned number, never wraps.
ASSUME PruneAssumption == nPruneAfterHeight >= MIN_BLOCKS_TO_KEEP

Block == 1..MaxHeight
File == 0..MaxFile

NONE == 0             \* no position

VARIABLES
  index,       \* mapBlockIndex: [nTx, data, undo, nFile, nDataPos, nUndoPos] of a block
  vinfoBlockFile, nLastBlockFile,
  setDirtyBlockIndex, setDirtyFileInfo,
  tip,         \* height of chainActive and of pcoinsTip
  blk, rev,    \* contents of the files as the operating system shows them
  synced,      \* the same, as far as FileCommit has made them safe
  treeDB,      \* the block index database: [index, info, last]
  coinsDB,     \* best block of the coin database
  coinsSafe,   \* the one a power loss may go back to
  restarts,    \* how often the node has crashed
  flush        \* what FlushStateToDisk is about to do, and the files it prunes

vars == <<index, vinfoBlockFile, nLastBlockFile, setDirtyBlockIndex, setDirtyFileInfo, tip,
          blk, rev, synced, treeDB, coinsDB, coinsSafe, restarts, flush>>

memory == <<index, vinfoBlockFile, nLastBlockFile, setDirtyBlockIndex, setDirtyFileInfo, tip>>
files == <<blk, rev, synced>>
databases == <<treeDB, coinsDB, coinsSafe, restarts>>

NoData == [nTx |-> FALSE, data |-> FALSE, undo |-> FALSE,
           nFile |-> 0, nDataPos |-> NONE, nUndoPos |-> NONE]

NoInfo == [nSize |-> 0, nUndoSize |-> 0, nHeightLast |-> 0]

NoFlush == [step |-> "none", full |-> FALSE, prune |-> {}]

NoFiles == [f \in File |-> {}]

\* A write to a file replaces what was at the position.
Written(slots, f, pos, b) ==
  [slots EXCEPT ![f] = {s \in @ : s[1] # pos} \cup {<<pos, b>>}]

\* Two variants: the last value seen, and a sum.
LastOne(a, b) == b

Added(a, b) == a + b

Higher(a, b) == IF a > b THEN a ELSE b

\* A block more in a file.
AddBlock(info, b) ==
  [info EXCEPT !.nSize = info.nSize + 1, !.nHeightLast = Higher(info.nHeightLast, b)]

Init ==
  /\ index = [b \in Block |-> NoData]
  /\ vinfoBlockFile = [f \in File |-> NoInfo] /\ nLastBlockFile = 0
  /\ setDirtyBlockIndex = {} /\ setDirtyFileInfo = {}
  /\ tip = 0
  /\ blk = NoFiles /\ rev = NoFiles
  /\ synced = [blk |-> NoFiles, rev |-> NoFiles]
  /\ treeDB = [index |-> index, info |-> vinfoBlockFile, last |-> 0]
  /\ coinsDB = 0 /\ coinsSafe = 0 /\ restarts = 0
  /\ flush = NoFlush

\* FlushStateToDisk holds cs_main from its first step to its last.
Idle == flush.step = "none"

\* A variant that commits the undo file alone.
CommitsUndoOnly(f) == [blk |-> synced.blk, rev |-> [synced.rev EXCEPT ![f] = rev[f]]]

\* FlushBlockFile: only the last block file and its undo file are committed.
Committed(f) ==
  [blk |-> [synced.blk EXCEPT ![f] = blk[f]], rev |-> [synced.rev EXCEPT ![f] = rev[f]]]

----------------------------------------------------------------------------
(* Blocks. *)

\* AcceptBlock: FindBlockPos, which leaves a full file committed, WriteBlockToDisk and
\* ReceivedBlockTransactions.
AcceptBlock(b) ==
  LET full == vinfoBlockFile[nLastBlockFile].nSize >= BlocksPerFile
      f == IF full THEN nLastBlockFile + 1 ELSE nLastBlockFile
      pos == vinfoBlockFile[f].nSize + 1
  IN  /\ Idle /\ ~index[b].data /\ f \in File
      /\ synced' = IF full THEN Committed(nLastBlockFile) ELSE synced
      /\ nLastBlockFile' = f
      /\ vinfoBlockFile' = [vinfoBlockFile EXCEPT ![f] = AddBlock(@, b)]
      /\ setDirtyFileInfo' = setDirtyFileInfo \cup {f}
      /\ blk' = Written(blk, f, pos, b)
      /\ index' = [index EXCEPT ![b] = [@ EXCEPT !.nTx = TRUE, !.data = TRUE, !.nFile = f,
                                               !.nDataPos = pos, !.nUndoPos = NONE]]
      /\ setDirtyBlockIndex' = setDirtyBlockIndex \cup {b}
      /\ UNCHANGED <<tip, rev, databases, flush>>

\* A variant that does not mark the index entry.
ForgetsDirtyIndex(b) ==
  LET f == index[b].nFile
      pos == vinfoBlockFile[f].nUndoSize + 1
  IN  /\ vinfoBlockFile' = [vinfoBlockFile EXCEPT ![f].nUndoSize = pos]
      /\ setDirtyFileInfo' = setDirtyFileInfo \cup {f}
      /\ rev' = Written(rev, f, pos, b)
      /\ index' = [index EXCEPT ![b] = [@ EXCEPT !.undo = TRUE, !.nUndoPos = pos]]
      /\ UNCHANGED setDirtyBlockIndex

\* A variant that does not move on in the file.
ReusesUndoPosition(b) ==
  LET f == index[b].nFile
  IN  /\ setDirtyFileInfo' = setDirtyFileInfo \cup {f}
      /\ rev' = Written(rev, f, 1, b)
      /\ index' = [index EXCEPT ![b] = [@ EXCEPT !.undo = TRUE, !.nUndoPos = 1]]
      /\ setDirtyBlockIndex' = setDirtyBlockIndex \cup {b}
      /\ UNCHANGED vinfoBlockFile

\* ConnectTip: undo data goes to the undo file of the block's own file, unless the
\* block has some already.
WritesUndo(b) ==
  LET f == index[b].nFile
      pos == vinfoBlockFile[f].nUndoSize + 1
  IN  /\ vinfoBlockFile' = [vinfoBlockFile EXCEPT ![f].nUndoSize = pos]
      /\ setDirtyFileInfo' = setDirtyFileInfo \cup {f}
      /\ rev' = Written(rev, f, pos, b)
      /\ index' = [index EXCEPT ![b] = [@ EXCEPT !.undo = TRUE, !.nUndoPos = pos]]
      /\ setDirtyBlockIndex' = setDirtyBlockIndex \cup {b}

ConnectTip ==
  /\ Idle /\ tip < MaxHeight /\ index[tip + 1].data
  /\ tip' = tip + 1
  /\ IF index[tip + 1].undo
     THEN UNCHANGED <<vinfoBlockFile, setDirtyFileInfo, rev, index, setDirtyBlockIndex>>
     ELSE WritesUndo(tip + 1)
  /\ UNCHANGED <<nLastBlockFile, blk, synced, databases, flush>>

\* DisconnectTip needs the block and its undo data.
DisconnectTip ==
  /\ Idle /\ tip > 0 /\ index[tip].data /\ index[tip].undo
  /\ tip' = tip - 1
  /\ UNCHANGED <<index, vinfoBlockFile, nLastBlockFile, setDirtyBlockIndex, setDirtyFileInfo,
                 files, databases, flush>>

----------------------------------------------------------------------------
(* FlushStateToDisk. *)

\* Files below the last one without a block close to the tip.
Prunable(f) ==
  /\ f < nLastBlockFile /\ vinfoBlockFile[f].nSize > 0
  /\ vinfoBlockFile[f].nHeightLast <= tip - MIN_BLOCKS_TO_KEEP

\* Above the target size: from the first file on, until the rest fits.
FindFilesToPrune ==
  {{f \in File : Prunable(f) /\ f <= last} : last \in {f \in File : tip > nPruneAfterHeight}}

\* By command: all files up to a height.
FindFilesToPruneManual ==
  {{f \in File : Prunable(f) /\ vinfoBlockFile[f].nHeightLast <= height} :
     height \in {b \in Block : b <= tip /\ tip >= nPruneAfterHeight}}

\* PruneOneBlockFile, for every file of the set.
Pruned(fs) ==
  LET gone == {b \in Block : index[b].nFile \in fs}
  IN  /\ index' = [b \in Block |-> IF b \in gone
                                    THEN [index[b] EXCEPT !.data = FALSE, !.undo = FALSE,
                                                          !.nFile = 0, !.nDataPos = NONE,
                                                          !.nUndoPos = NONE]
                                    ELSE index[b]]
      /\ setDirtyBlockIndex' = setDirtyBlockIndex \cup gone
      /\ vinfoBlockFile' = [f \in File |-> IF f \in fs THEN NoInfo ELSE vinfoBlockFile[f]]
      /\ setDirtyFileInfo' = setDirtyFileInfo \cup fs

\* A flush that writes the index alone, a full one, or one that prunes, which is full.
StartFlush(fs, full) ==
  /\ Idle
  /\ Pruned(fs)
  /\ flush' = [step |-> "files", full |-> full \/ fs # {}, prune |-> fs]
  /\ UNCHANGED <<nLastBlockFile, tip, files, databases>>

\* CheckDiskSpace stands before the files and before the coins; what was pruned in memory
\* stays so.
OutOfDiskSpace ==
  /\ flush.step \in {"files", "coins"}
  /\ flush' = NoFlush
  /\ UNCHANGED <<memory, files, databases>>

\* A variant that goes on to the coins.
SkipsIndex ==
  /\ flush.step = "files"
  /\ synced' = Committed(nLastBlockFile)
  /\ flush' = [flush EXCEPT !.step = IF flush.full THEN "coins" ELSE "index"]
  /\ UNCHANGED <<memory, blk, rev, databases>>

FlushBlockFile ==
  /\ flush.step = "files"
  /\ synced' = Committed(nLastBlockFile)
  /\ flush' = [flush EXCEPT !.step = "index"]
  /\ UNCHANGED <<memory, blk, rev, databases>>

\* The steps after the index: the pruned files go before the coins are written.
AfterIndex == IF flush.prune # {} THEN "unlink" ELSE IF flush.full THEN "coins" ELSE "none"

WriteBatchSync ==
  /\ flush.step = "index"
  /\ treeDB' = [index |-> [b \in Block |-> IF b \in setDirtyBlockIndex THEN index[b]
                                            ELSE treeDB.index[b]],
                info |-> [f \in File |-> IF f \in setDirtyFileInfo THEN vinfoBlockFile[f]
                                         ELSE treeDB.info[f]],
                last |-> nLastBlockFile]
  /\ setDirtyBlockIndex' = {} /\ setDirtyFileInfo' = {}
  /\ flush' = IF AfterIndex = "none" THEN NoFlush ELSE [flush EXCEPT !.step = AfterIndex]
  /\ UNCHANGED <<index, vinfoBlockFile, nLastBlockFile, tip, files, coinsDB, coinsSafe, restarts>>

\* When the write fails, what was to be written is no longer marked dirty, and the node
\* is asked to stop.
WriteBatchSyncFails ==
  /\ flush.step = "index"
  /\ setDirtyBlockIndex' = {} /\ setDirtyFileInfo' = {}
  /\ flush' = NoFlush
  /\ UNCHANGED <<index, vinfoBlockFile, nLastBlockFile, tip, files, databases>>

UnlinkPrunedFiles ==
  /\ flush.step = "unlink"
  /\ LET left(slots) == [f \in File |-> IF f \in flush.prune THEN {} ELSE slots[f]]
     IN  /\ blk' = left(blk) /\ rev' = left(rev)
         /\ synced' = [blk |-> left(synced.blk), rev |-> left(synced.rev)]
  /\ flush' = [flush EXCEPT !.step = "coins"]
  /\ UNCHANGED <<memory, databases>>

\* The batch of coins is not synced.
FlushCoins ==
  /\ flush.step = "coins"
  /\ coinsDB' = tip
  /\ flush' = NoFlush
  /\ UNCHANGED <<memory, files, treeDB, coinsSafe, restarts>>

\* The database writes its log out by itself.
CoinsReachDisk ==
  /\ coinsSafe # coinsDB /\ coinsSafe' = coinsDB
  /\ UNCHANGED <<memory, files, treeDB, coinsDB, restarts, flush>>

----------------------------------------------------------------------------
(* Ends and starts. *)

Surviving(slots, safe, lost) == [f \in File |-> IF f \in lost THEN safe[f] ELSE slots[f]]

\* The end of the process, or a power loss that takes back what was not committed of
\* some block files and the last batch of coins; then LoadBlockIndexDB.  A loss of undo
\* data is left out: nothing commits the undo data of a file that is no longer the last
\* one (UndoDurable), so there it would take back what the index refers to.
Crash(lost, oldCoins) ==
  /\ restarts < MaxRestarts /\ restarts' = restarts + 1
  /\ blk' = Surviving(blk, synced.blk, lost)
  /\ UNCHANGED rev
  /\ coinsDB' = IF oldCoins THEN coinsSafe ELSE coinsDB
  /\ coinsSafe' = coinsDB' /\ tip' = coinsDB'
  /\ index' = treeDB.index /\ vinfoBlockFile' = treeDB.info /\ nLastBlockFile' = treeDB.last
  /\ setDirtyBlockIndex' = {} /\ setDirtyFileInfo' = {}
  /\ flush' = NoFlush /\ UNCHANGED <<synced, treeDB>>

Next ==
  \/ \E b \in Block : AcceptBlock(b)
  \/ ConnectTip \/ DisconnectTip
  \/ \E fs \in {{}} \cup FindFilesToPrune \cup FindFilesToPruneManual, full \in BOOLEAN :
       StartFlush(fs, full)
  \/ OutOfDiskSpace
  \/ FlushBlockFile \/ WriteBatchSync \/ UnlinkPrunedFiles \/ FlushCoins \/ CoinsReachDisk
  \/ \E lost \in SUBSET File, oldCoins \in BOOLEAN : Crash(lost, oldCoins)

Spec == Init /\ [][Next]_vars

\* The same when the block index database may refuse a batch.
SpecIndexFailures == Init /\ [][Next \/ WriteBatchSyncFails]_vars

----------------------------------------------------------------------------
(* Properties. *)

Position == 0..MaxHeight

IndexType ==
  [Block -> [nTx : BOOLEAN, data : BOOLEAN, undo : BOOLEAN,
             nFile : File, nDataPos : Nat, nUndoPos : Nat]]

InfoType == [File -> [nSize : Nat, nUndoSize : Nat, nHeightLast : Position]]

Slots == [File -> SUBSET (Nat \X Block)]

\* The type of the state.
TypeOK ==
  /\ index \in IndexType /\ vinfoBlockFile \in InfoType /\ nLastBlockFile \in File
  /\ setDirtyBlockIndex \subseteq Block /\ setDirtyFileInfo \subseteq File
  /\ tip \in Position /\ coinsDB \in Position /\ coinsSafe \in Position
  /\ restarts \in 0..MaxRestarts
  /\ blk \in Slots /\ rev \in Slots /\ synced \in [blk : Slots, rev : Slots]
  /\ treeDB \in [index : IndexType, info : InfoType, last : File]
  /\ flush \in [step : {"none", "files", "index", "unlink", "coins"}, full : BOOLEAN,
                prune : SUBSET File]

InBlk(entry, slots, b) == entry.data => <<entry.nDataPos, b>> \in slots[entry.nFile]

InRev(entry, slots, b) == entry.undo => <<entry.nUndoPos, b>> \in slots[entry.nFile]

\* Whatever the block index on disk says of a block is backed by the files, at every
\* moment at which the process may end: the block is in its place and committed, the
\* undo data is in its place.  So LoadBlockIndexDB finds every file, and
\* ReadBlockFromDisk the block.
IndexBacked ==
  \A b \in Block : /\ InBlk(treeDB.index[b], synced.blk, b)
                   /\ InRev(treeDB.index[b], rev, b)

\* What the node believes to have while it runs can be read: no write overwrites a block
\* or undo data that is in use, and no file is removed that still is.
Readable ==
  \A b \in Block : InBlk(index[b], blk, b) /\ InRev(index[b], rev, b)

\* Every entry that differs from the database is marked to be written.
DirtyExact ==
  /\ \A b \in Block : index[b] # treeDB.index[b] => b \in setDirtyBlockIndex
  /\ \A f \in File : vinfoBlockFile[f] # treeDB.info[f] => f \in setDirtyFileInfo

\* The best block of the coin database and all blocks below it are in the block index on
\* disk, with their transactions ("Flush best chain related state. This can only be done
\* if the blocks / block index write was also done."), so LoadBlockIndexDB finds the tip.
CoinsInIndex ==
  \A b \in Block : b <= coinsDB \/ b <= coinsSafe => treeDB.index[b].nTx

\* Pruning removes no block within MIN_BLOCKS_TO_KEEP of the tip ("Block files containing
\* a block-height within MIN_BLOCKS_TO_KEEP of chainActive.Tip() will not be pruned"),
\* whatever order the blocks came in and whatever was loaded after a crash.
RecentBlocksKept ==
  [][flush'.step = "files" =>
       \A b \in Block : index[b].data /\ b > tip - MIN_BLOCKS_TO_KEEP => index'[b].data]_vars

\* "First make sure all block and undo data is flushed to disk": undo data the index on
\* disk refers to is committed.
UndoDurable == \A b \in Block : InRev(treeDB.index[b], synced.rev, b)
=============================================================================
