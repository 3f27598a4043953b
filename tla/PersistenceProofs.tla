-------------------------- MODULE PersistenceProofs --------------------------
(***************************************************************************)
(* What the disk holds is enough to start from, for any number of blocks,  *)
(* files, blocks per file and crashes.  The argument is that every write   *)
(* goes above what the index on disk knows of the file (SizesGrow), that   *)
(* blocks are committed before the index refers to them (CommittedFirst)   *)
(* and that files are removed after nothing does (PrunedUnused).           *)
(***************************************************************************)
EXTENDS Persistence, TLAPS

\* An entry lies within what is known to be used of its file.
WellPlaced(entry, info, b) ==
  /\ entry.data => /\ entry.nTx
                   /\ entry.nDataPos <= info[entry.nFile].nSize
                   /\ b <= info[entry.nFile].nHeightLast
  /\ entry.undo => entry.data /\ entry.nUndoPos <= info[entry.nFile].nUndoSize

EntriesPlaced ==
  \A b \in Block : /\ WellPlaced(index[b], vinfoBlockFile, b)
                   /\ InBlk(index[b], blk, b) /\ InRev(index[b], rev, b)

SavedPlaced ==
  \A b \in Block : /\ WellPlaced(treeDB.index[b], treeDB.info, b)
                   /\ InBlk(treeDB.index[b], blk, b) /\ InBlk(treeDB.index[b], synced.blk, b)
                   /\ InRev(treeDB.index[b], rev, b)

\* Nothing will be written to a file below the last one that holds no block.
Abandoned(f) ==
  f < nLastBlockFile /\ \A b \in Block : index[b].data => index[b].nFile # f

\* So new data is written above all that the index on disk knows.
SizesGrow ==
  \A f \in File : \/ Abandoned(f)
                  \/ /\ treeDB.info[f].nSize <= vinfoBlockFile[f].nSize
                     /\ treeDB.info[f].nUndoSize <= vinfoBlockFile[f].nUndoSize

\* Blocks of files before the last one are committed, and the others before the index is
\* written.
CommittedFirst ==
  \A b \in Block : index[b].nFile # nLastBlockFile \/ flush.step = "index"
                     => InBlk(index[b], synced.blk, b)

\* A file to be removed holds nothing, as far as memory and then the disk know.
PrunedUnused ==
  \A b \in Block :
    /\ flush.step \in {"files", "index", "unlink"} /\ index[b].data
         => index[b].nFile \notin flush.prune
    /\ flush.step = "unlink" /\ treeDB.index[b].data
         => treeDB.index[b].nFile \notin flush.prune

\* The transactions of the chain are known, and on disk before the coins are.
ChainKnown ==
  \A b \in Block :
    /\ b <= tip => index[b].nTx
    /\ treeDB.index[b].nTx => index[b].nTx
    /\ flush.step \in {"unlink", "coins"} /\ b <= tip => treeDB.index[b].nTx

IInv ==
  /\ TypeOK /\ EntriesPlaced /\ SavedPlaced /\ SizesGrow /\ CommittedFirst
  /\ PrunedUnused /\ DirtyExact /\ ChainKnown /\ CoinsInIndex

----------------------------------------------------------------------------

EntryType == [nTx : BOOLEAN, data : BOOLEAN, undo : BOOLEAN,
              nFile : File, nDataPos : Nat, nUndoPos : Nat]

FlushType == [step : {"none", "files", "index", "unlink", "coins"}, full : BOOLEAN,
              prune : SUBSET File]

FileInfoType == [nSize : Nat, nUndoSize : Nat, nHeightLast : Position]

USE SizesAssumption

\* The invariant says what the runs check.
LEMMA IInvImplies == IInv => TypeOK /\ IndexBacked /\ Readable /\ DirtyExact /\ CoinsInIndex
  BY DEF IInv, IndexBacked, Readable, EntriesPlaced, SavedPlaced

\* An empty disk and an empty memory agree.
LEMMA InitIInv == Init => IInv
  <1> SUFFICES ASSUME Init PROVE IInv
    OBVIOUS
  <1>1. /\ NoData \in EntryType /\ ~NoData.data /\ ~NoData.undo /\ ~NoData.nTx
        /\ NoInfo \in FileInfoType
    BY DEF NoData, NoInfo, EntryType, FileInfoType, Position, File, NONE
  <1>2. /\ \A b \in Block : index[b] = NoData /\ treeDB.index[b] = NoData
        /\ \A f \in File : vinfoBlockFile[f] = treeDB.info[f]
        /\ tip = 0 /\ coinsDB = 0 /\ coinsSafe = 0 /\ flush = NoFlush
    BY DEF Init
  <1>3. TypeOK
    BY <1>1 DEF Init, TypeOK, IndexType, InfoType, EntryType, FileInfoType, Slots, NoFiles,
                NoFlush, File, Position
  <1>4. EntriesPlaced /\ SavedPlaced /\ CommittedFirst /\ PrunedUnused
    BY <1>1, <1>2 DEF EntriesPlaced, SavedPlaced, WellPlaced, InBlk, InRev, CommittedFirst,
                      PrunedUnused
  <1>5. SizesGrow
    BY <1>2, <1>3 DEF SizesGrow, TypeOK, InfoType
  <1>6. DirtyExact
    BY <1>2 DEF DirtyExact
  <1>7. ChainKnown /\ CoinsInIndex
    BY <1>1, <1>2 DEF ChainKnown, CoinsInIndex, Block, NoFlush
  <1> QED
    BY <1>3, <1>4, <1>5, <1>6, <1>7 DEF IInv

\* Steps that change neither the entries nor the files.
LEMMA QuietStep ==
  ASSUME IInv, UNCHANGED <<memory, files, treeDB, restarts>>,
         \/ UNCHANGED vars
         \/ OutOfDiskSpace
         \/ FlushCoins
         \/ CoinsReachDisk
  PROVE  IInv'
  <1>0. /\ flush' \in {flush, NoFlush}
        /\ coinsDB' \in {coinsDB, tip} /\ coinsSafe' \in {coinsSafe, coinsDB}
    BY DEF vars, OutOfDiskSpace, FlushCoins, CoinsReachDisk, databases
  <1>t. NoFlush \in FlushType
    BY DEF FlushType, NoFlush
  <1>1. TypeOK'
    BY <1>0, <1>t DEF IInv, TypeOK, FlushType, memory, files
  <1>2. flush'.step \in {"none", flush.step} /\ (flush'.step = "none" \/ flush' = flush)
    BY DEF vars, OutOfDiskSpace, FlushCoins, CoinsReachDisk, NoFlush
  <1>3. EntriesPlaced' /\ SavedPlaced' /\ SizesGrow' /\ DirtyExact'
    BY DEF IInv, memory, files, EntriesPlaced, SavedPlaced, SizesGrow, Abandoned, DirtyExact
  <1>4. CommittedFirst' /\ PrunedUnused' /\ ChainKnown'
    BY <1>2 DEF IInv, memory, files, CommittedFirst, PrunedUnused, ChainKnown
  <1>5. CoinsInIndex'
    BY DEF IInv, CoinsInIndex, ChainKnown, memory, vars, OutOfDiskSpace, FlushCoins,
           CoinsReachDisk, databases
  <1> QED
    BY <1>1, <1>3, <1>4, <1>5 DEF IInv

\* What a write to a file does to its contents.
LEMMA WrittenSlots ==
  ASSUME NEW slots \in Slots, NEW f \in File, NEW pos \in Nat, NEW b \in Block
  PROVE  /\ Written(slots, f, pos, b) \in Slots
         /\ <<pos, b>> \in Written(slots, f, pos, b)[f]
         /\ \A g \in File, p \in Nat, c \in Block :
              <<p, c>> \in slots[g] /\ (g # f \/ p # pos)
                => <<p, c>> \in Written(slots, f, pos, b)[g]
  <1>1. Written(slots, f, pos, b)[f] = {s \in slots[f] : s[1] # pos} \cup {<<pos, b>>}
    BY DEF Written, Slots
  <1>2. \A g \in File : g # f => Written(slots, f, pos, b)[g] = slots[g]
    BY DEF Written, Slots
  <1>3. {s \in slots[f] : s[1] # pos} \cup {<<pos, b>>} \in SUBSET (Nat \X Block)
    BY DEF Slots
  <1>4. Written(slots, f, pos, b) \in Slots
    BY <1>3 DEF Written, Slots
  <1> QED
    BY <1>1, <1>2, <1>4

\* What a commit does to what is safe.
LEMMA CommittedFiles ==
  ASSUME TypeOK, NEW f \in File
  PROVE  /\ Committed(f) \in [blk : Slots, rev : Slots]
         /\ Committed(f).blk[f] = blk[f]
         /\ \A g \in File : g # f => Committed(f).blk[g] = synced.blk[g]
  BY DEF TypeOK, Committed, Slots

\* The types of an entry and of what is known of its file.
LEMMA Placed ==
  ASSUME IInv, NEW b \in Block
  PROVE  /\ index[b] \in EntryType /\ treeDB.index[b] \in EntryType
         /\ vinfoBlockFile[index[b].nFile] \in FileInfoType
         /\ treeDB.info[treeDB.index[b].nFile] \in FileInfoType
  BY DEF IInv, TypeOK, IndexType, InfoType, EntryType, FileInfoType

\* AcceptBlock writes above all that memory and the index on disk know of the last file,
\* and commits a file before it leaves it.
LEMMA AcceptBlockStep ==
  ASSUME IInv, NEW b \in Block, AcceptBlock(b)
  PROVE  IInv'
  <1> DEFINE full == vinfoBlockFile[nLastBlockFile].nSize >= BlocksPerFile
             f == IF full THEN nLastBlockFile + 1 ELSE nLastBlockFile
             pos == vinfoBlockFile[f].nSize + 1
             old == vinfoBlockFile[f]
             new == vinfoBlockFile'[f]
  <1>1. /\ flush.step = "none" /\ flush' = flush /\ ~index[b].data /\ f \in File
        /\ synced' = IF full THEN Committed(nLastBlockFile) ELSE synced
        /\ nLastBlockFile' = f /\ blk' = Written(blk, f, pos, b)
        /\ setDirtyFileInfo' = setDirtyFileInfo \cup {f}
        /\ setDirtyBlockIndex' = setDirtyBlockIndex \cup {b}
        /\ UNCHANGED <<tip, rev, treeDB, coinsDB, coinsSafe, restarts>>
    BY DEF AcceptBlock, Idle, databases
  <1> DEFINE entry == [index[b] EXCEPT !.nTx = TRUE, !.data = TRUE, !.nFile = f,
                                       !.nDataPos = pos, !.nUndoPos = NONE]
             info == AddBlock(old, b)
  <1>i. index' = [index EXCEPT ![b] = entry]
    BY DEF AcceptBlock
  <1>v. vinfoBlockFile' = [vinfoBlockFile EXCEPT ![f] = info]
    BY DEF AcceptBlock
  <1>2. /\ index' = [index EXCEPT ![b] = entry]
        /\ vinfoBlockFile' = [vinfoBlockFile EXCEPT ![f] = info]
    BY <1>i, <1>v
  <1>o. old \in FileInfoType /\ pos \in Nat
    BY <1>1 DEF IInv, TypeOK, InfoType, FileInfoType
  <1> HIDE DEF full, f, pos, old, new
  <1>e. /\ entry \in EntryType
        /\ entry.nTx /\ entry.data /\ entry.undo = index[b].undo
        /\ entry.nFile = f /\ entry.nDataPos = pos
    BY Zenon, <1>1, <1>o, Placed DEF EntryType, NONE
  <1> HIDE DEF entry
  <1>3. /\ index' \in IndexType /\ index'[b] = entry
        /\ \A c \in Block : c # b => index'[c] = index[c]
    BY <1>2, <1>e DEF IInv, TypeOK, IndexType, EntryType
  <1>4. Higher(old.nHeightLast, b) \in Position /\ Higher(old.nHeightLast, b) >= b
        /\ Higher(old.nHeightLast, b) >= old.nHeightLast
    BY <1>o DEF FileInfoType, Higher, Position, Block
  <1>5. /\ \A g \in File : g # f => vinfoBlockFile'[g] = vinfoBlockFile[g]
        /\ new.nSize = pos /\ new.nUndoSize = old.nUndoSize
        /\ new.nHeightLast = Higher(old.nHeightLast, b)
        /\ vinfoBlockFile' \in InfoType
    BY Zenon, <1>1, <1>2, <1>o, <1>4 DEF IInv, TypeOK, InfoType, FileInfoType, new, AddBlock, pos, old
  <1> HIDE DEF info
  <1>6. treeDB.info[f].nSize < pos /\ treeDB.info[f].nUndoSize <= old.nUndoSize
    <2>1. ~Abandoned(f)
      BY <1>1 DEF Abandoned, IInv, TypeOK, File, f
    <2> QED
      BY <1>1, <2>1 DEF IInv, SizesGrow, TypeOK, InfoType, old, pos
  <1>7. /\ blk' \in Slots /\ <<pos, b>> \in blk'[f]
        /\ \A g \in File, p \in Nat, c \in Block :
             <<p, c>> \in blk[g] /\ (g # f \/ p # pos) => <<p, c>> \in blk'[g]
    BY Zenon, <1>1, <1>o, WrittenSlots DEF IInv, TypeOK
  <1>8. /\ synced' \in [blk : Slots, rev : Slots]
        /\ \A g \in File : synced'.blk[g] \in {synced.blk[g], blk[g]}
        /\ f # nLastBlockFile => synced'.blk[nLastBlockFile] = blk[nLastBlockFile]
        /\ \A g \in File : g # nLastBlockFile => synced'.blk[g] = synced.blk[g]
    BY <1>1, CommittedFiles DEF IInv, TypeOK, f
  <1>9. TypeOK'
    BY <1>1, <1>3, <1>5, <1>7, <1>8 DEF IInv, TypeOK
  <1>10. EntriesPlaced'
    <2> SUFFICES ASSUME NEW c \in Block
                 PROVE  /\ WellPlaced(index'[c], vinfoBlockFile', c)
                        /\ InBlk(index'[c], blk', c) /\ InRev(index'[c], rev, c)
      BY <1>1 DEF EntriesPlaced
    <2>1. CASE c = b
      <3>1. ~index[b].undo
        BY <1>1 DEF IInv, EntriesPlaced, WellPlaced
      <3> QED
        BY <2>1, <3>1, <1>3, <1>4, <1>5, <1>7, <1>e, <1>o DEF WellPlaced, InBlk, InRev, new
    <2>2. CASE c # b
      <3>1. /\ index'[c] = index[c]
            /\ WellPlaced(index[c], vinfoBlockFile, c)
            /\ InBlk(index[c], blk, c) /\ InRev(index[c], rev, c)
        BY <1>3, <2>2 DEF IInv, EntriesPlaced
      <3>2. index[c].data /\ index[c].nFile = f => index[c].nDataPos < pos
        BY <3>1, <1>o, Placed DEF WellPlaced, EntryType, FileInfoType, pos, old
      <3>3. InBlk(index[c], blk', c)
        BY <3>1, <3>2, <1>7, <1>o, Placed DEF InBlk, EntryType
      <3>4. WellPlaced(index[c], vinfoBlockFile', c)
        <4>1. CASE index[c].nFile = f
          BY <3>1, <3>2, <4>1, <1>4, <1>5, <1>o, Placed
             DEF WellPlaced, EntryType, FileInfoType, Position, Block, old, new
        <4>2. CASE index[c].nFile # f
          BY <3>1, <4>2, <1>5, Placed DEF WellPlaced, EntryType
        <4> QED
          BY <4>1, <4>2
      <3> QED
        BY <3>1, <3>3, <3>4
    <2> QED
      BY <2>1, <2>2
  <1>11. SavedPlaced'
    <2> SUFFICES ASSUME NEW c \in Block
                 PROVE  InBlk(treeDB.index[c], blk', c) /\ InBlk(treeDB.index[c], synced'.blk, c)
      BY <1>1 DEF IInv, SavedPlaced
    <2>1. /\ WellPlaced(treeDB.index[c], treeDB.info, c)
          /\ InBlk(treeDB.index[c], blk, c) /\ InBlk(treeDB.index[c], synced.blk, c)
      BY DEF IInv, SavedPlaced
    <2>2. treeDB.index[c].data /\ treeDB.index[c].nFile = f => treeDB.index[c].nDataPos < pos
      BY <2>1, <1>6, <1>o, Placed DEF WellPlaced, EntryType, FileInfoType
    <2>3. InBlk(treeDB.index[c], blk', c)
      BY <2>1, <2>2, <1>7, <1>o, Placed DEF InBlk, EntryType
    <2>4. InBlk(treeDB.index[c], synced'.blk, c)
      BY <2>1, <1>8, Placed DEF InBlk, EntryType
    <2> QED
      BY <2>3, <2>4
  <1>12. SizesGrow'
    <2> SUFFICES ASSUME NEW g \in File
                 PROVE  \/ Abandoned(g)'
                        \/ /\ treeDB.info[g].nSize <= vinfoBlockFile'[g].nSize
                           /\ treeDB.info[g].nUndoSize <= vinfoBlockFile'[g].nUndoSize
      BY <1>1 DEF SizesGrow
    <2>1. CASE g = f
      BY <2>1, <1>5, <1>6, <1>o, <1>1 DEF new, IInv, TypeOK, InfoType
    <2>2. CASE g # f /\ Abandoned(g)
      <3>1. g < nLastBlockFile'
        BY <2>2, <1>1 DEF Abandoned, f, IInv, TypeOK, File
      <3> QED
        BY <2>2, <3>1, <1>3, <1>e DEF Abandoned
    <2>3. CASE g # f /\ ~Abandoned(g)
      BY <2>3, <1>5 DEF IInv, SizesGrow
    <2> QED
      BY <2>1, <2>2, <2>3
  <1>13. CommittedFirst'
    <2> SUFFICES ASSUME NEW c \in Block, index'[c].nFile # f
                 PROVE  InBlk(index'[c], synced'.blk, c)
      BY <1>1 DEF CommittedFirst
    <2>1. c # b /\ index'[c] = index[c]
      BY <1>3, <1>e
    <2>2. InBlk(index[c], blk, c) /\ index[c].nFile \in File
      BY Placed DEF IInv, EntriesPlaced, EntryType
    <2>3. CASE index[c].nFile = nLastBlockFile
      BY <2>1, <2>2, <2>3, <1>8 DEF InBlk
    <2>4. CASE index[c].nFile # nLastBlockFile
      BY <2>1, <2>2, <2>4, <1>8 DEF InBlk, IInv, CommittedFirst
    <2> QED
      BY <2>3, <2>4
  <1>14. PrunedUnused'
    BY <1>1 DEF PrunedUnused
  <1>15. DirtyExact'
    BY <1>1, <1>3, <1>5 DEF DirtyExact, IInv
  <1>16. ChainKnown' /\ CoinsInIndex'
    BY <1>1, <1>3, <1>e DEF ChainKnown, CoinsInIndex, IInv
  <1> QED
    BY <1>9, <1>10, <1>11, <1>12, <1>13, <1>14, <1>15, <1>16 DEF IInv

\* A step of the tip that leaves the entries and the files alone.
LEMMA TipStep ==
  ASSUME IInv, flush.step = "none", tip' \in Position, \A b \in Block : b <= tip' => index[b].nTx,
         UNCHANGED <<index, vinfoBlockFile, nLastBlockFile, setDirtyBlockIndex,
                     setDirtyFileInfo, files, databases, flush>>
  PROVE  IInv'
  <1>1. TypeOK'
    BY DEF IInv, TypeOK, files, databases
  <1>2. EntriesPlaced' /\ SavedPlaced' /\ SizesGrow' /\ DirtyExact'
    BY DEF IInv, EntriesPlaced, SavedPlaced, SizesGrow, Abandoned, DirtyExact, files, databases
  <1>3. CommittedFirst' /\ PrunedUnused' /\ ChainKnown' /\ CoinsInIndex'
    BY DEF IInv, CommittedFirst, PrunedUnused, ChainKnown, CoinsInIndex, files, databases
  <1> QED
    BY <1>1, <1>2, <1>3 DEF IInv

\* DisconnectTip only moves the tip down.
LEMMA DisconnectTipStep ==
  ASSUME IInv, DisconnectTip
  PROVE  IInv'
  <1>1. tip' \in Position
    BY DEF DisconnectTip, IInv, TypeOK, Position
  <1>2. \A b \in Block : b <= tip' => index[b].nTx
    BY DEF DisconnectTip, IInv, TypeOK, Position, Block, ChainKnown
  <1> QED
    BY <1>1, <1>2, TipStep DEF DisconnectTip, Idle

\* ConnectTip writes undo data above all that is known of the undo file of the block; the
\* file holds a block, so it is not abandoned.
LEMMA ConnectTipStep ==
  ASSUME IInv, ConnectTip
  PROVE  IInv'
  <1> DEFINE b == tip + 1
             f == index[b].nFile
             pos == vinfoBlockFile[f].nUndoSize + 1
             old == vinfoBlockFile[f]
  <1>1. /\ flush.step = "none" /\ b \in Block /\ index[b].data
        /\ tip' = b /\ b \in Position
        /\ UNCHANGED <<nLastBlockFile, blk, synced, treeDB, coinsDB, coinsSafe, restarts, flush>>
    BY DEF ConnectTip, Idle, IInv, TypeOK, Position, Block, databases
  <1>2. index[b].nTx
    BY <1>1 DEF IInv, EntriesPlaced, WellPlaced
  <1>3. \A c \in Block : c <= b => index[c].nTx
    BY <1>1, <1>2 DEF IInv, TypeOK, ChainKnown, Position, Block
  <1>4. CASE index[b].undo
    BY <1>1, <1>3, <1>4, TipStep DEF ConnectTip, files, databases
  <1>5. CASE ~index[b].undo
    <2> DEFINE entry == [index[b] EXCEPT !.undo = TRUE, !.nUndoPos = pos]
               info == [old EXCEPT !.nUndoSize = pos]
    <2>1. /\ vinfoBlockFile' = [vinfoBlockFile EXCEPT ![f] = info]
          /\ setDirtyFileInfo' = setDirtyFileInfo \cup {f}
          /\ rev' = Written(rev, f, pos, b)
          /\ setDirtyBlockIndex' = setDirtyBlockIndex \cup {b}
      BY <1>5 DEF ConnectTip, WritesUndo
    <2>2. index' = [index EXCEPT ![b] = entry]
      BY <1>5 DEF ConnectTip, WritesUndo
    <2>3. f \in File /\ old \in FileInfoType /\ pos \in Nat
      BY <1>1, Placed DEF EntryType, FileInfoType
    <2> HIDE DEF f, pos, old
    <2>4. /\ entry \in EntryType /\ entry.undo /\ entry.nUndoPos = pos
          /\ entry.nTx = index[b].nTx /\ entry.data = index[b].data
          /\ entry.nFile = f /\ entry.nDataPos = index[b].nDataPos
      BY Zenon, <1>1, <2>3, Placed DEF EntryType, f
    <2> HIDE DEF entry
    <2>5. /\ index' \in IndexType /\ index'[b] = entry
          /\ \A c \in Block : c # b => index'[c] = index[c]
      BY <1>1, <2>2, <2>4 DEF IInv, TypeOK, IndexType, EntryType
    <2>6. /\ \A g \in File : g # f => vinfoBlockFile'[g] = vinfoBlockFile[g]
          /\ vinfoBlockFile'[f].nSize = old.nSize /\ vinfoBlockFile'[f].nUndoSize = pos
          /\ vinfoBlockFile'[f].nHeightLast = old.nHeightLast
          /\ vinfoBlockFile' \in InfoType
      BY <2>1, <2>3 DEF IInv, TypeOK, InfoType, FileInfoType
    <2> HIDE DEF info
    \* All that the entries say of blocks is as before, for the files too.
    <2>7. \A c \in Block :
            /\ index'[c] \in EntryType
            /\ index'[c].nTx = index[c].nTx /\ index'[c].data = index[c].data
            /\ index'[c].nFile = index[c].nFile /\ index'[c].nDataPos = index[c].nDataPos
      BY Zenon, <1>1, <2>4, <2>5, Placed DEF f
    <2>8. treeDB.info[f].nSize <= old.nSize /\ treeDB.info[f].nUndoSize < pos
      <3>1. ~Abandoned(f)
        BY <1>1 DEF Abandoned, f
      <3> QED
        BY <2>3, <3>1 DEF IInv, SizesGrow, TypeOK, InfoType, old, pos
    <2>9. /\ rev' \in Slots /\ <<pos, b>> \in rev'[f]
          /\ \A g \in File, p \in Nat, c \in Block :
               <<p, c>> \in rev[g] /\ (g # f \/ p # pos) => <<p, c>> \in rev'[g]
      BY Zenon, <1>1, <2>1, <2>3, WrittenSlots DEF IInv, TypeOK
    <2>10. TypeOK'
      BY <1>1, <2>1, <2>3, <2>5, <2>6, <2>9 DEF IInv, TypeOK
    <2>11. EntriesPlaced'
      <3> SUFFICES ASSUME NEW c \in Block
                   PROVE  /\ WellPlaced(index'[c], vinfoBlockFile', c)
                          /\ InBlk(index'[c], blk, c) /\ InRev(index'[c], rev', c)
        BY <1>1 DEF EntriesPlaced
      <3>1. /\ WellPlaced(index[c], vinfoBlockFile, c)
            /\ InBlk(index[c], blk, c) /\ InRev(index[c], rev, c)
        BY DEF IInv, EntriesPlaced
      <3>2. InBlk(index'[c], blk, c)
        BY <3>1, <2>7 DEF InBlk
      <3>3. CASE c = b
        BY <3>1, <3>2, <3>3, <1>1, <2>3, <2>4, <2>5, <2>6, <2>7, <2>9
           DEF WellPlaced, InRev, FileInfoType, old, f
      <3>4. CASE c # b
        <4>1. index[c].undo /\ index[c].nFile = f => index[c].nUndoPos < pos
          BY <3>1, <2>3, Placed DEF WellPlaced, EntryType, FileInfoType, pos, old
        <4>2. InRev(index[c], rev', c)
          BY <3>1, <4>1, <2>3, <2>9, Placed DEF InRev, EntryType
        <4>3. WellPlaced(index[c], vinfoBlockFile', c)
          <5>1. CASE index[c].nFile = f
            BY <3>1, <4>1, <5>1, <2>3, <2>6, Placed
               DEF WellPlaced, EntryType, FileInfoType, old
          <5>2. CASE index[c].nFile # f
            BY <3>1, <5>2, <2>6, Placed DEF WellPlaced, EntryType
          <5> QED
            BY <5>1, <5>2
        <4> QED
          BY <3>2, <3>4, <4>2, <4>3, <2>5
      <3> QED
        BY <3>3, <3>4
    <2>12. SavedPlaced'
      <3> SUFFICES ASSUME NEW c \in Block
                   PROVE  InRev(treeDB.index[c], rev', c)
        BY <1>1 DEF IInv, SavedPlaced
      <3>1. WellPlaced(treeDB.index[c], treeDB.info, c) /\ InRev(treeDB.index[c], rev, c)
        BY DEF IInv, SavedPlaced
      <3>2. treeDB.index[c].undo /\ treeDB.index[c].nFile = f => treeDB.index[c].nUndoPos < pos
        BY <3>1, <2>3, <2>8, Placed DEF WellPlaced, EntryType, FileInfoType
      <3> QED
        BY <3>1, <3>2, <2>3, <2>9, Placed DEF InRev, EntryType
    <2>13. SizesGrow'
      <3> SUFFICES ASSUME NEW g \in File
                   PROVE  \/ Abandoned(g)'
                          \/ /\ treeDB.info[g].nSize <= vinfoBlockFile'[g].nSize
                             /\ treeDB.info[g].nUndoSize <= vinfoBlockFile'[g].nUndoSize
        BY <1>1 DEF SizesGrow
      <3>1. CASE g = f
        BY <3>1, <2>3, <2>6, <2>8 DEF IInv, TypeOK, InfoType
      <3>2. CASE Abandoned(g)
        BY <3>2, <1>1, <2>7 DEF Abandoned
      <3>3. CASE g # f /\ ~Abandoned(g)
        BY <3>3, <2>6 DEF IInv, SizesGrow
      <3> QED
        BY <3>1, <3>2, <3>3
    <2>14. CommittedFirst' /\ PrunedUnused'
      BY <1>1, <2>7 DEF IInv, CommittedFirst, PrunedUnused, InBlk
    <2>15. DirtyExact'
      BY <1>1, <2>1, <2>5, <2>6 DEF DirtyExact, IInv
    <2>16. ChainKnown' /\ CoinsInIndex'
      BY <1>1, <1>3, <2>7 DEF ChainKnown, CoinsInIndex, IInv
    <2> QED
      BY <2>10, <2>11, <2>12, <2>13, <2>14, <2>15, <2>16 DEF IInv
  <1> QED
    BY <1>4, <1>5

\* Only files that may be pruned are chosen.
LEMMA ChosenPrunable ==
  ASSUME NEW fs \in {{}} \cup FindFilesToPrune \cup FindFilesToPruneManual
  PROVE  fs \subseteq File /\ \A f \in fs : Prunable(f)
  BY DEF FindFilesToPrune, FindFilesToPruneManual

\* PruneOneBlockFile leaves no entry in the files it takes; they lie below the last one, so
\* they are abandoned.
LEMMA StartFlushStep ==
  ASSUME IInv, NEW fs \in SUBSET File, \A f \in fs : Prunable(f), NEW full \in BOOLEAN,
         StartFlush(fs, full)
  PROVE  IInv'
  <1> DEFINE gone == {b \in Block : index[b].nFile \in fs}
             left(b) == [index[b] EXCEPT !.data = FALSE, !.undo = FALSE, !.nFile = 0,
                                         !.nDataPos = NONE, !.nUndoPos = NONE]
  <1>1. /\ index' = [b \in Block |-> IF b \in gone THEN left(b) ELSE index[b]]
        /\ setDirtyBlockIndex' = setDirtyBlockIndex \cup gone
        /\ vinfoBlockFile' = [f \in File |-> IF f \in fs THEN NoInfo ELSE vinfoBlockFile[f]]
        /\ setDirtyFileInfo' = setDirtyFileInfo \cup fs
        /\ flush' = [step |-> "files", full |-> full \/ fs # {}, prune |-> fs]
        /\ flush.step = "none"
        /\ UNCHANGED <<nLastBlockFile, tip, blk, rev, synced, treeDB, coinsDB, coinsSafe, restarts>>
    BY Zenon DEF StartFlush, Pruned, Idle, files, databases
  <1>2. \A b \in Block : /\ left(b) \in EntryType /\ left(b).nTx = index[b].nTx
                         /\ ~left(b).data /\ ~left(b).undo
    <2> SUFFICES ASSUME NEW b \in Block
                 PROVE  /\ left(b) \in EntryType /\ left(b).nTx = index[b].nTx
                        /\ ~left(b).data /\ ~left(b).undo
      BY Zenon
    <2>1. index[b] \in EntryType /\ 0 \in File
      BY Placed DEF File
    <2> QED
      BY Zenon, <2>1 DEF EntryType, NONE
  <1>3. NoInfo \in FileInfoType
    BY DEF NoInfo, FileInfoType, Position
  <1> HIDE DEF left
  <1>4. \A b \in Block : /\ index'[b].nTx = index[b].nTx
                         /\ index[b].nFile \in fs => ~index'[b].data /\ ~index'[b].undo
                         /\ index[b].nFile \notin fs => index'[b] = index[b]
    BY <1>1, <1>2
  <1>5. TypeOK'
    <2>1. index' \in IndexType
      BY <1>1, <1>2, Placed DEF IndexType, EntryType
    <2>2. vinfoBlockFile' \in InfoType
      BY <1>1, <1>3 DEF InfoType, FileInfoType, IInv, TypeOK
    <2>3. flush' \in FlushType
      BY <1>1 DEF FlushType
    <2> QED
      BY <1>1, <2>1, <2>2, <2>3 DEF IInv, TypeOK, FlushType
  <1>6. EntriesPlaced'
    <2> SUFFICES ASSUME NEW c \in Block
                 PROVE  /\ WellPlaced(index'[c], vinfoBlockFile', c)
                        /\ InBlk(index'[c], blk, c) /\ InRev(index'[c], rev, c)
      BY <1>1 DEF EntriesPlaced
    <2>1. CASE index[c].nFile \in fs
      BY <1>4, <2>1 DEF WellPlaced, InBlk, InRev
    <2>2. CASE index[c].nFile \notin fs
      BY <1>1, <1>4, <2>2, Placed DEF WellPlaced, EntryType, IInv, EntriesPlaced
    <2> QED
      BY <2>1, <2>2
  <1>7. SavedPlaced'
    BY <1>1 DEF IInv, SavedPlaced
  <1>8. SizesGrow'
    <2> SUFFICES ASSUME NEW g \in File
                 PROVE  \/ Abandoned(g)'
                        \/ /\ treeDB.info[g].nSize <= vinfoBlockFile'[g].nSize
                           /\ treeDB.info[g].nUndoSize <= vinfoBlockFile'[g].nUndoSize
      BY <1>1 DEF SizesGrow
    <2>1. CASE g \in fs
      BY <1>1, <1>4, <2>1 DEF Abandoned, Prunable
    <2>2. CASE Abandoned(g)
      BY <1>1, <1>4, <2>2 DEF Abandoned
    <2>3. CASE g \notin fs /\ ~Abandoned(g)
      BY <1>1, <2>3 DEF IInv, SizesGrow
    <2> QED
      BY <2>1, <2>2, <2>3
  <1>9. CommittedFirst'
    <2> SUFFICES ASSUME NEW c \in Block, index'[c].nFile # nLastBlockFile
                 PROVE  InBlk(index'[c], synced.blk, c)
      BY <1>1 DEF CommittedFirst
    <2> QED
      BY <1>4 DEF IInv, CommittedFirst, InBlk
  <1>10. PrunedUnused'
    BY <1>1, <1>4 DEF PrunedUnused
  <1>11. DirtyExact'
    BY <1>1, <1>4 DEF DirtyExact, IInv
  <1>12. ChainKnown' /\ CoinsInIndex'
    BY <1>1, <1>4 DEF ChainKnown, CoinsInIndex, IInv
  <1> QED
    BY <1>5, <1>6, <1>7, <1>8, <1>9, <1>10, <1>11, <1>12 DEF IInv

\* FlushBlockFile commits the only file that may hold uncommitted blocks.
LEMMA FlushBlockFileStep ==
  ASSUME IInv, FlushBlockFile
  PROVE  IInv'
  <1>1. /\ flush.step = "files" /\ flush' = [flush EXCEPT !.step = "index"]
        /\ synced' = Committed(nLastBlockFile)
        /\ UNCHANGED <<index, vinfoBlockFile, nLastBlockFile, setDirtyBlockIndex,
                       setDirtyFileInfo, tip, blk, rev, treeDB, coinsDB, coinsSafe, restarts>>
    BY DEF FlushBlockFile, memory, databases
  <1>2. flush' \in FlushType /\ flush'.step = "index" /\ flush'.prune = flush.prune
    BY <1>1 DEF IInv, TypeOK, FlushType
  <1>3. /\ synced' \in [blk : Slots, rev : Slots]
        /\ synced'.blk[nLastBlockFile] = blk[nLastBlockFile]
        /\ \A g \in File : g # nLastBlockFile => synced'.blk[g] = synced.blk[g]
    BY <1>1, CommittedFiles DEF IInv, TypeOK
  <1>4. TypeOK'
    BY <1>1, <1>2, <1>3 DEF IInv, TypeOK, FlushType
  <1>5. EntriesPlaced' /\ SizesGrow' /\ DirtyExact'
    BY <1>1 DEF IInv, EntriesPlaced, SizesGrow, Abandoned, DirtyExact
  <1>6. SavedPlaced'
    <2> SUFFICES ASSUME NEW c \in Block PROVE InBlk(treeDB.index[c], synced'.blk, c)
      BY <1>1 DEF IInv, SavedPlaced
    <2> QED
      BY Zenon, <1>3, Placed DEF IInv, SavedPlaced, InBlk, EntryType
  <1>7. CommittedFirst'
    <2> SUFFICES ASSUME NEW c \in Block PROVE InBlk(index[c], synced'.blk, c)
      BY <1>1 DEF CommittedFirst
    <2> QED
      BY <1>3, Placed DEF IInv, EntriesPlaced, CommittedFirst, InBlk, EntryType
  <1>8. PrunedUnused' /\ ChainKnown' /\ CoinsInIndex'
    BY <1>1, <1>2 DEF IInv, PrunedUnused, ChainKnown, CoinsInIndex
  <1> QED
    BY <1>4, <1>5, <1>6, <1>7, <1>8 DEF IInv

\* With everything that differs marked, a batch makes the database equal to memory.
LEMMA WriteBatchSyncStep ==
  ASSUME IInv, WriteBatchSync
  PROVE  IInv'
  <1>1. /\ flush.step = "index"
        /\ setDirtyBlockIndex' = {} /\ setDirtyFileInfo' = {}
        /\ flush' = IF AfterIndex = "none" THEN NoFlush ELSE [flush EXCEPT !.step = AfterIndex]
        /\ UNCHANGED <<index, vinfoBlockFile, nLastBlockFile, tip, blk, rev, synced,
                       coinsDB, coinsSafe, restarts>>
    BY DEF WriteBatchSync, files
  <1>2. treeDB'.index = index /\ treeDB'.info = vinfoBlockFile
    <2>1. treeDB'.index = [b \in Block |-> IF b \in setDirtyBlockIndex THEN index[b]
                                            ELSE treeDB.index[b]]
      BY DEF WriteBatchSync
    <2>2. treeDB'.info = [f \in File |-> IF f \in setDirtyFileInfo THEN vinfoBlockFile[f]
                                         ELSE treeDB.info[f]]
      BY DEF WriteBatchSync
    <2> QED
      BY <2>1, <2>2 DEF IInv, DirtyExact, TypeOK, IndexType, InfoType
  <1>3. treeDB' \in [index : IndexType, info : InfoType, last : File]
    <2>1. treeDB' = [index |-> treeDB'.index, info |-> treeDB'.info, last |-> nLastBlockFile]
      BY DEF WriteBatchSync
    <2> QED
      BY <2>1, <1>2 DEF IInv, TypeOK
  <1>4. flush' \in FlushType /\ (flush'.step = "unlink" => flush'.prune = flush.prune)
        /\ flush'.step \in {"none", "unlink", "coins"}
    BY <1>1 DEF AfterIndex, NoFlush, FlushType, IInv, TypeOK
  <1>5. TypeOK'
    BY <1>1, <1>3, <1>4 DEF IInv, TypeOK, FlushType
  <1>6. EntriesPlaced' /\ SavedPlaced'
    BY <1>1, <1>2 DEF IInv, EntriesPlaced, SavedPlaced, CommittedFirst
  <1>7. SizesGrow'
    BY <1>1, <1>2 DEF IInv, SizesGrow, TypeOK, InfoType
  <1>8. CommittedFirst'
    BY <1>1, <1>4 DEF IInv, CommittedFirst
  <1>9. PrunedUnused'
    BY <1>1, <1>2, <1>4 DEF IInv, PrunedUnused
  <1>10. DirtyExact'
    BY <1>1, <1>2 DEF DirtyExact
  <1>11. ChainKnown' /\ CoinsInIndex'
    BY <1>1, <1>2 DEF IInv, ChainKnown, CoinsInIndex
  <1> QED
    BY <1>5, <1>6, <1>7, <1>8, <1>9, <1>10, <1>11 DEF IInv

\* UnlinkPrunedFiles comes after the index, so no entry on disk refers to the files.
LEMMA UnlinkPrunedFilesStep ==
  ASSUME IInv, UnlinkPrunedFiles
  PROVE  IInv'
  <1> DEFINE left(slots) == [f \in File |-> IF f \in flush.prune THEN {} ELSE slots[f]]
  <1>1. /\ flush.step = "unlink" /\ flush' = [flush EXCEPT !.step = "coins"]
        /\ blk' = left(blk) /\ rev' = left(rev)
        /\ synced' = [blk |-> left(synced.blk), rev |-> left(synced.rev)]
        /\ UNCHANGED <<index, vinfoBlockFile, nLastBlockFile, setDirtyBlockIndex,
                       setDirtyFileInfo, tip, treeDB, coinsDB, coinsSafe, restarts>>
    BY DEF UnlinkPrunedFiles, memory, databases
  <1>2. flush' \in FlushType /\ flush'.step = "coins"
    BY <1>1 DEF IInv, TypeOK, FlushType
  <1>3. \A slots \in Slots :
          left(slots) \in Slots /\ \A f \in File : f \notin flush.prune => left(slots)[f] = slots[f]
    BY DEF Slots
  <1> HIDE DEF left
  <1>4. TypeOK'
    BY <1>1, <1>2, <1>3 DEF IInv, TypeOK, FlushType
  <1>5. \A c \in Block :
          /\ index[c].nFile \in File /\ treeDB.index[c].nFile \in File
          /\ index[c].data => index[c].nFile \notin flush.prune
          /\ treeDB.index[c].data => treeDB.index[c].nFile \notin flush.prune
          /\ index[c].undo => index[c].data
          /\ treeDB.index[c].undo => treeDB.index[c].data
    BY <1>1, Placed DEF EntryType, IInv, PrunedUnused, EntriesPlaced, SavedPlaced, WellPlaced
  <1>6. blk \in Slots /\ rev \in Slots /\ synced.blk \in Slots /\ synced'.blk = left(synced.blk)
    BY <1>1 DEF IInv, TypeOK
  <1>7. EntriesPlaced'
    BY <1>1, <1>3, <1>5, <1>6 DEF IInv, EntriesPlaced, InBlk, InRev
  <1>8. SavedPlaced'
    BY <1>1, <1>3, <1>5, <1>6 DEF IInv, SavedPlaced, InBlk, InRev
  <1>9. CommittedFirst'
    BY <1>1, <1>2, <1>3, <1>5, <1>6 DEF IInv, CommittedFirst, InBlk
  <1>10. SizesGrow' /\ DirtyExact' /\ PrunedUnused' /\ ChainKnown' /\ CoinsInIndex'
    BY <1>1, <1>2 DEF IInv, SizesGrow, Abandoned, DirtyExact, PrunedUnused, ChainKnown, CoinsInIndex
  <1> QED
    BY <1>4, <1>7, <1>8, <1>9, <1>10 DEF IInv

\* A crash puts back what the databases hold, and of some files what is committed.
LEMMA CrashStep ==
  ASSUME IInv, NEW lost \in SUBSET File, NEW oldCoins \in BOOLEAN, Crash(lost, oldCoins)
  PROVE  IInv'
  <1>1. /\ blk' = [f \in File |-> IF f \in lost THEN synced.blk[f] ELSE blk[f]]
        /\ index' = treeDB.index /\ vinfoBlockFile' = treeDB.info /\ nLastBlockFile' = treeDB.last
        /\ setDirtyBlockIndex' = {} /\ setDirtyFileInfo' = {} /\ flush' = NoFlush
        /\ coinsDB' \in {coinsDB, coinsSafe} /\ coinsSafe' = coinsDB' /\ tip' = coinsDB'
        /\ restarts' \in 0..MaxRestarts
        /\ UNCHANGED <<rev, synced, treeDB>>
    BY DEF Crash, Surviving, IInv, TypeOK
  <1>2. flush' \in FlushType /\ flush'.step = "none"
    BY <1>1 DEF NoFlush, FlushType
  <1>3. blk' \in Slots
    BY <1>1 DEF IInv, TypeOK, Slots
  <1>4. TypeOK'
    BY <1>1, <1>2, <1>3 DEF IInv, TypeOK, FlushType
  <1>5. \A c \in Block : InBlk(treeDB.index[c], blk', c)
    BY Zenon, <1>1, Placed DEF IInv, SavedPlaced, InBlk, EntryType
  <1>6. EntriesPlaced' /\ SavedPlaced'
    BY Zenon, <1>1, <1>5 DEF IInv, EntriesPlaced, SavedPlaced
  <1>7. SizesGrow'
    BY <1>1 DEF IInv, SizesGrow, TypeOK, InfoType
  <1>8. CommittedFirst' /\ PrunedUnused' /\ DirtyExact'
    BY Zenon, <1>1, <1>2 DEF IInv, SavedPlaced, CommittedFirst, PrunedUnused, DirtyExact
  <1>9. ChainKnown' /\ CoinsInIndex'
    BY Zenon, <1>1, <1>2 DEF IInv, ChainKnown, CoinsInIndex
  <1> QED
    BY <1>4, <1>6, <1>7, <1>8, <1>9 DEF IInv

\* Every step keeps the invariant.
LEMMA NextIInv == IInv /\ [Next]_vars => IInv'
  <1> SUFFICES ASSUME IInv, [Next]_vars PROVE IInv'
    OBVIOUS
  <1>1. ASSUME NEW b \in Block, AcceptBlock(b) PROVE IInv'
    BY <1>1, AcceptBlockStep
  <1>2. CASE ConnectTip
    BY <1>2, ConnectTipStep
  <1>3. CASE DisconnectTip
    BY <1>3, DisconnectTipStep
  <1>4. ASSUME NEW fs \in {{}} \cup FindFilesToPrune \cup FindFilesToPruneManual,
               NEW full \in BOOLEAN, StartFlush(fs, full)
        PROVE  IInv'
    <2>1. fs \in SUBSET File /\ \A f \in fs : Prunable(f)
      BY ChosenPrunable
    <2> QED
      BY <1>4, <2>1, StartFlushStep
  <1>5. CASE OutOfDiskSpace \/ FlushCoins \/ CoinsReachDisk \/ UNCHANGED vars
    <2>1. UNCHANGED <<memory, files, treeDB, restarts>>
      BY <1>5 DEF OutOfDiskSpace, FlushCoins, CoinsReachDisk, vars, memory, files, databases
    <2> QED
      BY <1>5, <2>1, QuietStep
  <1>6. CASE FlushBlockFile
    BY <1>6, FlushBlockFileStep
  <1>7. CASE WriteBatchSync
    BY <1>7, WriteBatchSyncStep
  <1>8. CASE UnlinkPrunedFiles
    BY <1>8, UnlinkPrunedFilesStep
  <1>9. ASSUME NEW lost \in SUBSET File, NEW oldCoins \in BOOLEAN, Crash(lost, oldCoins)
        PROVE  IInv'
    BY <1>9, CrashStep
  <1> QED
    BY <1>1, <1>2, <1>3, <1>4, <1>5, <1>6, <1>7, <1>8, <1>9 DEF Next

\* The inductive invariant holds in every reachable state, whatever FlushStateToDisk,
\* AcceptBlock, ConnectTip and crashes do in turn.
THEOREM Invariance == Spec => []IInv
  BY InitIInv, NextIInv, PTL DEF Spec

\* TypeOK: every entry, file number and position keeps its type, on disk and in memory.
THEOREM TypeCorrect == Spec => []TypeOK
  BY Invariance, IInvImplies, PTL

\* Readable: whatever ReadBlockFromDisk and UndoReadFromDisk are asked for while the node
\* runs is where the block index says it is, across crashes and prunings.
THEOREM ReadableAlways == Spec => []Readable
  BY Invariance, IInvImplies, PTL

\* IndexBacked: the block index that LoadBlockIndexDB would find at any moment refers only
\* to blocks that are committed and to undo data that was written.
THEOREM IndexBackedAlways == Spec => []IndexBacked
  BY Invariance, IInvImplies, PTL

\* DirtyExact: FlushStateToDisk forgets no change of the index; what it has not written is
\* still in setDirtyBlockIndex.
THEOREM DirtyExactAlways == Spec => []DirtyExact
  BY Invariance, IInvImplies, PTL

\* CoinsInIndex: FlushStateToDisk writes the index before the coins, so the best block of
\* the coin database is in the index database whenever the node has to start from both.
THEOREM CoinsInIndexAlways == Spec => []CoinsInIndex
  BY Invariance, IInvImplies, PTL

\* RecentBlocksKept: PruneOneBlockFile takes no block within MIN_BLOCKS_TO_KEEP of the tip.
THEOREM RecentBlocksKeptAlways == Spec => RecentBlocksKept
  <1> DEFINE Kept == flush'.step = "files" =>
                \A b \in Block : index[b].data /\ b > tip - MIN_BLOCKS_TO_KEEP => index'[b].data
  <1>1. IInv /\ [Next]_vars => [Kept]_vars
    <2> SUFFICES ASSUME IInv, Next, flush'.step = "files", NEW b \in Block, index[b].data,
                        b > tip - MIN_BLOCKS_TO_KEEP
                 PROVE  index'[b].data
      OBVIOUS
    <2>1. ASSUME NEW fs \in {{}} \cup FindFilesToPrune \cup FindFilesToPruneManual,
                 NEW full \in BOOLEAN, StartFlush(fs, full)
          PROVE  index'[b].data
      <3>1. index[b].nFile \notin fs
        <4>1. ASSUME index[b].nFile \in fs PROVE FALSE
          <5>1. Prunable(index[b].nFile)
            BY <4>1, ChosenPrunable
          <5>2. b <= vinfoBlockFile[index[b].nFile].nHeightLast
            BY DEF IInv, EntriesPlaced, WellPlaced
          <5>3. vinfoBlockFile[index[b].nFile].nHeightLast <= tip - MIN_BLOCKS_TO_KEEP
            BY Zenon, <5>1 DEF Prunable
          <5>4. vinfoBlockFile[index[b].nFile].nHeightLast \in Position
            <6>1. vinfoBlockFile[index[b].nFile] \in FileInfoType
              BY Zenon, Placed
            <6> QED
              BY <6>1 DEF FileInfoType
          <5>5. tip \in Nat
            BY DEF IInv, TypeOK, Position
          <5> HIDE DEF IInv, Kept, FileInfoType
          <5> QED
            BY <5>2, <5>3, <5>4, <5>5 DEF Position, Block
        <4> QED
          BY <4>1
      <3> QED
        BY Zenon, <2>1, <3>1 DEF StartFlush, Pruned
    \* Nothing but StartFlush and steps of FlushStateToDisk leads to, or stays at, "files".
    <2>2. ASSUME NEW c \in Block, AcceptBlock(c) PROVE FALSE
      BY <2>2 DEF AcceptBlock, Idle
    <2>3. CASE ConnectTip
      BY <2>3 DEF ConnectTip, Idle
    <2>4. ASSUME NEW lost \in SUBSET File, NEW oldCoins \in BOOLEAN, Crash(lost, oldCoins)
          PROVE  FALSE
      BY <2>4 DEF Crash, NoFlush
    <2>5. CASE \/ DisconnectTip \/ OutOfDiskSpace \/ FlushBlockFile \/ WriteBatchSync
               \/ UnlinkPrunedFiles \/ FlushCoins \/ CoinsReachDisk
      BY <2>5 DEF DisconnectTip, OutOfDiskSpace, FlushBlockFile, WriteBatchSync,
                  UnlinkPrunedFiles, FlushCoins, CoinsReachDisk, memory
    <2> QED
      BY <2>1, <2>2, <2>3, <2>4, <2>5 DEF Next
  <1> QED
    BY <1>1, Invariance, PTL DEF Spec, RecentBlocksKept
=============================================================================
