------------------------------ MODULE ChainState ------------------------------
(***************************************************************************)
(* The block index and the selection of the active chain (validation.cpp).  *)
(*                                                                          *)
(* Threads of the node (the message handler, RPC workers, the importer)     *)
(* accept headers and blocks, run the RPCs that override validity, and call *)
(* ActivateBestChain, which releases cs_main between its steps.  Everything *)
(* that happens under one hold of cs_main is atomic to the other threads;   *)
(* ActivateBestChain's own hold is split into the iterations of its loops   *)
(* (FindMostWorkChain, DisconnectTip, ConnectTip), with csMain the holder.  *)
(*                                                                          *)
(* A failed assert() stops the node, and halted then names the function;    *)
(* AbortNode stops it too (halted = "abort").  Disk files, the coins and    *)
(* the mempool are the business of other modules; the node is past its      *)
(* start-up, with the genesis block connected.                              *)
(***************************************************************************)
EXTENDS ForkWarning, FiniteSets

CONSTANTS
    Thread,                 \* threads that may call into validation.cpp
    Verdict,                \* Verdict[b]: the check that block b fails, if any
    Rpc,                    \* the operator's RPCs in use
    fPruneMode,             \* whether block files may be pruned
    MIN_BLOCKS_TO_KEEP,     \* 1440: blocks below the tip that pruning spares
    nPruneAfterHeight,      \* 100000 or more: no pruning before this height
    ConnectBatch,           \* 32: blocks ActivateBestChainStep lines up at once
    MaxSequenceId,          \* bound on nBlockSequenceId
    MaxPrecious             \* bound on -nBlockReverseSequenceId

ASSUME ChainStateAssumption ==
    /\ NULL \notin Thread
    /\ IsFiniteSet(Block)
    \* "block": AcceptBlock's checks reject it; "connect": ConnectBlock does
    /\ Verdict \in [Block -> {"ok", "block", "connect"}]
    /\ Verdict[Genesis] = "ok"
    /\ Rpc \subseteq {"invalidateblock", "reconsiderblock", "preciousblock"}
    /\ fPruneMode \in BOOLEAN
    /\ MIN_BLOCKS_TO_KEEP \in Nat \ {0}
    /\ nPruneAfterHeight \in Nat /\ nPruneAfterHeight >= MIN_BLOCKS_TO_KEEP
    /\ ConnectBatch \in Nat \ {0}
    /\ MaxSequenceId \in Nat
    /\ MaxPrecious \in Nat

VARIABLES
    mapBlockIndex,          \* blocks with a CBlockIndex
    validity,               \* nStatus & BLOCK_VALID_MASK
    haveData, haveUndo,     \* blocks with BLOCK_HAVE_DATA, BLOCK_HAVE_UNDO
    processed,              \* blocks with nTx > 0
    linked,                 \* blocks with nChainTx > 0
    failedValid, failedChild,   \* blocks with BLOCK_FAILED_VALID, BLOCK_FAILED_CHILD
    nSequenceId,            \* order of arrival, as the comparator sees it
    setBlockIndexCandidates, mapBlocksUnlinked, gFailedBlocks,
    tip,                    \* chainActive.Tip(); chainActive is Ancestors[tip]
    pindexBestHeader, pindexBestInvalid,
    warn,                   \* fork warnings (ForkWarning)
    nBlockSequenceId, nBlockReverseSequenceId, nLastPreciousChainwork,
    csMain,                 \* the thread that holds cs_main, or NULL
    pc,                     \* where each thread is in ActivateBestChain
    pindexMostWork,         \* ActivateBestChain's local of that name, per thread
    step,                   \* locals of ActivateBestChainStep, while csMain is held
    halted

entryVars  == <<mapBlockIndex, haveData, haveUndo, processed>>
linkVars   == <<linked, mapBlocksUnlinked, nSequenceId, nBlockSequenceId>>
statusVars == <<validity, failedValid, failedChild>>
rpcVars    == <<nBlockReverseSequenceId, nLastPreciousChainwork>>
threadVars == <<csMain, pc, pindexMostWork, step>>
vars == <<entryVars, linkVars, statusVars, rpcVars, threadVars,
          setBlockIndexCandidates, gFailedBlocks, tip, pindexBestHeader,
          pindexBestInvalid, warn, halted>>

(* Mutant: received transactions pass for verified scripts *)
TransactionsAsScripts == 5

(* enum BlockStatus *)
BLOCK_VALID_UNKNOWN == 0
BLOCK_VALID_TREE == 2
BLOCK_VALID_TRANSACTIONS == 3
BLOCK_VALID_SCRIPTS == 5

Failed == failedValid \cup failedChild

(* CBlockIndex::IsValid *)
IsValid(b, nUpTo) == b \notin Failed /\ validity[b] >= nUpTo

(* CBlockIndex::RaiseValidity, as a new value of validity *)
RaiseValidity(v, b, nUpTo) ==
    IF b \notin Failed /\ v[b] < nUpTo THEN [v EXCEPT ![b] = nUpTo] ELSE v

(* pindexBestInvalid after InvalidChainFound(b) *)
MoreInvalid(b) ==
    IF pindexBestInvalid = NULL \/ nChainWork[b] > nChainWork[pindexBestInvalid]
    THEN b ELSE pindexBestInvalid

(* Mutant: the first of the set instead of the last *)
IsFirst(b, S) == b \in S /\ \A c \in S \ {b} : Worse(b, c, nSequenceId)

(* A best block (the last of the set) by the comparator *)
IsBest(b, S) == b \in S /\ \A c \in S \ {b} : Worse(c, b, nSequenceId)

(* Mutants: blocks as good as t are dropped, worse blocks are kept *)
OnlyBetter(S, t, seq) == {b \in S : Worse(t, b, seq)}
KeepWorse(S, t, seq)  == S

(* Blocks of S that are not worse than t, with sequence numbers seq *)
NotWorse(S, t, seq) == {b \in S : ~Worse(b, t, seq)}

Running == halted = "no"
Free    == Running /\ csMain = NULL

(* A thread that has left a cs_main section and is about to run, or to      *)
(* leave, ActivateBestChain.                                                *)
GoActivate(t) == /\ pc' = [pc EXCEPT ![t] = "loop"]
                 /\ pindexMostWork' = [pindexMostWork EXCEPT ![t] = NULL]
                 /\ UNCHANGED <<csMain, step>>

NoStep == [oldTip |-> NULL, fork |-> NULL, back |-> NULL]

Return(t) == /\ pc' = [pc EXCEPT ![t] = "idle"]
             /\ csMain' = NULL
             /\ pindexMostWork' = [pindexMostWork EXCEPT ![t] = NULL]
             /\ step' = NoStep

------------------------------------------------------------------------------

Init ==
    /\ mapBlockIndex = {Genesis}
    /\ validity = [b \in Block |-> IF b = Genesis THEN BLOCK_VALID_TRANSACTIONS
                                   ELSE BLOCK_VALID_UNKNOWN]
    /\ haveData = {Genesis}
    /\ haveUndo = {}
    /\ processed = {Genesis}
    /\ linked = {Genesis}
    /\ failedValid = {}
    /\ failedChild = {}
    /\ nSequenceId = [b \in Block |-> IF b = Genesis THEN 1 ELSE 0]
    /\ setBlockIndexCandidates = {Genesis}
    /\ mapBlocksUnlinked = {}
    /\ gFailedBlocks = {}
    /\ tip = Genesis
    /\ pindexBestHeader = Genesis
    /\ pindexBestInvalid = NULL
    /\ warn = NoWarnings
    /\ nBlockSequenceId = 2
    /\ nBlockReverseSequenceId = -1
    /\ nLastPreciousChainwork = 0
    /\ csMain = NULL
    /\ pc = [t \in Thread |-> "idle"]
    /\ pindexMostWork = [t \in Thread |-> NULL]
    /\ step = NoStep
    /\ halted = "no"

------------------------------------------------------------------------------
(* Headers *)

(* AcceptBlockHeader, up to its walk over gFailedBlocks: a header that is    *)
(* new and whose predecessor is known and not marked invalid.                *)
NewHeader(b) == /\ b \in Block \ mapBlockIndex
                /\ pprev[b] \in mapBlockIndex
                /\ pprev[b] \notin Failed

(* Mutant: an entry of gFailedBlocks counts whether it is below or not *)
AnyFailed(b) == IF IsValid(pprev[b], BLOCK_VALID_SCRIPTS) THEN {} ELSE gFailedBlocks

(* The entries of gFailedBlocks that walk finds below the predecessor *)
FailedAncestors(b) ==
    IF IsValid(pprev[b], BLOCK_VALID_SCRIPTS) THEN {}
    ELSE gFailedBlocks \cap Ancestors[pprev[b]]

(* The header gets, or has, a CBlockIndex and is not marked invalid *)
HeaderAccepted(b) ==
    \/ b \in mapBlockIndex \ Failed
    \/ NewHeader(b) /\ FailedAncestors(b) = {}

(* Mutant: the entry is not inserted *)
BestHeaderOnly(b) ==
    /\ UNCHANGED mapBlockIndex
    /\ pindexBestHeader' =
         IF nChainWork[pindexBestHeader] < nChainWork[b] THEN b ELSE pindexBestHeader

(* AddToBlockIndex; without effect on a block that is there already *)
AddToBlockIndex(b) ==
    /\ mapBlockIndex' = mapBlockIndex \cup {b}
    /\ pindexBestHeader' =
         IF b \notin mapBlockIndex /\ nChainWork[pindexBestHeader] < nChainWork[b]
         THEN b ELSE pindexBestHeader

(* ProcessNewBlockHeaders, a message of one header; longer messages are      *)
(* runs of this action.                                                      *)
AcceptHeader(b) ==
    /\ Free
    /\ NewHeader(b)
    /\ FailedAncestors(b) = {}
    /\ AddToBlockIndex(b)
    /\ validity' = RaiseValidity(validity, b, BLOCK_VALID_TREE)
    /\ UNCHANGED <<haveData, haveUndo, processed, linkVars, failedValid,
                   failedChild, rpcVars, threadVars, setBlockIndexCandidates,
                   gFailedBlocks, tip, pindexBestInvalid, warn, halted>>

(* The header descends from a block in gFailedBlocks: everything between is  *)
(* marked, the header is not added.  The walk stops at the first such entry, *)
(* in the order of their addresses; f is any of them.                        *)
RejectHeader(b) ==
    /\ Free
    /\ NewHeader(b)
    /\ \E f \in FailedAncestors(b) :
         IF f \in failedValid
         THEN /\ failedChild' = failedChild \cup (Ancestors[pprev[b]] \ Ancestors[f])
              /\ UNCHANGED halted
         ELSE halted' = "AcceptBlockHeader" /\ UNCHANGED failedChild
    /\ UNCHANGED <<entryVars, linkVars, validity, failedValid, rpcVars, threadVars,
                   setBlockIndexCandidates, gFailedBlocks, tip, pindexBestHeader,
                   pindexBestInvalid, warn>>

------------------------------------------------------------------------------
(* Blocks *)

(* Mutant: a block may be received again *)
NeverHave(b) == FALSE

(* AcceptBlock's reasons to leave a block aside *)
AlreadyHave(b) == b \in haveData
Unwanted(b) ==
    \/ b \in processed
    \/ nChainWork[b] <= nChainWork[tip]
    \/ nHeight[b] > nHeight[tip] + MIN_BLOCKS_TO_KEEP

(* ProcessNewBlock, when AcceptBlock keeps no more than the header *)
IgnoreBlock(t, b, fRequested) ==
    /\ Free /\ pc[t] = "idle"
    /\ HeaderAccepted(b)
    /\ AlreadyHave(b) \/ (~fRequested /\ Unwanted(b))
    /\ AddToBlockIndex(b)
    /\ validity' = RaiseValidity(validity, b, BLOCK_VALID_TREE)
    /\ GoActivate(t)
    /\ UNCHANGED <<haveData, haveUndo, processed, linkVars, failedValid,
                   failedChild, rpcVars, setBlockIndexCandidates,
                   gFailedBlocks, tip, pindexBestInvalid, warn, halted>>

Stores(b, fRequested) == /\ HeaderAccepted(b)
                         /\ ~AlreadyHave(b)
                         /\ fRequested \/ ~Unwanted(b)

(* ProcessNewBlock, when the block breaks a rule of CheckBlock or            *)
(* ContextualCheckBlock: the block is marked, and ActivateBestChain is not   *)
(* called.                                                                   *)
RejectBlock(t, b, fRequested) ==
    /\ Free /\ pc[t] = "idle"
    /\ Stores(b, fRequested)
    /\ Verdict[b] = "block"
    /\ AddToBlockIndex(b)
    /\ validity' = RaiseValidity(validity, b, BLOCK_VALID_TREE)
    /\ failedValid' = failedValid \cup {b}
    /\ UNCHANGED <<haveData, haveUndo, processed, linkVars, failedChild, rpcVars,
                   threadVars, setBlockIndexCandidates, gFailedBlocks, tip,
                   pindexBestInvalid, warn, halted>>

(* Mutants: the queue is not drained, or takes in what was not received *)
OnlyItself(b)     == {b}
AllDescendants(b) == {d \in mapBlockIndex \cup {b} : b \in Ancestors[d]}

(* The blocks the queue of ReceivedBlockTransactions visits when b is linked: *)
(* b, and what mapBlocksUnlinked chains to it.                                *)
LinkedBy(b) ==
    {d \in mapBlockIndex \cup {b} :
        /\ b \in Ancestors[d]
        /\ \A x \in Ancestors[d] \ Ancestors[b] : <<pprev[x], x>> \in mapBlocksUnlinked}

(* The orders in which the queue can visit them: breadth first, children of   *)
(* one block in the order of the multimap, which is left open.                *)
QueueOrders(S) ==
    {o \in [S -> 0 .. Cardinality(S) - 1] :
        \A x, y \in S : /\ o[x] = o[y] => x = y
                        /\ nHeight[x] < nHeight[y] => o[x] < o[y]}

(* Mutant: entries stay after they were queued *)
KeepUnlinked(queue) == mapBlocksUnlinked

(* The entries of mapBlocksUnlinked the queue leaves behind *)
StillUnlinked(queue) == {p \in mapBlocksUnlinked : p[1] \notin queue}

(* ReceivedBlockTransactions *)
ReceivedBlockTransactions(b) ==
    LET queue == IF pprev[b] \in linked THEN LinkedBy(b) ELSE {}
    IN  /\ haveData' = haveData \cup {b}
        /\ processed' = processed \cup {b}
        /\ validity' = RaiseValidity(validity, b, BLOCK_VALID_TRANSACTIONS)
        /\ linked' = linked \cup queue
        /\ nBlockSequenceId' = nBlockSequenceId + Cardinality(queue)
        /\ nBlockSequenceId' <= MaxSequenceId
        /\ \E o \in QueueOrders(queue) :
              nSequenceId' = [x \in Block |-> IF x \in queue THEN nBlockSequenceId + o[x]
                                              ELSE nSequenceId[x]]
        /\ setBlockIndexCandidates' =
              setBlockIndexCandidates \cup NotWorse(queue, tip, nSequenceId')
        /\ mapBlocksUnlinked' =
              CASE pprev[b] \in linked -> StillUnlinked(queue)
                [] pprev[b] \notin linked /\ pprev[b] \notin Failed ->
                      mapBlocksUnlinked \cup {<<pprev[b], b>>}
                [] OTHER -> mapBlocksUnlinked

(* ProcessNewBlock, when AcceptBlock stores the block *)
AcceptBlock(t, b, fRequested) ==
    /\ Free /\ pc[t] = "idle"
    /\ Stores(b, fRequested)
    /\ Verdict[b] # "block"
    /\ AddToBlockIndex(b)
    /\ ReceivedBlockTransactions(b)
    /\ GoActivate(t)
    /\ UNCHANGED <<haveUndo, failedValid, failedChild, rpcVars, gFailedBlocks,
                   tip, pindexBestInvalid, warn, halted>>

(* Mutant: one block too many is given up *)
PrunableOffByOne(b) ==
    /\ nHeight[tip] >= nPruneAfterHeight
    /\ nHeight[b] <= nHeight[tip] - MIN_BLOCKS_TO_KEEP + 1

(* FindFilesToPrune, and FindFilesToPruneManual after the RPC's own test,     *)
(* spare the files with a block close to the tip.  nLastBlockWeCanPrune is    *)
(* unsigned: on a short chain it wraps round and spares nothing.              *)
Prunable(b) ==
    /\ nHeight[tip] >= nPruneAfterHeight
    /\ \/ nHeight[tip] < MIN_BLOCKS_TO_KEEP
       \/ nHeight[b] <= nHeight[tip] - MIN_BLOCKS_TO_KEEP

(* PruneOneBlockFile, for a file of one block.  Whether a flush prunes depends *)
(* on the disk space in use, which is left open; it can happen in any section  *)
(* under cs_main that flushes.                                                 *)
PruneOneBlockFile(b) ==
    /\ Running /\ fPruneMode
    /\ csMain # NULL => pc[csMain] \in {"disconnect", "connect"}
    /\ b \in haveData
    /\ Prunable(b)
    /\ haveData' = haveData \ {b}
    /\ haveUndo' = haveUndo \ {b}
    /\ mapBlocksUnlinked' = mapBlocksUnlinked \ {<<pprev[b], b>>}
    /\ UNCHANGED <<mapBlockIndex, processed, linked, nSequenceId, nBlockSequenceId,
                   statusVars, rpcVars, threadVars, setBlockIndexCandidates,
                   gFailedBlocks, tip, pindexBestHeader, pindexBestInvalid, warn, halted>>

------------------------------------------------------------------------------
(* The operator's RPCs; each then calls ActivateBestChain *)

(* The blocks InvalidateBlock(b) has to disconnect, and those it cannot: the  *)
(* block or its undo data is gone.                                            *)
ToDisconnect(b) ==
    IF Contains(tip, b) THEN Ancestors[tip] \ Ancestors[pprev[b]] ELSE {}
Stuck(b) == ToDisconnect(b) \ (haveData \cap haveUndo)

InvalidateBlock(t, b) ==
    LET gone == ToDisconnect(b)
        newTip == IF Contains(tip, b) THEN pprev[b] ELSE tip
        good == NotWorse({x \in linked : IsValid(x, BLOCK_VALID_TRANSACTIONS)}
                             \ (gone \cup {b}), newTip, nSequenceId)
    IN  /\ Free /\ pc[t] = "idle"
        /\ "invalidateblock" \in Rpc
        /\ b \in mapBlockIndex \ {Genesis}
        /\ Stuck(b) = {}
        /\ tip' = newTip
        /\ failedChild' = failedChild \cup (gone \ {b})
        /\ failedValid' = failedValid \cup {b}
        /\ setBlockIndexCandidates' = (setBlockIndexCandidates \ (gone \cup {b})) \cup good
        /\ gFailedBlocks' = (gFailedBlocks \cup {b}) \ good
        /\ pindexBestInvalid' = MoreInvalid(b)
        /\ warn' = CheckForkWarningConditions(warn, newTip, MoreInvalid(b))
        /\ GoActivate(t)
        /\ UNCHANGED <<entryVars, linkVars, validity, rpcVars, pindexBestHeader, halted>>

(* A DisconnectTip on the way fails: nothing is marked, and the chain is left *)
(* where it stopped.                                                          *)
InvalidateBlockFails(t, b) ==
    /\ Free /\ pc[t] = "idle"
    /\ "invalidateblock" \in Rpc
    /\ b \in mapBlockIndex \ {Genesis}
    /\ \E x \in Stuck(b) :
         /\ Stuck(b) \subseteq Ancestors[x]
         /\ tip' = x
         /\ halted' = IF x \in haveData THEN halted ELSE "abort"
    /\ GoActivate(t)
    /\ UNCHANGED <<entryVars, linkVars, statusVars, rpcVars, setBlockIndexCandidates,
                   gFailedBlocks, pindexBestHeader, pindexBestInvalid, warn>>

ResetBlockFailureFlags(t, b) ==
    LET below == {x \in mapBlockIndex : /\ b \in Ancestors[x]
                                        /\ ~IsValid(x, BLOCK_VALID_TRANSACTIONS)}
    IN  /\ Free /\ pc[t] = "idle"
        /\ "reconsiderblock" \in Rpc
        /\ b \in mapBlockIndex
        /\ failedValid' = failedValid \ (below \cup Ancestors[b])
        /\ failedChild' = failedChild \ (below \cup Ancestors[b])
        /\ setBlockIndexCandidates' = setBlockIndexCandidates \cup
              {x \in below \cap linked : /\ validity[x] >= BLOCK_VALID_TRANSACTIONS
                                         /\ Worse(tip, x, nSequenceId)}
        /\ pindexBestInvalid' = IF pindexBestInvalid \in below THEN NULL
                                ELSE pindexBestInvalid
        /\ GoActivate(t)
        /\ UNCHANGED <<entryVars, linkVars, validity, rpcVars, gFailedBlocks, tip,
                       pindexBestHeader, warn, halted>>

(* PreciousBlock and the PruneBlockIndexCandidates it calls *)
PreciousBlock(t, b) ==
    LET reverseId == IF nChainWork[tip] > nLastPreciousChainwork THEN -1
                     ELSE nBlockReverseSequenceId
        seq == [nSequenceId EXCEPT ![b] = reverseId]
        usable == IsValid(b, BLOCK_VALID_TRANSACTIONS) /\ b \in linked
        kept == NotWorse(setBlockIndexCandidates \cup {b}, tip, seq)
    IN  /\ Free /\ pc[t] = "idle"
        /\ "preciousblock" \in Rpc
        /\ b \in mapBlockIndex
        /\ nChainWork[b] >= nChainWork[tip]
        /\ reverseId >= -MaxPrecious
        /\ nLastPreciousChainwork' = nChainWork[tip]
        /\ nSequenceId' = seq
        /\ nBlockReverseSequenceId' = reverseId - 1
        /\ setBlockIndexCandidates' = IF usable THEN kept
                                      ELSE setBlockIndexCandidates \ {b}
        /\ halted' = IF usable /\ kept = {} THEN "PruneBlockIndexCandidates" ELSE halted
        /\ GoActivate(t)
        /\ UNCHANGED <<entryVars, linked, mapBlocksUnlinked, nBlockSequenceId,
                       statusVars, gFailedBlocks, tip, pindexBestHeader,
                       pindexBestInvalid, warn>>

------------------------------------------------------------------------------
(* ActivateBestChain *)

(* The chain to work towards is known: enter ActivateBestChainStep *)
BeginStep(t, b) ==
    /\ csMain' = t
    /\ pc' = [pc EXCEPT ![t] = "disconnect"]
    /\ pindexMostWork' = [pindexMostWork EXCEPT ![t] = b]
    /\ step' = [oldTip |-> tip, fork |-> FindFork(tip, b), back |-> NULL]

(* Top of the loop: take cs_main, and keep a chain chosen in an earlier round *)
LockMain(t) ==
    /\ Free /\ pc[t] = "loop"
    /\ CASE pindexMostWork[t] = NULL -> /\ csMain' = t
                                        /\ pc' = [pc EXCEPT ![t] = "find"]
                                        /\ UNCHANGED <<pindexMostWork, step>>
         [] pindexMostWork[t] = tip  -> Return(t)
         [] OTHER                    -> BeginStep(t, pindexMostWork[t])
    /\ UNCHANGED <<entryVars, linkVars, statusVars, rpcVars, setBlockIndexCandidates,
                   gFailedBlocks, tip, pindexBestHeader, pindexBestInvalid, warn, halted>>

Finding(t) == Running /\ csMain = t /\ pc[t] = "find"

(* Mutant: marks of invalidity are not looked at *)
WithoutData(c) == {x \in Ancestors[c] \ Ancestors[tip] : x \notin haveData}

(* The blocks FindMostWorkChain walks over from candidate c, and those it     *)
(* stops at.                                                                  *)
Path(c)     == Ancestors[c] \ Ancestors[tip]
Unusable(c) == {x \in Path(c) : x \in Failed \/ x \notin haveData}

(* FindMostWorkChain returns; the walk asserts that every block it meets has *)
(* nChainTx.                                                                  *)
FindMostWorkChain(t) ==
    /\ Finding(t)
    /\ \/ setBlockIndexCandidates = {} /\ Return(t) /\ UNCHANGED halted
       \/ \E c \in setBlockIndexCandidates :
            /\ IsBest(c, setBlockIndexCandidates)
            /\ Unusable(c) = {}
            /\ IF c = tip THEN Return(t) ELSE BeginStep(t, c)
            /\ halted' = IF Path(c) \subseteq linked THEN halted ELSE "FindMostWorkChain"
    /\ UNCHANGED <<entryVars, linkVars, statusVars, rpcVars, setBlockIndexCandidates,
                   gFailedBlocks, tip, pindexBestHeader, pindexBestInvalid, warn>>

(* Mutants: the walk goes on to the genesis block; nothing is erased *)
WholeChain(c, x)  == Ancestors[c]
NoneDropped(c, x) == {}

(* The blocks of candidate c above x, and those that stop being candidates    *)
Above(c, x)   == Ancestors[c] \ Ancestors[x]
Dropped(c, x) == Above(c, x) \cup {x}

(* FindMostWorkChain drops candidate c, because block x below it is invalid   *)
(* or has no data.                                                            *)
Drop(c, x) ==
    /\ setBlockIndexCandidates' = setBlockIndexCandidates \ Dropped(c, x)
    /\ IF x \in Failed
       THEN /\ failedChild' = failedChild \cup Above(c, x)
            /\ pindexBestInvalid' = MoreInvalid(c)
            /\ UNCHANGED mapBlocksUnlinked
       ELSE /\ mapBlocksUnlinked' =
                  mapBlocksUnlinked \cup {<<pprev[y], y>> : y \in Above(c, x)}
            /\ UNCHANGED <<failedChild, pindexBestInvalid>>
    /\ halted' = IF Dropped(c, x) \subseteq linked THEN halted ELSE "FindMostWorkChain"

DropCandidate(t) ==
    /\ Finding(t)
    /\ \E c \in setBlockIndexCandidates : \E x \in Unusable(c) :
         /\ IsBest(c, setBlockIndexCandidates)
         /\ Unusable(c) \subseteq Ancestors[x]
         /\ Drop(c, x)
    /\ UNCHANGED <<entryVars, linked, nSequenceId, nBlockSequenceId, validity,
                   failedValid, rpcVars, threadVars, gFailedBlocks, tip,
                   pindexBestHeader, warn>>

(* One turn of the loop that disconnects down to the fork *)
DisconnectTip(t) ==
    /\ Running /\ csMain = t /\ pc[t] = "disconnect"
    /\ CASE tip = step.fork ->
              /\ pc' = [pc EXCEPT ![t] = "connect"]
              /\ UNCHANGED <<tip, csMain, pindexMostWork, step, halted>>
         [] tip # step.fork /\ tip \notin haveData ->
              halted' = "abort" /\ UNCHANGED <<tip, threadVars>>
         [] tip # step.fork /\ tip \in haveData \ haveUndo ->
              Return(t) /\ UNCHANGED <<tip, halted>>
         [] OTHER ->
              tip' = pprev[tip] /\ UNCHANGED <<threadVars, halted>>
    /\ UNCHANGED <<entryVars, linkVars, statusVars, rpcVars, setBlockIndexCandidates,
                   gFailedBlocks, pindexBestHeader, pindexBestInvalid, warn>>

(* The next block towards the chosen chain is b *)
Connecting(t, b) ==
    /\ Running /\ csMain = t /\ pc[t] = "connect"
    /\ b \in Ancestors[pindexMostWork[t]] \ {Genesis}
    /\ pprev[b] = tip

(* ConnectTip succeeds; then PruneBlockIndexCandidates, and a stop as soon as *)
(* the chain has more work than the one the step began with.                  *)
ConnectTip(t, b) ==
    LET kept == NotWorse(setBlockIndexCandidates, b, nSequenceId)
    IN  /\ Connecting(t, b)
        /\ b \in haveData
        /\ Verdict[b] = "ok"
        /\ tip' = b
        /\ haveUndo' = haveUndo \cup {b}
        /\ validity' = RaiseValidity(validity, b, BLOCK_VALID_SCRIPTS)
        /\ setBlockIndexCandidates' = kept
        /\ halted' = IF kept = {} THEN "PruneBlockIndexCandidates" ELSE halted
        /\ pc' = [pc EXCEPT ![t] = IF nChainWork[b] > nChainWork[step.oldTip]
                                   THEN "finish" ELSE "connect"]
        /\ UNCHANGED <<mapBlockIndex, haveData, processed, linkVars, failedValid,
                       failedChild, rpcVars, csMain, pindexMostWork, step,
                       gFailedBlocks, pindexBestHeader, pindexBestInvalid, warn>>

(* vpindexToConnect.back() when b is about to be connected: the lowest block  *)
(* of the batch b is in.                                                      *)
BatchBack(t, b) ==
    LET h == nHeight[step.fork]
    IN  GetAncestor(pindexMostWork[t],
                    h + ConnectBatch * ((nHeight[b] - h - 1) \div ConnectBatch) + 1)

(* ConnectTip fails: InvalidBlockFound, and the InvalidChainFound of the      *)
(* step, which cannot raise pindexBestInvalid any further.                    *)
InvalidBlockFound(t, b) ==
    /\ Connecting(t, b)
    /\ b \in haveData
    /\ Verdict[b] # "ok"
    /\ failedValid' = failedValid \cup {b}
    /\ gFailedBlocks' = gFailedBlocks \cup {b}
    /\ setBlockIndexCandidates' = setBlockIndexCandidates \ {b}
    /\ pindexBestInvalid' = MoreInvalid(b)
    /\ warn' = CheckForkWarningConditions(warn, tip, MoreInvalid(b))
    /\ step' = [step EXCEPT !.back = BatchBack(t, b)]
    /\ pc' = [pc EXCEPT ![t] = "finish"]
    /\ UNCHANGED <<entryVars, linkVars, validity, failedChild, rpcVars, csMain,
                   pindexMostWork, tip, pindexBestHeader, halted>>

(* ConnectTip cannot read the block: AbortNode *)
ConnectWithoutData(t, b) ==
    /\ Connecting(t, b)
    /\ b \notin haveData
    /\ halted' = "abort"
    /\ UNCHANGED <<entryVars, linkVars, statusVars, rpcVars, threadVars,
                   setBlockIndexCandidates, gFailedBlocks, tip, pindexBestHeader,
                   pindexBestInvalid, warn>>

(* Nothing left to connect *)
Connected(t) ==
    /\ Running /\ csMain = t /\ pc[t] = "connect"
    /\ tip = pindexMostWork[t]
    /\ pc' = [pc EXCEPT ![t] = "finish"]
    /\ UNCHANGED <<entryVars, linkVars, statusVars, rpcVars, csMain, pindexMostWork,
                   step, setBlockIndexCandidates, gFailedBlocks, tip, pindexBestHeader,
                   pindexBestInvalid, warn, halted>>

(* The end of the step: fork warnings, then cs_main is released, and the loop *)
(* goes round unless the chosen chain is the active one.                      *)
FinishStep(t) ==
    LET known == IF step.back = NULL THEN warn ELSE RememberFork(warn, tip, step.back)
        goal  == IF step.back = NULL THEN pindexMostWork[t] ELSE NULL
    IN  /\ Running /\ csMain = t /\ pc[t] = "finish"
        /\ warn' = CheckForkWarningConditions(known, tip, pindexBestInvalid)
        /\ halted' = IF WarnsWithoutInvalid(known, tip, pindexBestInvalid)
                     THEN "CheckForkWarningConditions" ELSE halted
        /\ csMain' = NULL
        /\ step' = NoStep
        /\ pindexMostWork' = [pindexMostWork EXCEPT ![t] = IF goal = tip THEN NULL ELSE goal]
        /\ pc' = [pc EXCEPT ![t] = IF goal = tip THEN "idle" ELSE "loop"]
        /\ UNCHANGED <<entryVars, linkVars, statusVars, rpcVars,
                       setBlockIndexCandidates, gFailedBlocks, tip, pindexBestHeader,
                       pindexBestInvalid>>

------------------------------------------------------------------------------

ActivateBestChain(t) ==
    \/ LockMain(t) \/ FindMostWorkChain(t) \/ DropCandidate(t)
    \/ DisconnectTip(t) \/ Connected(t) \/ FinishStep(t)
    \/ \E b \in Block : ConnectTip(t, b) \/ InvalidBlockFound(t, b) \/ ConnectWithoutData(t, b)

ProcessNewBlock(t, b) ==
    \E fRequested \in BOOLEAN :
        \/ IgnoreBlock(t, b, fRequested)
        \/ RejectBlock(t, b, fRequested)
        \/ AcceptBlock(t, b, fRequested)

OperatorCall(t, b) ==
    \/ InvalidateBlock(t, b) \/ InvalidateBlockFails(t, b)
    \/ ResetBlockFailureFlags(t, b) \/ PreciousBlock(t, b)

Next ==
    \/ \E b \in Block \ {Genesis} : AcceptHeader(b) \/ RejectHeader(b)
    \/ \E b \in Block : PruneOneBlockFile(b)
    \/ \E t \in Thread, b \in Block \ {Genesis} : ProcessNewBlock(t, b)
    \/ \E t \in Thread, b \in Block : OperatorCall(t, b)
    \/ \E t \in Thread : ActivateBestChain(t)

Spec == Init /\ [][Next]_vars

(* A thread inside ActivateBestChain keeps being scheduled *)
FairSpec == Spec /\ \A t \in Thread : WF_vars(ActivateBestChain(t))

------------------------------------------------------------------------------
(* What the code promises *)

(* Where pc is while the thread holds cs_main, and what halted may name *)
Inside == {"find", "disconnect", "connect", "finish"}
AssertSites == {"AcceptBlockHeader", "FindMostWorkChain", "PruneBlockIndexCandidates",
                "CheckForkWarningConditions"}

Quiescent == Free /\ \A t \in Thread : pc[t] = "idle"

(* Every variable stays within its type: what is said of blocks is said of    *)
(* blocks in mapBlockIndex, and a thread is inside a step of                  *)
(* ActivateBestChain exactly while it holds cs_main.                          *)
TypeOK ==
    /\ mapBlockIndex \in SUBSET Block
    /\ validity \in [Block -> {BLOCK_VALID_UNKNOWN, BLOCK_VALID_TREE,
                               BLOCK_VALID_TRANSACTIONS, BLOCK_VALID_SCRIPTS}]
    /\ haveData \subseteq mapBlockIndex /\ haveUndo \subseteq mapBlockIndex
    /\ processed \subseteq mapBlockIndex /\ linked \subseteq mapBlockIndex
    /\ failedValid \subseteq mapBlockIndex /\ failedChild \subseteq mapBlockIndex
    /\ setBlockIndexCandidates \subseteq mapBlockIndex
    /\ gFailedBlocks \subseteq mapBlockIndex
    /\ nSequenceId \in [Block -> Int]
    /\ mapBlocksUnlinked \subseteq mapBlockIndex \X mapBlockIndex
    /\ tip \in mapBlockIndex
    /\ pindexBestHeader \in mapBlockIndex
    /\ pindexBestInvalid \in mapBlockIndex \cup {NULL}
    /\ warn \in Warnings
    /\ nBlockSequenceId \in Nat
    /\ nBlockReverseSequenceId \in Int
    /\ nLastPreciousChainwork \in Nat
    /\ csMain \in Thread \cup {NULL}
    /\ pc \in [Thread -> {"idle", "loop"} \cup Inside]
    /\ \A t \in Thread : csMain = t <=> pc[t] \in Inside
    /\ pindexMostWork \in [Thread -> mapBlockIndex \cup {NULL}]
    /\ step \in [oldTip : BlockOrNull, fork : BlockOrNull, back : BlockOrNull]
    /\ halted \in {"no", "abort"} \cup AssertSites

(* Neither an assert() of the block index code fails (the one of               *)
(* AcceptBlockHeader on gFailedBlocks, of FindMostWorkChain on nChainTx, of    *)
(* PruneBlockIndexCandidates on an empty candidate set), nor does              *)
(* CheckForkWarningConditions read through a null pindexBestInvalid.           *)
AssertionsHold == halted \notin AssertSites

(* nChainTx is set only on blocks that have been received together with all    *)
(* their ancestors, and only such blocks are candidates for activation: what   *)
(* the walk of FindMostWorkChain asserts, whatever the threads and the         *)
(* operator do.                                                                *)
LinkedIsReceived ==
    /\ setBlockIndexCandidates \subseteq linked
    /\ \A b \in linked : Ancestors[b] \subseteq linked \cap processed

(* The same in the other direction, for chains with no block marked invalid:   *)
(* a block that has been received with all its ancestors has nChainTx.         *)
ReceivedIsLinked ==
    Quiescent => \A b \in mapBlockIndex :
        Ancestors[b] \subseteq processed \ Failed => b \in linked

(* CheckBlockIndex: nChainTx is set on exactly the blocks whose chain has been *)
(* received down to the genesis.                                               *)
LinkedIffReceived ==
    Quiescent => linked = {b \in mapBlockIndex : Ancestors[b] \subseteq processed}

(* CheckBlockIndex: a block whose scripts were verified stands on blocks whose *)
(* scripts were verified.                                                      *)
ScriptsValidBelow ==
    \A b \in mapBlockIndex : validity[b] = BLOCK_VALID_SCRIPTS =>
        \A a \in Ancestors[b] \ {Genesis} : validity[a] = BLOCK_VALID_SCRIPTS

(* CheckBlockIndex: a block is marked invalid only if it, or a block below it, *)
(* was itself found invalid.                                                   *)
FailedHasCause ==
    Quiescent => \A b \in Failed : Ancestors[b] \cap failedValid # {}

(* CheckBlockIndex: setBlockIndexCandidates holds every block that is at least *)
(* as good as the tip and can be activated, and none that is worse than the    *)
(* tip or not received.                                                        *)
CandidatesExact ==
    Quiescent => \A b \in mapBlockIndex :
        IF ~Worse(b, tip, nSequenceId) /\ Ancestors[b] \subseteq processed
        THEN (/\ Ancestors[b] \cap failedValid = {}
              /\ Ancestors[b] \subseteq haveData \/ b = tip) => b \in setBlockIndexCandidates
        ELSE b \notin setBlockIndexCandidates

(* CheckBlockIndex: a block received before one of its ancestors waits in      *)
(* mapBlocksUnlinked, and so does one that cannot be activated because an      *)
(* ancestor was pruned (unless a reorganisation was left half-way, and even    *)
(* the tip is no candidate); no block waits whose ancestors are all there.     *)
UnlinkedExact ==
    Quiescent => \A b \in mapBlockIndex \ {Genesis} :
        LET waits == <<pprev[b], b>> \in mapBlocksUnlinked
        IN  /\ (/\ b \in haveData
                /\ ~(Ancestors[b] \subseteq processed)
                /\ Ancestors[b] \cap failedValid = {}) => waits
            /\ waits => b \in haveData /\ ~(Ancestors[b] \subseteq haveData)
            /\ (/\ b \in haveData
                /\ ~(Ancestors[b] \subseteq haveData)
                /\ tip \in setBlockIndexCandidates
                /\ ~Worse(b, tip, nSequenceId)
                /\ b \notin setBlockIndexCandidates
                /\ Ancestors[b] \cap failedValid = {}) => waits

(* ActivateBestChain: "The result is either failure or an activated best       *)
(* chain": when no thread is at work, no chain that is complete and not known  *)
(* to be invalid beats the active one, by work and then by order of arrival.   *)
BestChainActive ==
    Quiescent => \A b \in linked :
        Ancestors[b] \cap Failed = {} /\ Path(b) \subseteq haveData
            => ~Worse(tip, b, nSequenceId)

(* A block marked invalid is never part of the active chain once cs_main is    *)
(* free.                                                                       *)
ActiveChainNotFailed == Free => Ancestors[tip] \cap Failed = {}

(* A candidate's sort key does not change under setBlockIndexCandidates, a     *)
(* std::set ordered by it; PreciousBlock takes the block out first.            *)
SortKeyStable ==
    [][(\A t \in Thread, b \in Block : ~PreciousBlock(t, b))
          => \A b \in setBlockIndexCandidates : nSequenceId'[b] = nSequenceId[b]]_vars

(* A warning on show is still deserved: a remembered fork is near, or an       *)
(* invalid chain is far ahead of the active one.  CheckForkWarningConditions   *)
(* takes back what a later tip refutes.                                        *)
WarningsNotStale ==
    Quiescent /\ (warn.fLargeWorkForkFound \/ warn.fLargeWorkInvalidChainFound)
        => MustWarn(warn.pindexBestForkTip, tip, pindexBestInvalid)

(* "we should warn the user about [...] a fork of at least 7 blocks with a tip *)
(* within 72 blocks": the invalid chain with the most work, if it is that      *)
(* long, is remembered as a fork.                                              *)
LargeForkRemembered ==
    LET fork == FindFork(tip, pindexBestInvalid)
    IN  /\ Quiescent /\ ~fInitialDownload /\ pindexBestInvalid # NULL
        /\ nChainWork[pindexBestInvalid] - nChainWork[fork] > GetBlockProof(fork) * ForkMinLength
        /\ nHeight[tip] - nHeight[pindexBestInvalid] < ForkMaxDepth
        => warn.pindexBestForkTip # NULL

(* "Block files containing a block-height within MIN_BLOCKS_TO_KEEP of         *)
(* chainActive.Tip() will not be pruned": any reorganisation less deep than    *)
(* that, counted from the highest block that was ever connected (its scripts   *)
(* are verified), finds the blocks and the undo data it has to disconnect.     *)
RecentBlocksKept ==
    \A b \in Ancestors[tip] \ {Genesis} :
        (\A c \in mapBlockIndex : validity[c] = BLOCK_VALID_SCRIPTS
                                    => nHeight[b] > nHeight[c] - MIN_BLOCKS_TO_KEEP)
            => b \in haveData \cap haveUndo

(* Every call of ActivateBestChain returns, unless the node stops. *)
ActivationReturns ==
    \A t \in Thread : pc[t] # "idle" ~> (pc[t] = "idle" \/ ~Running)

==============================================================================
