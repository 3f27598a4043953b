-------------------------------- MODULE Utxo --------------------------------
(***************************************************************************)
(* The set of unspent outputs as blocks are connected, disconnected,       *)
(* tested, flushed and lost in a crash (ConnectBlock, DisconnectBlock,     *)
(* ConnectTip, DisconnectTip, FlushStateToDisk).  Every step is an         *)
(* operation of the layers of CoinsCache together with what the caller     *)
(* does around it.  Which block is connected next is ChainState's matter:  *)
(* here it is any child of the tip that is not known to be invalid.        *)
(***************************************************************************)
EXTENDS CoinsCache, Naturals, Sequences

CONSTANTS
  Genesis,
  pprev, nHeight,   \* of every block
  vtx,              \* the transactions of a block, the coinbase first
  vin,              \* the outputs <<txid, n>> a transaction spends, none for a coinbase
  vout,             \* the outputs of a transaction that can be spent
  fEnforceBIP30,    \* BIP34 is started or active at the blocks considered
  BadScripts,       \* blocks that fail a check on amounts, locks or scripts
  Watched           \* the transactions the memory pool looks up

ASSUME BlocksAssumption ==
  /\ Genesis \in BlockHash
  /\ pprev \in [BlockHash \ {Genesis} -> BlockHash]
  /\ nHeight \in [BlockHash -> Nat]
  /\ \A b \in BlockHash \ {Genesis} : nHeight[b] = nHeight[pprev[b]] + 1

\* CheckBlock lets only the first transaction be a coinbase, and CheckTransaction no
\* transaction spend an output twice.
ASSUME TransactionsAssumption ==
  /\ vtx \in [BlockHash -> Seq(Txid)]
  /\ vin \in [Txid -> Seq(Txid \X Nat)]
  /\ vout \in [Txid -> SUBSET Nat]
  /\ \A b \in BlockHash : \A i \in DOMAIN vtx[b] : i > 1 => vin[vtx[b][i]] # <<>>
  /\ \A x \in Txid : \A j, k \in DOMAIN vin[x] : vin[x][j] = vin[x][k] => j = k
  /\ Watched \subseteq Txid

VARIABLES
  chainTip,   \* chainActive.Tip()
  failed,     \* blocks InvalidBlockFound has marked
  undo,       \* the undo data of the blocks whose index entry has an nUndoPos
  dirty,      \* setDirtyBlockIndex: entries changed since they were received and saved
  saved,      \* the block index on disk: undo and failed
  job,        \* what ConnectTip, DisconnectTip or TestBlockValidity is doing
  flushing,   \* FlushStateToDisk has written the block index and not yet the coins
  status      \* "running", "stopping" after AbortNode, "aborted" by an assertion

nodeVars == <<chainTip, failed, undo, dirty, saved, job, flushing, status>>

vars == <<coinVars, nodeVars>>

Txout(x) == {<<x, n>> : n \in vout[x]}

IsCoinBase(x) == vin[x] = <<>>

\* The coins a transaction of a block can have.
ASSUME CoinsAssumption ==
  \A x \in Txid, b \in BlockHash \ {Genesis} : \A outs \in (SUBSET Txout(x)) \ {{}} :
    LET c == [nHeight |-> nHeight[b], fCoinBase |-> IsCoinBase(x), vout |-> outs]
    IN  c \in Coins /\ c # Pruned

\* FromTx; an empty vout is Pruned.
CoinsWith(height, coinbase, outs) ==
  IF outs = {} THEN Pruned
  ELSE [nHeight |-> height, fCoinBase |-> coinbase, vout |-> outs]

FromTx(x, height) == CoinsWith(height, IsCoinBase(x), Txout(x))

IsAvailable(c, out) == c # Pruned /\ out \in c.vout

Spent(c, out) == CoinsWith(c.nHeight, c.fCoinBase, c.vout \ {out})

\* A variant that always records the height and the kind.
AlwaysWithHeight(c, out) == [txout |-> out, nHeight |-> c.nHeight, fCoinBase |-> c.fCoinBase]

\* CTxInUndo: the height and the kind go with the last output only.
UndoOf(c, out) ==
  IF c.vout = {out} THEN [txout |-> out, nHeight |-> c.nHeight, fCoinBase |-> c.fCoinBase]
  ELSE [txout |-> out, nHeight |-> 0, fCoinBase |-> FALSE]

----------------------------------------------------------------------------
(* Where the loops of ConnectBlock and DisconnectBlock are. *)

NoJob == [kind |-> "none"]

\* In both, the first "done" transactions are applied and the first "spent" inputs of
\* the next one are spent.  ConnectBlock has also tested the first "unique" transactions
\* against BIP30, and the first "have" inputs of the next one for availability.
Start(kind, b, unique, done, blockundo) ==
  [kind |-> kind, block |-> b, unique |-> unique, have |-> 0, done |-> done, spent |-> 0,
   txundo |-> <<>>, blockundo |-> blockundo, ok |-> TRUE]

Txs(b) == Len(vtx[b])

Working(kinds) == job.kind \in kinds /\ job.ok

ThisTx == vtx[job.block][job.done + 1]

Inputs == Len(vin[ThisTx])

Connecting == {"connect", "test"}

AtNew == Working(Connecting) /\ job.unique < Txs(job.block)

AtTx == Working(Connecting) /\ job.unique = Txs(job.block) /\ job.done < Txs(job.block)

AtHave == AtTx /\ job.have < Inputs

AtSpend == AtTx /\ job.have = Inputs /\ job.spent < Inputs

AtCreate == AtTx /\ job.have = Inputs /\ job.spent = Inputs

AtEnd(kinds) ==
  Working(kinds) /\ job.unique = Txs(job.block) /\ job.done = Txs(job.block)

AtRemove == Working({"disconnect"}) /\ job.spent = 0 /\ job.done > 0

AtRestore == Working({"disconnect"}) /\ job.spent > 0

AtStart == Working({"disconnect"}) /\ job.spent = 0 /\ job.done = 0

StepTo(next) ==
  /\ job' = next
  /\ UNCHANGED <<chainTip, failed, undo, dirty, saved, flushing, status>>

Idle == job.kind = "none" /\ ~flushing /\ status # "aborted"

----------------------------------------------------------------------------
(* ConnectBlock. *)

\* ConnectTip (or TestBlockValidity), up to the assertion on the view's best block.
\* BIP30 is tested in a loop of its own.
ConnectBlock(b, kind) ==
  /\ Idle /\ pprev[b] = chainTip
  /\ kind = "connect" => b \notin failed
  /\ GetBestBlock
  /\ IF ViewBlock = chainTip
     THEN /\ job' = Start(kind, b, IF fEnforceBIP30 THEN 0 ELSE Txs(b), 0, <<>>)
          /\ status' = status
     ELSE job' = NoJob /\ status' = "aborted"
  /\ UNCHANGED <<chainTip, failed, undo, dirty, saved, flushing>>

\* A variant that does not check.
WithoutBIP30 ==
  /\ AtNew
  /\ AccessView(vtx[job.block][job.unique + 1])
  /\ StepTo([job EXCEPT !.unique = @ + 1])

\* BIP30: no transaction of the block may still have unspent outputs.
CheckNew ==
  /\ AtNew
  /\ LET x == vtx[job.block][job.unique + 1]
     IN  /\ AccessView(x)
         /\ StepTo([job EXCEPT !.unique = @ + 1, !.ok = ViewCoins[x] = Pruned])

HaveInputs ==
  /\ AtHave
  /\ LET out == vin[ThisTx][job.have + 1]
     IN  /\ AccessView(out[1])
         /\ StepTo([job EXCEPT !.have = @ + 1, !.ok = IsAvailable(ViewCoins[out[1]], out)])

\* UpdateCoins: mark an outpoint spent, and construct undo information.
Spend ==
  /\ AtSpend
  /\ LET out == vin[ThisTx][job.spent + 1]
         c == ViewCoins[out[1]]
     IN  /\ IsAvailable(c, out)
         /\ ModifyCoins(out[1], Spent(c, out))
         /\ StepTo([job EXCEPT !.spent = @ + 1, !.txundo = Append(@, UndoOf(c, out))])

AddOutputs ==
  /\ AtCreate
  /\ ModifyNewCoins(ThisTx, FromTx(ThisTx, nHeight[job.block]), IsCoinBase(ThisTx))
  /\ StepTo([job EXCEPT !.done = @ + 1, !.have = 0, !.spent = 0,
                        !.blockundo = Append(@, job.txundo), !.txundo = <<>>])

\* A variant that does not put the entry into setDirtyBlockIndex.
LeavesEntryClean ==
  /\ AtEnd({"connect"}) /\ job.block \notin BadScripts
  /\ undo' = [b \in DOMAIN undo \cup {job.block} |->
                IF b \in DOMAIN undo THEN undo[b] ELSE job.blockundo]
  /\ SetBestBlock(job.block)
  /\ job' = [job EXCEPT !.kind = "connected"]
  /\ UNCHANGED <<chainTip, failed, dirty, saved, flushing, status>>

\* All transactions are done: the remaining checks, the undo data, the best block.
\* Undo data that is there already is not written again.
FinishConnect ==
  /\ AtEnd({"connect"}) /\ job.block \notin BadScripts
  /\ undo' = [b \in DOMAIN undo \cup {job.block} |->
                IF b \in DOMAIN undo THEN undo[b] ELSE job.blockundo]
  /\ dirty' = IF job.block \in DOMAIN undo THEN dirty ELSE dirty \cup {job.block}
  /\ SetBestBlock(job.block)
  /\ job' = [job EXCEPT !.kind = "connected"]
  /\ UNCHANGED <<chainTip, failed, saved, flushing, status>>

\* The block is invalid: the view is dropped, and the block marked unless it was only
\* tested.  A block that cannot be disconnected is not marked either.
Reject ==
  /\ \/ job.kind \in Connecting \cup {"disconnect"} /\ ~job.ok
     \/ AtEnd(Connecting) /\ job.block \in BadScripts
  /\ DropView
  /\ IF job.kind = "connect"
     THEN failed' = failed \cup {job.block} /\ dirty' = dirty \cup {job.block}
     ELSE UNCHANGED <<failed, dirty>>
  /\ job' = NoJob
  /\ UNCHANGED <<chainTip, undo, saved, flushing, status>>

JustChecked ==
  /\ AtEnd({"test"}) /\ job.block \notin BadScripts
  /\ DropView
  /\ StepTo(NoJob)

----------------------------------------------------------------------------
(* DisconnectBlock. *)

DisconnectBlock ==
  /\ Idle /\ chainTip # Genesis
  /\ GetBestBlock
  /\ IF ViewBlock = chainTip
     THEN /\ chainTip \in DOMAIN undo
          /\ job' = Start("disconnect", chainTip, 0, Txs(chainTip), undo[chainTip])
          /\ status' = status
     ELSE job' = NoJob /\ status' = "aborted"
  /\ UNCHANGED <<chainTip, failed, undo, dirty, saved, flushing>>

\* The outputs must be exactly those of the block; they go, and the inputs come next.
RemoveOutputs ==
  /\ AtRemove
  /\ LET x == vtx[job.block][job.done]
     IN  /\ ModifyCoins(x, Pruned)
         /\ StepTo([job EXCEPT !.done = @ - 1, !.spent = Len(vin[x]),
                               !.ok = ViewCoins[x] = FromTx(x, nHeight[job.block])])

\* A variant that forgets the other outputs.
ForgetsSiblings(c, u) ==
  CoinsWith(IF c = Pruned THEN u.nHeight ELSE c.nHeight,
            IF c = Pruned THEN u.fCoinBase ELSE c.fCoinBase, {u.txout})

\* ApplyTxInUndo, the last input first.
Restored(c, u) ==
  IF u.nHeight # 0 THEN CoinsWith(u.nHeight, u.fCoinBase, {u.txout})
  ELSE CoinsWith(IF c = Pruned THEN 0 ELSE c.nHeight, c # Pruned /\ c.fCoinBase,
                 {u.txout} \cup IF c = Pruned THEN {} ELSE c.vout)

Clean(c, u, out) == (u.nHeight # 0 <=> c = Pruned) /\ ~IsAvailable(c, out)

ApplyTxInUndo ==
  /\ AtRestore
  /\ LET out == vin[ThisTx][job.spent]
         c == ViewCoins[out[1]]
         u == job.blockundo[job.done + 1][job.spent]
     IN  /\ ModifyCoins(out[1], Restored(c, u))
         /\ StepTo([job EXCEPT !.spent = @ - 1, !.ok = Clean(c, u, out)])

FinishDisconnect ==
  /\ AtStart
  /\ SetBestBlock(pprev[job.block])
  /\ StepTo([job EXCEPT !.kind = "disconnected"])

----------------------------------------------------------------------------
(* ConnectTip and DisconnectTip, after the block. *)

\* view.Flush(), then FlushStateToDisk may come, then UpdateTip.
ApplyView ==
  /\ job.kind \in {"connected", "disconnected"}
  /\ FlushView
  /\ StepTo([job EXCEPT !.kind = "applied",
                        !.block = IF job.kind = "connected" THEN @ ELSE pprev[@]])

UpdateTip ==
  /\ job.kind = "applied" /\ ~flushing
  /\ chainTip' = job.block /\ job' = NoJob
  /\ UNCHANGED <<failed, undo, dirty, saved, flushing, status, coinVars>>

MayFlush == (Idle \/ job.kind = "applied") /\ ~flushing

\* FlushStateToDisk writes the entries in setDirtyBlockIndex, which it empties, and the
\* coins too unless it is a periodic write.
WriteBlockIndex ==
  /\ MayFlush
  /\ saved' = [undo |-> [b \in DOMAIN saved.undo \cup (DOMAIN undo \cap dirty) |->
                           IF b \in dirty THEN undo[b] ELSE saved.undo[b]],
               failed |-> (saved.failed \ dirty) \cup (failed \cap dirty)]
  /\ dirty' = {}
  /\ flushing' \in BOOLEAN
  /\ UNCHANGED <<chainTip, failed, undo, job, status, coinVars>>

FlushCoins ==
  /\ flushing /\ FlushTip
  /\ flushing' = FALSE
  /\ UNCHANGED <<chainTip, failed, undo, dirty, saved, job, status>>

\* Without disk space for the block index, or for the coins, FlushStateToDisk asks for a
\* shutdown and its caller returns before UpdateTip.
FlushFails ==
  /\ MayFlush \/ flushing
  /\ flushing' = FALSE /\ job' = NoJob /\ status' = "stopping"
  /\ UNCHANGED <<chainTip, failed, undo, dirty, saved, coinVars>>

\* The same when the batch of entries cannot be written: by then setDirtyBlockIndex is
\* empty, and nothing writes them later.  Not a step of Next.
WriteBlockIndexFails ==
  /\ MayFlush
  /\ dirty' = {}
  /\ job' = NoJob /\ status' = "stopping"
  /\ UNCHANGED <<chainTip, failed, undo, saved, flushing, coinVars>>

\* The same when the batch of coins cannot be written: by then BatchWrite has erased
\* every entry of pcoinsTip.  Not a step of Next either.
FlushCoinsFails ==
  /\ flushing
  /\ tip' = Empty
  /\ flushing' = FALSE /\ job' = NoJob /\ status' = "stopping"
  /\ UNCHANGED <<chainTip, failed, undo, dirty, saved, db, dbBest, tipBest, view, viewBest>>

----------------------------------------------------------------------------
(* Everything else. *)

\* The memory pool looks an output up, and gives up a transaction it had cached.
LookUp(x) == Idle /\ AccessTip(x) /\ UNCHANGED nodeVars

GiveUp(x) == Idle /\ Uncache(x) /\ UNCHANGED nodeVars

\* A crash or a stop at any point, and the next start (LoadBlockIndexDB).
CrashAndLoad ==
  /\ Restart
  /\ chainTip' = dbBest /\ undo' = saved.undo /\ failed' = saved.failed
  /\ dirty' = {} /\ job' = NoJob /\ flushing' = FALSE /\ status' = "running"
  /\ UNCHANGED saved

Init ==
  /\ db = [x \in Txid |-> Pruned] /\ dbBest = Genesis
  /\ tip = Empty /\ tipBest = NULL /\ view = Empty /\ viewBest = NULL
  /\ chainTip = Genesis /\ failed = {}
  /\ undo = <<>> /\ dirty = {} /\ saved = [undo |-> undo, failed |-> failed]
  /\ job = NoJob /\ flushing = FALSE /\ status = "running"

Next ==
  \/ \E b \in BlockHash \ {Genesis}, kind \in {"connect", "test"} : ConnectBlock(b, kind)
  \/ CheckNew \/ HaveInputs \/ Spend \/ AddOutputs
  \/ FinishConnect \/ Reject \/ JustChecked
  \/ DisconnectBlock \/ RemoveOutputs \/ ApplyTxInUndo \/ FinishDisconnect
  \/ ApplyView \/ UpdateTip
  \/ WriteBlockIndex \/ FlushCoins \/ FlushFails
  \/ \E x \in Watched : LookUp(x) \/ GiveUp(x)
  \/ CrashAndLoad

\* Every write to the two databases succeeds, or is not begun for want of disk space, or
\* is cut off by a crash.
Spec == Init /\ [][Next]_vars

----------------------------------------------------------------------------
(* What the unspent outputs are, from the blocks of a chain alone. *)

\* The chain of a block without the genesis block, which makes no coins: what every set
\* with the block that is closed under pprev contains.
ClosedDown(S) == \A b \in S \ {Genesis} : pprev[b] \in S

Chain ==
  [b \in BlockHash |->
    {a \in BlockHash \ {Genesis} :
       \A S \in SUBSET BlockHash : b \in S /\ ClosedDown(S) => a \in S}]

Creates(b, x) == \E i \in DOMAIN vtx[b] : vtx[b][i] = x

SpendsIn(b, i, out) == \E j \in DOMAIN vin[vtx[b][i]] : vin[vtx[b][i]][j] = out

LatestMaker(b, x) ==
  {a \in Chain[b] : Creates(a, x) /\ \A d \in Chain[b] : Creates(d, x) => nHeight[d] <= nHeight[a]}

SpentSince(b, a, out) ==
  \E d \in Chain[b] : nHeight[d] >= nHeight[a] /\ \E i \in DOMAIN vtx[d] : SpendsIn(d, i, out)

\* The coins of x after block b: the outputs of its latest appearance in the chain of
\* b that no transaction has spent since.
Unspent ==
  [b \in BlockHash |-> [x \in Txid |->
    IF LatestMaker(b, x) = {} THEN Pruned
    ELSE LET a == CHOOSE a \in LatestMaker(b, x) : TRUE
         IN  CoinsWith(nHeight[a], IsCoinBase(x), {out \in Txout(x) : ~SpentSince(b, a, out)})]]

\* The rules of ConnectBlock, on the whole block at once: a transaction is new, an output
\* that is spent was there before the block or is made earlier in it, and is spent once.
IsNew(b, i) == Unspent[pprev[b]][vtx[b][i]] = Pruned

InputValid(b, i, j) ==
  LET out == vin[vtx[b][i]][j]
  IN  /\ \/ IsAvailable(Unspent[pprev[b]][out[1]], out)
         \/ \E k \in 1..(i - 1) : vtx[b][k] = out[1] /\ out \in Txout(out[1])
      /\ \A k \in 1..(i - 1) : ~SpendsIn(b, k, out)

IsValidBlock(b) ==
  /\ b \notin BadScripts
  /\ \A i \in DOMAIN vtx[b] : IsNew(b, i)
  /\ \A i \in DOMAIN vtx[b] : \A j \in DOMAIN vin[vtx[b][i]] : InputValid(b, i, j)

ValidBlock == {b \in BlockHash \ {Genesis} : IsValidBlock(b)}

----------------------------------------------------------------------------
(* Properties. *)

\* The coin database holds exactly the unspent outputs of the block it names as its best
\* ("the block hash whose state this CCoinsView currently represents",
\* CCoinsView::GetBestBlock), with the height and the kind of the transaction that made
\* them.
DatabaseExact == db = Unspent[dbBest]

\* While nothing has failed, chainActive and pcoinsTip agree between two blocks.
TipsAgree == job.kind = "none" /\ status = "running" => chainTip = TipBlock

\* The database and pcoinsTip hold exactly the outputs that are unspent after their best
\* blocks, whatever was connected and disconnected before, and between two blocks pcoinsTip
\* stands for the tip of chainActive unless a flush has failed.
UtxoExact == DatabaseExact /\ TipsAgree /\ (job.kind = "none" => TipCoins = Unspent[TipBlock])

\* DisconnectBlock finds undo data for every block of the chain, after a crash too, so
\* the tip can always be disconnected.
UndoComplete ==
  /\ Chain[dbBest] \subseteq DOMAIN saved.undo
  /\ Chain[TipBlock] \subseteq DOMAIN undo

\* DisconnectBlock never reports "database corrupted": what it removes is what the block
\* created, and what it restores is missing.
DisconnectClean == job.kind = "disconnect" => job.ok

\* UpdateCoins only spends what is there (its assert(false) is not reached), and a
\* transaction that is not a coinbase has no coins when ModifyNewCoins adds them.
UpdateCoinsSafe ==
  /\ AtSpend => LET out == vin[ThisTx][job.spent + 1] IN IsAvailable(ViewCoins[out[1]], out)
  /\ AtCreate /\ ~IsCoinBase(ThisTx) => ViewCoins[ThisTx] = Pruned

\* Neither ConnectBlock nor DisconnectBlock meets coins it does not expect.
CoinsAsExpected == DisconnectClean /\ UpdateCoinsSafe

\* ConnectBlock, which works on the view step by step, marks exactly the blocks that break
\* a rule, and no such block is in the chain.
VerdictExact == failed \cap ValidBlock = {} /\ Chain[TipBlock] \subseteq ValidBlock

\* The assertion of ConnectBlock and DisconnectBlock on the view's best block holds:
\* "verify that the view's current state corresponds to the previous block".
ViewAtParent == status # "aborted"
=============================================================================
