------------------------------- MODULE Mempool -------------------------------
(***************************************************************************)
(* The memory pool (txmempool.cpp) and what validation.cpp does with it:   *)
(* transactions are accepted, replaced, prioritised, evicted, confirmed by *)
(* a block, and come back when a block is disconnected.                    *)
(*                                                                         *)
(* Every entry carries totals over its ancestors and its descendants in    *)
(* the pool, which are kept up to date by additions and subtractions and   *)
(* never computed anew.  Everything here runs with cs_main held, and a     *)
(* reorganisation holds it from its first block to its last.  Scripts and  *)
(* policy are what may refuse a transaction at any time; the time a        *)
(* transaction entered is left open, and with it what expires.             *)
(***************************************************************************)
EXTENDS BlockTree, Sequences, FiniteSets

LOCAL F == INSTANCE FiniteSetsExt
LOCAL S == INSTANCE SequencesExt

CONSTANTS
  Tx,
  Coinbase,      \* the coinbase transactions among Tx
  vin,           \* vin[t]: the outputs t spends, as pairs of a transaction and a number
  nFee, nTxSize,
  nLockTime,     \* nLockTime[t]: the height after which t is final
  Signals,       \* transactions that may be replaced
  Vtx,           \* Vtx[b]: the transactions of a block, in order
  COINBASE_MATURITY,
  incrementalRelayFee,
  limitAncestorCount, limitAncestorSize, limitDescendantCount, limitDescendantSize,
  sizelimit,     \* of the pool, in units of nTxSize
  Prioritisable, \* bound: transactions the operator prioritises
  Deltas, MaxDelta  \* what "prioritisetransaction" adds, and up to which sum

VARIABLES
  mapTx,         \* the entries: a function whose domain is the pool
  mapNextTx,     \* which transaction of the pool spends an output, or NULL
  mapDeltas,     \* fee deltas, 0 when there is none
  tip,           \* the block whose coins the node has, and chainActive.Tip()
  reorg          \* cs_main is held and a block has been disconnected

vars == <<mapTx, mapNextTx, mapDeltas, tip, reorg>>

Outpoint == UNION {vin[t] : t \in Tx}

\* An entry, with the totals over its ancestors and its descendants, itself included.
Nothing == [count |-> 0, size |-> 0, fees |-> 0]

Plus(a, b) == [count |-> a.count + b.count, size |-> a.size + b.size, fees |-> a.fees + b.fees]

Minus(a, b) == [count |-> a.count - b.count, size |-> a.size - b.size, fees |-> a.fees - b.fees]

\* The pool is passed along as a record while a handler changes it.
Pool == [mapTx |-> mapTx, mapNextTx |-> mapNextTx, mapDeltas |-> mapDeltas]

Becomes(m) == mapTx' = m.mapTx /\ mapNextTx' = m.mapNextTx /\ mapDeltas' = m.mapDeltas

Entries(m) == DOMAIN m.mapTx

GetModifiedFee(m, t) == nFee[t] + m.mapTx[t].feeDelta

Own(m, t) == [count |-> 1, size |-> nTxSize[t], fees |-> GetModifiedFee(m, t)]

Totals(m, ts) == F!FoldSet(LAMBDA t, sum : Plus(Own(m, t), sum), Nothing, ts)

Init ==
  /\ mapTx = [t \in {} |-> NULL]
  /\ mapNextTx = [o \in Outpoint |-> NULL]
  /\ mapDeltas = [t \in Tx |-> 0]
  /\ tip = Genesis
  /\ reorg = FALSE

----------------------------------------------------------------------------
(* The chain, as far as the pool looks at it: the coins of the chain that  *)
(* ends in b.                                                              *)

Confirmed(b) == UNION {S!Range(Vtx[a]) : a \in Ancestors[b]}

IsAvailable(b, o) == o[1] \in Confirmed(b) /\ \A t \in Confirmed(b) : o \notin vin[t]

IsFinalTx(t, height) == nLockTime[t] < height

\* What CheckTxInputs says of the coinbases a transaction spends in the next block.
Mature(b, t) ==
  \A o \in vin[t], a \in Ancestors[b] :
    o[1] \in Coinbase \cap S!Range(Vtx[a]) => nHeight[b] + 1 - nHeight[a] >= COINBASE_MATURITY

----------------------------------------------------------------------------
(* Walking the links of entries. *)

RECURSIVE Reach(_, _)
Reach(next, from) ==
  LET more == from \cup UNION {next[t] : t \in from}
  IN  IF more = from THEN from ELSE Reach(next, more)

GetMemPoolParents(m) == [t \in Entries(m) |-> m.mapTx[t].parents]

GetMemPoolChildren(m) == [t \in Entries(m) |-> m.mapTx[t].children]

\* CalculateMemPoolAncestors without limits, with and without searching for parents.
ParentsOf(m, t) == {o[1] : o \in vin[t]} \cap Entries(m)

SearchAncestors(m, t) == Reach(GetMemPoolParents(m), ParentsOf(m, t))

LinkedAncestors(m, t) == Reach(GetMemPoolParents(m), m.mapTx[t].parents)

CalculateDescendants(m, ts) == Reach(GetMemPoolChildren(m), ts)

----------------------------------------------------------------------------
(* Adding and removing. *)

addUnchecked(m, t, setAncestors) ==
  LET own == [count |-> 1, size |-> nTxSize[t], fees |-> nFee[t] + m.mapDeltas[t]]
      parents == ParentsOf(m, t)
      entry == [feeDelta |-> m.mapDeltas[t], parents |-> parents, children |-> {},
                ancestors |-> Plus(own, Totals(m, setAncestors)), descendants |-> own]
      Updated(u) ==
        [m.mapTx[u] EXCEPT
           !.descendants = IF u \in setAncestors THEN Plus(@, own) ELSE @,
           !.children = IF u \in parents THEN @ \cup {t} ELSE @]
  IN  [m EXCEPT
         !.mapTx = [u \in Entries(m) \cup {t} |-> IF u = t THEN entry ELSE Updated(u)],
         !.mapNextTx = [o \in Outpoint |-> IF o \in vin[t] /\ @[o] = NULL THEN t ELSE @[o]]]

\* UpdateForRemoveFromMempool.  The ancestors are those reachable by links, and the links
\* to the removed entries are severed last.
UpdateForRemoveFromMempool(m, stage, updateDescendants) ==
  [u \in Entries(m) |->
     LET above == {r \in stage \ {u} : u \in CalculateDescendants(m, {r})}
         below == {r \in stage : u \in LinkedAncestors(m, r)}
     IN  [m.mapTx[u] EXCEPT
            !.ancestors = IF updateDescendants THEN Minus(@, Totals(m, above)) ELSE @,
            !.descendants = Minus(@, Totals(m, below)),
            !.children = @ \ stage,
            !.parents = @ \ {r \in stage : u \in m.mapTx[r].children}]]

\* RemoveStaged, with removeUnchecked for every entry.
RemoveStaged(m, stage, updateDescendants) ==
  LET left == UpdateForRemoveFromMempool(m, stage, updateDescendants)
  IN  [m EXCEPT
         !.mapTx = [u \in Entries(m) \ stage |-> left[u]],
         !.mapNextTx = [o \in Outpoint |-> IF \E r \in stage : o \in vin[r] THEN NULL ELSE @[o]]]

\* A variant that looks for the transaction only, not for its children.
OnlyItself(m, t) ==
  RemoveStaged(m, CalculateDescendants(m, {t} \cap Entries(m)), FALSE)

\* removeRecursive; a transaction that is not in the pool may have children in it.
removeRecursive(m, t) ==
  LET children == {m.mapNextTx[o] : o \in {p \in Outpoint : p[1] = t}} \ {NULL}
  IN  RemoveStaged(m, CalculateDescendants(m, IF t \in Entries(m) THEN {t} ELSE children), FALSE)

\* A variant that looks at lock times only.
IgnoresMaturity(m, b) ==
  RemoveStaged(m, CalculateDescendants(m, {t \in Entries(m) : ~IsFinalTx(t, nHeight[b] + 1)}), FALSE)

\* removeForReorg: what is not final, or spends a coinbase that is not mature, goes.
removeForReorg(m, b) ==
  LET txToRemove == {t \in Entries(m) : ~IsFinalTx(t, nHeight[b] + 1) \/ ~Mature(b, t)}
  IN  RemoveStaged(m, CalculateDescendants(m, txToRemove), FALSE)

\* removeConflicts and removeForBlock, one transaction of the block after the other.
ClearPrioritisation(m, t) == [m EXCEPT !.mapDeltas[t] = 0]

removeConflicts(m, t) ==
  F!FoldSet(LAMBDA o, n : LET conflict == n.mapNextTx[o]
                          IN  IF conflict \in {NULL, t} THEN n
                              ELSE removeRecursive(ClearPrioritisation(n, conflict), conflict), m, vin[t])

removeForBlock(m, vtx) ==
  S!FoldLeft(LAMBDA n, t :
               ClearPrioritisation(
                 removeConflicts(RemoveStaged(n, {t} \cap Entries(n), TRUE), t), t), m, vtx)

----------------------------------------------------------------------------
(* Limits. *)

Expire(m, old) == RemoveStaged(m, CalculateDescendants(m, old), FALSE)

\* CompareTxMemPoolEntryByDescendantScore: the fee rate of the entry, or with its
\* descendants if that is more.
Score(m, t) ==
  LET own == Own(m, t)
      all == m.mapTx[t].descendants
  IN  IF all.fees * own.size > own.fees * all.size THEN all ELSE own

Lowest(m) ==
  {t \in Entries(m) : \A u \in Entries(m) :
     Score(m, t).fees * Score(m, u).size <= Score(m, u).fees * Score(m, t).size}

\* TrimToSize: the pools it may lead to; which of two entries with one score goes first
\* is a matter of the time they entered.
RECURSIVE TrimToSize(_)
TrimToSize(m) ==
  IF Totals(m, Entries(m)).size <= sizelimit THEN {m}
  ELSE UNION {TrimToSize(RemoveStaged(m, CalculateDescendants(m, {t}), FALSE)) : t \in Lowest(m)}

\* A variant that does not trim.
OnlyExpires(m) == {Expire(m, old) : old \in SUBSET Entries(m)}

LimitMempoolSize(m) == UNION {TrimToSize(Expire(m, old)) : old \in SUBSET Entries(m)}

----------------------------------------------------------------------------
(* AcceptToMemoryPool.  b is the block the coins are at, height that of    *)
(* chainActive, which is one more while a block is being disconnected.     *)

Conflicts(m, t) == {m.mapNextTx[o] : o \in vin[t]} \ {NULL}

\* A variant that counts direct parents only.
CountsParentsOnly(m, t) ==
  /\ Cardinality(ParentsOf(m, t)) + 1 <= limitAncestorCount
  /\ \A a \in ParentsOf(m, t) : m.mapTx[a].descendants.count + 1 <= limitDescendantCount

WithinLimits(m, t) ==
  LET setAncestors == SearchAncestors(m, t)
  IN  /\ Cardinality(setAncestors) + 1 <= limitAncestorCount
      /\ Totals(m, setAncestors).size + nTxSize[t] <= limitAncestorSize
      /\ \A a \in setAncestors :
           /\ m.mapTx[a].descendants.count + 1 <= limitDescendantCount
           /\ m.mapTx[a].descendants.size + nTxSize[t] <= limitDescendantSize

\* CFeeRate and GetFee: satoshis for a thousand bytes, and back.
CFeeRate(fee, size) == (fee * 1000) \div size

GetFee(nSatoshisPerK, size) ==
  LET fee == (nSatoshisPerK * size) \div 1000
  IN  IF fee = 0 /\ nSatoshisPerK > 0 THEN 1 ELSE fee

\* A variant that forgets the descendants of what is replaced.
PaysForDirect(m, t) ==
  nFee[t] + m.mapDeltas[t] - Totals(m, Conflicts(m, t)).fees >= GetFee(incrementalRelayFee, nTxSize[t])

\* A replacement pays a higher rate than each transaction it conflicts with, more in all
\* than everything it makes leave, and brings no new unconfirmed parents.
PaysForReplaced(m, t) ==
  LET fees == nFee[t] + m.mapDeltas[t]
      conflicts == Conflicts(m, t)
      replaced == Totals(m, CalculateDescendants(m, conflicts)).fees
      parents == {o[1] : o \in UNION {vin[c] : c \in conflicts}}
  IN  /\ \A c \in conflicts : CFeeRate(fees, nTxSize[t]) > CFeeRate(GetModifiedFee(m, c), nTxSize[c])
      /\ \A o \in vin[t] : o[1] \in parents \/ o[1] \notin Entries(m)
      /\ fees >= replaced
      /\ fees - replaced >= GetFee(incrementalRelayFee, nTxSize[t])

\* A variant that takes a coinbase for any other transaction.
AcceptsCoinbase(m, t, b, height) ==
  /\ t \notin Entries(m) /\ t \notin Confirmed(b)
  /\ IsFinalTx(t, height + 1) /\ Mature(b, t)
  /\ Conflicts(m, t) = {}
  /\ \A o \in vin[t] : o[1] \in Entries(m) \/ IsAvailable(b, o)
  /\ WithinLimits(m, t)

Acceptable(m, t, b, height) ==
  /\ t \notin Coinbase /\ t \notin Entries(m) /\ t \notin Confirmed(b)
  /\ IsFinalTx(t, height + 1) /\ Mature(b, t)
  /\ Conflicts(m, t) \subseteq Signals
  /\ \A o \in vin[t] : o[1] \in Entries(m) \/ IsAvailable(b, o)
  /\ WithinLimits(m, t)
  /\ Conflicts(m, t) \cap SearchAncestors(m, t) = {}
  /\ Conflicts(m, t) # {} => PaysForReplaced(m, t)

\* The ancestors are computed before the conflicts are removed.
Accepted(m, t) ==
  addUnchecked(RemoveStaged(m, CalculateDescendants(m, Conflicts(m, t)), FALSE), t,
               SearchAncestors(m, t))

AcceptToMemoryPool(t) ==
  /\ ~reorg
  /\ Acceptable(Pool, t, tip, nHeight[tip])
  /\ \E m \in LimitMempoolSize(Accepted(Pool, t)) : Becomes(m)
  /\ UNCHANGED <<tip, reorg>>

\* "prioritisetransaction"
Prioritised(m, t, nFeeDelta) ==
  LET fees == [Nothing EXCEPT !.fees = nFeeDelta]
      Updated(u) ==
        [m.mapTx[u] EXCEPT
           !.feeDelta = IF u = t THEN m.mapDeltas[t] + nFeeDelta ELSE @,
           !.descendants = IF u = t \/ u \in LinkedAncestors(m, t) THEN Plus(@, fees) ELSE @,
           !.ancestors = IF u \in CalculateDescendants(m, {t}) THEN Plus(@, fees) ELSE @]
  IN  [m EXCEPT !.mapDeltas[t] = @ + nFeeDelta,
                !.mapTx = [u \in Entries(m) |-> IF t \in Entries(m) THEN Updated(u) ELSE @[u]]]

PrioritiseTransaction(t, nFeeDelta) ==
  /\ ~reorg
  /\ mapDeltas[t] + nFeeDelta \in 0..MaxDelta
  /\ Becomes(Prioritised(Pool, t, nFeeDelta))
  /\ UNCHANGED <<tip, reorg>>

----------------------------------------------------------------------------
(* Blocks. *)

\* ConnectTip, for a block that is valid on this chain.
ConnectTip(b) ==
  /\ pprev[b] = tip
  /\ Becomes(removeForBlock(Pool, Vtx[b]))
  /\ tip' = b
  /\ UNCHANGED reorg

\* A variant that counts again what came with the block.
CountsAll(m, cache, t, setExclude) ==
  CalculateDescendants(m, m.mapTx[t].children)

\* UpdateForDescendants: cache holds the descendants of entries dealt with already, which
\* are not walked again; what came with the block is accounted for in its ancestors.
SetAllDescendants(m, cache, t, setExclude) ==
  LET children == GetMemPoolChildren(m)
      walked == Reach([u \in Entries(m) |-> children[u] \ DOMAIN cache], children[t])
      met == UNION {children[u] : u \in walked} \cap DOMAIN cache
  IN  (walked \cup UNION {cache[u] : u \in met}) \ setExclude

UpdateForDescendants(m, cache, t, setExclude) ==
  LET new == SetAllDescendants(m, cache, t, setExclude)
      Updated(u) ==
        [m.mapTx[u] EXCEPT
           !.ancestors = IF u \in new THEN Plus(@, Own(m, t)) ELSE @,
           !.descendants = IF u = t THEN Plus(@, Totals(m, new)) ELSE @]
  IN  [pool |-> [m EXCEPT !.mapTx = [u \in Entries(m) |-> Updated(u)]],
       cache |-> IF new = {} THEN cache
                 ELSE [u \in DOMAIN cache \cup {t} |-> IF u = t THEN new ELSE cache[u]]]

\* A variant that leaves the children in the pool without their parent.
LeavesUnlinked(m, t, setAlreadyIncluded) == m

\* UpdateTransactionsFromBlock: from the last transaction to the first, the children that
\* are in the pool and did not come with the block are linked, then the totals updated.
LinkChildren(m, t, setAlreadyIncluded) ==
  LET new == ({m.mapNextTx[o] : o \in {p \in Outpoint : p[1] = t}} \ {NULL}) \ setAlreadyIncluded
  IN  [m EXCEPT !.mapTx =
         [u \in Entries(m) |->
            [@[u] EXCEPT !.children = IF u = t THEN @ \cup new ELSE @,
                         !.parents = IF u \in new THEN @ \cup {t} ELSE @]]]

UpdateTransactionsFromBlock(m, vHashesToUpdate) ==
  LET all == S!Range(vHashesToUpdate)
      Update(x, t) == IF t \notin Entries(x.pool) THEN x
                      ELSE UpdateForDescendants(LinkChildren(x.pool, t, all), x.cache, t, all)
      none == [pool |-> m, cache |-> [t \in {} |-> {}]]
  IN  S!FoldLeft(Update, none, S!Reverse(vHashesToUpdate)).pool

\* DisconnectTip: the transactions of the block come back as far as they are accepted; the
\* coins are those of the block below already, chainActive is not.
DisconnectTip(refused) ==
  LET below == pprev[tip]
      Back(x, t) ==
        IF t \in refused \/ ~Acceptable(x.pool, t, below, nHeight[tip])
        THEN [x EXCEPT !.pool = removeRecursive(x.pool, t)]
        ELSE [pool |-> Accepted(x.pool, t), vHashUpdate |-> Append(x.vHashUpdate, t)]
      end == S!FoldLeft(Back, [pool |-> Pool, vHashUpdate |-> <<>>], Vtx[tip])
  IN  /\ tip # Genesis
      /\ Becomes(UpdateTransactionsFromBlock(end.pool, end.vHashUpdate))
      /\ tip' = below
      /\ reorg' = TRUE

\* The end of ActivateBestChainStep, and of InvalidateBlock.
FinishStep ==
  /\ reorg /\ reorg' = FALSE
  /\ \E m \in LimitMempoolSize(removeForReorg(Pool, tip)) : Becomes(m)
  /\ UNCHANGED tip

FinishInvalidate ==
  /\ reorg /\ reorg' = FALSE
  /\ \E m \in LimitMempoolSize(Pool) : Becomes(removeForReorg(m, tip))
  /\ UNCHANGED tip

Next ==
  \/ \E t \in Tx : AcceptToMemoryPool(t)
  \/ \E t \in Prioritisable, d \in Deltas : PrioritiseTransaction(t, d)
  \/ \E b \in Block : ConnectTip(b)
  \/ \E refused \in SUBSET S!Range(Vtx[tip]) : DisconnectTip(refused)
  \/ FinishStep
  \/ FinishInvalidate

Spec == Init /\ [][Next]_vars

----------------------------------------------------------------------------
(* Properties. *)

\* The type of the state.
TypeOK ==
  /\ DOMAIN mapTx \subseteq Tx \ Coinbase
  /\ mapNextTx \in [Outpoint -> Tx \cup {NULL}]
  /\ mapDeltas \in [Tx -> Int]
  /\ tip \in Block /\ reorg \in BOOLEAN
  /\ \A t \in DOMAIN mapTx :
       /\ mapTx[t].parents \cup mapTx[t].children \subseteq DOMAIN mapTx
       /\ mapTx[t].ancestors.count > 0 /\ mapTx[t].descendants.count > 0

\* Spends(t): the entries t spends an output of.
Spends == [t \in DOMAIN mapTx |-> {u \in DOMAIN mapTx : \E o \in vin[t] : o[1] = u}]

SpentBy == [t \in DOMAIN mapTx |-> {u \in DOMAIN mapTx : t \in Spends[u]}]

\* The links between entries, and mapNextTx, are what the inputs of the entries say, also
\* after a block has put parents back under their children: the first half of
\* CTxMemPool::check.
LinksExact ==
  /\ \A t \in DOMAIN mapTx : mapTx[t].parents = Spends[t] /\ mapTx[t].children = SpentBy[t]
  /\ \A o \in Outpoint : mapNextTx[o] # NULL <=> \E t \in DOMAIN mapTx : o \in vin[t]
  /\ \A o \in Outpoint, t \in DOMAIN mapTx : o \in vin[t] => mapNextTx[o] = t

\* The totals of every entry are the sums over its ancestors and descendants, however it
\* came to have them: the second half of CTxMemPool::check, and the totals over
\* descendants, of which check only compares the size with that of the children.
TotalsExact ==
  \A t \in DOMAIN mapTx :
    /\ mapTx[t].feeDelta = mapDeltas[t]
    /\ mapTx[t].ancestors = Totals(Pool, Reach(Spends, {t}))
    /\ mapTx[t].descendants = Totals(Pool, Reach(SpentBy, {t}))

\* Whatever came, went and came back, the pool is what CTxMemPool::check asks for.
PoolConsistent == LinksExact /\ TotalsExact

\* Every input of an entry is an output of an entry, or an unspent coin of the chain, even
\* in the middle of a reorganisation: removeForReorg reads the height of those coins
\* before it looks whether there are any.
InputsAvailable ==
  \A t \in DOMAIN mapTx : \A o \in vin[t] : o[1] \in DOMAIN mapTx \/ IsAvailable(tip, o)

\* Between reorganisations every entry could be in the next block, after its ancestors.
Minable ==
  ~reorg => \A t \in DOMAIN mapTx : IsFinalTx(t, nHeight[tip] + 1) /\ Mature(tip, t)

\* Between reorganisations the pool is within its limit.
PoolBounded == ~reorg => Totals(Pool, DOMAIN mapTx).size <= sizelimit

\* What a reorganisation lets in without looking is put right by its end: removeForReorg
\* and LimitMempoolSize leave only what can be mined and what there is room for.
ReorgSettled == Minable /\ PoolBounded

\* A new transaction never takes the ancestors or the descendants of an entry over the
\* limits, in number or in size; only a reorganisation may, when it puts parents under
\* what is in the pool.
LimitsKept ==
  [][\A t \in DOMAIN mapTx' \ DOMAIN mapTx, u \in DOMAIN mapTx' :
       LET Over(sum, count, size) == sum.count > count \/ sum.size > size
           Above(e) == Over(e.ancestors, limitAncestorCount, limitAncestorSize)
           Below(e) == Over(e.descendants, limitDescendantCount, limitDescendantSize)
       IN  ~reorg /\ ~reorg' =>
             /\ Above(mapTx'[u]) => u \in DOMAIN mapTx /\ mapTx'[u].ancestors = mapTx[u].ancestors
             /\ Below(mapTx'[u]) => u \in DOMAIN mapTx /\ Below(mapTx[u])
                                    /\ mapTx'[u].descendants.count <= mapTx[u].descendants.count]_vars

\* A transaction that makes others leave by conflicting with them leaves the pool with
\* more fees than it had.
ReplacementPays ==
  [][\A t \in DOMAIN mapTx' \ DOMAIN mapTx :
       /\ ~reorg /\ ~reorg'
       /\ DOMAIN mapTx \ DOMAIN mapTx' \subseteq Reach(SpentBy, Conflicts(Pool, t))
       => Totals(Pool', DOMAIN mapTx').fees > Totals(Pool, DOMAIN mapTx).fees]_vars
=============================================================================
