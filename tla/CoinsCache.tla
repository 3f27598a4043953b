----------------------------- MODULE CoinsCache -----------------------------
(***************************************************************************)
(* The layers of coins (coins.cpp): the database, pcoinsTip on top of it,  *)
(* and the view ConnectBlock and DisconnectBlock work in on top of that.   *)
(* A cache holds some entries; an entry that is DIRTY may differ from the  *)
(* layer below, and below one that is FRESH there is nothing unspent.      *)
(*                                                                         *)
(* The coins of a transaction without unspent outputs are all equal        *)
(* (CCoins::operator==) and are the value Pruned.                          *)
(***************************************************************************)
CONSTANTS
  Txid,       \* transaction ids
  Coins,      \* the values of CCoins
  Pruned,     \* the coins of a transaction without unspent outputs
  BlockHash,
  NULL        \* the null hash of a cache that has not looked below, and no entry

ASSUME PrunedAssumption == Pruned \in Coins
ASSUME NullAssumption == NULL \notin BlockHash

VARIABLES
  db, dbBest,      \* CCoinsViewDB: the coins of every transaction, the best block
  tip, tipBest,    \* pcoinsTip: cacheCoins, hashBlock
  view, viewBest   \* the view of the block that is being worked on

coinVars == <<db, dbBest, tip, tipBest, view, viewBest>>

NoEntry == [coins |-> Pruned, DIRTY |-> FALSE, FRESH |-> FALSE, cached |-> FALSE]

Entry(coins, dirty, fresh) ==
  [coins |-> coins, DIRTY |-> dirty, FRESH |-> fresh, cached |-> TRUE]

Empty == [x \in Txid |-> NoEntry]

\* What GetCoins finds through a cache.
Through(cache, below) ==
  [x \in Txid |-> IF cache[x].cached THEN cache[x].coins ELSE below[x]]

TipCoins == Through(tip, db)

ViewCoins == Through(view, TipCoins)

\* GetBestBlock: a null hash means the one below.
TipBlock == IF tipBest = NULL THEN dbBest ELSE tipBest

ViewBlock == IF viewBest = NULL THEN TipBlock ELSE viewBest

CoinsInit ==
  /\ db \in [Txid -> Coins] /\ dbBest \in BlockHash
  /\ tip = Empty /\ tipBest = NULL
  /\ view = Empty /\ viewBest = NULL

----------------------------------------------------------------------------
(* Reading. *)

\* FetchCoins of pcoinsTip: the database has no entry for pruned coins.
Fetched(x) ==
  IF ~tip[x].cached /\ db[x] # Pruned
  THEN [tip EXCEPT ![x] = Entry(db[x], FALSE, FALSE)]
  ELSE tip

\* FetchCoins of the view: an entry of pcoinsTip without unspent outputs is FRESH.
FetchedInView(x) ==
  IF ~view[x].cached /\ (tip[x].cached \/ db[x] # Pruned)
  THEN [view EXCEPT ![x] = Entry(TipCoins[x], FALSE, TipCoins[x] = Pruned)]
  ELSE view

\* A lookup in the view asks pcoinsTip only for what the view does not hold.
AccessView(x) ==
  /\ view' = FetchedInView(x)
  /\ tip' = IF view[x].cached THEN tip ELSE Fetched(x)
  /\ UNCHANGED <<db, dbBest, tipBest, viewBest>>

\* The memory pool and the RPCs read pcoinsTip.
AccessTip(x) ==
  /\ tip' = Fetched(x)
  /\ UNCHANGED <<db, dbBest, tipBest, view, viewBest>>

\* Only an entry without flags may go.
MayUncache(e) == e.cached /\ ~e.DIRTY /\ ~e.FRESH

Uncache(x) ==
  /\ MayUncache(tip[x])
  /\ tip' = [tip EXCEPT ![x] = NoEntry]
  /\ UNCHANGED <<db, dbBest, tipBest, view, viewBest>>

----------------------------------------------------------------------------
(* Writing, in the view. *)

\* A variant that marks what it changes as FRESH.
MarksFresh(e, c) ==
  IF e.FRESH /\ c = Pruned THEN NoEntry ELSE Entry(c, TRUE, TRUE)

\* The end of a CCoinsModifier: fresh coins without unspent outputs are erased.
Modified(e, c) ==
  IF e.FRESH /\ c = Pruned THEN NoEntry ELSE Entry(c, TRUE, e.FRESH)

\* The entry ModifyCoins works on: its own, or one made from pcoinsTip.
EntryToModify(x) ==
  IF view[x].cached THEN view[x]
  ELSE Entry(TipCoins[x], FALSE, TipCoins[x] = Pruned)

ModifyCoins(x, c) ==
  /\ view' = [view EXCEPT ![x] = Modified(EntryToModify(x), c)]
  /\ tip' = IF view[x].cached THEN tip ELSE Fetched(x)
  /\ UNCHANGED <<db, dbBest, tipBest, viewBest>>

\* ModifyNewCoins does not look below.  Its caller knows that the coins are new.
FreshWhenNew(x, coinbase) == view[x].FRESH \/ (~coinbase /\ ~view[x].DIRTY)

ModifyNewCoins(x, c, coinbase) ==
  /\ coinbase \/ ViewCoins[x] = Pruned
  /\ view' = [view EXCEPT ![x] =
                Modified(Entry(Pruned, view[x].DIRTY, FreshWhenNew(x, coinbase)), c)]
  /\ UNCHANGED <<db, dbBest, tip, tipBest, viewBest>>

\* GetBestBlock remembers what it finds below.
GetBestBlock ==
  /\ viewBest' = ViewBlock /\ tipBest' = TipBlock
  /\ UNCHANGED <<db, dbBest, tip, view>>

SetBestBlock(b) ==
  /\ viewBest' = b
  /\ UNCHANGED <<db, dbBest, tip, tipBest, view>>

----------------------------------------------------------------------------
(* Moving a whole layer down. *)

\* BatchWrite throws when a FRESH entry comes down on unspent coins.
FreshMisapplied ==
  \E x \in Txid : /\ view[x].DIRTY /\ view[x].FRESH
                  /\ tip[x].cached /\ tip[x].coins # Pruned

\* A variant that passes over coins without unspent outputs.
IgnoresPruned(child, ours) ==
  IF ~child.DIRTY \/ child.coins = Pruned THEN ours
  ELSE IF ~ours.cached THEN Entry(child.coins, TRUE, child.FRESH)
       ELSE Entry(child.coins, TRUE, ours.FRESH)

\* A variant that takes the flag of the child.
CopiesFresh(child, ours) ==
  IF ~child.DIRTY THEN ours
  ELSE IF ~ours.cached
       THEN IF child.FRESH /\ child.coins = Pruned THEN ours
            ELSE Entry(child.coins, TRUE, child.FRESH)
       ELSE IF ours.FRESH /\ child.coins = Pruned THEN NoEntry
            ELSE Entry(child.coins, TRUE, child.FRESH)

\* CCoinsViewCache::BatchWrite, for one entry of the child.
Merged(child, ours) ==
  IF ~child.DIRTY THEN ours
  ELSE IF ~ours.cached
       THEN IF child.FRESH /\ child.coins = Pruned THEN ours
            ELSE Entry(child.coins, TRUE, child.FRESH)
       ELSE IF ours.FRESH /\ child.coins = Pruned THEN NoEntry
            ELSE Entry(child.coins, TRUE, ours.FRESH)

\* Flush of the view, after ConnectBlock or DisconnectBlock has set its best block.
FlushView ==
  /\ viewBest # NULL /\ ~FreshMisapplied
  /\ tip' = [x \in Txid |-> Merged(view[x], tip[x])]
  /\ tipBest' = viewBest
  /\ view' = Empty /\ viewBest' = NULL
  /\ UNCHANGED <<db, dbBest>>

\* The view goes out of scope.
DropView ==
  /\ view' = Empty /\ viewBest' = NULL
  /\ UNCHANGED <<db, dbBest, tip, tipBest>>

\* Flush of pcoinsTip, CCoinsViewDB::BatchWrite: one atomic batch.
FlushTip ==
  /\ db' = [x \in Txid |-> IF tip[x].DIRTY THEN tip[x].coins ELSE db[x]]
  /\ dbBest' = TipBlock
  /\ tip' = Empty
  /\ UNCHANGED <<tipBest, view, viewBest>>

\* The process ends and starts again.
Restart ==
  /\ tip' = Empty /\ tipBest' = NULL
  /\ view' = Empty /\ viewBest' = NULL
  /\ UNCHANGED <<db, dbBest>>

CoinsNext ==
  \/ \E x \in Txid : AccessView(x) \/ AccessTip(x) \/ Uncache(x)
  \/ \E x \in Txid, c \in Coins : ModifyCoins(x, c)
  \/ \E x \in Txid, c \in Coins, coinbase \in BOOLEAN : ModifyNewCoins(x, c, coinbase)
  \/ \E b \in BlockHash : SetBestBlock(b)
  \/ GetBestBlock \/ FlushView \/ DropView \/ FlushTip \/ Restart

CoinsSpec == CoinsInit /\ [][CoinsNext]_coinVars

----------------------------------------------------------------------------
(* Properties. *)

Cache == [Txid -> [coins : Coins, DIRTY : BOOLEAN, FRESH : BOOLEAN, cached : BOOLEAN]]

\* The type of the three layers.
CoinsTypeOK ==
  /\ db \in [Txid -> Coins] /\ dbBest \in BlockHash
  /\ tip \in Cache /\ tipBest \in BlockHash \cup {NULL}
  /\ view \in Cache /\ viewBest \in BlockHash \cup {NULL}

\* What the flags of CCoinsCacheEntry mean: below a FRESH entry nothing is
\* unspent, and an entry that is not DIRTY is what the layer below shows.
FlagsHonest(cache, below) ==
  \A x \in Txid : IF cache[x].cached
                  THEN /\ cache[x].FRESH => below[x] = Pruned
                       /\ ~cache[x].DIRTY => cache[x].coins = below[x]
                  ELSE cache[x] = NoEntry

\* The flags of both caches are honest, so an optimisation they allow never loses
\* coins.
CacheFlagsHonest == FlagsHonest(tip, db) /\ FlagsHonest(view, TipCoins)

\* BatchWrite never throws "FRESH flag misapplied".
FlushNeverThrows == ~FreshMisapplied

\* The caches implement plain maps: nothing a layer hides, drops or delays can be
\* seen by whoever reads through the layer above it, or by the next start.
Plain == INSTANCE CoinsView WITH
  disk <- [coins |-> db, best |-> dbBest],
  mem <- [coins |-> TipCoins, best |-> TipBlock],
  scratch <- [coins |-> ViewCoins, best |-> ViewBlock]

ImplementsPlainMaps == Plain!Spec
=============================================================================
