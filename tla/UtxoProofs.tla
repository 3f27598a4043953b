----------------------------- MODULE UtxoProofs -----------------------------
(***************************************************************************)
(* The unspent outputs are exact, for any transactions, coins and blocks.  *)
(*                                                                         *)
(* CacheInv    the flags of every cache entry are honest, which makes      *)
(*             erasing, skipping and not looking below invisible: the      *)
(*             caches of coins implement plain maps                        *)
(* LedgerInv   what the plain maps hold is what the blocks say, in the     *)
(*             middle of ConnectBlock and DisconnectBlock, between the two *)
(*             writes of FlushStateToDisk and after a crash                *)
(***************************************************************************)
EXTENDS Utxo, TLAPS

----------------------------------------------------------------------------
(* The caches implement plain maps. *)

CacheInv == CoinsTypeOK /\ CacheFlagsHonest

\* What is read through the caches, now and after a step.
LEMMA Seen ==
  /\ TipCoins = [x \in Txid |-> IF tip[x].cached THEN tip[x].coins ELSE db[x]]
  /\ ViewCoins = [x \in Txid |-> IF view[x].cached THEN view[x].coins ELSE TipCoins[x]]
  BY Zenon DEF TipCoins, ViewCoins, Through

\* The same after a step.
LEMMA SeenNext ==
  /\ TipCoins' = [x \in Txid |-> IF tip'[x].cached THEN tip'[x].coins ELSE db'[x]]
  /\ ViewCoins' = [x \in Txid |-> IF view'[x].cached THEN view'[x].coins ELSE TipCoins'[x]]
  BY Zenon DEF TipCoins, ViewCoins, Through

\* An entry has the type of a cache entry.
LEMMA EntryType ==
  ASSUME NEW c \in Coins, NEW d \in BOOLEAN, NEW f \in BOOLEAN
  PROVE  /\ Entry(c, d, f) \in [coins : Coins, DIRTY : BOOLEAN, FRESH : BOOLEAN, cached : BOOLEAN]
         /\ Entry(c, d, f).coins = c /\ Entry(c, d, f).DIRTY = d
         /\ Entry(c, d, f).FRESH = f /\ Entry(c, d, f).cached = TRUE
  BY Zenon DEF Entry

\* An entry by its fields: a clean one, one that was fetched, one that was written.
LEMMA CleanEntry ==
  ASSUME NEW c
  PROVE  /\ Entry(c, FALSE, FALSE).coins = c /\ Entry(c, FALSE, FALSE).cached
         /\ ~Entry(c, FALSE, FALSE).DIRTY /\ ~Entry(c, FALSE, FALSE).FRESH
  BY Zenon DEF Entry

\* An entry FetchCoins makes is clean, and fresh only if nothing is below it.
LEMMA FetchedEntry ==
  ASSUME NEW c
  PROVE  /\ Entry(c, FALSE, c = Pruned).coins = c /\ Entry(c, FALSE, c = Pruned).cached
         /\ ~Entry(c, FALSE, c = Pruned).DIRTY
         /\ Entry(c, FALSE, c = Pruned).FRESH => c = Pruned
  BY Zenon DEF Entry

\* An entry that is written to is dirty.
LEMMA WrittenEntry ==
  ASSUME NEW c, NEW f \in BOOLEAN
  PROVE  /\ Entry(c, TRUE, f).coins = c /\ Entry(c, TRUE, f).cached
         /\ Entry(c, TRUE, f).DIRTY /\ (Entry(c, TRUE, f).FRESH => f)
  BY Zenon DEF Entry

\* No entry at all has the type of an entry.
LEMMA NoEntryType ==
  /\ NoEntry \in [coins : Coins, DIRTY : BOOLEAN, FRESH : BOOLEAN, cached : BOOLEAN]
  /\ NoEntry.coins = Pruned /\ NoEntry.DIRTY = FALSE
  /\ NoEntry.FRESH = FALSE /\ NoEntry.cached = FALSE
  BY Zenon, PrunedAssumption DEF PrunedAssumption, NoEntry

\* The invariant, entry by entry.
LEMMA Honest ==
  ASSUME CacheInv, NEW x \in Txid
  PROVE  /\ tip[x].cached => /\ tip[x].FRESH => db[x] = Pruned
                             /\ ~tip[x].DIRTY => tip[x].coins = db[x]
         /\ ~tip[x].cached => tip[x] = NoEntry
         /\ view[x].cached => /\ view[x].FRESH => TipCoins[x] = Pruned
                              /\ ~view[x].DIRTY => view[x].coins = TipCoins[x]
         /\ ~view[x].cached => view[x] = NoEntry
         /\ db[x] \in Coins /\ TipCoins[x] \in Coins /\ ViewCoins[x] \in Coins
         /\ tip[x] \in [coins : Coins, DIRTY : BOOLEAN, FRESH : BOOLEAN, cached : BOOLEAN]
         /\ view[x] \in [coins : Coins, DIRTY : BOOLEAN, FRESH : BOOLEAN, cached : BOOLEAN]
<1>1. /\ db[x] \in Coins
      /\ tip[x] \in [coins : Coins, DIRTY : BOOLEAN, FRESH : BOOLEAN, cached : BOOLEAN]
      /\ view[x] \in [coins : Coins, DIRTY : BOOLEAN, FRESH : BOOLEAN, cached : BOOLEAN]
  BY Zenon DEF CacheInv, CoinsTypeOK, Cache
<1>2. TipCoins[x] \in Coins /\ ViewCoins[x] \in Coins
  BY Zenon, <1>1, Seen
<1> QED
  BY Zenon, <1>1, <1>2 DEF CacheInv, CacheFlagsHonest, FlagsHonest

\* Looking a transaction up in pcoinsTip adds, at most, clean entries with what the
\* database holds.
TipOnlyFetched ==
  /\ UNCHANGED <<db, dbBest>>
  /\ \A y \in Txid : \/ tip'[y] = tip[y]
                     \/ /\ ~tip[y].cached
                        /\ tip'[y] = Entry(db[y], FALSE, FALSE)

\* Entries that are only fetched change nothing that can be seen through the cache.
LEMMA FetchingKeepsTip ==
  ASSUME CacheInv, TipOnlyFetched
  PROVE  TipCoins' = TipCoins /\ FlagsHonest(tip, db)'
<1>1. ASSUME NEW y \in Txid
      PROVE  /\ TipCoins'[y] = TipCoins[y]
             /\ tip'[y].cached => /\ tip'[y].FRESH => db[y] = Pruned
                                  /\ ~tip'[y].DIRTY => tip'[y].coins = db[y]
             /\ ~tip'[y].cached => tip'[y] = NoEntry
  <2>1. CASE tip'[y] = tip[y]
    <3>1. TipCoins'[y] = TipCoins[y]
      BY Zenon, <1>1, <2>1, Seen, SeenNext DEF TipOnlyFetched
    <3> QED
      BY <1>1, <2>1, <3>1, Honest, Zenon
  <2>2. CASE ~tip[y].cached /\ tip'[y] = Entry(db[y], FALSE, FALSE)
    <3>1. tip'[y].coins = db[y] /\ tip'[y].cached /\ ~tip'[y].DIRTY /\ ~tip'[y].FRESH
      BY <2>2, CleanEntry, Zenon
    <3>2. TipCoins'[y] = db[y] /\ TipCoins[y] = db[y]
      BY <1>1, <2>2, <3>1, Seen, SeenNext, Zenon
    <3> QED
      BY <3>1, <3>2, Zenon
  <2> QED
    BY <1>1, <2>1, <2>2, Zenon DEF TipOnlyFetched
<1>2. TipCoins' = TipCoins
  BY Zenon, <1>1, Seen, SeenNext
<1>3. db' = db
  BY Zenon DEF TipOnlyFetched
<1> QED
  BY <1>1, <1>2, <1>3, Zenon DEF FlagsHonest

\* A lookup in pcoinsTip caches what the database holds.
LEMMA AccessTipStep ==
  ASSUME CacheInv, NEW x \in Txid, AccessTip(x)
  PROVE  CacheInv' /\ UNCHANGED Plain!viewVars
<1>1. CoinsTypeOK'
  BY Honest, EntryType, Zenon DEF CacheInv, CoinsTypeOK, Cache, AccessTip, Fetched
<1>2. TipOnlyFetched
  BY Zenon DEF AccessTip, Fetched, CacheInv, CoinsTypeOK, Cache, TipOnlyFetched
<1>3. TipCoins' = TipCoins /\ FlagsHonest(tip, db)'
  BY Zenon, <1>2, FetchingKeepsTip
<1>4. ViewCoins' = ViewCoins
  BY Zenon, <1>3, Seen, SeenNext DEF AccessTip
<1>5. view' = view
  BY Zenon DEF AccessTip
<1>6. FlagsHonest(view, TipCoins)'
  BY <1>3, <1>5, Honest, Zenon DEF FlagsHonest
<1>7. UNCHANGED Plain!viewVars
  BY Zenon, <1>3, <1>4 DEF TipBlock, ViewBlock, Plain!viewVars, AccessTip
<1> QED
  BY Zenon, <1>1, <1>3, <1>6, <1>7 DEF CacheInv, CacheFlagsHonest

\* A lookup in the view shows the same coins before and after.
LEMMA AccessViewStep ==
  ASSUME CacheInv, NEW x \in Txid, AccessView(x)
  PROVE  CacheInv' /\ UNCHANGED Plain!viewVars
<1>1. CoinsTypeOK'
  BY Honest, EntryType, Zenon DEF CacheInv, CoinsTypeOK, Cache, AccessView, Fetched,
     FetchedInView
<1>2. TipOnlyFetched
  BY Zenon DEF AccessView, Fetched, CacheInv, CoinsTypeOK, Cache, TipOnlyFetched
<1>3. TipCoins' = TipCoins /\ FlagsHonest(tip, db)'
  BY Zenon, <1>2, FetchingKeepsTip
<1>4. ASSUME NEW y \in Txid
      PROVE  /\ ViewCoins'[y] = ViewCoins[y]
             /\ view'[y].cached => /\ view'[y].FRESH => TipCoins[y] = Pruned
                                   /\ ~view'[y].DIRTY => view'[y].coins = TipCoins[y]
             /\ ~view'[y].cached => view'[y] = NoEntry
  <2>1. CASE view'[y] = view[y]
    <3>1. ViewCoins'[y] = ViewCoins[y]
      BY Zenon, <1>3, <1>4, <2>1, Seen, SeenNext
    <3> QED
      BY <1>4, <2>1, <3>1, Honest, Zenon
  <2>2. CASE ~view[y].cached /\ view'[y] = Entry(TipCoins[y], FALSE, TipCoins[y] = Pruned)
    <3>1. /\ view'[y].coins = TipCoins[y] /\ view'[y].cached
          /\ ~view'[y].DIRTY /\ (view'[y].FRESH => TipCoins[y] = Pruned)
      BY <2>2, FetchedEntry, ZenonT(60)
    <3>2. ViewCoins'[y] = TipCoins[y] /\ ViewCoins[y] = TipCoins[y]
      BY <1>4, <2>2, <3>1, Seen, SeenNext, Zenon
    <3> QED
      BY <3>1, <3>2, Zenon
  <2>3. view'[y] = view[y] \/ (~view[y].cached /\ view'[y] = Entry(TipCoins[y], FALSE, TipCoins[y] = Pruned))
    BY <1>4, Zenon DEF AccessView, FetchedInView, CacheInv, CoinsTypeOK, Cache
  <2> QED
    BY <2>1, <2>2, <2>3, Zenon
<1>5. ViewCoins' = ViewCoins
  BY Zenon, <1>4, Seen, SeenNext
<1>6. FlagsHonest(view, TipCoins)'
  BY <1>3, <1>4, Zenon DEF FlagsHonest
<1>7. UNCHANGED Plain!viewVars
  BY Zenon, <1>3, <1>5 DEF TipBlock, ViewBlock, Plain!viewVars, AccessView
<1> QED
  BY Zenon, <1>1, <1>3, <1>6, <1>7 DEF CacheInv, CacheFlagsHonest

\* An entry without flags is what the database holds, so it can go.
LEMMA UncacheStep ==
  ASSUME CacheInv, NEW x \in Txid, Uncache(x)
  PROVE  CacheInv' /\ UNCHANGED Plain!viewVars
<1>0. /\ tip[x].cached /\ ~tip[x].DIRTY /\ UNCHANGED <<db, view, dbBest, tipBest, viewBest>>
      /\ tip'[x] = NoEntry /\ \A y \in Txid : y # x => tip'[y] = tip[y]
  BY Zenon DEF Uncache, MayUncache, CacheInv, CoinsTypeOK, Cache
<1>1. CoinsTypeOK'
  BY Zenon, NoEntryType DEF CacheInv, CoinsTypeOK, Cache, Uncache
<1>2. TipCoins[x] = db[x]
  BY Zenon, <1>0, Honest, Seen
<1>3. TipCoins' = TipCoins
  <2>1. TipCoins'[x] = TipCoins[x]
    BY Zenon, <1>0, <1>2, SeenNext, NoEntryType
  <2>2. \A y \in Txid : y # x => TipCoins'[y] = TipCoins[y]
    BY Zenon, <1>0, Seen, SeenNext
  <2> QED
    BY <2>1, <2>2, Seen, SeenNext
<1>4. ViewCoins' = ViewCoins
  BY Zenon, <1>0, <1>3, Seen, SeenNext
<1>5. FlagsHonest(tip, db)'
  <2>1. ~tip'[x].cached
    BY Zenon, <1>0, NoEntryType
  <2> QED
    BY <1>0, <2>1, Honest, Zenon DEF FlagsHonest
<1>6. FlagsHonest(view, TipCoins)'
  BY <1>0, <1>3, Honest, Zenon DEF FlagsHonest
<1>7. UNCHANGED Plain!viewVars
  BY Zenon, <1>0, <1>3, <1>4 DEF TipBlock, ViewBlock, Plain!viewVars
<1> QED
  BY Zenon, <1>1, <1>5, <1>6, <1>7 DEF CacheInv, CacheFlagsHonest

\* Reading the best block remembers it and changes none.
LEMMA GetBestBlockStep ==
  ASSUME CacheInv, GetBestBlock
  PROVE  CacheInv' /\ UNCHANGED Plain!viewVars
<1>1. CoinsTypeOK'
  BY Zenon DEF CacheInv, CoinsTypeOK, GetBestBlock, TipBlock, ViewBlock
<1>2. UNCHANGED <<tip, view, db, dbBest>>
  BY Zenon DEF GetBestBlock
<1>3. TipCoins' = TipCoins /\ ViewCoins' = ViewCoins
  BY Zenon, <1>2, Seen, SeenNext
<1>4. CacheFlagsHonest'
  BY Zenon, <1>2, <1>3 DEF CacheInv, CacheFlagsHonest, FlagsHonest
<1>5. TipBlock' = TipBlock /\ ViewBlock' = ViewBlock
  BY Zenon, NullAssumption DEF NullAssumption, CacheInv, CoinsTypeOK, GetBestBlock,
     TipBlock, ViewBlock
<1> QED
  BY Zenon, <1>1, <1>2, <1>3, <1>4, <1>5 DEF CacheInv, Plain!viewVars

\* A write leaves, in the view, a dirty entry for the written transaction, or none
\* when it came to nothing and nothing is below.
Written(x, c, f) ==
  /\ f => TipCoins[x] = Pruned
  /\ view'[x] = IF f /\ c = Pruned THEN NoEntry ELSE Entry(c, TRUE, f)
  /\ view' = [view EXCEPT ![x] = view'[x]]
  /\ UNCHANGED <<tipBest, viewBest>>

\* A write to the view is a write to the plain map, and keeps the invariant.
LEMMA WritingWrites ==
  ASSUME CacheInv, TipOnlyFetched, NEW x \in Txid, NEW c \in Coins, NEW f \in BOOLEAN,
         Written(x, c, f), tip' \in Cache
  PROVE  CacheInv' /\ Plain!Write(x, c)
<1>1. TipCoins' = TipCoins /\ FlagsHonest(tip, db)'
  BY Zenon, FetchingKeepsTip
<1>2. ASSUME NEW y \in Txid
      PROVE  /\ ViewCoins'[y] = IF y = x THEN c ELSE ViewCoins[y]
             /\ view'[y].cached => /\ view'[y].FRESH => TipCoins[y] = Pruned
                                   /\ ~view'[y].DIRTY => view'[y].coins = TipCoins[y]
             /\ ~view'[y].cached => view'[y] = NoEntry
  <2>0. /\ view \in [Txid -> [coins : Coins, DIRTY : BOOLEAN, FRESH : BOOLEAN, cached : BOOLEAN]]
        /\ view' = [view EXCEPT ![x] = view'[x]]
    BY Zenon DEF CacheInv, CoinsTypeOK, Cache, Written
  <2>1. CASE y # x
    <3>1. view'[y] = view[y]
      BY Zenon, <2>0, <1>2, <2>1
    <3>2. ViewCoins'[y] = ViewCoins[y]
      BY Zenon, <1>1, <1>2, <3>1, Seen, SeenNext
    <3> QED
      BY <2>1, <1>2, <3>1, <3>2, Honest, Zenon
  <2>2. CASE y = x /\ f /\ c = Pruned
    <3>1. view'[x] = NoEntry /\ TipCoins[x] = Pruned
      BY <2>2, Zenon DEF Written
    <3>2. ~view'[x].cached
      BY Zenon, <3>1, NoEntryType
    <3>3. ViewCoins'[x] = c
      BY Zenon, <1>1, <2>2, <3>1, <3>2, SeenNext
    <3> QED
      BY <2>2, <3>1, <3>2, <3>3, Zenon
  <2>3. CASE y = x /\ ~(f /\ c = Pruned)
    <3>1. view'[x] = Entry(c, TRUE, f)
      BY <2>3, Zenon DEF Written
    <3>2. view'[x].coins = c /\ view'[x].cached /\ view'[x].DIRTY /\ (view'[x].FRESH => f)
      BY <3>1, WrittenEntry, Zenon
    <3>3. ViewCoins'[x] = c
      BY Zenon, <3>2, SeenNext
    <3> QED
      BY <2>3, <3>2, <3>3, Zenon DEF Written
  <2> QED
    BY Zenon, <2>1, <2>2, <2>3
<1>3. view'[x] \in [coins : Coins, DIRTY : BOOLEAN, FRESH : BOOLEAN, cached : BOOLEAN]
  <2>1. Entry(c, TRUE, f) \in [coins : Coins, DIRTY : BOOLEAN, FRESH : BOOLEAN, cached : BOOLEAN]
    BY EntryType, Zenon
  <2> QED
    BY <2>1, NoEntryType, Zenon DEF Written
<1>4. CoinsTypeOK'
  <2>1. view' \in Cache
    BY <1>3, Zenon DEF Written, CacheInv, CoinsTypeOK, Cache
  <2> QED
    BY Zenon, <2>1 DEF Written, TipOnlyFetched, CacheInv, CoinsTypeOK
<1>5. FlagsHonest(view, TipCoins)'
  BY <1>1, <1>2, Zenon DEF FlagsHonest
<1>6. ViewCoins' = [ViewCoins EXCEPT ![x] = c]
  BY Zenon, <1>2, Seen, SeenNext
<1>7. TipBlock' = TipBlock /\ ViewBlock' = ViewBlock /\ UNCHANGED <<db, dbBest>>
  BY Zenon DEF TipBlock, ViewBlock, Written, TipOnlyFetched
<1>8. Plain!Write(x, c)
  BY <1>1, <1>6, <1>7 DEF Plain!Write
<1> QED
  BY Zenon, <1>1, <1>4, <1>5, <1>8 DEF CacheInv, CacheFlagsHonest

\* ModifyCoins writes one transaction's coins.
LEMMA ModifyCoinsStep ==
  ASSUME CacheInv, NEW x \in Txid, NEW c \in Coins, ModifyCoins(x, c)
  PROVE  CacheInv' /\ Plain!Write(x, c)
<1> DEFINE f == EntryToModify(x).FRESH
<1>1. f \in BOOLEAN /\ (f => TipCoins[x] = Pruned)
  BY Honest, EntryType, Zenon DEF EntryToModify
<1>2. /\ view'[x] = Modified(EntryToModify(x), c)
      /\ view' = [view EXCEPT ![x] = view'[x]]
  BY Zenon DEF ModifyCoins, CacheInv, CoinsTypeOK, Cache
<1>3. Written(x, c, f)
  BY <1>1, <1>2, Zenon DEF Written, Modified, ModifyCoins
<1>4. TipOnlyFetched
  BY Zenon DEF ModifyCoins, Fetched, CacheInv, CoinsTypeOK, Cache, TipOnlyFetched
<1>5. tip' \in Cache
  BY Honest, EntryType, Zenon DEF CacheInv, CoinsTypeOK, Cache, ModifyCoins, Fetched
<1> HIDE DEF f
<1> QED
  BY Zenon, <1>1, <1>3, <1>4, <1>5, WritingWrites

\* ModifyNewCoins writes them without looking below.
LEMMA ModifyNewCoinsStep ==
  ASSUME CacheInv, NEW x \in Txid, NEW c \in Coins, NEW coinbase \in BOOLEAN,
         ModifyNewCoins(x, c, coinbase)
  PROVE  CacheInv' /\ Plain!Write(x, c)
<1> DEFINE f == FreshWhenNew(x, coinbase)
<1>1. f \in BOOLEAN
  BY Zenon, Honest DEF FreshWhenNew
<1>2. f => TipCoins[x] = Pruned
  BY Zenon, Honest, Seen, NoEntryType DEF FreshWhenNew, ModifyNewCoins
<1>3. Entry(Pruned, view[x].DIRTY, f).FRESH = f
  BY Zenon DEF Entry
<1>4. /\ view'[x] = Modified(Entry(Pruned, view[x].DIRTY, f), c)
      /\ view' = [view EXCEPT ![x] = view'[x]]
  BY Zenon DEF ModifyNewCoins, CacheInv, CoinsTypeOK, Cache
<1>5. UNCHANGED <<tipBest, viewBest, tip, db, dbBest>>
  BY Zenon DEF ModifyNewCoins
<1> HIDE DEF f
<1>6. Written(x, c, f)
  BY <1>1, <1>2, <1>3, <1>4, <1>5, Zenon DEF Written, Modified
<1>7. TipOnlyFetched /\ tip' \in Cache
  BY Zenon, <1>5 DEF TipOnlyFetched, CacheInv, CoinsTypeOK
<1> QED
  BY Zenon, <1>1, <1>6, <1>7, WritingWrites

\* The view moves to another block.
LEMMA SetBestBlockStep ==
  ASSUME CacheInv, NEW b \in BlockHash, SetBestBlock(b)
  PROVE  CacheInv' /\ Plain!MoveTo(b)
<1>1. CoinsTypeOK'
  BY Zenon DEF CacheInv, CoinsTypeOK, SetBestBlock
<1>2. UNCHANGED <<tip, view, db, dbBest, tipBest>>
  BY Zenon DEF SetBestBlock
<1>3. TipCoins' = TipCoins /\ ViewCoins' = ViewCoins
  BY Zenon, <1>2, Seen, SeenNext
<1>4. CacheFlagsHonest'
  BY Zenon, <1>2, <1>3 DEF CacheInv, CacheFlagsHonest, FlagsHonest
<1>5. TipBlock' = TipBlock /\ ViewBlock' = b
  BY Zenon, NullAssumption DEF NullAssumption, SetBestBlock, TipBlock, ViewBlock
<1>6. Plain!MoveTo(b)
  BY <1>2, <1>3, <1>5 DEF Plain!MoveTo
<1> QED
  BY Zenon, <1>1, <1>4, <1>6 DEF CacheInv

\* A flushed view becomes what pcoinsTip shows.
LEMMA FlushViewStep ==
  ASSUME CacheInv, FlushView
  PROVE  CacheInv' /\ Plain!Commit
<1>v. \A y \in Txid : view'[y] = NoEntry
  BY Zenon DEF FlushView, Empty
<1>s. ViewCoins' = TipCoins'
  BY Zenon, <1>v, Seen, SeenNext, NoEntryType
<1>h. FlagsHonest(view, TipCoins)'
  BY Zenon, <1>v, NoEntryType DEF FlagsHonest
<1>m. \A y \in Txid : tip'[y] = Merged(view[y], tip[y])
  BY Zenon DEF FlushView
<1>1. CoinsTypeOK'
  <2>1. \A y \in Txid : Merged(view[y], tip[y]) \in
          [coins : Coins, DIRTY : BOOLEAN, FRESH : BOOLEAN, cached : BOOLEAN]
    BY Honest, EntryType, NoEntryType, Zenon DEF Merged
  <2>2. tip' \in Cache
    BY Zenon, <2>1 DEF FlushView, Cache
  <2>3. view' \in Cache
    BY Zenon, NoEntryType DEF FlushView, Cache, Empty
  <2> QED
    BY Zenon, <2>2, <2>3 DEF CacheInv, CoinsTypeOK, FlushView
<1>2. \A y \in Txid : /\ TipCoins'[y] = ViewCoins[y]
                      /\ tip'[y].cached => /\ tip'[y].FRESH => db[y] = Pruned
                                           /\ ~tip'[y].DIRTY => tip'[y].coins = db[y]
                      /\ ~tip'[y].cached => tip'[y] = NoEntry
  <2> TAKE y \in Txid
  <2>0. /\ TipCoins'[y] = IF tip'[y].cached THEN tip'[y].coins ELSE db[y]
        /\ TipCoins[y] = IF tip[y].cached THEN tip[y].coins ELSE db[y]
        /\ ViewCoins[y] = IF view[y].cached THEN view[y].coins ELSE TipCoins[y]
    BY Zenon, Seen, SeenNext DEF FlushView
  <2>1. CASE ~view[y].DIRTY
    <3>1. tip'[y] = tip[y]
      BY <2>1, <1>m, Zenon DEF Merged
    <3>2. ViewCoins[y] = TipCoins[y]
      BY Zenon, <2>0, <2>1, Honest
    <3>3. TipCoins'[y] = TipCoins[y]
      BY <2>0, <3>1
    <3> QED
      BY <3>1, <3>2, <3>3, Honest, Zenon
  <2>d. CASE view[y].DIRTY
    <3>c. view[y].cached /\ ViewCoins[y] = view[y].coins
      BY Zenon, <2>0, <2>d, Honest, NoEntryType
    <3>1. CASE ~tip[y].cached /\ view[y].FRESH /\ view[y].coins = Pruned
      BY <2>0, <2>d, <3>1, <1>m, Honest, NoEntryType, Zenon DEF Merged
    <3>2. CASE ~tip[y].cached /\ ~(view[y].FRESH /\ view[y].coins = Pruned)
      <4>1. tip'[y] = Entry(view[y].coins, TRUE, view[y].FRESH) /\ view[y].FRESH \in BOOLEAN
        BY <2>d, <3>2, <1>m, Honest, Zenon DEF Merged
      <4>2. tip'[y].cached /\ tip'[y].DIRTY /\ tip'[y].coins = view[y].coins /\ (tip'[y].FRESH => view[y].FRESH)
        BY <4>1 DEF Entry
      <4>3. view[y].FRESH => db[y] = Pruned
        BY Zenon, <3>c, <3>2, <2>0, Honest
      <4>4. TipCoins'[y] = ViewCoins[y]
        BY Zenon, <4>2, <2>0, <3>c
      <4> QED
        BY <4>2, <4>3, <4>4, Zenon
    <3>3. CASE tip[y].cached /\ tip[y].FRESH /\ view[y].coins = Pruned
      <4>1. tip'[y] = NoEntry
        BY <2>d, <3>3, <1>m, Zenon DEF Merged
      <4> QED
        BY Zenon, <4>1, <2>0, <3>c, <3>3, Honest, NoEntryType
    <3>4. CASE tip[y].cached /\ ~(tip[y].FRESH /\ view[y].coins = Pruned)
      <4>1. tip'[y] = Entry(view[y].coins, TRUE, tip[y].FRESH) /\ tip[y].FRESH \in BOOLEAN
        BY <2>d, <3>4, <1>m, Honest, Zenon DEF Merged
      <4>2. tip'[y].cached /\ tip'[y].DIRTY /\ tip'[y].coins = view[y].coins /\ (tip'[y].FRESH => tip[y].FRESH)
        BY <4>1 DEF Entry
      <4>3. tip[y].FRESH => db[y] = Pruned
        BY Zenon, <3>4, Honest
      <4>4. TipCoins'[y] = ViewCoins[y]
        BY Zenon, <4>2, <2>0, <3>c
      <4> QED
        BY <4>2, <4>3, <4>4, Zenon
    <3> QED
      BY Zenon, <3>1, <3>2, <3>3, <3>4
  <2> QED
    BY Zenon, <2>1, <2>d
<1>5. FlagsHonest(tip, db)'
  BY Zenon, <1>2 DEF FlagsHonest, FlushView
<1>7. TipCoins' = ViewCoins
  BY Zenon, <1>2, Seen, SeenNext
<1>8. TipBlock' = ViewBlock /\ ViewBlock' = ViewBlock /\ UNCHANGED <<db, dbBest>>
  BY Zenon DEF FlushView, TipBlock, ViewBlock
<1>9. Plain!Commit
  BY Zenon, <1>s, <1>7, <1>8 DEF Plain!Commit
<1> QED
  BY Zenon, <1>1, <1>5, <1>h, <1>9 DEF CacheInv, CacheFlagsHonest

\* A dropped view leaves no trace.
LEMMA DropViewStep ==
  ASSUME CacheInv, DropView
  PROVE  CacheInv' /\ Plain!Discard
<1>v. \A y \in Txid : view'[y] = NoEntry
  BY Zenon DEF DropView, Empty
<1>s. ViewCoins' = TipCoins'
  BY Zenon, <1>v, Seen, SeenNext, NoEntryType
<1>h. FlagsHonest(view, TipCoins)'
  BY Zenon, <1>v, NoEntryType DEF FlagsHonest
<1>1. CoinsTypeOK'
  BY Zenon, NoEntryType DEF CacheInv, CoinsTypeOK, DropView, Cache, Empty
<1>2. UNCHANGED <<tip, db, dbBest, tipBest>> /\ viewBest' = NULL
  BY Zenon DEF DropView
<1>3. TipCoins' = TipCoins
  BY Zenon, <1>2, Seen, SeenNext
<1>5. FlagsHonest(tip, db)'
  BY Zenon, <1>2 DEF CacheInv, CacheFlagsHonest, FlagsHonest
<1>9. Plain!Discard
  BY Zenon, <1>s, <1>2, <1>3 DEF Plain!Discard, TipBlock, ViewBlock
<1> QED
  BY Zenon, <1>1, <1>5, <1>h, <1>9 DEF CacheInv, CacheFlagsHonest

\* A restart finds what was flushed last.
LEMMA RestartStep ==
  ASSUME CacheInv, Restart
  PROVE  CacheInv' /\ Plain!Crash
<1>v. \A y \in Txid : view'[y] = NoEntry
  BY Zenon DEF Restart, Empty
<1>s. ViewCoins' = TipCoins'
  BY Zenon, <1>v, Seen, SeenNext, NoEntryType
<1>h. FlagsHonest(view, TipCoins)'
  BY Zenon, <1>v, NoEntryType DEF FlagsHonest
<1>t. \A y \in Txid : tip'[y] = NoEntry
  BY Zenon DEF Restart, Empty
<1>1. CoinsTypeOK'
  BY Zenon, NoEntryType DEF CacheInv, CoinsTypeOK, Restart, Cache, Empty
<1>2. UNCHANGED <<db, dbBest>> /\ tipBest' = NULL /\ viewBest' = NULL
  BY Zenon DEF Restart
<1>3. TipCoins' = db
  <2>1. db \in [Txid -> Coins]
    BY Zenon DEF CacheInv, CoinsTypeOK
  <2> QED
    BY Zenon, <2>1, <1>t, <1>2, SeenNext, NoEntryType
<1>5. FlagsHonest(tip, db)'
  BY Zenon, <1>t, NoEntryType DEF FlagsHonest
<1>9. Plain!Crash
  BY Zenon, <1>s, <1>2, <1>3 DEF Plain!Crash, TipBlock, ViewBlock
<1> QED
  BY Zenon, <1>1, <1>5, <1>h, <1>9 DEF CacheInv, CacheFlagsHonest

\* A flushed pcoinsTip becomes what the database holds.
LEMMA FlushTipStep ==
  ASSUME CacheInv, FlushTip
  PROVE  CacheInv' /\ Plain!Save
<1>t. \A y \in Txid : tip'[y] = NoEntry /\ view'[y] = view[y]
  BY Zenon DEF FlushTip, Empty
<1>d. \A y \in Txid : db'[y] = IF tip[y].DIRTY THEN tip[y].coins ELSE db[y]
  BY Zenon DEF FlushTip
<1>1. CoinsTypeOK'
  <2>1. db' \in [Txid -> Coins]
    BY Zenon, Honest DEF FlushTip
  <2>2. tip' \in Cache
    BY Zenon, NoEntryType DEF FlushTip, Cache, Empty
  <2> QED
    BY Zenon, <2>1, <2>2 DEF CacheInv, CoinsTypeOK, FlushTip, TipBlock
<1>2. \A y \in Txid : db'[y] = TipCoins[y]
  BY Zenon, <1>d, Honest, Seen, NoEntryType
<1>3. TipCoins' = db' /\ db' = TipCoins
  <2>1. db' = [y \in Txid |-> IF tip[y].DIRTY THEN tip[y].coins ELSE db[y]]
    BY Zenon DEF FlushTip
  <2> QED
    BY Zenon, <2>1, <1>t, <1>2, Seen, SeenNext, NoEntryType
<1>4. ViewCoins' = ViewCoins
  BY Zenon, <1>t, <1>3, Seen, SeenNext
<1>5. FlagsHonest(tip, db)'
  BY Zenon, <1>t, NoEntryType DEF FlagsHonest
<1>6. FlagsHonest(view, TipCoins)'
  BY Zenon, <1>t, <1>3, Honest DEF FlagsHonest
<1>8. TipBlock' = TipBlock /\ ViewBlock' = ViewBlock /\ dbBest' = TipBlock
  BY Zenon DEF FlushTip, TipBlock, ViewBlock
<1>9. Plain!Save
  BY Zenon, <1>3, <1>4, <1>8 DEF Plain!Save
<1> QED
  BY Zenon, <1>1, <1>5, <1>6, <1>9 DEF CacheInv, CacheFlagsHonest

----------------------------------------------------------------------------
\* At the start both caches are empty: the layers show the database.
LEMMA CacheInit == CoinsInit => CacheInv /\ Plain!Init
<1> SUFFICES ASSUME CoinsInit PROVE CacheInv /\ Plain!Init
  BY Zenon
<1>1. \A x \in Txid : tip[x] = NoEntry /\ view[x] = NoEntry
  BY Zenon DEF CoinsInit, Empty
<1>2. TipCoins = db /\ ViewCoins = db
  <2>1. db \in [Txid -> Coins]
    BY Zenon DEF CoinsInit
  <2> QED
    BY Zenon, <2>1, <1>1, Seen, NoEntryType
<1>3. CoinsTypeOK
  BY Zenon, NoEntryType DEF CoinsTypeOK, CoinsInit, Cache, Empty
<1>4. CacheFlagsHonest
  BY Zenon, <1>1, NoEntryType DEF CacheFlagsHonest, FlagsHonest
<1>5. Plain!Init
  BY Zenon, <1>2 DEF Plain!Init, Plain!View, CoinsInit, TipBlock, ViewBlock
<1> QED
  BY Zenon, <1>3, <1>4, <1>5 DEF CacheInv

\* Every operation keeps the flags honest and is an operation on plain maps.
LEMMA CacheNext == CacheInv /\ [CoinsNext]_coinVars => CacheInv' /\ [Plain!Next]_(Plain!viewVars)
<1> SUFFICES ASSUME CacheInv, [CoinsNext]_coinVars
             PROVE  CacheInv' /\ [Plain!Next]_(Plain!viewVars)
  BY Zenon
<1>1. ASSUME NEW x \in Txid, AccessView(x) \/ AccessTip(x) \/ Uncache(x)
      PROVE  CacheInv' /\ UNCHANGED Plain!viewVars
  BY Zenon, <1>1, AccessViewStep, AccessTipStep, UncacheStep
<1>2. ASSUME NEW x \in Txid, NEW c \in Coins, ModifyCoins(x, c)
      PROVE  CacheInv' /\ Plain!Next
  BY Zenon, <1>2, ModifyCoinsStep DEF Plain!Next
<1>3. ASSUME NEW x \in Txid, NEW c \in Coins, NEW coinbase \in BOOLEAN, ModifyNewCoins(x, c, coinbase)
      PROVE  CacheInv' /\ Plain!Next
  BY Zenon, <1>3, ModifyNewCoinsStep DEF Plain!Next
<1>4. ASSUME NEW b \in BlockHash, SetBestBlock(b)
      PROVE  CacheInv' /\ Plain!Next
  BY Zenon, <1>4, SetBestBlockStep DEF Plain!Next
<1>5. CASE FlushView \/ DropView \/ FlushTip \/ Restart
  BY Zenon, <1>5, FlushViewStep, DropViewStep, FlushTipStep, RestartStep DEF Plain!Next
<1>6. CASE GetBestBlock
  BY Zenon, <1>6, GetBestBlockStep
<1>7. CASE UNCHANGED coinVars
  <2>1. UNCHANGED <<db, dbBest, tip, tipBest, view, viewBest>>
    BY Zenon, <1>7 DEF coinVars
  <2>2. TipCoins' = TipCoins /\ ViewCoins' = ViewCoins
    BY Zenon, <2>1, Seen, SeenNext
  <2>3. CacheFlagsHonest'
    BY Zenon, <2>1, <2>2 DEF CacheInv, CacheFlagsHonest, FlagsHonest
  <2>4. UNCHANGED Plain!viewVars
    BY Zenon, <2>1, <2>2 DEF Plain!viewVars, TipBlock, ViewBlock
  <2>5. CoinsTypeOK'
    BY Zenon, <2>1 DEF CacheInv, CoinsTypeOK
  <2> QED
    BY Zenon, <2>3, <2>4, <2>5 DEF CacheInv
<1> QED
  BY Zenon, <1>1, <1>2, <1>3, <1>4, <1>5, <1>6, <1>7 DEF CoinsNext

\* The inductive invariant holds in all reachable states.
LEMMA CacheInvariance == CoinsSpec => []CacheInv
<1>1. CacheInv /\ [CoinsNext]_coinVars => CacheInv'
  BY Zenon, CacheNext
<1> QED
  BY <1>1, CacheInit, PTL DEF CoinsSpec

\* The flags of pcoinsTip and of every view on top of it are honest
\* (CCoinsCacheEntry's comment on DIRTY and FRESH).
THEOREM CacheFlagsHonestAlways == CoinsSpec => []CacheFlagsHonest
<1>1. CacheInv => CacheFlagsHonest
  BY Zenon DEF CacheInv
<1> QED
  BY <1>1, CacheInvariance, PTL

\* BatchWrite's logic_error cannot happen.
THEOREM FlushNeverThrowsAlways == CoinsSpec => []FlushNeverThrows
<1>1. CacheInv => FlushNeverThrows
  <2> SUFFICES ASSUME CacheInv, NEW x \in Txid, view[x].DIRTY, view[x].FRESH, tip[x].cached
               PROVE  tip[x].coins = Pruned
    BY Zenon DEF FlushNeverThrows, FreshMisapplied
  <2>1. view[x].cached
    BY Zenon, Honest, NoEntryType
  <2> QED
    BY Zenon, <2>1, Honest, Seen
<1> QED
  BY <1>1, CacheInvariance, PTL

\* The three layers of CCoinsViewCache and CCoinsViewDB implement plain maps that
\* are committed, dropped, saved and restored as a whole.
THEOREM CachesImplementPlainMaps == CoinsSpec => ImplementsPlainMaps
<1>1. CoinsInit => Plain!Init
  BY Zenon, CacheInit
<1>2. CacheInv /\ [CoinsNext]_coinVars => [Plain!Next]_(Plain!viewVars)
  BY Zenon, CacheNext
<1> QED
  BY <1>1, <1>2, CacheInvariance, PTL DEF CoinsSpec, ImplementsPlainMaps, Plain!Spec

----------------------------------------------------------------------------
(* The chain of a block. *)

\* The genesis block makes no coins, so its chain is empty.
LEMMA ChainGenesis == Chain[Genesis] = {}
  <1>1. Genesis \in {Genesis} /\ ClosedDown({Genesis}) /\ {Genesis} \in SUBSET BlockHash
    BY Zenon, BlocksAssumption DEF BlocksAssumption, ClosedDown
  <1> QED BY <1>1, BlocksAssumption DEF BlocksAssumption, Chain

\* The chain of a block is the block and the chain of the one before.
LEMMA ChainStep ==
    ASSUME NEW b \in BlockHash \ {Genesis}
    PROVE  Chain[b] = {b} \cup Chain[pprev[b]]
  <1>0. pprev[b] \in BlockHash
    BY Zenon, BlocksAssumption DEF BlocksAssumption
  <1>1. ASSUME NEW a \in Chain[b], a # b
        PROVE  a \in Chain[pprev[b]]
    <2>1. a \in BlockHash \ {Genesis}
      BY Zenon, <1>1 DEF Chain
    <2>2. ASSUME NEW S \in SUBSET BlockHash, pprev[b] \in S, ClosedDown(S)
          PROVE  a \in S
      <3>1. ClosedDown(S \cup {b}) /\ S \cup {b} \in SUBSET BlockHash
        BY Zenon, <2>2 DEF ClosedDown
      <3>2. a \in S \cup {b}
        BY Zenon, <1>1, <3>1 DEF Chain
      <3> QED BY <1>1, <3>2
    <2> QED BY <1>0, <2>1, <2>2 DEF Chain
  <1>2. ASSUME NEW a \in Chain[pprev[b]]
        PROVE  a \in Chain[b]
    <2>1. a \in BlockHash \ {Genesis}
      BY Zenon, <1>0, <1>2 DEF Chain
    <2>2. ASSUME NEW S \in SUBSET BlockHash, b \in S, ClosedDown(S)
          PROVE  a \in S
      <3>1. pprev[b] \in S
        BY Zenon, <2>2 DEF ClosedDown
      <3> QED BY <1>0, <1>2, <2>2, <3>1 DEF Chain
    <2> QED BY <2>1, <2>2 DEF Chain
  <1>3. b \in Chain[b]
    BY Zenon DEF Chain
  <1> QED BY <1>1, <1>2, <1>3

\* Heights do not grow down a chain.
LEMMA ChainBelow ==
    ASSUME NEW b \in BlockHash, NEW a \in Chain[b]
    PROVE  a \in BlockHash \ {Genesis} /\ nHeight[a] <= nHeight[b]
  <1> DEFINE S == {d \in BlockHash : nHeight[d] <= nHeight[b]}
  <1>1. ClosedDown(S)
    <2> SUFFICES ASSUME NEW d \in S \ {Genesis} PROVE pprev[d] \in S
      BY Zenon DEF ClosedDown
    <2>1. pprev[d] \in BlockHash /\ nHeight[d] = nHeight[pprev[d]] + 1
      BY Zenon, BlocksAssumption DEF BlocksAssumption
    <2>2. nHeight[d] \in Nat /\ nHeight[pprev[d]] \in Nat /\ nHeight[b] \in Nat
      BY Zenon, <2>1, BlocksAssumption DEF BlocksAssumption
    <2> QED BY <2>1, <2>2
  <1>2. b \in S /\ S \in SUBSET BlockHash
    BY BlocksAssumption DEF BlocksAssumption
  <1>3. a \in BlockHash \ {Genesis} /\ a \in S
    BY Zenon, <1>1, <1>2 DEF Chain
  <1> QED BY <1>3

----------------------------------------------------------------------------
(* The coins of one transaction. *)

CoinsOf(x) ==
  {Pruned} \cup {CoinsWith(nHeight[b], IsCoinBase(x), outs) :
                   b \in BlockHash \ {Genesis}, outs \in SUBSET Txout(x)}

\* What CoinsWith makes of some outputs of a transaction.
LEMMA CoinsWithOf ==
    ASSUME NEW x \in Txid, NEW b \in BlockHash \ {Genesis}, NEW outs \in SUBSET Txout(x), outs # {}
    PROVE  LET c == CoinsWith(nHeight[b], IsCoinBase(x), outs)
           IN  /\ c # Pruned /\ c \in Coins /\ c \in CoinsOf(x)
               /\ c = [nHeight |-> nHeight[b], fCoinBase |-> IsCoinBase(x), vout |-> outs]
  <1> DEFINE c == [nHeight |-> nHeight[b], fCoinBase |-> IsCoinBase(x), vout |-> outs]
  <1>1. CoinsWith(nHeight[b], IsCoinBase(x), outs) = c
    BY Zenon DEF CoinsWith
  <1>2. outs \in (SUBSET Txout(x)) \ {{}}
    BY Zenon
  <1>3. c \in Coins /\ c # Pruned
    BY <1>2, CoinsAssumption, Zenon DEF CoinsAssumption
  <1>4. CoinsWith(nHeight[b], IsCoinBase(x), outs) \in CoinsOf(x)
    BY DEF CoinsOf
  <1> QED BY <1>1, <1>3, <1>4

\* Coins are pruned, or have the outputs of one block.
LEMMA CoinsOfCases ==
    ASSUME NEW x \in Txid, NEW c \in CoinsOf(x), c # Pruned
    PROVE  \E b \in BlockHash \ {Genesis}, outs \in SUBSET Txout(x) :
             /\ outs # {} /\ c \in Coins
             /\ c = [nHeight |-> nHeight[b], fCoinBase |-> IsCoinBase(x), vout |-> outs]
  <1>1. PICK b \in BlockHash \ {Genesis}, outs \in SUBSET Txout(x) :
          c = CoinsWith(nHeight[b], IsCoinBase(x), outs)
    BY DEF CoinsOf
  <1>2. outs # {}
    BY Zenon, <1>1 DEF CoinsWith
  <1> QED BY <1>1, <1>2, CoinsWithOf

\* The coins of a transaction are coins.
LEMMA CoinsOfType ==
    ASSUME NEW x \in Txid, NEW c \in CoinsOf(x)
    PROVE  c \in Coins
  BY Zenon, CoinsOfCases, PrunedAssumption DEF PrunedAssumption

\* Coins without some of their outputs.
Less(c, S) == IF c = Pruned THEN Pruned ELSE CoinsWith(c.nHeight, c.fCoinBase, c.vout \ S)

\* Taking outputs away leaves the others, with the height and the kind.
LEMMA LessType ==
    ASSUME NEW x \in Txid, NEW c \in CoinsOf(x), NEW S
    PROVE  /\ Less(c, S) \in CoinsOf(x)
           /\ \A out : IsAvailable(Less(c, S), out) <=> IsAvailable(c, out) /\ out \notin S
           /\ S = {} => Less(c, S) = c
  <1>1. CASE c = Pruned
    BY <1>1 DEF Less, CoinsOf, IsAvailable
  <1>2. CASE c # Pruned
    <2>1. PICK b \in BlockHash \ {Genesis}, outs \in SUBSET Txout(x) :
             /\ outs # {} /\ c \in Coins
             /\ c = [nHeight |-> nHeight[b], fCoinBase |-> IsCoinBase(x), vout |-> outs]
      BY Zenon, <1>2, CoinsOfCases
    <2>2. Less(c, S) = CoinsWith(nHeight[b], IsCoinBase(x), outs \ S)
      BY Zenon, <1>2, <2>1 DEF Less
    <2>3. CASE outs \ S = {}
      <3>1. Less(c, S) = Pruned
        BY Zenon, <2>2, <2>3 DEF CoinsWith
      <3> QED BY <1>2, <2>1, <2>3, <3>1 DEF CoinsOf, IsAvailable
    <2>4. CASE outs \ S # {}
      <3>1. /\ Less(c, S) # Pruned /\ Less(c, S) \in CoinsOf(x)
            /\ Less(c, S) = [nHeight |-> nHeight[b], fCoinBase |-> IsCoinBase(x), vout |-> outs \ S]
        BY <2>2, <2>4, CoinsWithOf
      <3> QED BY <1>2, <2>1, <3>1 DEF IsAvailable
    <2> QED BY <2>3, <2>4
  <1> QED BY <1>1, <1>2

\* What is left when outputs are taken away.
LEMMA LessAvailable ==
    ASSUME NEW x \in Txid, NEW c \in CoinsOf(x), NEW S, NEW out
    PROVE  IsAvailable(Less(c, S), out) <=> IsAvailable(c, out) /\ out \notin S
  BY Zenon, LessType

\* CoinsWith and taking away commute.
LEMMA WithLess ==
    ASSUME NEW x \in Txid, NEW b \in BlockHash \ {Genesis}, NEW outs \in SUBSET Txout(x), NEW S
    PROVE  Less(CoinsWith(nHeight[b], IsCoinBase(x), outs), S) =
             CoinsWith(nHeight[b], IsCoinBase(x), outs \ S)
  <1>1. CASE outs = {}
    BY Zenon, <1>1 DEF Less, CoinsWith
  <1>2. CASE outs # {}
    <2>1. /\ CoinsWith(nHeight[b], IsCoinBase(x), outs) # Pruned
          /\ CoinsWith(nHeight[b], IsCoinBase(x), outs) =
               [nHeight |-> nHeight[b], fCoinBase |-> IsCoinBase(x), vout |-> outs]
      BY Zenon, <1>2, CoinsWithOf
    <2> QED BY <2>1 DEF Less
  <1> QED BY <1>1, <1>2

\* Spending one more output (CCoins::Spend) takes away one more.
LEMMA LessLess ==
    ASSUME NEW x \in Txid, NEW c \in CoinsOf(x), NEW S, NEW out, IsAvailable(Less(c, S), out)
    PROVE  Spent(Less(c, S), out) = Less(c, S \cup {out})
  <1>1. c # Pruned /\ Less(c, S) # Pruned
    BY Zenon DEF IsAvailable, Less
  <1>2. PICK b \in BlockHash \ {Genesis}, outs \in SUBSET Txout(x) :
           /\ outs # {} /\ c \in Coins
           /\ c = [nHeight |-> nHeight[b], fCoinBase |-> IsCoinBase(x), vout |-> outs]
    BY Zenon, <1>1, CoinsOfCases
  <1>3. Less(c, S) = CoinsWith(nHeight[b], IsCoinBase(x), outs \ S) /\ outs \ S # {}
    BY Zenon, <1>1, <1>2 DEF Less, CoinsWith
  <1>4. Less(c, S) = [nHeight |-> nHeight[b], fCoinBase |-> IsCoinBase(x), vout |-> outs \ S]
    BY Zenon, <1>3 DEF CoinsWith
  <1>5. (outs \ S) \ {out} = outs \ (S \cup {out})
    BY Zenon
  <1>6. Spent(Less(c, S), out) = CoinsWith(nHeight[b], IsCoinBase(x), (outs \ S) \ {out})
    BY <1>4 DEF Spent
  <1>7. Less(c, S \cup {out}) = CoinsWith(nHeight[b], IsCoinBase(x), outs \ (S \cup {out}))
    BY Zenon, <1>1, <1>2 DEF Less
  <1> QED BY <1>5, <1>6, <1>7

\* What ApplyTxInUndo makes of the coins UpdateCoins leaves is what they were.
LEMMA UndoUndoes ==
    ASSUME NEW x \in Txid, NEW c \in CoinsOf(x), NEW out, IsAvailable(c, out)
    PROVE  /\ Restored(Spent(c, out), UndoOf(c, out)) = c
           /\ Clean(Spent(c, out), UndoOf(c, out), out)
  <1>1. c # Pruned /\ out \in c.vout
    BY Zenon DEF IsAvailable
  <1>2. PICK b \in BlockHash \ {Genesis}, outs \in SUBSET Txout(x) :
           /\ outs # {} /\ c \in Coins
           /\ c = [nHeight |-> nHeight[b], fCoinBase |-> IsCoinBase(x), vout |-> outs]
    BY Zenon, <1>1, CoinsOfCases
  <1>3. nHeight[b] # 0
    <2>1. pprev[b] \in BlockHash /\ nHeight[b] = nHeight[pprev[b]] + 1
      BY Zenon, BlocksAssumption DEF BlocksAssumption
    <2>2. nHeight[pprev[b]] \in Nat
      BY Zenon, <2>1, BlocksAssumption DEF BlocksAssumption
    <2> QED BY <2>1, <2>2
  <1>4. Spent(c, out) = CoinsWith(nHeight[b], IsCoinBase(x), outs \ {out})
    BY Zenon, <1>2 DEF Spent
  <1>5. CASE outs = {out}
    <2>1. Spent(c, out) = Pruned
      BY Zenon, <1>4, <1>5 DEF CoinsWith
    <2>2. UndoOf(c, out) = [txout |-> out, nHeight |-> nHeight[b], fCoinBase |-> IsCoinBase(x)]
      BY Zenon, <1>2, <1>5 DEF UndoOf
    <2>3. Restored(Spent(c, out), UndoOf(c, out)) = CoinsWith(nHeight[b], IsCoinBase(x), {out})
      BY <1>3, <2>2 DEF Restored
    <2>4. CoinsWith(nHeight[b], IsCoinBase(x), {out}) = c
      BY Zenon, <1>2, <1>5 DEF CoinsWith
    <2> QED BY <1>3, <2>1, <2>2, <2>3, <2>4 DEF Clean, IsAvailable
  <1>6. CASE outs # {out}
    <2>0. outs \ {out} # {} /\ outs \ {out} \in SUBSET Txout(x)
      BY Zenon, <1>1, <1>2, <1>6
    <2>1. /\ Spent(c, out) # Pruned
          /\ Spent(c, out) = [nHeight |-> nHeight[b], fCoinBase |-> IsCoinBase(x), vout |-> outs \ {out}]
      BY <1>4, <2>0, CoinsWithOf
    <2>2. UndoOf(c, out) = [txout |-> out, nHeight |-> 0, fCoinBase |-> FALSE]
      BY Zenon, <1>2, <1>6 DEF UndoOf
    <2>3. /\ Spent(c, out).nHeight = nHeight[b] /\ Spent(c, out).fCoinBase = IsCoinBase(x)
          /\ Spent(c, out).vout = outs \ {out}
          /\ UndoOf(c, out).nHeight = 0 /\ UndoOf(c, out).txout = out
      BY <2>1, <2>2
    <2>5. IsCoinBase(x) \in BOOLEAN
      BY Zenon DEF IsCoinBase
    <2>6. (Spent(c, out) # Pruned /\ Spent(c, out).fCoinBase) = IsCoinBase(x)
      BY Zenon, <2>1, <2>3, <2>5
    <2>4. Restored(Spent(c, out), UndoOf(c, out)) =
            CoinsWith(nHeight[b], IsCoinBase(x), {out} \cup (outs \ {out}))
      BY Zenon, <2>1, <2>3, <2>6 DEF Restored
    <2>7. {out} \cup (outs \ {out}) = outs
      BY Zenon, <1>1, <1>2
    <2>8. Restored(Spent(c, out), UndoOf(c, out)) = c
      BY Zenon, <1>2, <2>4, <2>7 DEF CoinsWith
    <2> QED BY <2>1, <2>3, <2>8 DEF Clean, IsAvailable
  <1> QED BY <1>5, <1>6

\* The unspent outputs of a transaction are coins of it.
LEMMA UnspentOf ==
    ASSUME NEW b \in BlockHash, NEW x \in Txid
    PROVE  Unspent[b][x] \in CoinsOf(x)
  <1>1. CASE LatestMaker(b, x) = {}
    BY <1>1 DEF Unspent, CoinsOf
  <1>2. CASE LatestMaker(b, x) # {}
    <2> DEFINE a == CHOOSE a \in LatestMaker(b, x) : TRUE
    <2>1. a \in LatestMaker(b, x)
      BY Zenon, <1>2
    <2>2. a \in BlockHash \ {Genesis}
      BY Zenon, <2>1, ChainBelow DEF LatestMaker
    <2>3. Unspent[b][x] = CoinsWith(nHeight[a], IsCoinBase(x), {out \in Txout(x) : ~SpentSince(b, a, out)})
      BY Zenon, <1>2 DEF Unspent
    <2> HIDE DEF a
    <2> QED BY <2>2, <2>3 DEF CoinsOf
  <1> QED BY <1>1, <1>2

----------------------------------------------------------------------------
(* The coins in the middle of a block. *)

\* The transactions of a block (CheckBlock).
LEMMA TxFacts ==
    ASSUME NEW b \in BlockHash
    PROVE  /\ Txs(b) \in Nat /\ DOMAIN vtx[b] = 1..Txs(b)
           /\ \A i \in 1..Txs(b) : vtx[b][i] \in Txid
  BY TransactionsAssumption DEF TransactionsAssumption, Txs

\* The inputs of a transaction (CheckTransaction).
LEMMA InFacts ==
    ASSUME NEW x \in Txid
    PROVE  /\ Len(vin[x]) \in Nat /\ DOMAIN vin[x] = 1..Len(vin[x])
           /\ \A j \in 1..Len(vin[x]) : vin[x][j] \in Txid \X Nat /\ vin[x][j][1] \in Txid
  <1>1. vin[x] \in Seq(Txid \X Nat)
    BY Zenon, TransactionsAssumption DEF TransactionsAssumption
  <1>2. \A j \in 1..Len(vin[x]) : vin[x][j] \in Txid \X Nat
    BY <1>1
  <1> QED BY <1>1, <1>2

\* What the outputs would be but for the inputs of the block.
Base(b, n, x) ==
  IF \E k \in 1..n : vtx[b][k] = x THEN FromTx(x, nHeight[b]) ELSE Unspent[pprev[b]][x]

SpentBy(b, n, m, out) == \/ \E k \in 1..n : SpendsIn(b, k, out)
                         \/ \E j \in 1..m : vin[vtx[b][n + 1]][j] = out

SpentSet(b, n, m) == {out \in Txid \X Nat : SpentBy(b, n, m, out)}

\* The coins when n transactions are applied and m inputs of the next one spent.
Mid(b, n, m) == [x \in Txid |-> Less(Base(b, n, x), SpentSet(b, n, m))]

\* The coins of a transaction before anything is spent are coins of it.
LEMMA BaseOf ==
    ASSUME NEW b \in BlockHash \ {Genesis}, NEW n, NEW x \in Txid
    PROVE  Base(b, n, x) \in CoinsOf(x)
  <1>1. pprev[b] \in BlockHash
    BY Zenon, BlocksAssumption DEF BlocksAssumption
  <1>2. Unspent[pprev[b]][x] \in CoinsOf(x)
    BY Zenon, <1>1, UnspentOf
  <1>3. FromTx(x, nHeight[b]) \in CoinsOf(x)
    BY DEF FromTx, CoinsOf
  <1> QED BY <1>2, <1>3 DEF Base

\* So are they in the middle of a block.
LEMMA MidOf ==
    ASSUME NEW b \in BlockHash \ {Genesis}, NEW n, NEW m, NEW x \in Txid
    PROVE  Mid(b, n, m)[x] \in CoinsOf(x) /\ Mid(b, n, m)[x] \in Coins
  <1>1. Mid(b, n, m)[x] \in CoinsOf(x)
    BY Zenon, BaseOf, LessType DEF Mid
  <1> QED BY <1>1, CoinsOfType

\* An output is there in the middle of a block unless it was spent so far.
LEMMA MidAvailable ==
    ASSUME NEW b \in BlockHash \ {Genesis}, NEW n, NEW m, NEW y \in Txid, NEW o
    PROVE  IsAvailable(Mid(b, n, m)[y], o) <=>
             IsAvailable(Base(b, n, y), o) /\ o \notin SpentSet(b, n, m)
  <1>1. Mid(b, n, m)[y] = Less(Base(b, n, y), SpentSet(b, n, m))
    BY Zenon DEF Mid
  <1>2. Base(b, n, y) \in CoinsOf(y)
    BY Zenon, BaseOf
  <1> QED BY <1>1, <1>2, LessAvailable

\* A transaction has only its own outputs.
LEMMA OnlyOwn ==
    ASSUME NEW x \in Txid, NEW c \in CoinsOf(x), NEW out, IsAvailable(c, out)
    PROVE  out \in Txout(x) /\ out[1] = x
  <1>1. PICK b \in BlockHash \ {Genesis}, outs \in SUBSET Txout(x) :
           c = [nHeight |-> nHeight[b], fCoinBase |-> IsCoinBase(x), vout |-> outs]
    BY Zenon, CoinsOfCases DEF IsAvailable
  <1>2. out \in Txout(x)
    BY Zenon, <1>1 DEF IsAvailable
  <1>3. PICK n \in vout[x] : out = <<x, n>>
    BY Zenon, <1>2 DEF Txout
  <1> QED BY <1>2, <1>3

\* Taking away what is not there changes nothing.
LEMMA LessSame ==
    ASSUME NEW x \in Txid, NEW c \in CoinsOf(x), NEW S, NEW out, ~IsAvailable(c, out)
    PROVE  Less(c, S \cup {out}) = Less(c, S)
  <1>1. CASE c = Pruned
    BY Zenon, <1>1 DEF Less
  <1>2. CASE c # Pruned
    <2>1. c.vout \ (S \cup {out}) = c.vout \ S
      BY Zenon, <1>2 DEF IsAvailable
    <2> QED BY <1>2, <2>1 DEF Less
  <1> QED BY <1>1, <1>2

\* Nothing is spent at the start of a block.
LEMMA SpentNone ==
    ASSUME NEW b
    PROVE  SpentSet(b, 0, 0) = {}
  BY DEF SpentSet, SpentBy

\* One more input spends one more output.
LEMMA SpentNext ==
    ASSUME NEW b \in BlockHash, NEW n \in Nat, n < Txs(b),
           NEW m \in Nat, m < Len(vin[vtx[b][n + 1]])
    PROVE  /\ vin[vtx[b][n + 1]][m + 1] \in Txid \X Nat
           /\ vin[vtx[b][n + 1]][m + 1][1] \in Txid
           /\ SpentSet(b, n, m + 1) = SpentSet(b, n, m) \cup {vin[vtx[b][n + 1]][m + 1]}
  <1> DEFINE x == vtx[b][n + 1]
             out == vin[x][m + 1]
  <1>1. x \in Txid
    BY TxFacts
  <1>2. out \in Txid \X Nat /\ out[1] \in Txid
    BY <1>1, InFacts
  <1>3. \A o : (\E j \in 1..(m + 1) : vin[x][j] = o) <=> (\E j \in 1..m : vin[x][j] = o) \/ o = out
    OBVIOUS
  <1>4. \A o : SpentBy(b, n, m + 1, o) <=> SpentBy(b, n, m, o) \/ o = out
    BY <1>3, Zenon DEF SpentBy
  <1> HIDE DEF x, out
  <1>5. SpentSet(b, n, m + 1) = SpentSet(b, n, m) \cup {out}
    BY Zenon, <1>2, <1>4 DEF SpentSet
  <1> USE DEF x, out
  <1> QED BY <1>2, <1>5

\* A transaction that is done has spent all its inputs.
LEMMA SpentTx ==
    ASSUME NEW b \in BlockHash, NEW n \in Nat, n < Txs(b)
    PROVE  SpentSet(b, n + 1, 0) = SpentSet(b, n, Len(vin[vtx[b][n + 1]]))
  <1>1. vtx[b][n + 1] \in Txid
    BY TxFacts
  <1>2. DOMAIN vin[vtx[b][n + 1]] = 1..Len(vin[vtx[b][n + 1]])
    BY Zenon, <1>1, InFacts
  <1>3. \A o : (\E k \in 1..(n + 1) : SpendsIn(b, k, o)) <=>
               (\E k \in 1..n : SpendsIn(b, k, o)) \/ SpendsIn(b, n + 1, o)
    OBVIOUS
  <1>4. \A o : SpendsIn(b, n + 1, o) <=> \E j \in 1..Len(vin[vtx[b][n + 1]]) : vin[vtx[b][n + 1]][j] = o
    BY Zenon, <1>2 DEF SpendsIn
  <1>5. \A o : SpentBy(b, n + 1, 0, o) <=> SpentBy(b, n, Len(vin[vtx[b][n + 1]]), o)
    <2>1. 1..0 = {}
      OBVIOUS
    <2> QED BY <1>3, <1>4, <2>1, Zenon DEF SpentBy
  <1> QED BY <1>5 DEF SpentSet

\* The output the next input spends, and the coins it is among.
NextIn(b, n, m) == vin[vtx[b][n + 1]][m + 1]

NextCoins(b, n, m) == Mid(b, n, m)[NextIn(b, n, m)[1]]

\* UpdateCoins on one input: the coins of that transaction lose one output, no others change.
LEMMA MidSpent ==
    ASSUME NEW b \in BlockHash \ {Genesis}, NEW n \in Nat, n < Txs(b),
           NEW m \in Nat, m < Len(vin[vtx[b][n + 1]]),
           IsAvailable(NextCoins(b, n, m), NextIn(b, n, m))
    PROVE  /\ NextIn(b, n, m)[1] \in Txid
           /\ Mid(b, n, m + 1)[NextIn(b, n, m)[1]] = Spent(NextCoins(b, n, m), NextIn(b, n, m))
           /\ \A y \in Txid : y # NextIn(b, n, m)[1] => Mid(b, n, m + 1)[y] = Mid(b, n, m)[y]
  <1> DEFINE out == NextIn(b, n, m)
  <1>1. out[1] \in Txid /\ SpentSet(b, n, m + 1) = SpentSet(b, n, m) \cup {out}
    BY SpentNext, ZenonT(40) DEF NextIn
  <1>0. IsAvailable(Mid(b, n, m)[out[1]], out)
    BY Zenon DEF NextCoins
  <1> HIDE DEF out
  <1>2. Mid(b, n, m + 1)[out[1]] = Spent(Mid(b, n, m)[out[1]], out)
    <2> DEFINE c == Base(b, n, out[1])
               S == SpentSet(b, n, m)
    <2>1. c \in CoinsOf(out[1])
      BY Zenon, <1>1, BaseOf
    <2>2. Mid(b, n, m)[out[1]] = Less(c, S) /\ Mid(b, n, m + 1)[out[1]] = Less(c, S \cup {out})
      BY <1>1, Zenon DEF Mid
    <2> HIDE DEF c, S
    <2>3. Spent(Less(c, S), out) = Less(c, S \cup {out})
      BY <1>0, <1>1, <2>1, <2>2, LessLess
    <2> QED BY <2>2, <2>3
  <1>3. ASSUME NEW y \in Txid, y # out[1]
        PROVE  Mid(b, n, m + 1)[y] = Mid(b, n, m)[y]
    <2>1. Base(b, n, y) \in CoinsOf(y)
      BY Zenon, BaseOf
    <2>2. ~IsAvailable(Base(b, n, y), out)
      BY Zenon, <1>3, <2>1, OnlyOwn
    <2> QED BY <1>1, <2>1, <2>2, LessSame DEF Mid
  <1> QED BY <1>1, <1>2, <1>3, Zenon DEF out, NextCoins

\* One write takes the coins from one point of the block to another.
LEMMA MidWritten ==
    ASSUME NEW b, NEW n, NEW m, NEW k, NEW l, NEW x \in Txid, NEW c, NEW f, NEW g,
           f = Mid(b, n, m), g = [f EXCEPT ![x] = c], Mid(b, k, l)[x] = c,
           \A y \in Txid : y # x => Mid(b, k, l)[y] = Mid(b, n, m)[y]
    PROVE  g = Mid(b, k, l)
  BY Zenon DEF Mid

\* At the start of a block the coins are those of the block before.
LEMMA MidStart ==
    ASSUME NEW b \in BlockHash \ {Genesis}
    PROVE  Mid(b, 0, 0) = Unspent[pprev[b]]
  <1>1. pprev[b] \in BlockHash
    BY Zenon, BlocksAssumption DEF BlocksAssumption
  <1>2. ASSUME NEW x \in Txid PROVE Mid(b, 0, 0)[x] = Unspent[pprev[b]][x]
    <2>1. Base(b, 0, x) = Unspent[pprev[b]][x]
      BY DEF Base
    <2> QED BY <2>1, BaseOf, LessType, SpentNone DEF Mid
  <1> QED BY <1>1, <1>2, Zenon DEF Mid, Unspent

\* The first n transactions of a block are new, and find their inputs.
AllNew(b) == \A i \in 1..Txs(b) : IsNew(b, i)

InputsValid(b, n) == \A i \in 1..n : \A j \in 1..Len(vin[vtx[b][i]]) : InputValid(b, i, j)

\* A block is valid if nothing is wrong with its scripts, transactions and inputs.
LEMMA ValidBlockFacts ==
    ASSUME NEW b \in BlockHash
    PROVE  IsValidBlock(b) <=> b \notin BadScripts /\ AllNew(b) /\ InputsValid(b, Txs(b))
  <1>1. DOMAIN vtx[b] = 1..Txs(b) /\ \A i \in 1..Txs(b) : DOMAIN vin[vtx[b][i]] = 1..Len(vin[vtx[b][i]])
    BY Zenon, TxFacts, InFacts
  <1> QED BY <1>1, Zenon DEF IsValidBlock, AllNew, InputsValid

\* The outputs FromTx makes.
LEMMA FromTxOutputs ==
    ASSUME NEW x \in Txid, NEW b \in BlockHash \ {Genesis}, NEW out
    PROVE  IsAvailable(FromTx(x, nHeight[b]), out) <=> out \in Txout(x)
  <1>1. CASE Txout(x) = {}
    BY Zenon, <1>1 DEF FromTx, CoinsWith, IsAvailable
  <1>2. CASE Txout(x) # {}
    <2>1. FromTx(x, nHeight[b]) = CoinsWith(nHeight[b], IsCoinBase(x), Txout(x))
      BY Zenon DEF FromTx
    <2>2. Txout(x) \in SUBSET Txout(x)
      BY Zenon
    <2>3. /\ FromTx(x, nHeight[b]) # Pruned
          /\ FromTx(x, nHeight[b]) = [nHeight |-> nHeight[b], fCoinBase |-> IsCoinBase(x), vout |-> Txout(x)]
      BY <1>2, <2>1, <2>2, CoinsWithOf, Zenon
    <2> QED BY <2>3 DEF IsAvailable
  <1> QED BY <1>1, <1>2

\* HaveInputs on the coins so far is the rule on the whole block.
LEMMA AvailableIsValid ==
    ASSUME NEW b \in BlockHash \ {Genesis}, AllNew(b), NEW n \in Nat, n < Txs(b),
           NEW j \in 1..Len(vin[vtx[b][n + 1]]),
           NEW out, out = vin[vtx[b][n + 1]][j]
    PROVE  /\ out[1] \in Txid
           /\ InputValid(b, n + 1, j) <=> IsAvailable(Mid(b, n, 0)[out[1]], out)
  <1>1. out \in Txid \X Nat /\ out[1] \in Txid
    BY TxFacts, InFacts
  <1>2. (n + 1) - 1 = n /\ 1..0 = {}
    OBVIOUS
  <1>3. out \in SpentSet(b, n, 0) <=> \E k \in 1..n : SpendsIn(b, k, out)
    BY <1>1, <1>2, Zenon DEF SpentSet, SpentBy
  <1>4. IsAvailable(Mid(b, n, 0)[out[1]], out) <=>
          IsAvailable(Base(b, n, out[1]), out) /\ out \notin SpentSet(b, n, 0)
    BY <1>1, BaseOf, LessType DEF Mid
  <1>5. IsAvailable(Base(b, n, out[1]), out) <=>
          \/ IsAvailable(Unspent[pprev[b]][out[1]], out)
          \/ \E k \in 1..n : vtx[b][k] = out[1] /\ out \in Txout(out[1])
    <2>1. CASE \E k \in 1..n : vtx[b][k] = out[1]
      <3>a. PICK k \in 1..n : vtx[b][k] = out[1]
        BY <2>1, Zenon
      <3>b. k \in 1..Txs(b)
        BY TxFacts
      <3>1. Unspent[pprev[b]][out[1]] = Pruned
        BY <3>a, <3>b, Zenon DEF AllNew, IsNew
      <3>2. ~IsAvailable(Unspent[pprev[b]][out[1]], out)
        BY Zenon, <3>1 DEF IsAvailable
      <3>3. Base(b, n, out[1]) = FromTx(out[1], nHeight[b])
        BY Zenon, <2>1 DEF Base
      <3>4. IsAvailable(FromTx(out[1], nHeight[b]), out) <=> out \in Txout(out[1])
        BY <1>1, FromTxOutputs, Zenon
      <3> QED BY <2>1, <3>2, <3>3, <3>4, Zenon
    <2>2. CASE ~\E k \in 1..n : vtx[b][k] = out[1]
      BY <2>2, Zenon DEF Base
    <2> QED BY <2>1, <2>2, Zenon
  <1>6. InputValid(b, n + 1, j) <=>
          /\ \/ IsAvailable(Unspent[pprev[b]][out[1]], out)
             \/ \E k \in 1..n : vtx[b][k] = out[1] /\ out \in Txout(out[1])
          /\ \A k \in 1..n : ~SpendsIn(b, k, out)
    BY <1>2, Zenon DEF InputValid
  <1> QED BY <1>1, <1>3, <1>4, <1>5, <1>6, Zenon

\* No output of a block is spent before it is made, and no transaction comes twice.
LEMMA MakesOnce ==
    ASSUME NEW b \in BlockHash \ {Genesis}, AllNew(b), NEW n \in Nat, n < Txs(b),
           InputsValid(b, n + 1)
    PROVE  /\ \A k \in 1..n : vtx[b][k] # vtx[b][n + 1]
           /\ \A out \in SpentSet(b, n + 1, 0) : out[1] # vtx[b][n + 1]
  <1> DEFINE x == vtx[b][n + 1]
  <1>0. x \in Txid /\ Len(vin[x]) \in Nat /\ DOMAIN vin[x] = 1..Len(vin[x])
    BY TxFacts, InFacts
  <1>1. ASSUME NEW k \in 1..n, vtx[b][k] = x PROVE FALSE
    <2>1. n + 1 \in DOMAIN vtx[b] /\ n + 1 > 1
      BY TxFacts
    <2>2. vin[x] # <<>> /\ vin[x] \in Seq(Txid \X Nat)
      BY Zenon, <1>0, <2>1, TransactionsAssumption DEF TransactionsAssumption
    <2>3. 1 \in 1..Len(vin[x])
      BY <2>2
    <2>4. InputValid(b, n + 1, 1)
      BY <2>3 DEF InputsValid
    <2>5. k \in 1..((n + 1) - 1)
      OBVIOUS
    <2>6. ~SpendsIn(b, k, vin[x][1])
      BY <2>4, <2>5, Zenon DEF InputValid
    <2> QED BY <1>0, <1>1, <2>3, <2>6, Zenon DEF SpendsIn
  <1>2. ASSUME NEW out \in SpentSet(b, n + 1, 0), out[1] = x PROVE FALSE
    <2>1. PICK k \in 1..(n + 1) : SpendsIn(b, k, out)
      BY <1>2 DEF SpentSet, SpentBy
    <2>2. vtx[b][k] \in Txid
      BY TxFacts
    <2>3. PICK j \in 1..Len(vin[vtx[b][k]]) : vin[vtx[b][k]][j] = out
      BY Zenon, <2>1, <2>2, InFacts DEF SpendsIn
    <2>4. InputValid(b, k, j)
      BY Zenon, <2>3 DEF InputsValid
    <2>5. n + 1 \in 1..Txs(b)
      BY TxFacts
    <2>6. Unspent[pprev[b]][x] = Pruned
      BY Zenon, <2>5 DEF AllNew, IsNew
    <2>7. ~IsAvailable(Unspent[pprev[b]][out[1]], out)
      BY Zenon, <1>2, <2>6 DEF IsAvailable
    <2>8. PICK l \in 1..(k - 1) : vtx[b][l] = x
      BY Zenon, <1>2, <2>3, <2>4, <2>7 DEF InputValid
    <2>9. l \in 1..n
      OBVIOUS
    <2> QED BY <1>1, <2>8, <2>9
  <1> QED BY <1>1, <1>2

\* Making the outputs of a transaction.
LEMMA MidMade ==
    ASSUME NEW b \in BlockHash \ {Genesis}, AllNew(b), NEW n \in Nat, n < Txs(b),
           InputsValid(b, n + 1), NEW x, x = vtx[b][n + 1]
    PROVE  /\ x \in Txid
           /\ Mid(b, n, Len(vin[x]))[x] = Pruned
           /\ Mid(b, n + 1, 0)[x] = FromTx(x, nHeight[b])
           /\ \A y \in Txid : y # x => Mid(b, n + 1, 0)[y] = Mid(b, n, Len(vin[x]))[y]
  <1>0. x \in Txid /\ n + 1 \in 1..Txs(b)
    BY TxFacts
  <1>1. SpentSet(b, n + 1, 0) = SpentSet(b, n, Len(vin[x]))
    BY Zenon, SpentTx
  <1>2. Base(b, n, x) = Pruned
    <2>1. \A k \in 1..n : vtx[b][k] # x
      BY Zenon, MakesOnce
    <2>2. Unspent[pprev[b]][x] = Pruned
      BY Zenon, <1>0 DEF AllNew, IsNew
    <2> QED BY <2>1, <2>2, Zenon DEF Base
  <1>3. Base(b, n + 1, x) = FromTx(x, nHeight[b])
    BY <1>0 DEF Base
  <1>4. Mid(b, n, Len(vin[x]))[x] = Pruned
    BY <1>0, <1>2, Zenon DEF Mid, Less
  <1>5. Mid(b, n + 1, 0)[x] = FromTx(x, nHeight[b])
    <2> DEFINE S == SpentSet(b, n + 1, 0)
    <2>1. Mid(b, n + 1, 0)[x] = Less(FromTx(x, nHeight[b]), S)
      BY <1>0, <1>3, Zenon DEF Mid
    <2>2. CASE Txout(x) = {}
      BY Zenon, <2>1, <2>2 DEF FromTx, CoinsWith, Less
    <2>3. CASE Txout(x) # {}
      <3>1. /\ FromTx(x, nHeight[b]) # Pruned
            /\ FromTx(x, nHeight[b]) = [nHeight |-> nHeight[b], fCoinBase |-> IsCoinBase(x), vout |-> Txout(x)]
        BY Zenon, <1>0, <2>3, CoinsWithOf DEF FromTx
      <3>2. \A out \in Txout(x) : out[1] = x
        BY DEF Txout
      <3>3. \A out \in S : out[1] # x
        BY Zenon, MakesOnce
      <3> HIDE DEF S
      <3>4. Txout(x) \ S = Txout(x)
        BY Zenon, <3>2, <3>3
      <3>5. Less(FromTx(x, nHeight[b]), S) = CoinsWith(nHeight[b], IsCoinBase(x), Txout(x) \ S)
        BY <3>1 DEF Less
      <3> QED BY <2>1, <3>4, <3>5 DEF FromTx
    <2> QED BY <2>2, <2>3
  <1>6. ASSUME NEW y \in Txid, y # x PROVE Mid(b, n + 1, 0)[y] = Mid(b, n, Len(vin[x]))[y]
    <2>1. (\E k \in 1..(n + 1) : vtx[b][k] = y) <=> (\E k \in 1..n : vtx[b][k] = y)
      BY <1>6
    <2>2. Base(b, n + 1, y) = Base(b, n, y)
      BY <2>1, Zenon DEF Base
    <2> QED BY <1>1, <2>2, Zenon DEF Mid
  <1> QED BY <1>0, <1>4, <1>5, <1>6

\* A block by what it makes and spends.
LEMMA CreatesFacts ==
    ASSUME NEW b \in BlockHash, NEW x
    PROVE  Creates(b, x) <=> \E k \in 1..Txs(b) : vtx[b][k] = x
  BY TxFacts, Zenon DEF Creates

\* When all transactions are applied, the coins are those of the block.
LEMMA MidEnd ==
    ASSUME NEW b \in BlockHash \ {Genesis}
    PROVE  Mid(b, Txs(b), 0) = Unspent[b]
  <1> DEFINE p == pprev[b]
             n == Txs(b)
             S == SpentSet(b, n, 0)
             Spends(d, out) == \E i \in DOMAIN vtx[d] : SpendsIn(d, i, out)
  <1>0. p \in BlockHash /\ nHeight[b] = nHeight[p] + 1 /\ nHeight[b] \in Nat /\ nHeight[p] \in Nat
    BY Zenon, BlocksAssumption DEF BlocksAssumption
  <1>1. Chain[b] = {b} \cup Chain[p]
    BY Zenon, ChainStep
  <1>2. \A d \in Chain[p] : nHeight[d] <= nHeight[p] /\ nHeight[d] \in Nat
    BY Zenon, <1>0, ChainBelow, BlocksAssumption DEF BlocksAssumption
  <1>3. /\ nHeight[b] <= nHeight[b] /\ nHeight[b] >= nHeight[b]
        /\ \A d \in Chain[p] : /\ nHeight[d] <= nHeight[b] /\ ~(nHeight[b] <= nHeight[d])
                               /\ nHeight[b] >= nHeight[d] /\ ~(nHeight[d] >= nHeight[b])
    BY <1>0, <1>2
  <1>4. \A out \in Txid \X Nat : out \in S <=> Spends(b, out)
    <2>1. 1..0 = {} /\ DOMAIN vtx[b] = 1..n
      BY TxFacts
    <2> QED BY <2>1, Zenon DEF SpentSet, SpentBy
  <1>6. \A x \in Txid : Mid(b, n, 0)[x] = Less(Base(b, n, x), S)
    BY Zenon DEF Mid
  <1> HIDE DEF S
  <1>5. ASSUME NEW x \in Txid PROVE Mid(b, n, 0)[x] = Unspent[b][x]
    <2>0. Txout(x) \subseteq Txid \X Nat
      BY TransactionsAssumption DEF TransactionsAssumption, Txout
    <2>1. CASE Creates(b, x)
      <3>1. LatestMaker(b, x) = {b}
        <4>1. b \in LatestMaker(b, x)
          BY <1>1, <1>3, <2>1, Zenon DEF LatestMaker
        <4>2. \A a \in LatestMaker(b, x) : a = b
          BY <1>1, <1>3, <2>1, Zenon DEF LatestMaker
        <4> QED BY <4>1, <4>2, Zenon
      <3>2. \A out : SpentSince(b, b, out) <=> Spends(b, out)
        BY <1>1, <1>3, Zenon DEF SpentSince
      <3>3. Unspent[b][x] = CoinsWith(nHeight[b], IsCoinBase(x), {out \in Txout(x) : ~SpentSince(b, b, out)})
        BY Zenon, <3>1 DEF Unspent
      <3>4. {out \in Txout(x) : ~SpentSince(b, b, out)} = Txout(x) \ S
        BY Zenon, <1>4, <2>0, <3>2
      <3>5. Base(b, n, x) = FromTx(x, nHeight[b])
        BY <2>1, CreatesFacts, Zenon DEF Base
      <3>6. Less(FromTx(x, nHeight[b]), S) =
              CoinsWith(nHeight[b], IsCoinBase(x), Txout(x) \ S)
        <4>1. Txout(x) \in SUBSET Txout(x)
          BY Zenon
        <4> QED BY <4>1, WithLess DEF FromTx
      <3> QED BY <3>3, <3>4, <3>5, <3>6, <1>6
    <2>2. CASE ~Creates(b, x)
      <3>1. LatestMaker(b, x) = LatestMaker(p, x)
        BY Zenon, <1>1, <2>2 DEF LatestMaker
      <3>2. Base(b, n, x) = Unspent[p][x]
        BY <2>2, CreatesFacts, Zenon DEF Base
      <3>3. CASE LatestMaker(p, x) = {}
        <4>1. Unspent[b][x] = Pruned /\ Unspent[p][x] = Pruned
          BY Zenon, <1>0, <3>1, <3>3 DEF Unspent
        <4> QED BY <3>2, <4>1, <1>6, Zenon DEF Less
      <3>4. CASE LatestMaker(p, x) # {}
        <4> DEFINE a == CHOOSE a \in LatestMaker(p, x) : TRUE
                   outs == {out \in Txout(x) : ~SpentSince(p, a, out)}
        <4>1. a \in LatestMaker(p, x)
          BY Zenon, <3>4
        <4>2. a \in Chain[p] /\ a \in BlockHash \ {Genesis}
          BY Zenon, <1>0, <4>1, ChainBelow DEF LatestMaker
        <4>3. /\ Unspent[p][x] = CoinsWith(nHeight[a], IsCoinBase(x), outs)
              /\ Unspent[b][x] = CoinsWith(nHeight[a], IsCoinBase(x), {out \in Txout(x) : ~SpentSince(b, a, out)})
          BY Zenon, <1>0, <3>1, <3>4 DEF Unspent
        <4> HIDE DEF a
        <4>4. \A out : SpentSince(b, a, out) <=> SpentSince(p, a, out) \/ Spends(b, out)
          <5>1. nHeight[b] >= nHeight[a]
            BY <1>3, <4>2, Zenon
          <5> QED BY <1>1, <5>1, Zenon DEF SpentSince
        <4>5. {out \in Txout(x) : ~SpentSince(b, a, out)} = outs \ S
          BY Zenon, <1>4, <2>0, <4>4
        <4>6. Less(CoinsWith(nHeight[a], IsCoinBase(x), outs), S) =
                CoinsWith(nHeight[a], IsCoinBase(x), outs \ S)
          <5>1. outs \in SUBSET Txout(x)
            BY Zenon
          <5> HIDE DEF outs
          <5>2. a \in BlockHash \ {Genesis}
            BY <4>2, Zenon
          <5>3. \A o1 \in SUBSET Txout(x) : \A T :
                  Less(CoinsWith(nHeight[a], IsCoinBase(x), o1), T) =
                    CoinsWith(nHeight[a], IsCoinBase(x), o1 \ T)
            BY Zenon, <1>5, <5>2, WithLess
          <5> QED BY <5>1, <5>3
        <4> QED BY <3>2, <4>3, <4>5, <4>6, <1>6
      <3> QED BY <3>3, <3>4
    <2> QED BY <2>1, <2>2
  <1> QED BY <1>5, Zenon DEF Mid, Unspent

----------------------------------------------------------------------------
(* Undo data, from the blocks alone. *)

UndoAt(b, i, j) ==
  UndoOf(Mid(b, i - 1, j - 1)[vin[vtx[b][i]][j][1]], vin[vtx[b][i]][j])

\* CTxUndo of the first m inputs, CBlockUndo of the first n transactions.
TxUndo(b, i, m) == [j \in 1..m |-> UndoAt(b, i, j)]

BlockUndo(b, n) == [i \in 1..n |-> TxUndo(b, i, Len(vin[vtx[b][i]]))]

UndoRight(u) == \A b \in DOMAIN u : b \in ValidBlock /\ u[b] = BlockUndo(b, Txs(b))

----------------------------------------------------------------------------
(* The invariant. *)

\* Where a block is in between: n transactions applied, m inputs of the next one spent.
Within(b, n, m) ==
  /\ n \in 0..Txs(b) /\ m \in Nat
  /\ IF n < Txs(b) THEN m <= Len(vin[vtx[b][n + 1]]) ELSE m = 0

\* What ConnectBlock has found out with u transactions tested against BIP30 and h
\* inputs of the next transaction for availability.
Found(b, u, n, h, m) ==
  /\ Within(b, n, h) /\ Within(b, n, m)
  /\ u \in 0..Txs(b) /\ \A i \in 1..u : IsNew(b, i)
  /\ u < Txs(b) => n = 0 /\ h = 0
  /\ m = 0 \/ (n < Txs(b) /\ h = Len(vin[vtx[b][n + 1]]))
  /\ InputsValid(b, n) /\ \A j \in 1..h : InputValid(b, n + 1, j)

\* The layers and the block index agree with the blocks.
Ledger ==
  /\ TipCoins = Unspent[TipBlock] /\ db = Unspent[dbBest]
  /\ Chain[TipBlock] \subseteq ValidBlock \cap DOMAIN undo
  /\ Chain[dbBest] \subseteq ValidBlock \cap DOMAIN saved.undo
  /\ DOMAIN saved.undo \subseteq DOMAIN undo /\ DOMAIN undo \ dirty \subseteq DOMAIN saved.undo
  /\ UndoRight(undo) /\ UndoRight(saved.undo)
  /\ failed \cap ValidBlock = {} /\ saved.failed \cap ValidBlock = {}

JobFields ==
  {"kind", "block", "unique", "have", "done", "spent", "txundo", "blockundo", "ok"}

Job(j, k, b, u, h, n, m, t, bu, ok) ==
  /\ DOMAIN j = JobFields
  /\ j.kind = k /\ j.block = b /\ j.unique = u /\ j.have = h /\ j.done = n /\ j.spent = m
  /\ j.txundo = t /\ j.blockundo = bu /\ j.ok = ok

IsJob ==
  /\ job.kind \in {"connect", "test", "disconnect", "connected", "disconnected", "applied"}
  /\ DOMAIN job = JobFields
  /\ job.block \in BlockHash

IdleInv ==
  /\ job = NoJob
  /\ ViewCoins = TipCoins /\ ViewBlock = TipBlock
  /\ status = "running" => chainTip = TipBlock

ConnectInv ==
  /\ IsJob /\ job.block # Genesis /\ pprev[job.block] = TipBlock
  /\ job.ok \in BOOLEAN /\ (~job.ok => ~IsValidBlock(job.block))
  /\ job.ok =>
       /\ Found(job.block, job.unique, job.done, job.have, job.spent)
       /\ ViewCoins = Mid(job.block, job.done, job.spent)
       /\ job.blockundo = BlockUndo(job.block, job.done)
       /\ job.txundo = TxUndo(job.block, job.done + 1, job.spent)

DisconnectInv ==
  /\ IsJob /\ job.block \in ValidBlock /\ job.block = TipBlock /\ job.ok = TRUE
  /\ Within(job.block, job.done, job.spent)
  /\ ViewCoins = Mid(job.block, job.done, job.spent)
  /\ job.blockundo = BlockUndo(job.block, Txs(job.block))

ConnectedInv ==
  /\ IsJob /\ job.block \in ValidBlock \cap DOMAIN undo /\ pprev[job.block] = TipBlock
  /\ ViewCoins = Unspent[job.block] /\ ViewBlock = job.block

DisconnectedInv ==
  /\ IsJob /\ job.block = TipBlock /\ job.block # Genesis
  /\ ViewCoins = Unspent[pprev[job.block]] /\ ViewBlock = pprev[job.block]

AppliedInv ==
  /\ IsJob /\ job.block = TipBlock
  /\ ViewCoins = TipCoins /\ ViewBlock = TipBlock

JobInv ==
  \/ IdleInv
  \/ job.kind \in Connecting /\ ConnectInv
  \/ job.kind = "disconnect" /\ DisconnectInv
  \/ job.kind = "connected" /\ ConnectedInv
  \/ job.kind = "disconnected" /\ DisconnectedInv
  \/ job.kind = "applied" /\ AppliedInv

\* No block is worked on unless the view stands for the tip of chainActive.
TipInv == job.kind \in Connecting \cup {"disconnect"} => chainTip = TipBlock

FlushInv ==
  /\ flushing \in BOOLEAN
  /\ flushing => DOMAIN undo \subseteq DOMAIN saved.undo /\ job.kind \in {"none", "applied"}

LedgerInv == CacheInv /\ Ledger /\ JobInv /\ TipInv /\ FlushInv

----------------------------------------------------------------------------
(* One step in the middle of a block. *)

\* The BIP30 test of one more transaction.
LEMMA NewFound ==
    ASSUME NEW b \in BlockHash, NEW u, NEW n, NEW h, NEW m,
           Found(b, u, n, h, m), u < Txs(b)
    PROVE  /\ n = 0 /\ h = 0 /\ m = 0
           /\ IsNew(b, u + 1) => Found(b, u + 1, n, h, m)
           /\ ~IsNew(b, u + 1) => ~IsValidBlock(b)
  <1>0. Txs(b) \in Nat /\ u \in Nat /\ u + 1 \in 1..Txs(b)
    BY TxFacts DEF Found
  <1>1. n = 0 /\ h = 0 /\ m = 0
    BY DEF Found, Within
  <1>2. ASSUME IsNew(b, u + 1) PROVE Found(b, u + 1, n, h, m)
    <2>1. u + 1 \in 0..Txs(b) /\ \A i \in 1..(u + 1) : IsNew(b, i)
      BY <1>0, <1>2 DEF Found
    <2> QED BY Zenon, <1>1, <2>1 DEF Found
  <1>3. ASSUME ~IsNew(b, u + 1) PROVE ~IsValidBlock(b)
    BY Zenon, <1>0, <1>3, ValidBlockFacts DEF AllNew
  <1> QED BY <1>1, <1>2, <1>3

\* After the BIP30 loop all transactions are new.
LEMMA FoundAllNew ==
    ASSUME NEW b \in BlockHash, NEW n, NEW h, NEW m, Found(b, Txs(b), n, h, m)
    PROVE  AllNew(b)
  BY Zenon DEF Found, AllNew

\* The test of one more input for availability.
LEMMA HaveFound ==
    ASSUME NEW b \in BlockHash, NEW n, NEW h, NEW m,
           Found(b, Txs(b), n, h, m), n < Txs(b), h < Len(vin[vtx[b][n + 1]])
    PROVE  /\ n \in Nat /\ h \in Nat /\ m = 0 /\ h + 1 \in 1..Len(vin[vtx[b][n + 1]])
           /\ InputValid(b, n + 1, h + 1) => Found(b, Txs(b), n, h + 1, m)
           /\ ~InputValid(b, n + 1, h + 1) => ~IsValidBlock(b)
  <1>0. /\ Txs(b) \in Nat /\ n \in Nat /\ h \in Nat /\ n + 1 \in 1..Txs(b)
        /\ vtx[b][n + 1] \in Txid
    BY TxFacts DEF Found, Within
  <1>1. Len(vin[vtx[b][n + 1]]) \in Nat
    BY Zenon, <1>0, InFacts
  <1>2. h + 1 \in 1..Len(vin[vtx[b][n + 1]]) /\ h # Len(vin[vtx[b][n + 1]])
    BY <1>0, <1>1
  <1>3. m = 0
    BY Zenon, <1>2 DEF Found
  <1>4. ASSUME InputValid(b, n + 1, h + 1) PROVE Found(b, Txs(b), n, h + 1, m)
    <2>1. Within(b, n, h + 1)
      BY <1>0, <1>1, <1>2 DEF Found, Within
    <2>2. \A j \in 1..(h + 1) : InputValid(b, n + 1, j)
      BY <1>0, <1>4 DEF Found
    <2>3. Within(b, n, m) /\ InputsValid(b, n) /\ \A i \in 1..Txs(b) : IsNew(b, i)
      BY Zenon DEF Found
    <2>4. Txs(b) \in 0..Txs(b) /\ ~(Txs(b) < Txs(b))
      BY <1>0
    <2> QED BY Zenon, <1>3, <2>1, <2>2, <2>3, <2>4 DEF Found
  <1>5. ASSUME ~InputValid(b, n + 1, h + 1) PROVE ~IsValidBlock(b)
    <2>1. ~InputsValid(b, Txs(b))
      BY Zenon, <1>0, <1>2, <1>5 DEF InputsValid
    <2> QED BY Zenon, <2>1, ValidBlockFacts
  <1> QED BY <1>0, <1>2, <1>3, <1>4, <1>5

\* The inputs of a transaction that were found are still there when it spends them: they
\* are all different.
LEMMA StillThere ==
    ASSUME NEW b \in BlockHash \ {Genesis}, AllNew(b), NEW n \in Nat, n < Txs(b),
           NEW m \in Nat, m < Len(vin[vtx[b][n + 1]]),
           InputValid(b, n + 1, m + 1),
           NEW out, out = vin[vtx[b][n + 1]][m + 1]
    PROVE  out[1] \in Txid /\ IsAvailable(Mid(b, n, m)[out[1]], out)
  <1> DEFINE x == vtx[b][n + 1]
  <1>0. x \in Txid /\ Len(vin[x]) \in Nat /\ DOMAIN vin[x] = 1..Len(vin[x])
    BY TxFacts, InFacts
  <1>1. m + 1 \in 1..Len(vin[x])
    BY <1>0
  <1>2. out[1] \in Txid /\ IsAvailable(Mid(b, n, 0)[out[1]], out)
    BY Zenon, <1>1, AvailableIsValid
  <1>3. out \in Txid \X Nat
    BY Zenon, <1>0, <1>1, InFacts
  <1>4. \A j \in 1..m : vin[x][j] # out
    <2>1. \A j, k \in DOMAIN vin[x] : vin[x][j] = vin[x][k] => j = k
      BY Zenon, <1>0, TransactionsAssumption DEF TransactionsAssumption
    <2>2. \A j \in 1..m : j \in DOMAIN vin[x] /\ j # m + 1
      BY <1>0
    <2> QED BY Zenon, <1>0, <1>1, <2>1, <2>2
  <1>5. out \in SpentSet(b, n, m) => out \in SpentSet(b, n, 0)
    BY Zenon, <1>3, <1>4 DEF SpentSet, SpentBy
  <1>6. \A k, y, o : y \in Txid =>
          (IsAvailable(Mid(b, n, k)[y], o) <=>
             IsAvailable(Base(b, n, y), o) /\ o \notin SpentSet(b, n, k))
    BY Zenon, MidAvailable
  <1> QED BY Zenon, <1>2, <1>5, <1>6

\* Spending one more input.
LEMMA SpendFound ==
    ASSUME NEW b \in BlockHash \ {Genesis}, NEW n, NEW h, NEW m,
           Found(b, Txs(b), n, h, m), n < Txs(b),
           h = Len(vin[vtx[b][n + 1]]), m < Len(vin[vtx[b][n + 1]]),
           NEW out, out = vin[vtx[b][n + 1]][m + 1]
    PROVE  /\ n \in Nat /\ m \in Nat /\ out[1] \in Txid
           /\ IsAvailable(Mid(b, n, m)[out[1]], out)
           /\ Found(b, Txs(b), n, h, m + 1)
  <1>0. /\ Txs(b) \in Nat /\ n \in Nat /\ m \in Nat /\ n + 1 \in 1..Txs(b)
        /\ vtx[b][n + 1] \in Txid
    BY TxFacts DEF Found, Within
  <1>1. h \in Nat /\ m + 1 \in 1..h
    BY <1>0, InFacts
  <1>2. InputValid(b, n + 1, m + 1)
    BY Zenon, <1>1 DEF Found
  <1>3. out[1] \in Txid /\ IsAvailable(Mid(b, n, m)[out[1]], out)
    BY Zenon, <1>0, <1>2, FoundAllNew, StillThere
  <1>4. Within(b, n, m + 1)
    BY <1>0, <1>1 DEF Found, Within
  <1>5. Found(b, Txs(b), n, h, m + 1)
    BY Zenon, <1>4 DEF Found
  <1> QED BY Zenon, <1>0, <1>3, <1>5

\* The transaction is done: its inputs were found.
LEMMA MakeFound ==
    ASSUME NEW b \in BlockHash, NEW n, NEW h, NEW m,
           Found(b, Txs(b), n, h, m), n < Txs(b), h = Len(vin[vtx[b][n + 1]])
    PROVE  n \in Nat /\ InputsValid(b, n + 1) /\ Found(b, Txs(b), n + 1, 0, 0)
  <1>0. Txs(b) \in Nat /\ n \in Nat /\ n + 1 \in 0..Txs(b)
    BY TxFacts DEF Found, Within
  <1>1. InputsValid(b, n) /\ \A j \in 1..h : InputValid(b, n + 1, j)
    BY Zenon DEF Found
  <1>2. \A i \in 1..(n + 1) : i \in 1..n \/ i = n + 1
    BY <1>0
  <1>3. InputsValid(b, n + 1)
    BY Zenon, <1>1, <1>2 DEF InputsValid
  <1>4. Within(b, n + 1, 0)
    <2>1. n + 1 < Txs(b) => vtx[b][(n + 1) + 1] \in Txid
      BY <1>0, TxFacts
    <2>2. n + 1 < Txs(b) => Len(vin[vtx[b][(n + 1) + 1]]) \in Nat
      BY Zenon, <2>1, InFacts
    <2> QED BY <1>0, <2>2 DEF Within
  <1>5. \A j \in 1..0 : InputValid(b, (n + 1) + 1, j)
    OBVIOUS
  <1>6. Txs(b) \in 0..Txs(b) /\ ~(Txs(b) < Txs(b))
    BY <1>0
  <1>7. \A i \in 1..Txs(b) : IsNew(b, i)
    BY Zenon DEF Found
  <1> QED BY Zenon, <1>0, <1>3, <1>4, <1>5, <1>6, <1>7 DEF Found

\* At the end of the loops the verdict on the block is the one of the rules.
LEMMA EndFound ==
    ASSUME NEW b \in BlockHash, NEW h, NEW m, Found(b, Txs(b), Txs(b), h, m)
    PROVE  /\ b \notin BadScripts => IsValidBlock(b)
           /\ b \in BadScripts => ~IsValidBlock(b)
           /\ h = 0 /\ m = 0
  <1>1. AllNew(b) /\ InputsValid(b, Txs(b))
    BY Zenon, FoundAllNew DEF Found
  <1>2. ~(Txs(b) < Txs(b))
    BY TxFacts
  <1>3. h = 0 /\ m = 0
    BY Zenon, <1>2 DEF Found, Within
  <1> QED BY Zenon, <1>1, <1>3, ValidBlockFacts

\* The fields of the job a call starts with.
LEMMA StartJob ==
    ASSUME NEW k, NEW b, NEW u, NEW n, NEW bu
    PROVE  Job(Start(k, b, u, n, bu), k, b, u, 0, n, 0, <<>>, bu, TRUE)
  BY DEF Start, Job, JobFields

\* At the start nothing has been found out.
LEMMA StartFound ==
    ASSUME NEW b \in BlockHash
    PROVE  Found(b, 0, 0, 0, 0)
  <1>0. Txs(b) \in Nat
    BY Zenon, TxFacts
  <1>1. 0 < Txs(b) => Len(vin[vtx[b][0 + 1]]) \in Nat
    <2>1. 0 < Txs(b) => vtx[b][0 + 1] \in Txid
      BY TxFacts
    <2> QED BY <2>1, InFacts
  <1>2. Within(b, 0, 0)
    BY <1>0, <1>1 DEF Within
  <1>3. 1..0 = {} /\ 0 \in 0..Txs(b)
    BY <1>0
  <1> QED BY <1>2, <1>3 DEF Found, InputsValid

\* The undo data of one more input.
LEMMA UndoNext ==
    ASSUME NEW b, NEW i, NEW m \in Nat
    PROVE  TxUndo(b, i, m + 1) = Append(TxUndo(b, i, m), UndoAt(b, i, m + 1))
  <1> DEFINE f(j) == UndoAt(b, i, j)
             T == {f(j) : j \in Nat}
  <1> HIDE DEF f
  <1>1. [j \in 1..m |-> f(j)] \in Seq(T) /\ f(m + 1) \in T
    OBVIOUS
  <1>2. Append([j \in 1..m |-> f(j)], f(m + 1)) = [j \in 1..(m + 1) |-> f(j)]
    BY <1>1
  <1> QED BY <1>2 DEF f, TxUndo

\* The undo data of one more transaction.
LEMMA UndoNextTx ==
    ASSUME NEW b, NEW n \in Nat
    PROVE  BlockUndo(b, n + 1) =
             Append(BlockUndo(b, n), TxUndo(b, n + 1, Len(vin[vtx[b][n + 1]])))
  <1> DEFINE f(i) == TxUndo(b, i, Len(vin[vtx[b][i]]))
             T == {f(j) : j \in Nat}
  <1> HIDE DEF f
  <1>1. [j \in 1..n |-> f(j)] \in Seq(T) /\ f(n + 1) \in T
    OBVIOUS
  <1>2. Append([j \in 1..n |-> f(j)], f(n + 1)) = [j \in 1..(n + 1) |-> f(j)]
    BY <1>1
  <1> QED BY <1>2 DEF f, BlockUndo

\* What UpdateCoins does with one input.
LEMMA SpendThere ==
    ASSUME NEW b \in BlockHash \ {Genesis}, NEW n \in Nat, NEW h, NEW m \in Nat,
           Found(b, Txs(b), n, h, m), n < Txs(b),
           h = Len(vin[vtx[b][n + 1]]), m < Len(vin[vtx[b][n + 1]])
    PROVE  /\ NextIn(b, n, m)[1] \in Txid
           /\ IsAvailable(NextCoins(b, n, m), NextIn(b, n, m))
           /\ Found(b, Txs(b), n, h, m + 1)
  BY Zenon, SpendFound DEF NextIn, NextCoins

\* The coins that are written, with their type.
LEMMA SpendWrites ==
    ASSUME NEW b \in BlockHash \ {Genesis}, NEW n \in Nat, NEW m \in Nat,
           n < Txs(b), m < Len(vin[vtx[b][n + 1]]),
           IsAvailable(NextCoins(b, n, m), NextIn(b, n, m))
    PROVE  /\ NextIn(b, n, m)[1] \in Txid
           /\ Mid(b, n, m + 1)[NextIn(b, n, m)[1]] = Spent(NextCoins(b, n, m), NextIn(b, n, m))
           /\ \A y \in Txid : y # NextIn(b, n, m)[1] => Mid(b, n, m + 1)[y] = Mid(b, n, m)[y]
           /\ Spent(NextCoins(b, n, m), NextIn(b, n, m)) \in Coins
  <1>1. /\ NextIn(b, n, m)[1] \in Txid
        /\ Mid(b, n, m + 1)[NextIn(b, n, m)[1]] = Spent(NextCoins(b, n, m), NextIn(b, n, m))
        /\ \A y \in Txid : y # NextIn(b, n, m)[1] => Mid(b, n, m + 1)[y] = Mid(b, n, m)[y]
    BY Zenon, MidSpent
  <1>2. Mid(b, n, m + 1)[NextIn(b, n, m)[1]] \in Coins
    BY Zenon, <1>1, MidOf
  <1> QED BY Zenon, <1>1, <1>2

\* The entry of undo data that is written.
LEMMA SpendUndo ==
    ASSUME NEW b, NEW n \in Nat, NEW m \in Nat
    PROVE  TxUndo(b, n + 1, m + 1) =
             Append(TxUndo(b, n + 1, m), UndoOf(NextCoins(b, n, m), NextIn(b, n, m)))
  <1>1. (n + 1) - 1 = n /\ (m + 1) - 1 = m
    OBVIOUS
  <1>2. UndoAt(b, n + 1, m + 1) = UndoOf(NextCoins(b, n, m), NextIn(b, n, m))
    BY Zenon, <1>1 DEF UndoAt, NextCoins, NextIn
  <1>3. TxUndo(b, n + 1, m + 1) = Append(TxUndo(b, n + 1, m), UndoAt(b, n + 1, m + 1))
    BY Zenon, UndoNext
  <1> QED BY Zenon, <1>2, <1>3

\* What making the outputs of a transaction does, and removing them again.
NextTx(b, n) == vtx[b][n + 1]

Ins(b, n) == Len(vin[NextTx(b, n)])

\* MidWritten for the write of a transaction's outputs.
LEMMA MidCreated ==
    ASSUME NEW b, NEW n, NEW x \in Txid, NEW c, Mid(b, n + 1, 0)[x] = c,
           \A y \in Txid : y # x => Mid(b, n + 1, 0)[y] = Mid(b, n, Ins(b, n))[y]
    PROVE  [Mid(b, n, Ins(b, n)) EXCEPT ![x] = c] = Mid(b, n + 1, 0)
  BY Zenon DEF Mid

\* MidMade, with the type of the coins.
LEMMA MakeWrites ==
    ASSUME NEW b \in BlockHash \ {Genesis}, NEW n \in Nat, n < Txs(b),
           AllNew(b), InputsValid(b, n + 1)
    PROVE  /\ NextTx(b, n) \in Txid /\ FromTx(NextTx(b, n), nHeight[b]) \in Coins
           /\ Mid(b, n, Ins(b, n))[NextTx(b, n)] = Pruned
           /\ Mid(b, n + 1, 0)[NextTx(b, n)] = FromTx(NextTx(b, n), nHeight[b])
           /\ \A y \in Txid : y # NextTx(b, n) => Mid(b, n + 1, 0)[y] = Mid(b, n, Ins(b, n))[y]
  <1>1. /\ NextTx(b, n) \in Txid
        /\ Mid(b, n, Ins(b, n))[NextTx(b, n)] = Pruned
        /\ Mid(b, n + 1, 0)[NextTx(b, n)] = FromTx(NextTx(b, n), nHeight[b])
        /\ \A y \in Txid : y # NextTx(b, n) => Mid(b, n + 1, 0)[y] = Mid(b, n, Ins(b, n))[y]
    BY MidMade DEF NextTx, Ins
  <1>2. Mid(b, n + 1, 0)[NextTx(b, n)] \in Coins
    BY Zenon, <1>1, MidOf
  <1> QED BY Zenon, <1>1, <1>2

\* The positions of the loops are numbers.
LEMMA FoundTypes ==
    ASSUME NEW b \in BlockHash, NEW u, NEW n, NEW h, NEW m, Found(b, u, n, h, m)
    PROVE  u \in Nat /\ n \in Nat /\ h \in Nat /\ m \in Nat
  <1>1. Txs(b) \in Nat
    BY Zenon, TxFacts
  <1> QED BY <1>1 DEF Found, Within

\* At the start there is no undo data.
LEMMA UndoNone ==
    ASSUME NEW b, NEW i
    PROVE  TxUndo(b, i, 0) = <<>> /\ BlockUndo(b, 0) = <<>>
  BY DEF TxUndo, BlockUndo

----------------------------------------------------------------------------
(* What the steps of CoinsView do to what is seen. *)

Layers == <<db, dbBest, TipCoins, TipBlock>>

\* The best blocks are blocks.
LEMMA LayerTypes ==
    ASSUME CacheInv
    PROVE  dbBest \in BlockHash /\ TipBlock \in BlockHash /\ ViewBlock \in BlockHash
  BY Zenon DEF CacheInv, CoinsTypeOK, TipBlock, ViewBlock

\* A step that is invisible from outside.
LEMMA SameSees ==
    ASSUME UNCHANGED Plain!viewVars
    PROVE  UNCHANGED <<Layers, ViewCoins, ViewBlock>>
  BY Zenon DEF Plain!viewVars, Layers

\* A write to the view.
LEMMA WriteSees ==
    ASSUME NEW x, NEW c, Plain!Write(x, c)
    PROVE  /\ UNCHANGED <<Layers, ViewBlock>>
           /\ ViewCoins' = [ViewCoins EXCEPT ![x] = c]
  BY Zenon DEF Plain!Write, Layers

\* SetBestBlock on the view.
LEMMA MoveSees ==
    ASSUME NEW b, Plain!MoveTo(b)
    PROVE  UNCHANGED <<Layers, ViewCoins>> /\ ViewBlock' = b
  BY Zenon DEF Plain!MoveTo, Layers

\* Flushing the view.
LEMMA CommitSees ==
    ASSUME Plain!Commit
    PROVE  /\ UNCHANGED <<db, dbBest, ViewCoins, ViewBlock>>
           /\ TipCoins' = ViewCoins /\ TipBlock' = ViewBlock
  BY Zenon DEF Plain!Commit

\* Dropping the view.
LEMMA DiscardSees ==
    ASSUME Plain!Discard
    PROVE  UNCHANGED Layers /\ ViewCoins' = TipCoins /\ ViewBlock' = TipBlock
  BY Zenon DEF Plain!Discard, Layers

\* Flushing pcoinsTip.
LEMMA SaveSees ==
    ASSUME Plain!Save
    PROVE  /\ UNCHANGED <<TipCoins, TipBlock, ViewCoins, ViewBlock>>
           /\ db' = TipCoins /\ dbBest' = TipBlock
  BY Zenon DEF Plain!Save

\* A crash.
LEMMA CrashSees ==
    ASSUME Plain!Crash
    PROVE  /\ UNCHANGED <<db, dbBest>>
           /\ TipCoins' = db /\ TipBlock' = dbBest /\ ViewCoins' = db /\ ViewBlock' = dbBest
  BY Zenon DEF Plain!Crash

\* A step that touches neither the two lower layers nor the block index.
LEMMA LedgerKept ==
    ASSUME Ledger, UNCHANGED <<Layers, undo, dirty, saved, failed>>
    PROVE  Ledger'
  BY Zenon DEF Ledger, Layers, UndoRight

----------------------------------------------------------------------------
(* The job. *)

\* The kind of the job says which part of the invariant holds.
LEMMA JobKinds ==
    ASSUME JobInv
    PROVE  /\ job.kind = "none" => IdleInv
           /\ job.kind \in Connecting => ConnectInv
           /\ job.kind = "disconnect" => DisconnectInv
           /\ job.kind = "connected" => ConnectedInv
           /\ job.kind = "disconnected" => DisconnectedInv
           /\ job.kind = "applied" => AppliedInv
  <1>1. IdleInv => job.kind = "none"
    BY DEF IdleInv, NoJob
  <1> QED BY <1>1 DEF JobInv, Connecting

\* In the middle of a block nothing is being flushed.
LEMMA NotFlushing ==
    ASSUME FlushInv, job.kind \notin {"none", "applied"}
    PROVE  flushing = FALSE
  BY Zenon DEF FlushInv

\* So a step in the middle of a block keeps FlushInv.
LEMMA FlushKept ==
    ASSUME FlushInv, job.kind \notin {"none", "applied"}, flushing' = flushing
    PROVE  FlushInv'
  BY Zenon DEF FlushInv

\* A step to no job.
LEMMA IdleNext ==
    ASSUME job' = NoJob, ViewCoins' = TipCoins', ViewBlock' = TipBlock',
           status' = "running" => chainTip' = TipBlock'
    PROVE  JobInv'
  BY Zenon DEF IdleInv, JobInv

\* A step that keeps chainActive and pcoinsTip together, or ends the work on the block.
LEMMA TipNext ==
    ASSUME job'.kind \notin Connecting \cup {"disconnect"} \/ chainTip' = TipBlock'
    PROVE  TipInv'
  BY Zenon DEF TipInv

\* Without a job TipInv says nothing.
LEMMA TipIdle ==
    ASSUME job' = NoJob
    PROVE  TipInv'
  <1>1. NoJob.kind \notin Connecting \cup {"disconnect"}
    BY Zenon DEF NoJob, Connecting
  <1> QED BY Zenon, <1>1, TipNext

\* A step of ConnectBlock, by the fields of the job.
LEMMA ConnectNext ==
    ASSUME NEW k \in Connecting, NEW b \in BlockHash \ {Genesis},
           NEW u, NEW h, NEW n, NEW m, NEW t, NEW bu, NEW ok \in BOOLEAN,
           Job(job', k, b, u, h, n, m, t, bu, ok),
           pprev[b] = TipBlock', ~ok => ~IsValidBlock(b),
           ok => /\ Found(b, u, n, h, m) /\ ViewCoins' = Mid(b, n, m)
                 /\ bu = BlockUndo(b, n) /\ t = TxUndo(b, n + 1, m)
    PROVE  JobInv'
  <1>0. k \in {"connect", "test", "disconnect", "connected", "disconnected", "applied"}
    BY Zenon DEF Connecting
  <1>1. /\ job'.kind = k /\ job'.block = b /\ job'.unique = u /\ job'.have = h
        /\ job'.done = n /\ job'.spent = m /\ job'.txundo = t /\ job'.blockundo = bu
        /\ job'.ok = ok
    BY Zenon DEF Job
  <1>2. IsJob'
    BY Zenon, <1>0, <1>1 DEF IsJob, Job
  <1>3. ConnectInv'
    BY Zenon, <1>1, <1>2 DEF ConnectInv
  <1> QED BY Zenon, <1>1, <1>3 DEF JobInv

\* A step of DisconnectBlock, by the fields of the job.
LEMMA DisconnectNext ==
    ASSUME NEW b \in ValidBlock, NEW u, NEW h, NEW n, NEW m, NEW t, NEW bu, NEW ok,
           Job(job', "disconnect", b, u, h, n, m, t, bu, ok), ok = TRUE,
           b = TipBlock', Within(b, n, m), ViewCoins' = Mid(b, n, m),
           bu = BlockUndo(b, Txs(b))
    PROVE  JobInv'
  <1>0. b \in BlockHash
    BY Zenon DEF ValidBlock
  <1>1. /\ job'.kind = "disconnect" /\ job'.block = b /\ job'.unique = u /\ job'.have = h
        /\ job'.done = n /\ job'.spent = m /\ job'.txundo = t /\ job'.blockundo = bu
        /\ job'.ok = ok
    BY Zenon DEF Job
  <1>2. IsJob'
    BY Zenon, <1>0, <1>1 DEF IsJob, Job
  <1>3. DisconnectInv'
    BY Zenon, <1>1, <1>2 DEF DisconnectInv
  <1> QED BY Zenon, <1>1, <1>3 DEF JobInv

\* The records the steps make of a job.
LEMMA JobTested ==
    ASSUME NEW j, DOMAIN j = JobFields, NEW e
    PROVE  /\ Job([j EXCEPT !.unique = @ + 1, !.ok = e], j.kind, j.block, j.unique + 1, j.have,
                  j.done, j.spent, j.txundo, j.blockundo, e)
           /\ Job([j EXCEPT !.have = @ + 1, !.ok = e], j.kind, j.block, j.unique, j.have + 1,
                  j.done, j.spent, j.txundo, j.blockundo, e)
  BY Zenon DEF Job, JobFields

\* The job after an input is spent, or restored.
LEMMA JobSpends ==
    ASSUME NEW j, DOMAIN j = JobFields, NEW e
    PROVE  /\ Job([j EXCEPT !.spent = @ + 1, !.txundo = Append(@, e)], j.kind, j.block, j.unique,
                  j.have, j.done, j.spent + 1, Append(j.txundo, e), j.blockundo, j.ok)
           /\ Job([j EXCEPT !.spent = @ - 1, !.ok = e], j.kind, j.block, j.unique,
                  j.have, j.done, j.spent - 1, j.txundo, j.blockundo, e)
  BY Zenon DEF Job, JobFields

\* The job after a transaction is done, or undone.
LEMMA JobMoves ==
    ASSUME NEW j, DOMAIN j = JobFields, NEW e, NEW f
    PROVE  /\ Job([j EXCEPT !.done = @ + 1, !.have = 0, !.spent = 0,
                            !.blockundo = Append(@, e), !.txundo = <<>>],
                  j.kind, j.block, j.unique, 0, j.done + 1, 0, <<>>, Append(j.blockundo, e), j.ok)
           /\ Job([j EXCEPT !.done = @ - 1, !.spent = f, !.ok = e], j.kind, j.block, j.unique,
                  j.have, j.done - 1, f, j.txundo, j.blockundo, e)
  BY Zenon DEF Job, JobFields

\* The job after ConnectBlock or DisconnectBlock.
LEMMA JobEnds ==
    ASSUME NEW j, DOMAIN j = JobFields, NEW e
    PROVE  /\ DOMAIN [j EXCEPT !.kind = e] = JobFields
           /\ [j EXCEPT !.kind = e].kind = e /\ [j EXCEPT !.kind = e].block = j.block
  BY Zenon DEF JobFields

\* The job after view.Flush().
LEMMA JobApplied ==
    ASSUME NEW j, DOMAIN j = JobFields, NEW k, k = [j EXCEPT !.kind = "applied", !.block = ViewBlock]
    PROVE  DOMAIN k = JobFields /\ k.kind = "applied" /\ k.block = ViewBlock
  BY Zenon DEF JobFields

----------------------------------------------------------------------------
(* The steps of ConnectBlock. *)

\* A step while nothing is being flushed keeps FlushInv.
LEMMA Unflushed ==
    ASSUME FlushInv, ~flushing, flushing' = flushing
    PROVE  FlushInv'
  BY Zenon DEF FlushInv

\* ConnectBlock starts from the coins of the block before.
LEMMA ConnectBlockStep ==
    ASSUME fEnforceBIP30, LedgerInv, NEW b \in BlockHash \ {Genesis}, NEW kind \in Connecting,
           ConnectBlock(b, kind)
    PROVE  LedgerInv' /\ CoinsNext
  <1>1. /\ job.kind = "none" /\ ~flushing /\ pprev[b] = chainTip /\ GetBestBlock
        /\ UNCHANGED <<chainTip, failed, undo, dirty, saved, flushing>>
    BY Zenon DEF ConnectBlock, Idle
  <1>2. IdleInv
    BY Zenon, <1>1, JobKinds DEF LedgerInv
  <1>3. CacheInv' /\ UNCHANGED <<Layers, ViewCoins, ViewBlock>>
    BY Zenon, <1>1, GetBestBlockStep, SameSees DEF LedgerInv
  <1>4. UNCHANGED <<TipCoins, TipBlock, ViewCoins, ViewBlock>>
    BY Zenon, <1>3 DEF Layers
  <1>5. Ledger'
    BY Zenon, <1>1, <1>3, LedgerKept DEF LedgerInv
  <1>6. JobInv'
    <2>1. CASE ViewBlock = chainTip
      <3>1. Job(job', kind, b, 0, 0, 0, 0, <<>>, <<>>, TRUE)
        <4>1. job' = Start(kind, b, 0, 0, <<>>)
          BY Zenon, <2>1 DEF ConnectBlock
        <4> QED BY Zenon, <4>1, StartJob
      <3>2. pprev[b] = TipBlock'
        BY Zenon, <1>1, <1>2, <1>4, <2>1 DEF IdleInv
      <3>3. ViewCoins' = Mid(b, 0, 0)
        <4>1. ViewCoins' = Unspent[pprev[b]]
          BY Zenon, <1>2, <1>4, <3>2 DEF IdleInv, LedgerInv, Ledger
        <4> QED BY <4>1, MidStart
      <3>4. Found(b, 0, 0, 0, 0)
        BY Zenon, StartFound
      <3>5. <<>> = BlockUndo(b, 0) /\ <<>> = TxUndo(b, 0 + 1, 0)
        BY Zenon, UndoNone
      <3> QED BY Zenon, <3>1, <3>2, <3>3, <3>4, <3>5, ConnectNext
    <2>2. CASE ViewBlock # chainTip
      <3>1. job' = NoJob /\ status' = "aborted"
        BY Zenon, <2>2 DEF ConnectBlock
      <3>2. ViewCoins' = TipCoins' /\ ViewBlock' = TipBlock'
        BY Zenon, <1>2, <1>4 DEF IdleInv
      <3>3. status' # "running"
        BY Zenon, <3>1
      <3> QED BY Zenon, <3>1, <3>2, <3>3, IdleNext
    <2> QED BY Zenon, <2>1, <2>2
  <1>7. FlushInv'
    BY Zenon, <1>1, Unflushed DEF LedgerInv
  <1>8. TipInv'
    <2>1. CASE ViewBlock = chainTip
      BY Zenon, <1>1, <1>2, <1>4, <2>1, TipNext DEF IdleInv
    <2>2. CASE ViewBlock # chainTip
      BY Zenon, <2>2, TipIdle DEF ConnectBlock
    <2> QED BY Zenon, <2>1, <2>2
  <1> QED BY Zenon, <1>1, <1>3, <1>5, <1>6, <1>7, <1>8 DEF LedgerInv, CoinsNext

\* What holds while ConnectBlock is at work on a block it has found nothing wrong with.
LEMMA AtWork ==
    ASSUME LedgerInv, Working(Connecting)
    PROVE  /\ job.kind \in Connecting /\ job.block \in BlockHash \ {Genesis}
           /\ job.kind \in {"connect", "test", "disconnect", "connected", "disconnected", "applied"}
           /\ job.kind \notin {"none", "applied"}
           /\ DOMAIN job = JobFields /\ job.ok = TRUE
           /\ pprev[job.block] = TipBlock
           /\ Found(job.block, job.unique, job.done, job.have, job.spent)
           /\ ViewCoins = Mid(job.block, job.done, job.spent)
           /\ job.blockundo = BlockUndo(job.block, job.done)
           /\ job.txundo = TxUndo(job.block, job.done + 1, job.spent)
  <1>1. job.kind \in Connecting /\ job.ok /\ ConnectInv
    BY Zenon, JobKinds DEF Working, LedgerInv
  <1>2. job.ok = TRUE
    BY Zenon, <1>1 DEF ConnectInv
  <1>3. job.kind \notin {"none", "applied"}
    BY Zenon, <1>1 DEF Connecting
  <1> QED BY Zenon, <1>1, <1>2, <1>3 DEF ConnectInv, IsJob

\* A step of ConnectBlock that leaves the block index and the lower layers alone.
LEMMA WorkKept ==
    ASSUME LedgerInv, Working(Connecting), CacheInv', UNCHANGED Layers,
           UNCHANGED <<chainTip, failed, undo, dirty, saved, flushing, status>>, JobInv'
    PROVE  LedgerInv'
  <1>1. Ledger'
    BY Zenon, LedgerKept DEF LedgerInv
  <1>2. FlushInv'
    BY Zenon, AtWork, FlushKept DEF LedgerInv
  <1>3. TipInv'
    <2>1. chainTip = TipBlock
      BY Zenon DEF LedgerInv, TipInv, Working
    <2>2. chainTip' = TipBlock'
      BY Zenon, <2>1 DEF Layers
    <2> QED BY Zenon, <2>2, TipNext
  <1> QED BY Zenon, <1>1, <1>2, <1>3 DEF LedgerInv

\* One transaction is tested against BIP30.
LEMMA CheckNewStep ==
    ASSUME LedgerInv, CheckNew
    PROVE  LedgerInv' /\ CoinsNext
  <1> DEFINE b == job.block
             u == job.unique
             x == vtx[b][u + 1]
             ok == ViewCoins[x] = Pruned
  <1>0. /\ Working(Connecting) /\ u < Txs(b) /\ AccessView(x)
        /\ job' = [job EXCEPT !.unique = @ + 1, !.ok = ok]
        /\ UNCHANGED <<chainTip, failed, undo, dirty, saved, flushing, status>>
    BY Zenon DEF CheckNew, AtNew, StepTo
  <1>1. /\ b \in BlockHash \ {Genesis} /\ pprev[b] = TipBlock
        /\ Found(b, u, job.done, job.have, job.spent)
        /\ ViewCoins = Mid(b, job.done, job.spent)
    BY Zenon, <1>0, AtWork
  <1>2. x \in Txid
    BY <1>0, <1>1, TxFacts DEF Found
  <1>3. CacheInv' /\ UNCHANGED <<Layers, ViewCoins, ViewBlock>>
    BY Zenon, <1>0, <1>2, AccessViewStep, SameSees DEF LedgerInv
  <1>4. UNCHANGED <<TipCoins, TipBlock, ViewCoins, ViewBlock>>
    BY Zenon, <1>3 DEF Layers
  <1>5. /\ job.done = 0 /\ job.have = 0 /\ job.spent = 0
        /\ IsNew(b, u + 1) => Found(b, u + 1, job.done, job.have, job.spent)
        /\ ~IsNew(b, u + 1) => ~IsValidBlock(b)
    BY Zenon, <1>0, <1>1, NewFound
  <1>6. ok <=> IsNew(b, u + 1)
    <2>1. ViewCoins = Unspent[pprev[b]]
      BY Zenon, <1>1, <1>5, MidStart
    <2> QED BY <2>1 DEF IsNew
  <1> HIDE DEF ok
  <1>7. Job(job', job.kind, b, u + 1, job.have, job.done, job.spent, job.txundo, job.blockundo, ok)
    <2>1. DOMAIN job = JobFields /\ job.ok = TRUE
      BY Zenon, <1>0, AtWork
    <2> QED BY Zenon, <1>0, <2>1, JobTested, JobSpends
  <1>8. ok \in BOOLEAN
    BY Zenon DEF ok
  <1>9. JobInv'
    <2>1. job.kind \in Connecting /\ job.blockundo = BlockUndo(b, job.done) /\ job.txundo = TxUndo(b, job.done + 1, job.spent)
      BY Zenon, <1>0, AtWork
    <2>2. pprev[b] = TipBlock' /\ ViewCoins' = Mid(b, job.done, job.spent)
      BY Zenon, <1>1, <1>4
    <2>3. (ok => Found(b, u + 1, job.done, job.have, job.spent)) /\ (~ok => ~IsValidBlock(b))
      BY Zenon, <1>5, <1>6
    <2> QED BY Zenon, <1>1, <1>7, <1>8, <2>1, <2>2, <2>3, ConnectNext
  <1>c. CoinsNext
    BY Zenon, <1>0, <1>2 DEF CoinsNext
  <1> QED BY Zenon, <1>0, <1>3, <1>9, <1>c, WorkKept

\* One input is looked up.
LEMMA HaveInputsStep ==
    ASSUME LedgerInv, HaveInputs
    PROVE  LedgerInv' /\ CoinsNext
  <1> DEFINE b == job.block
             n == job.done
             h == job.have
             out == vin[vtx[b][n + 1]][h + 1]
             ok == IsAvailable(ViewCoins[out[1]], out)
  <1>0. /\ Working(Connecting) /\ job.unique = Txs(b) /\ n < Txs(b)
        /\ h < Len(vin[vtx[b][n + 1]]) /\ AccessView(out[1])
        /\ job' = [job EXCEPT !.have = @ + 1, !.ok = ok]
        /\ UNCHANGED <<chainTip, failed, undo, dirty, saved, flushing, status>>
    BY Zenon DEF HaveInputs, AtHave, AtTx, StepTo, ThisTx, Inputs
  <1>1. /\ b \in BlockHash \ {Genesis} /\ pprev[b] = TipBlock
        /\ Found(b, Txs(b), n, h, job.spent)
        /\ ViewCoins = Mid(b, n, job.spent)
    BY Zenon, <1>0, AtWork
  <1>2. /\ n \in Nat /\ h \in Nat /\ job.spent = 0 /\ h + 1 \in 1..Len(vin[vtx[b][n + 1]])
        /\ InputValid(b, n + 1, h + 1) => Found(b, Txs(b), n, h + 1, job.spent)
        /\ ~InputValid(b, n + 1, h + 1) => ~IsValidBlock(b)
    BY Zenon, <1>0, <1>1, HaveFound
  <1>3. AllNew(b)
    BY Zenon, <1>1, FoundAllNew
  <1>4. out[1] \in Txid /\ (InputValid(b, n + 1, h + 1) <=> IsAvailable(Mid(b, n, 0)[out[1]], out))
    BY Zenon, <1>0, <1>1, <1>2, <1>3, AvailableIsValid
  <1>5. CacheInv' /\ UNCHANGED <<Layers, ViewCoins, ViewBlock>>
    BY Zenon, <1>0, <1>4, AccessViewStep, SameSees DEF LedgerInv
  <1>6. UNCHANGED <<TipCoins, TipBlock, ViewCoins, ViewBlock>>
    BY Zenon, <1>5 DEF Layers
  <1>7. ok <=> InputValid(b, n + 1, h + 1)
    BY Zenon, <1>1, <1>2, <1>4
  <1>8. ok \in BOOLEAN
    BY Zenon DEF IsAvailable
  <1> HIDE DEF ok
  <1>9. Job(job', job.kind, b, Txs(b), h + 1, n, job.spent, job.txundo, job.blockundo, ok)
    <2>1. DOMAIN job = JobFields /\ job.ok = TRUE
      BY Zenon, <1>0, AtWork
    <2> QED BY Zenon, <1>0, <2>1, JobTested, JobSpends
  <1>10. JobInv'
    <2>1. job.kind \in Connecting /\ job.blockundo = BlockUndo(b, n) /\ job.txundo = TxUndo(b, n + 1, job.spent)
      BY Zenon, <1>0, AtWork
    <2>2. pprev[b] = TipBlock' /\ ViewCoins' = Mid(b, n, job.spent)
      BY Zenon, <1>1, <1>6
    <2>3. (ok => Found(b, Txs(b), n, h + 1, job.spent)) /\ (~ok => ~IsValidBlock(b))
      BY Zenon, <1>2, <1>7
    <2> QED BY Zenon, <1>1, <1>8, <1>9, <2>1, <2>2, <2>3, ConnectNext
  <1>c. CoinsNext
    BY Zenon, <1>0, <1>4 DEF CoinsNext
  <1> QED BY Zenon, <1>0, <1>5, <1>10, <1>c, WorkKept

\* One input is spent.
LEMMA SpendStep ==
    ASSUME LedgerInv, Spend
    PROVE  LedgerInv' /\ CoinsNext
  <1> DEFINE b == job.block
             n == job.done
             m == job.spent
             out == NextIn(b, n, m)
             c == NextCoins(b, n, m)
  <1>0. /\ Working(Connecting) /\ job.unique = Txs(b) /\ n < Txs(b)
        /\ job.have = Len(vin[vtx[b][n + 1]]) /\ m < Len(vin[vtx[b][n + 1]])
        /\ UNCHANGED <<chainTip, failed, undo, dirty, saved, flushing, status>>
    BY Zenon DEF Spend, AtSpend, AtTx, StepTo, ThisTx, Inputs
  <1>1. /\ b \in BlockHash \ {Genesis} /\ pprev[b] = TipBlock
        /\ Found(b, Txs(b), n, job.have, m)
        /\ ViewCoins = Mid(b, n, m)
    BY Zenon, <1>0, AtWork
  <1>t. n \in Nat /\ m \in Nat
    BY Zenon, <1>1, FoundTypes
  <1>2. /\ ModifyCoins(out[1], Spent(c, out))
        /\ job' = [job EXCEPT !.spent = @ + 1, !.txundo = Append(@, UndoOf(c, out))]
    <2>1. ViewCoins[out[1]] = c
      BY Zenon, <1>1 DEF NextCoins
    <2> QED BY Zenon, <2>1 DEF Spend, StepTo, ThisTx, NextIn
  <1>3. Found(b, Txs(b), n, job.have, m + 1) /\ IsAvailable(c, out)
    BY Zenon, <1>0, <1>1, <1>t, SpendThere
  <1>4. /\ out[1] \in Txid /\ Spent(c, out) \in Coins
        /\ Mid(b, n, m + 1)[out[1]] = Spent(c, out)
        /\ \A y \in Txid : y # out[1] => Mid(b, n, m + 1)[y] = Mid(b, n, m)[y]
    BY ZenonT(60), <1>0, <1>1, <1>t, <1>3, SpendWrites
  <1>5. TxUndo(b, n + 1, m + 1) = Append(TxUndo(b, n + 1, m), UndoOf(c, out))
    BY Zenon, <1>t, SpendUndo
  <1> HIDE DEF c, out
  <1>6. CacheInv' /\ UNCHANGED <<Layers, ViewBlock>> /\ ViewCoins' = [ViewCoins EXCEPT ![out[1]] = Spent(c, out)]
    <2>1. CacheInv' /\ Plain!Write(out[1], Spent(c, out))
      BY Zenon, <1>2, <1>4, ModifyCoinsStep DEF LedgerInv
    <2> QED BY Zenon, <2>1, WriteSees
  <1>7. ViewCoins' = Mid(b, n, m + 1)
    BY <1>1, <1>4, <1>6, MidWritten
  <1>8. Job(job', job.kind, b, Txs(b), job.have, n, m + 1, Append(job.txundo, UndoOf(c, out)),
            job.blockundo, TRUE)
    <2>1. DOMAIN job = JobFields /\ job.ok = TRUE
      BY Zenon, <1>0, AtWork
    <2> QED BY Zenon, <1>0, <1>2, <2>1, JobSpends
  <1>9. JobInv'
    <2>1. /\ job.kind \in Connecting /\ job.blockundo = BlockUndo(b, n)
          /\ job.txundo = TxUndo(b, n + 1, m)
      BY Zenon, <1>0, AtWork
    <2>2. pprev[b] = TipBlock'
      BY Zenon, <1>1, <1>6 DEF Layers
    <2>3. Job(job', job.kind, b, Txs(b), job.have, n, m + 1, TxUndo(b, n + 1, m + 1), job.blockundo, TRUE)
      BY Zenon, <1>5, <1>8, <2>1
    <2> QED BY Zenon, <1>1, <1>3, <1>7, <2>1, <2>2, <2>3, ConnectNext
  <1>c. CoinsNext
    BY Zenon, <1>2, <1>4 DEF CoinsNext
  <1> QED BY Zenon, <1>0, <1>6, <1>9, <1>c, WorkKept

\* The outputs of a transaction are made.
LEMMA AddOutputsStep ==
    ASSUME LedgerInv, AddOutputs
    PROVE  LedgerInv' /\ CoinsNext
  <1> DEFINE b == job.block
             n == job.done
             x == NextTx(b, n)
             c == FromTx(x, nHeight[b])
  <1>0. /\ Working(Connecting) /\ job.unique = Txs(b) /\ n < Txs(b)
        /\ job.have = Ins(b, n) /\ job.spent = Ins(b, n)
        /\ ModifyNewCoins(x, c, IsCoinBase(x))
        /\ job' = [job EXCEPT !.done = @ + 1, !.have = 0, !.spent = 0,
                              !.blockundo = Append(@, job.txundo), !.txundo = <<>>]
        /\ UNCHANGED <<chainTip, failed, undo, dirty, saved, flushing, status>>
    BY Zenon DEF AddOutputs, AtCreate, AtTx, StepTo, ThisTx, Inputs, NextTx, Ins
  <1>1. /\ b \in BlockHash \ {Genesis} /\ pprev[b] = TipBlock
        /\ Found(b, Txs(b), n, job.have, job.spent)
        /\ ViewCoins = Mid(b, n, Ins(b, n))
    BY Zenon, <1>0, AtWork
  <1>2. n \in Nat /\ InputsValid(b, n + 1) /\ Found(b, Txs(b), n + 1, 0, 0) /\ AllNew(b)
    <2>1. job.have = Len(vin[vtx[b][n + 1]])
      BY Zenon, <1>0 DEF Ins, NextTx
    <2> QED BY Zenon, <1>0, <1>1, <2>1, MakeFound, FoundAllNew
  <1>3. /\ x \in Txid /\ c \in Coins
        /\ Mid(b, n + 1, 0)[x] = c
        /\ \A y \in Txid : y # x => Mid(b, n + 1, 0)[y] = Mid(b, n, Ins(b, n))[y]
    BY Zenon, <1>0, <1>1, <1>2, MakeWrites
  <1> HIDE DEF x, c
  <1>4. CacheInv' /\ UNCHANGED <<Layers, ViewBlock>> /\ ViewCoins' = [ViewCoins EXCEPT ![x] = c]
    <2>1. IsCoinBase(x) \in BOOLEAN
      BY Zenon DEF IsCoinBase
    <2>2. CacheInv' /\ Plain!Write(x, c)
      BY Zenon, <1>0, <1>3, <2>1, ModifyNewCoinsStep DEF LedgerInv
    <2> QED BY Zenon, <2>2, WriteSees
  <1>5. ViewCoins' = Mid(b, n + 1, 0)
    <2>1. [Mid(b, n, Ins(b, n)) EXCEPT ![x] = c] = Mid(b, n + 1, 0)
      BY Zenon, <1>3, MidCreated
    <2> QED BY Zenon, <1>1, <1>4, <2>1
  <1>6. Job(job', job.kind, b, Txs(b), 0, n + 1, 0, <<>>, Append(job.blockundo, job.txundo), TRUE)
    <2>1. DOMAIN job = JobFields /\ job.ok = TRUE
      BY Zenon, <1>0, AtWork
    <2> QED BY Zenon, <1>0, <2>1, JobMoves
  <1>7. JobInv'
    <2>1. /\ job.kind \in Connecting /\ job.blockundo = BlockUndo(b, n)
          /\ job.txundo = TxUndo(b, n + 1, Ins(b, n))
      BY Zenon, <1>0, AtWork
    <2>2. pprev[b] = TipBlock'
      BY Zenon, <1>1, <1>4 DEF Layers
    <2>3. Append(job.blockundo, job.txundo) = BlockUndo(b, n + 1)
      BY Zenon, <1>2, <2>1, UndoNextTx DEF Ins, NextTx
    <2>4. <<>> = TxUndo(b, (n + 1) + 1, 0)
      BY Zenon, UndoNone
    <2> QED BY Zenon, <1>1, <1>2, <1>5, <1>6, <2>1, <2>2, <2>3, <2>4, ConnectNext
  <1>c. CoinsNext
    <2>1. IsCoinBase(x) \in BOOLEAN
      BY Zenon DEF IsCoinBase
    <2> QED BY Zenon, <1>0, <1>3, <2>1 DEF CoinsNext
  <1> QED BY Zenon, <1>0, <1>4, <1>7, <1>c, WorkKept

\* ConnectBlock has come to its end: the view holds the coins of the block.
LEMMA FinishConnectStep ==
    ASSUME LedgerInv, FinishConnect
    PROVE  LedgerInv' /\ CoinsNext
  <1> DEFINE b == job.block
  <1>0. /\ Working({"connect"}) /\ job.unique = Txs(b) /\ job.done = Txs(b)
        /\ b \notin BadScripts /\ SetBestBlock(b)
        /\ undo' = [a \in DOMAIN undo \cup {b} |-> IF a \in DOMAIN undo THEN undo[a] ELSE job.blockundo]
        /\ dirty' = IF b \in DOMAIN undo THEN dirty ELSE dirty \cup {b}
        /\ job' = [job EXCEPT !.kind = "connected"]
        /\ UNCHANGED <<chainTip, failed, saved, flushing, status>>
    BY Zenon DEF FinishConnect, AtEnd
  <1>w. Working(Connecting)
    BY Zenon, <1>0 DEF Working, Connecting
  <1>1. /\ b \in BlockHash \ {Genesis} /\ pprev[b] = TipBlock
        /\ Found(b, Txs(b), Txs(b), job.have, job.spent)
        /\ ViewCoins = Mid(b, Txs(b), job.spent)
        /\ job.blockundo = BlockUndo(b, Txs(b)) /\ DOMAIN job = JobFields
        /\ job.kind \notin {"none", "applied"}
    BY Zenon, <1>0, <1>w, AtWork
  <1>2. IsValidBlock(b) /\ job.spent = 0
    BY Zenon, <1>0, <1>1, EndFound
  <1>3. b \in ValidBlock
    BY Zenon, <1>1, <1>2 DEF ValidBlock
  <1>4. ViewCoins = Unspent[b]
    BY Zenon, <1>1, <1>2, MidEnd
  <1>5. CacheInv' /\ UNCHANGED <<Layers, ViewCoins>> /\ ViewBlock' = b
    BY Zenon, <1>0, <1>1, SetBestBlockStep, MoveSees DEF LedgerInv
  <1>6. DOMAIN job' = JobFields /\ job'.kind = "connected" /\ job'.block = b
    BY Zenon, <1>0, <1>1, JobEnds
  <1>7. DOMAIN undo' = DOMAIN undo \cup {b} /\ UndoRight(undo')
    <2>1. UndoRight(undo)
      BY Zenon DEF LedgerInv, Ledger
    <2>2. DOMAIN undo' = DOMAIN undo \cup {b}
      BY Zenon, <1>0
    <2>3. ASSUME NEW a \in DOMAIN undo' PROVE a \in ValidBlock /\ undo'[a] = BlockUndo(a, Txs(a))
      <3>1. CASE a \in DOMAIN undo
        BY Zenon, <1>0, <2>1, <2>2, <3>1 DEF UndoRight
      <3>2. CASE a \notin DOMAIN undo
        <4>1. a = b
          BY Zenon, <2>2, <3>2
        <4>2. undo'[a] = job.blockundo
          BY Zenon, <1>0, <2>2, <3>2
        <4> QED BY Zenon, <1>1, <1>3, <4>1, <4>2
      <3> QED BY Zenon, <3>1, <3>2
    <2> QED BY Zenon, <2>2, <2>3 DEF UndoRight
  <1>8. Ledger'
    <2>1. Chain[TipBlock] \subseteq ValidBlock \cap DOMAIN undo'
      BY Zenon, <1>7 DEF LedgerInv, Ledger
    <2>2. DOMAIN saved.undo \subseteq DOMAIN undo'
      BY Zenon, <1>7 DEF LedgerInv, Ledger
    <2>3. DOMAIN undo' \ dirty' \subseteq DOMAIN saved.undo
      <3>1. DOMAIN undo \ dirty \subseteq DOMAIN saved.undo
        BY Zenon DEF LedgerInv, Ledger
      <3>2. CASE b \in DOMAIN undo
        BY Zenon, <1>0, <1>7, <3>1, <3>2
      <3>3. CASE b \notin DOMAIN undo
        BY Zenon, <1>0, <1>7, <3>1, <3>3
      <3> QED BY Zenon, <3>2, <3>3
    <2> QED BY Zenon, <1>0, <1>5, <1>7, <2>1, <2>2, <2>3 DEF LedgerInv, Ledger, Layers
  <1>9. JobInv'
    <2>1. IsJob'
      BY Zenon, <1>1, <1>6 DEF IsJob
    <2>2. ConnectedInv'
      BY Zenon, <1>1, <1>3, <1>4, <1>5, <1>6, <1>7, <2>1 DEF ConnectedInv, Layers
    <2> QED BY Zenon, <1>6, <2>2 DEF JobInv
  <1>10. FlushInv'
    <2>1. ~flushing
      BY Zenon, <1>1, NotFlushing DEF LedgerInv
    <2> QED BY Zenon, <1>0, <2>1, Unflushed DEF LedgerInv
  <1>11. TipInv'
    <2>1. "connected" \notin Connecting \cup {"disconnect"}
      BY Zenon DEF Connecting
    <2> QED BY Zenon, <1>6, <2>1, TipNext
  <1>c. CoinsNext
    BY Zenon, <1>0, <1>1 DEF CoinsNext
  <1> QED BY Zenon, <1>5, <1>8, <1>9, <1>10, <1>11, <1>c DEF LedgerInv

\* The view is dropped and the node is idle again.
LEMMA Dropped ==
    ASSUME LedgerInv, job.kind \in Connecting, DropView, job' = NoJob,
           failed' \cap ValidBlock = {}, dirty \subseteq dirty',
           UNCHANGED <<chainTip, undo, saved, flushing, status>>
    PROVE  LedgerInv'
  <1>1. CacheInv' /\ UNCHANGED Layers /\ ViewCoins' = TipCoins /\ ViewBlock' = TipBlock
    BY Zenon, DropViewStep, DiscardSees DEF LedgerInv
  <1>2. Ledger'
    <2>1. DOMAIN undo \ dirty' \subseteq DOMAIN saved.undo
      BY Zenon DEF LedgerInv, Ledger
    <2> QED BY Zenon, <1>1, <2>1 DEF LedgerInv, Ledger, Layers
  <1>3. ~flushing
    <2>1. job.kind \notin {"none", "applied"}
      BY Zenon DEF Connecting
    <2> QED BY Zenon, <2>1, NotFlushing DEF LedgerInv
  <1>4. FlushInv'
    BY Zenon, <1>3, Unflushed DEF LedgerInv
  <1>5. chainTip' = TipBlock'
    BY Zenon, <1>1 DEF LedgerInv, TipInv, Layers
  <1>6. JobInv'
    BY Zenon, <1>1, <1>5, IdleNext DEF Layers
  <1>7. TipInv'
    BY Zenon, TipIdle
  <1> QED BY Zenon, <1>1, <1>2, <1>4, <1>6, <1>7 DEF LedgerInv

\* The block breaks a rule; DisconnectBlock never gets here.
LEMMA RejectStep ==
    ASSUME LedgerInv, Reject
    PROVE  LedgerInv' /\ CoinsNext
  <1>0. /\ \/ job.kind \in Connecting \cup {"disconnect"} /\ ~job.ok
           \/ AtEnd(Connecting) /\ job.block \in BadScripts
        /\ DropView /\ job' = NoJob
        /\ \/ failed' = failed \cup {job.block} /\ dirty' = dirty \cup {job.block}
           \/ UNCHANGED <<failed, dirty>>
        /\ UNCHANGED <<chainTip, undo, saved, flushing, status>>
    BY Zenon DEF Reject
  <1>1. job.kind \in Connecting /\ ~IsValidBlock(job.block)
    <2>1. CASE job.kind \in Connecting \cup {"disconnect"} /\ ~job.ok
      <3>1. job.kind # "disconnect"
        BY Zenon, <2>1, JobKinds DEF LedgerInv, DisconnectInv
      <3> QED BY Zenon, <2>1, <3>1, JobKinds DEF LedgerInv, ConnectInv
    <2>2. CASE AtEnd(Connecting) /\ job.block \in BadScripts
      <3>1. Working(Connecting) /\ job.unique = Txs(job.block) /\ job.done = Txs(job.block)
        BY Zenon, <2>2 DEF AtEnd
      <3>2. /\ job.kind \in Connecting /\ job.block \in BlockHash
            /\ Found(job.block, Txs(job.block), Txs(job.block), job.have, job.spent)
        BY Zenon, <3>1, AtWork
      <3> QED BY Zenon, <2>2, <3>2, EndFound
    <2> QED BY Zenon, <1>0, <2>1, <2>2
  <1>2. failed' \cap ValidBlock = {}
    <2>1. failed \cap ValidBlock = {}
      BY Zenon DEF LedgerInv, Ledger
    <2>2. job.block \notin ValidBlock
      BY Zenon, <1>1 DEF ValidBlock
    <2>3. failed' = failed \cup {job.block} \/ failed' = failed
      BY Zenon, <1>0
    <2> QED BY <2>1, <2>2, <2>3
  <1>3. dirty \subseteq dirty'
    BY Zenon, <1>0
  <1>4. LedgerInv'
    BY Zenon, <1>0, <1>1, <1>2, <1>3, Dropped
  <1> QED BY Zenon, <1>0, <1>4 DEF CoinsNext

\* TestBlockValidity drops its view.
LEMMA JustCheckedStep ==
    ASSUME LedgerInv, JustChecked
    PROVE  LedgerInv' /\ CoinsNext
  <1>0. /\ job.kind \in {"test"} /\ DropView /\ job' = NoJob
        /\ UNCHANGED <<chainTip, failed, undo, dirty, saved, flushing, status>>
    BY Zenon DEF JustChecked, AtEnd, Working, StepTo
  <1>1. job.kind \in Connecting
    BY Zenon, <1>0 DEF Connecting
  <1>2. failed' \cap ValidBlock = {} /\ dirty \subseteq dirty'
    BY Zenon, <1>0 DEF LedgerInv, Ledger
  <1>3. LedgerInv'
    BY Zenon, <1>0, <1>1, <1>2, Dropped
  <1> QED BY Zenon, <1>0, <1>3 DEF CoinsNext

----------------------------------------------------------------------------
(* The steps of DisconnectBlock. *)

\* A block is undone from its end.
LEMMA WithinEnd ==
    ASSUME NEW b \in BlockHash
    PROVE  Within(b, Txs(b), 0)
  BY TxFacts DEF Within

\* DisconnectBlock starts from the coins of its block, and has its undo data.
LEMMA DisconnectBlockStep ==
    ASSUME LedgerInv, DisconnectBlock
    PROVE  LedgerInv' /\ CoinsNext
  <1>1. /\ job.kind = "none" /\ ~flushing /\ chainTip # Genesis /\ GetBestBlock
        /\ UNCHANGED <<chainTip, failed, undo, dirty, saved, flushing>>
    BY Zenon DEF DisconnectBlock, Idle
  <1>2. IdleInv
    BY Zenon, <1>1, JobKinds DEF LedgerInv
  <1>3. CacheInv' /\ UNCHANGED <<Layers, ViewCoins, ViewBlock>>
    BY Zenon, <1>1, GetBestBlockStep, SameSees DEF LedgerInv
  <1>4. UNCHANGED <<TipCoins, TipBlock, ViewCoins, ViewBlock>>
    BY Zenon, <1>3 DEF Layers
  <1>5. Ledger'
    BY Zenon, <1>1, <1>3, LedgerKept DEF LedgerInv
  <1>6. FlushInv'
    BY Zenon, <1>1, Unflushed DEF LedgerInv
  <1>7. CASE ViewBlock = chainTip
    <2> DEFINE b == chainTip
    <2>1. Job(job', "disconnect", b, 0, 0, Txs(b), 0, <<>>, undo[b], TRUE)
      BY <1>7 DEF DisconnectBlock, Start, Job, JobFields
    <2>2. b = TipBlock /\ b \in BlockHash \ {Genesis}
      BY Zenon, <1>1, <1>2, <1>7, LayerTypes DEF IdleInv, LedgerInv
    <2>3. b \in Chain[b]
      BY Zenon, <2>2, ChainStep
    <2>4. b \in ValidBlock /\ undo[b] = BlockUndo(b, Txs(b))
      <3>1. Chain[TipBlock] \subseteq ValidBlock \cap DOMAIN undo /\ UndoRight(undo)
        BY Zenon DEF LedgerInv, Ledger
      <3>2. b \in ValidBlock /\ b \in DOMAIN undo
        BY Zenon, <2>2, <2>3, <3>1
      <3> QED BY Zenon, <3>1, <3>2 DEF UndoRight
    <2>5. ViewCoins' = Mid(b, Txs(b), 0)
      <3>1. ViewCoins' = Unspent[b]
        BY Zenon, <1>2, <1>4, <2>2 DEF IdleInv, LedgerInv, Ledger
      <3> QED BY <2>2, <3>1, MidEnd
    <2>6. b = TipBlock' /\ Within(b, Txs(b), 0)
      BY Zenon, <1>4, <2>2, WithinEnd
    <2>7. JobInv'
      BY Zenon, <2>1, <2>4, <2>5, <2>6, DisconnectNext
    <2>8. TipInv'
      BY Zenon, <1>1, <2>6, TipNext
    <2> QED BY Zenon, <1>1, <1>3, <1>5, <1>6, <2>7, <2>8 DEF LedgerInv, CoinsNext
  <1>8. CASE ViewBlock # chainTip
    <2>1. job' = NoJob /\ status' = "aborted"
      BY Zenon, <1>8 DEF DisconnectBlock
    <2>2. ViewCoins' = TipCoins' /\ ViewBlock' = TipBlock'
      BY Zenon, <1>2, <1>4 DEF IdleInv
    <2>3. status' # "running"
      BY Zenon, <2>1
    <2>4. JobInv' /\ TipInv'
      BY Zenon, <2>1, <2>2, <2>3, IdleNext, TipIdle
    <2> QED BY Zenon, <1>1, <1>3, <1>5, <1>6, <2>4 DEF LedgerInv, CoinsNext
  <1> QED BY Zenon, <1>7, <1>8

\* What holds while DisconnectBlock is at work.
LEMMA AtUndo ==
    ASSUME LedgerInv, Working({"disconnect"})
    PROVE  /\ job.kind = "disconnect" /\ job.kind \notin {"none", "applied"}
           /\ DOMAIN job = JobFields /\ job.ok = TRUE
           /\ job.block \in ValidBlock /\ job.block \in BlockHash \ {Genesis}
           /\ job.block = TipBlock
           /\ Within(job.block, job.done, job.spent)
           /\ ViewCoins = Mid(job.block, job.done, job.spent)
           /\ job.blockundo = BlockUndo(job.block, Txs(job.block))
  <1>1. job.kind = "disconnect"
    BY Zenon DEF Working
  <1>2. DisconnectInv
    BY Zenon, <1>1, JobKinds DEF LedgerInv
  <1>3. job.kind \notin {"none", "applied"}
    BY Zenon, <1>1
  <1>4. job.block \in BlockHash \ {Genesis}
    BY Zenon, <1>2 DEF DisconnectInv, ValidBlock
  <1> QED BY Zenon, <1>1, <1>2, <1>3, <1>4 DEF DisconnectInv, IsJob

\* The transactions of a valid block are new, and its inputs are found.
LEMMA ValidFound ==
    ASSUME NEW b \in ValidBlock, NEW n \in Nat, n < Txs(b)
    PROVE  AllNew(b) /\ InputsValid(b, n + 1) /\ InputsValid(b, Txs(b))
  <1>0. b \in BlockHash /\ IsValidBlock(b)
    BY Zenon DEF ValidBlock
  <1>1. AllNew(b) /\ InputsValid(b, Txs(b))
    BY Zenon, <1>0, ValidBlockFacts
  <1>2. \A i \in 1..(n + 1) : i \in 1..Txs(b)
    BY <1>0, TxFacts
  <1> QED BY Zenon, <1>1, <1>2 DEF InputsValid

\* A step of DisconnectBlock that leaves the block index and the lower layers alone.
LEMMA UndoKept ==
    ASSUME LedgerInv, Working({"disconnect"}), CacheInv', UNCHANGED Layers,
           UNCHANGED <<chainTip, failed, undo, dirty, saved, flushing, status>>, JobInv'
    PROVE  LedgerInv'
  <1>1. Ledger'
    BY Zenon, LedgerKept DEF LedgerInv
  <1>2. FlushInv'
    BY Zenon, AtUndo, FlushKept DEF LedgerInv
  <1>3. TipInv'
    <2>1. job.kind \in Connecting \cup {"disconnect"}
      BY Zenon DEF Working
    <2>2. chainTip = TipBlock
      BY Zenon, <2>1 DEF LedgerInv, TipInv
    <2>3. chainTip' = TipBlock'
      BY Zenon, <2>2 DEF Layers
    <2> QED BY Zenon, <2>3, TipNext
  <1> QED BY Zenon, <1>1, <1>2, <1>3 DEF LedgerInv

\* Back to the transaction before.
LEMMA WithinBack ==
    ASSUME NEW b \in BlockHash, NEW d, Within(b, d, 0), d > 0
    PROVE  /\ d - 1 \in Nat /\ (d - 1) + 1 = d /\ d - 1 < Txs(b)
           /\ Within(b, d - 1, Ins(b, d - 1))
  <1>1. Txs(b) \in Nat /\ d \in 1..Txs(b)
    BY TxFacts DEF Within
  <1>2. d - 1 \in 0..Txs(b) /\ d - 1 \in Nat /\ (d - 1) + 1 = d /\ d - 1 < Txs(b)
    BY <1>1
  <1>3. vtx[b][(d - 1) + 1] \in Txid
    BY Zenon, <1>1, <1>2, TxFacts
  <1>4. Ins(b, d - 1) = Len(vin[vtx[b][(d - 1) + 1]]) /\ Ins(b, d - 1) \in Nat
    BY Zenon, <1>3, InFacts DEF Ins, NextTx
  <1>5. Ins(b, d - 1) <= Len(vin[vtx[b][(d - 1) + 1]])
    BY <1>4
  <1> QED BY Zenon, <1>2, <1>4, <1>5 DEF Within

\* The outputs that are removed are exactly those the block has made.
LEMMA RemoveOutputsStep ==
    ASSUME LedgerInv, RemoveOutputs
    PROVE  LedgerInv' /\ CoinsNext
  <1> DEFINE b == job.block
             n == job.done - 1
             x == NextTx(b, n)
             ok == ViewCoins[x] = FromTx(x, nHeight[b])
  <1>0. /\ Working({"disconnect"}) /\ job.spent = 0 /\ job.done > 0
        /\ UNCHANGED <<chainTip, failed, undo, dirty, saved, flushing, status>>
    BY Zenon DEF RemoveOutputs, AtRemove, StepTo
  <1>1. /\ b \in ValidBlock /\ b \in BlockHash \ {Genesis} /\ b = TipBlock
        /\ Within(b, job.done, 0) /\ ViewCoins = Mid(b, job.done, 0)
        /\ job.blockundo = BlockUndo(b, Txs(b))
    BY Zenon, <1>0, AtUndo
  <1>2. n \in Nat /\ n + 1 = job.done /\ n < Txs(b) /\ Within(b, n, Ins(b, n))
    BY Zenon, <1>0, <1>1, WithinBack
  <1>3. /\ ModifyCoins(x, Pruned)
        /\ job' = [job EXCEPT !.done = @ - 1, !.spent = Ins(b, n), !.ok = ok]
    <2>1. vtx[b][job.done] = x
      BY Zenon, <1>2 DEF NextTx
    <2> QED BY Zenon, <2>1 DEF RemoveOutputs, StepTo, Ins
  <1>4. /\ x \in Txid
        /\ Mid(b, n, Ins(b, n))[x] = Pruned
        /\ Mid(b, n + 1, 0)[x] = FromTx(x, nHeight[b])
        /\ \A y \in Txid : y # x => Mid(b, n + 1, 0)[y] = Mid(b, n, Ins(b, n))[y]
    BY Zenon, <1>1, <1>2, ValidFound, MakeWrites
  <1>5. ok = TRUE /\ Pruned \in Coins
    <2>1. ok
      BY Zenon, <1>1, <1>2, <1>4
    <2> QED BY <2>1, PrunedAssumption DEF PrunedAssumption
  <1> HIDE DEF x, n, ok
  <1>6. CacheInv' /\ UNCHANGED <<Layers, ViewBlock>> /\ ViewCoins' = [ViewCoins EXCEPT ![x] = Pruned]
    <2>1. CacheInv' /\ Plain!Write(x, Pruned)
      BY Zenon, <1>3, <1>4, <1>5, ModifyCoinsStep DEF LedgerInv
    <2> QED BY Zenon, <2>1, WriteSees
  <1>7. ViewCoins' = Mid(b, n, Ins(b, n))
    <2>1. ViewCoins = Mid(b, n + 1, 0)
      BY Zenon, <1>1, <1>2
    <2>2. \A y \in Txid : y # x => Mid(b, n, Ins(b, n))[y] = Mid(b, n + 1, 0)[y]
      BY Zenon, <1>4
    <2> QED BY <1>4, <1>6, <2>1, <2>2, MidWritten
  <1>8. Job(job', "disconnect", b, job.unique, job.have, n, Ins(b, n), job.txundo, job.blockundo, ok)
    <2>1. DOMAIN job = JobFields /\ job.kind = "disconnect"
      BY Zenon, <1>0, AtUndo
    <2> QED BY Zenon, <1>3, <2>1, JobMoves DEF n
  <1>9. JobInv'
    <2>1. b = TipBlock'
      BY Zenon, <1>1, <1>6 DEF Layers
    <2> QED BY Zenon, <1>1, <1>2, <1>5, <1>7, <1>8, <2>1, DisconnectNext
  <1>c. CoinsNext
    BY Zenon, <1>3, <1>4, <1>5 DEF CoinsNext
  <1> QED BY Zenon, <1>0, <1>6, <1>9, <1>c, UndoKept

\* The undo data of a block, entry by entry.
LEMMA UndoEntry ==
    ASSUME NEW b \in BlockHash, NEW n \in Nat, n < Txs(b),
           NEW m \in Nat, m < Len(vin[vtx[b][n + 1]])
    PROVE  BlockUndo(b, Txs(b))[n + 1][m + 1] = UndoOf(NextCoins(b, n, m), NextIn(b, n, m))
  <1>1. n + 1 \in 1..Txs(b) /\ vtx[b][n + 1] \in Txid
    BY TxFacts
  <1>2. m + 1 \in 1..Len(vin[vtx[b][n + 1]])
    BY <1>1, InFacts
  <1>3. (n + 1) - 1 = n /\ (m + 1) - 1 = m
    OBVIOUS
  <1>4. BlockUndo(b, Txs(b))[n + 1] = TxUndo(b, n + 1, Len(vin[vtx[b][n + 1]]))
    BY Zenon, <1>1 DEF BlockUndo
  <1>5. TxUndo(b, n + 1, Len(vin[vtx[b][n + 1]]))[m + 1] = UndoAt(b, n + 1, m + 1)
    BY Zenon, <1>2 DEF TxUndo
  <1>6. UndoAt(b, n + 1, m + 1) = UndoOf(NextCoins(b, n, m), NextIn(b, n, m))
    BY Zenon, <1>3 DEF UndoAt, NextCoins, NextIn
  <1> QED BY Zenon, <1>4, <1>5, <1>6

\* The inputs of a valid block were there when it spent them.
LEMMA ValidThere ==
    ASSUME NEW b \in ValidBlock, NEW n \in Nat, n < Txs(b),
           NEW m \in Nat, m < Len(vin[vtx[b][n + 1]])
    PROVE  NextIn(b, n, m)[1] \in Txid /\ IsAvailable(NextCoins(b, n, m), NextIn(b, n, m))
  <1>0. b \in BlockHash \ {Genesis}
    BY Zenon DEF ValidBlock
  <1>1. n + 1 \in 1..Txs(b) /\ vtx[b][n + 1] \in Txid
    BY <1>0, TxFacts
  <1>2. m + 1 \in 1..Len(vin[vtx[b][n + 1]])
    BY <1>1, InFacts
  <1>3. InputValid(b, n + 1, m + 1) /\ AllNew(b)
    BY Zenon, <1>1, <1>2, ValidFound DEF InputsValid
  <1> QED BY <1>0, <1>3, StillThere DEF NextIn, NextCoins

\* Back to the input before.
LEMMA WithinSpent ==
    ASSUME NEW b \in BlockHash, NEW n, NEW s, Within(b, n, s), s > 0
    PROVE  /\ n \in Nat /\ n < Txs(b) /\ s - 1 \in Nat /\ (s - 1) + 1 = s
           /\ s - 1 < Len(vin[vtx[b][n + 1]]) /\ Within(b, n, s - 1)
  <1>1. Txs(b) \in Nat /\ n \in 0..Txs(b) /\ s \in Nat
    BY Zenon, TxFacts DEF Within
  <1>2. n < Txs(b) /\ s <= Len(vin[vtx[b][n + 1]])
    BY <1>1 DEF Within
  <1>3. Len(vin[vtx[b][n + 1]]) \in Nat
    <2>1. vtx[b][n + 1] \in Txid
      BY <1>1, <1>2, TxFacts
    <2> QED BY <2>1, InFacts
  <1>4. /\ n \in Nat /\ s - 1 \in Nat /\ (s - 1) + 1 = s
        /\ s - 1 < Len(vin[vtx[b][n + 1]]) /\ s - 1 <= Len(vin[vtx[b][n + 1]])
    BY <1>1, <1>2, <1>3
  <1> QED BY Zenon, <1>1, <1>2, <1>4 DEF Within

\* One input is restored, and nothing was in its place.
LEMMA ApplyTxInUndoStep ==
    ASSUME LedgerInv, ApplyTxInUndo
    PROVE  LedgerInv' /\ CoinsNext
  <1> DEFINE b == job.block
             n == job.done
             m == job.spent - 1
             out == NextIn(b, n, m)
             c == NextCoins(b, n, m)
             ok == Clean(Spent(c, out), UndoOf(c, out), out)
  <1>0. /\ Working({"disconnect"}) /\ job.spent > 0
        /\ UNCHANGED <<chainTip, failed, undo, dirty, saved, flushing, status>>
    BY Zenon DEF ApplyTxInUndo, AtRestore, StepTo
  <1>1. /\ b \in ValidBlock /\ b \in BlockHash \ {Genesis} /\ b = TipBlock
        /\ Within(b, n, job.spent) /\ ViewCoins = Mid(b, n, job.spent)
        /\ job.blockundo = BlockUndo(b, Txs(b))
    BY Zenon, <1>0, AtUndo
  <1>2. /\ n \in Nat /\ n < Txs(b) /\ m \in Nat /\ m + 1 = job.spent
        /\ m < Len(vin[vtx[b][n + 1]]) /\ Within(b, n, m)
    BY Zenon, <1>0, <1>1, WithinSpent
  <1>3. out[1] \in Txid /\ IsAvailable(c, out)
    BY Zenon, <1>1, <1>2, ValidThere
  <1>4. /\ Mid(b, n, m + 1)[out[1]] = Spent(c, out)
        /\ \A y \in Txid : y # out[1] => Mid(b, n, m + 1)[y] = Mid(b, n, m)[y]
    BY Zenon, <1>1, <1>2, <1>3, SpendWrites
  <1>5. Mid(b, n, m)[out[1]] = c /\ c \in CoinsOf(out[1]) /\ c \in Coins
    BY Zenon, <1>1, <1>3, MidOf DEF NextCoins
  <1>6. Restored(Spent(c, out), UndoOf(c, out)) = c /\ ok
    BY Zenon, <1>3, <1>5, UndoUndoes
  <1>7. /\ ModifyCoins(out[1], c)
        /\ job' = [job EXCEPT !.spent = @ - 1, !.ok = ok]
    <2>1. vin[ThisTx][job.spent] = out
      BY Zenon, <1>2 DEF ThisTx, NextIn
    <2>2. ViewCoins[out[1]] = Spent(c, out)
      BY Zenon, <1>1, <1>2, <1>4
    <2>3. job.blockundo[job.done + 1][job.spent] = UndoOf(c, out)
      BY ZenonT(60), <1>1, <1>2, UndoEntry
    <2> HIDE DEF c, out, m
    <2> QED BY Zenon, <1>6, <2>1, <2>2, <2>3 DEF ApplyTxInUndo, StepTo
  <1>8. ok = TRUE
    BY Zenon, <1>6 DEF Clean
  <1> HIDE DEF c, out, m, ok
  <1>9. CacheInv' /\ UNCHANGED <<Layers, ViewBlock>> /\ ViewCoins' = [ViewCoins EXCEPT ![out[1]] = c]
    <2>1. CacheInv' /\ Plain!Write(out[1], c)
      BY Zenon, <1>3, <1>5, <1>7, ModifyCoinsStep DEF LedgerInv
    <2> QED BY Zenon, <2>1, WriteSees
  <1>10. ViewCoins' = Mid(b, n, m)
    <2>1. ViewCoins = Mid(b, n, m + 1)
      BY Zenon, <1>1, <1>2
    <2>2. \A y \in Txid : y # out[1] => Mid(b, n, m)[y] = Mid(b, n, m + 1)[y]
      BY Zenon, <1>4
    <2> QED BY <1>3, <1>5, <1>9, <2>1, <2>2, MidWritten
  <1>11. Job(job', "disconnect", b, job.unique, job.have, n, m, job.txundo, job.blockundo, ok)
    <2>1. DOMAIN job = JobFields /\ job.kind = "disconnect"
      BY Zenon, <1>0, AtUndo
    <2> QED BY Zenon, <1>7, <2>1, JobSpends DEF m
  <1>12. JobInv'
    <2>1. b = TipBlock'
      BY Zenon, <1>1, <1>9 DEF Layers
    <2> QED BY Zenon, <1>1, <1>2, <1>8, <1>10, <1>11, <2>1, DisconnectNext
  <1>c. CoinsNext
    BY Zenon, <1>3, <1>5, <1>7 DEF CoinsNext
  <1> QED BY Zenon, <1>0, <1>9, <1>12, <1>c, UndoKept

\* DisconnectBlock has come to its start: the view holds the coins of the block before.
LEMMA FinishDisconnectStep ==
    ASSUME LedgerInv, FinishDisconnect
    PROVE  LedgerInv' /\ CoinsNext
  <1> DEFINE b == job.block
  <1>0. /\ Working({"disconnect"}) /\ job.spent = 0 /\ job.done = 0
        /\ SetBestBlock(pprev[b]) /\ job' = [job EXCEPT !.kind = "disconnected"]
        /\ UNCHANGED <<chainTip, failed, undo, dirty, saved, flushing, status>>
    BY Zenon DEF FinishDisconnect, AtStart, StepTo
  <1>1. /\ b \in BlockHash \ {Genesis} /\ b = TipBlock /\ ViewCoins = Mid(b, 0, 0)
        /\ DOMAIN job = JobFields /\ job.kind \notin {"none", "applied"}
    BY Zenon, <1>0, AtUndo
  <1>2. pprev[b] \in BlockHash /\ ViewCoins = Unspent[pprev[b]]
    BY Zenon, <1>1, MidStart, BlocksAssumption DEF BlocksAssumption
  <1>3. CacheInv' /\ UNCHANGED <<Layers, ViewCoins>> /\ ViewBlock' = pprev[b]
    BY Zenon, <1>0, <1>2, SetBestBlockStep, MoveSees DEF LedgerInv
  <1>4. DOMAIN job' = JobFields /\ job'.kind = "disconnected" /\ job'.block = b
    BY Zenon, <1>0, <1>1, JobEnds
  <1>5. Ledger'
    BY Zenon, <1>0, <1>3, LedgerKept DEF LedgerInv
  <1>6. JobInv'
    <2>1. IsJob'
      BY Zenon, <1>1, <1>4 DEF IsJob
    <2>2. DisconnectedInv'
      BY Zenon, <1>1, <1>2, <1>3, <1>4, <2>1 DEF DisconnectedInv, Layers
    <2> QED BY Zenon, <1>4, <2>2 DEF JobInv
  <1>7. FlushInv'
    BY Zenon, <1>0, <1>1, FlushKept DEF LedgerInv
  <1>8. TipInv'
    <2>1. "disconnected" \notin Connecting \cup {"disconnect"}
      BY Zenon DEF Connecting
    <2> QED BY Zenon, <1>4, <2>1, TipNext
  <1>c. CoinsNext
    BY Zenon, <1>0, <1>2 DEF CoinsNext
  <1> QED BY Zenon, <1>3, <1>5, <1>6, <1>7, <1>8, <1>c DEF LedgerInv

----------------------------------------------------------------------------
(* ConnectTip and DisconnectTip after the block, and everything else. *)

\* The block pcoinsTip stands for after view.Flush().
LEMMA NewTip ==
    ASSUME LedgerInv, job.kind \in {"connected", "disconnected"}
    PROVE  /\ ViewBlock \in BlockHash /\ ViewCoins = Unspent[ViewBlock]
           /\ Chain[ViewBlock] \subseteq ValidBlock \cap DOMAIN undo
           /\ ViewBlock = IF job.kind = "connected" THEN job.block ELSE pprev[job.block]
           /\ DOMAIN job = JobFields
  <1>0. Chain[TipBlock] \subseteq ValidBlock \cap DOMAIN undo
    BY Zenon DEF LedgerInv, Ledger
  <1>1. CASE job.kind = "connected"
    <2>1. ConnectedInv
      BY Zenon, <1>1, JobKinds DEF LedgerInv
    <2>2. job.block \in BlockHash \ {Genesis} /\ job.block \in ValidBlock \cap DOMAIN undo
      BY Zenon, <2>1 DEF ConnectedInv, ValidBlock
    <2>3. Chain[job.block] = {job.block} \cup Chain[TipBlock]
      BY Zenon, <2>1, <2>2, ChainStep DEF ConnectedInv
    <2>4. Chain[job.block] \subseteq ValidBlock \cap DOMAIN undo
      BY Zenon, <1>0, <2>2, <2>3
    <2> QED BY Zenon, <1>1, <2>1, <2>2, <2>4 DEF ConnectedInv, IsJob
  <1>2. CASE job.kind = "disconnected"
    <2>0. job.kind # "connected"
      BY Zenon, <1>2
    <2>1. DisconnectedInv
      BY Zenon, <1>2, JobKinds DEF LedgerInv
    <2>2. job.block \in BlockHash \ {Genesis} /\ job.block = TipBlock
      BY Zenon, <2>1 DEF DisconnectedInv, IsJob
    <2>3. pprev[job.block] \in BlockHash
      BY Zenon, <2>2, BlocksAssumption DEF BlocksAssumption
    <2>4. Chain[TipBlock] = {TipBlock} \cup Chain[pprev[job.block]]
      BY Zenon, <2>2, ChainStep
    <2>5. Chain[pprev[job.block]] \subseteq ValidBlock \cap DOMAIN undo
      BY Zenon, <1>0, <2>4
    <2> QED BY Zenon, <2>0, <2>1, <2>3, <2>5 DEF DisconnectedInv, IsJob
  <1> QED BY Zenon, <1>1, <1>2

\* view.Flush() gives pcoinsTip the coins of the new tip.
LEMMA ApplyViewStep ==
    ASSUME LedgerInv, ApplyView
    PROVE  LedgerInv' /\ CoinsNext
  <1> DEFINE e == IF job.kind = "connected" THEN job.block ELSE pprev[job.block]
  <1>0. /\ job.kind \in {"connected", "disconnected"} /\ FlushView
        /\ job' = [job EXCEPT !.kind = "applied", !.block = e]
        /\ UNCHANGED <<chainTip, failed, undo, dirty, saved, flushing, status>>
    BY Zenon DEF ApplyView, StepTo
  <1>1. /\ ViewBlock \in BlockHash /\ ViewCoins = Unspent[ViewBlock]
        /\ Chain[ViewBlock] \subseteq ValidBlock \cap DOMAIN undo
        /\ ViewBlock = e /\ DOMAIN job = JobFields
    BY Zenon, <1>0, NewTip
  <1> HIDE DEF e
  <1>2. /\ CacheInv' /\ UNCHANGED <<db, dbBest, ViewCoins, ViewBlock>>
        /\ TipCoins' = ViewCoins /\ TipBlock' = ViewBlock
    BY Zenon, <1>0, FlushViewStep, CommitSees DEF LedgerInv
  <1>3. DOMAIN job' = JobFields /\ job'.kind = "applied" /\ job'.block = ViewBlock
    BY Zenon, <1>0, <1>1, JobApplied
  <1>4. Ledger'
    BY Zenon, <1>0, <1>1, <1>2 DEF LedgerInv, Ledger, UndoRight
  <1>5. JobInv'
    <2>1. IsJob'
      BY Zenon, <1>1, <1>3 DEF IsJob
    <2>2. AppliedInv'
      BY Zenon, <1>1, <1>2, <1>3, <2>1 DEF AppliedInv
    <2> QED BY Zenon, <1>3, <2>2 DEF JobInv
  <1>6. FlushInv'
    <2>1. job.kind \notin {"none", "applied"}
      BY Zenon, <1>0
    <2> QED BY Zenon, <1>0, <2>1, FlushKept DEF LedgerInv
  <1>7. TipInv'
    <2>1. "applied" \notin Connecting \cup {"disconnect"}
      BY Zenon DEF Connecting
    <2> QED BY Zenon, <1>3, <2>1, TipNext
  <1>c. CoinsNext
    BY Zenon, <1>0 DEF CoinsNext
  <1> QED BY Zenon, <1>2, <1>4, <1>5, <1>6, <1>7, <1>c DEF LedgerInv

\* A step that does not touch the coins.
LEMMA SameCoins ==
    ASSUME CacheInv, UNCHANGED coinVars
    PROVE  CacheInv' /\ UNCHANGED <<Layers, ViewCoins, ViewBlock>>
  <1>1. CacheInv'
    BY Zenon, CacheNext
  <1>2. UNCHANGED <<db, dbBest, tip, tipBest, view, viewBest>>
    BY Zenon DEF coinVars
  <1>3. UNCHANGED <<TipBlock, ViewBlock>>
    BY Zenon, <1>2 DEF TipBlock, ViewBlock
  <1>4. UNCHANGED <<TipCoins, ViewCoins>>
    BY Zenon, <1>2, Seen, SeenNext
  <1> QED BY Zenon, <1>1, <1>2, <1>3, <1>4 DEF Layers

\* A step that changes neither the job nor what the upper layers show.
LEMMA JobSame ==
    ASSUME JobInv, TipInv,
           UNCHANGED <<job, chainTip, undo, status, TipCoins, TipBlock, ViewCoins, ViewBlock>>
    PROVE  JobInv' /\ TipInv'
  BY Zenon DEF JobInv, TipInv, IdleInv, ConnectInv, DisconnectInv, ConnectedInv,
               DisconnectedInv, AppliedInv, IsJob

\* chainActive follows pcoinsTip.
LEMMA UpdateTipStep ==
    ASSUME LedgerInv, UpdateTip
    PROVE  LedgerInv' /\ UNCHANGED coinVars
  <1>0. /\ job.kind = "applied" /\ ~flushing /\ chainTip' = job.block /\ job' = NoJob
        /\ UNCHANGED <<failed, undo, dirty, saved, flushing, status, coinVars>>
    BY Zenon DEF UpdateTip
  <1>1. AppliedInv
    BY Zenon, <1>0, JobKinds DEF LedgerInv
  <1>2. CacheInv' /\ UNCHANGED <<Layers, ViewCoins, ViewBlock>>
    BY Zenon, <1>0, SameCoins DEF LedgerInv
  <1>3. Ledger'
    BY Zenon, <1>0, <1>2, LedgerKept DEF LedgerInv
  <1>4. JobInv' /\ TipInv'
    <2>1. chainTip' = TipBlock' /\ ViewCoins' = TipCoins' /\ ViewBlock' = TipBlock'
      BY Zenon, <1>0, <1>1, <1>2 DEF AppliedInv, Layers
    <2> QED BY Zenon, <1>0, <2>1, IdleNext, TipIdle
  <1>5. FlushInv'
    BY Zenon, <1>0, Unflushed DEF LedgerInv
  <1> QED BY Zenon, <1>0, <1>2, <1>3, <1>4, <1>5 DEF LedgerInv

\* The block index is written: nothing that was on disk is lost.
LEMMA WriteBlockIndexStep ==
    ASSUME LedgerInv, WriteBlockIndex
    PROVE  LedgerInv' /\ UNCHANGED coinVars
  <1> DEFINE written == [b \in DOMAIN saved.undo \cup (DOMAIN undo \cap dirty) |->
                           IF b \in dirty THEN undo[b] ELSE saved.undo[b]]
             marked == (saved.failed \ dirty) \cup (failed \cap dirty)
  <1>0. /\ job.kind \in {"none", "applied"} /\ saved' = [undo |-> written, failed |-> marked]
        /\ dirty' = {} /\ flushing' \in BOOLEAN
        /\ UNCHANGED <<chainTip, failed, undo, job, status, coinVars>>
    BY Zenon DEF WriteBlockIndex, MayFlush, Idle
  <1>1. CacheInv' /\ UNCHANGED <<Layers, ViewCoins, ViewBlock>>
    BY Zenon, <1>0, SameCoins DEF LedgerInv
  <1>l. /\ UndoRight(undo) /\ failed \cap ValidBlock = {}
        /\ UndoRight(saved.undo) /\ saved.failed \cap ValidBlock = {}
        /\ DOMAIN saved.undo \subseteq DOMAIN undo /\ DOMAIN undo \ dirty \subseteq DOMAIN saved.undo
        /\ Chain[TipBlock] \subseteq ValidBlock \cap DOMAIN undo
        /\ Chain[dbBest] \subseteq ValidBlock \cap DOMAIN undo
        /\ TipCoins = Unspent[TipBlock] /\ db = Unspent[dbBest]
    BY Zenon DEF LedgerInv, Ledger
  <1>w. DOMAIN written = DOMAIN undo /\ UndoRight(written)
    <2>1. DOMAIN written = DOMAIN saved.undo \cup (DOMAIN undo \cap dirty)
      BY Zenon
    <2>2. DOMAIN written = DOMAIN undo
      BY Zenon, <1>l, <2>1
    <2>3. ASSUME NEW a \in DOMAIN written PROVE a \in ValidBlock /\ written[a] = BlockUndo(a, Txs(a))
      <3>1. CASE a \in dirty
        <4>1. written[a] = undo[a]
          BY Zenon, <2>1, <3>1
        <4> QED BY Zenon, <1>l, <2>2, <4>1 DEF UndoRight
      <3>2. CASE a \notin dirty
        <4>1. written[a] = saved.undo[a] /\ a \in DOMAIN saved.undo
          BY Zenon, <2>1, <3>2
        <4> QED BY Zenon, <1>l, <4>1 DEF UndoRight
      <3> QED BY Zenon, <3>1, <3>2
    <2> HIDE DEF written
    <2> QED BY Zenon, <2>2, <2>3 DEF UndoRight
  <1>m. marked \cap ValidBlock = {}
    BY Zenon, <1>l
  <1> HIDE DEF written, marked
  <1>2. saved'.undo = written /\ saved'.failed = marked
    BY Zenon, <1>0
  <1>3. Ledger'
    <2>1. /\ TipCoins' = Unspent[TipBlock'] /\ db' = Unspent[dbBest']
          /\ Chain[TipBlock'] \subseteq ValidBlock \cap DOMAIN undo'
          /\ Chain[dbBest'] \subseteq ValidBlock \cap DOMAIN saved'.undo
          /\ UndoRight(undo') /\ failed' \cap ValidBlock = {}
      BY Zenon, <1>0, <1>1, <1>2, <1>l, <1>w DEF Layers
    <2>2. /\ UndoRight(saved'.undo) /\ saved'.failed \cap ValidBlock = {}
          /\ DOMAIN saved'.undo \subseteq DOMAIN undo' /\ DOMAIN undo' \ dirty' \subseteq DOMAIN saved'.undo
      BY Zenon, <1>0, <1>2, <1>w, <1>m
    <2> QED BY Zenon, <2>1, <2>2 DEF Ledger
  <1>4. JobInv' /\ TipInv'
    BY Zenon, <1>0, <1>1, JobSame DEF LedgerInv, Layers
  <1>5. FlushInv'
    <2>1. DOMAIN undo' \subseteq DOMAIN saved'.undo
      BY Zenon, <1>0, <1>2, <1>w
    <2> QED BY Zenon, <1>0, <2>1 DEF FlushInv
  <1> QED BY Zenon, <1>0, <1>1, <1>3, <1>4, <1>5 DEF LedgerInv

\* The coins are written, after the block index: every block of their chain has its undo data on disk.
LEMMA FlushCoinsStep ==
    ASSUME LedgerInv, FlushCoins
    PROVE  LedgerInv' /\ CoinsNext
  <1>0. /\ flushing /\ FlushTip /\ flushing' = FALSE
        /\ UNCHANGED <<chainTip, failed, undo, dirty, saved, job, status>>
    BY Zenon DEF FlushCoins
  <1>1. /\ CacheInv' /\ UNCHANGED <<TipCoins, TipBlock, ViewCoins, ViewBlock>>
        /\ db' = TipCoins /\ dbBest' = TipBlock
    BY Zenon, <1>0, FlushTipStep, SaveSees DEF LedgerInv
  <1>2. DOMAIN undo \subseteq DOMAIN saved.undo
    BY Zenon, <1>0 DEF LedgerInv, FlushInv
  <1>3. Ledger'
    <2>1. /\ UndoRight(undo) /\ failed \cap ValidBlock = {} /\ saved.failed \cap ValidBlock = {}
          /\ Chain[TipBlock] \subseteq ValidBlock \cap DOMAIN undo
          /\ TipCoins = Unspent[TipBlock] /\ UndoRight(saved.undo)
          /\ DOMAIN saved.undo \subseteq DOMAIN undo /\ DOMAIN undo \ dirty \subseteq DOMAIN saved.undo
      BY Zenon DEF LedgerInv, Ledger
    <2>2. Chain[TipBlock] \subseteq ValidBlock \cap DOMAIN saved.undo
      BY Zenon, <1>2, <2>1
    <2> QED BY Zenon, <1>0, <1>1, <2>1, <2>2 DEF Ledger
  <1>4. JobInv' /\ TipInv'
    BY Zenon, <1>0, <1>1, JobSame DEF LedgerInv
  <1>5. FlushInv'
    BY Zenon, <1>0 DEF FlushInv
  <1> QED BY Zenon, <1>0, <1>1, <1>3, <1>4, <1>5 DEF LedgerInv, CoinsNext

\* A flush that fails leaves the coins as they were.
LEMMA FlushFailsStep ==
    ASSUME LedgerInv, FlushFails
    PROVE  LedgerInv' /\ UNCHANGED coinVars
  <1>0. /\ MayFlush \/ flushing
        /\ flushing' = FALSE /\ job' = NoJob /\ status' = "stopping"
        /\ UNCHANGED <<chainTip, failed, undo, dirty, saved, coinVars>>
    BY Zenon DEF FlushFails
  <1>1. job.kind = "none" \/ job.kind = "applied"
    BY Zenon, <1>0 DEF MayFlush, Idle, LedgerInv, FlushInv
  <1>2. ViewCoins = TipCoins /\ ViewBlock = TipBlock
    BY Zenon, <1>1, JobKinds DEF LedgerInv, IdleInv, AppliedInv
  <1>3. CacheInv' /\ UNCHANGED <<Layers, ViewCoins, ViewBlock>>
    BY Zenon, <1>0, SameCoins DEF LedgerInv
  <1>4. Ledger'
    BY Zenon, <1>0, <1>3, LedgerKept DEF LedgerInv
  <1>5. JobInv' /\ TipInv'
    <2>1. ViewCoins' = TipCoins' /\ ViewBlock' = TipBlock'
      BY Zenon, <1>2, <1>3 DEF Layers
    <2>2. status' # "running"
      BY Zenon, <1>0
    <2> QED BY Zenon, <1>0, <2>1, <2>2, IdleNext, TipIdle
  <1>6. FlushInv'
    BY Zenon, <1>0 DEF FlushInv
  <1> QED BY Zenon, <1>0, <1>3, <1>4, <1>5, <1>6 DEF LedgerInv

\* Nothing but the caches changes.
LEMMA NodeSame ==
    ASSUME LedgerInv, CacheInv', UNCHANGED <<Layers, ViewCoins, ViewBlock>>, UNCHANGED nodeVars
    PROVE  LedgerInv'
  <1>0. UNCHANGED <<chainTip, failed, undo, dirty, saved, job, flushing, status>>
    BY Zenon DEF nodeVars
  <1>1. Ledger'
    BY Zenon, <1>0, LedgerKept DEF LedgerInv
  <1>2. JobInv' /\ TipInv'
    BY Zenon, <1>0, JobSame DEF LedgerInv, Layers
  <1>3. FlushInv'
    BY Zenon, <1>0 DEF LedgerInv, FlushInv
  <1> QED BY Zenon, <1>1, <1>2, <1>3 DEF LedgerInv

\* The memory pool changes only which coins are cached.
LEMMA LookUpStep ==
    ASSUME LedgerInv, NEW x \in Watched, LookUp(x) \/ GiveUp(x)
    PROVE  LedgerInv' /\ CoinsNext
  <1>0. x \in Txid
    BY Zenon, TransactionsAssumption DEF TransactionsAssumption
  <1>1. (AccessTip(x) \/ Uncache(x)) /\ UNCHANGED nodeVars
    BY Zenon DEF LookUp, GiveUp
  <1>2. CacheInv' /\ UNCHANGED Plain!viewVars
    BY Zenon, <1>0, <1>1, AccessTipStep, UncacheStep DEF LedgerInv
  <1>3. LedgerInv'
    BY Zenon, <1>1, <1>2, SameSees, NodeSame
  <1> QED BY Zenon, <1>0, <1>1, <1>3 DEF CoinsNext

\* A crash at any point leaves what was written.
LEMMA CrashAndLoadStep ==
    ASSUME LedgerInv, CrashAndLoad
    PROVE  LedgerInv' /\ CoinsNext
  <1>0. /\ Restart
        /\ chainTip' = dbBest /\ undo' = saved.undo /\ failed' = saved.failed
        /\ dirty' = {} /\ job' = NoJob /\ flushing' = FALSE /\ status' = "running" /\ saved' = saved
    BY Zenon DEF CrashAndLoad
  <1>1. /\ CacheInv' /\ UNCHANGED <<db, dbBest>>
        /\ TipCoins' = db /\ TipBlock' = dbBest /\ ViewCoins' = db /\ ViewBlock' = dbBest
    BY Zenon, <1>0, RestartStep, CrashSees DEF LedgerInv
  <1>2. Ledger'
    <2>1. /\ UndoRight(saved.undo) /\ saved.failed \cap ValidBlock = {}
          /\ Chain[dbBest] \subseteq ValidBlock \cap DOMAIN saved.undo
          /\ db = Unspent[dbBest]
      BY Zenon DEF LedgerInv, Ledger
    <2>2. /\ DOMAIN saved.undo \subseteq DOMAIN saved.undo
          /\ DOMAIN saved.undo \ {} \subseteq DOMAIN saved.undo
      BY Zenon
    <2> QED BY Zenon, <1>0, <1>1, <2>1, <2>2 DEF Ledger
  <1>3. JobInv' /\ TipInv'
    BY Zenon, <1>0, <1>1, IdleNext, TipIdle
  <1>4. FlushInv'
    BY Zenon, <1>0 DEF FlushInv
  <1> QED BY Zenon, <1>0, <1>1, <1>2, <1>3, <1>4 DEF LedgerInv, CoinsNext

\* A new node has no coins, and the genesis block makes none.
LEMMA InitLedger ==
    ASSUME Init
    PROVE  LedgerInv /\ CoinsInit
  <1>0. /\ db = [x \in Txid |-> Pruned] /\ dbBest = Genesis
        /\ tip = Empty /\ tipBest = NULL /\ view = Empty /\ viewBest = NULL
        /\ chainTip = Genesis /\ failed = {}
        /\ undo = <<>> /\ dirty = {} /\ saved = [undo |-> undo, failed |-> failed]
        /\ job = NoJob /\ flushing = FALSE /\ status = "running"
    BY Zenon DEF Init
  <1>1. CoinsInit
    BY Zenon, <1>0, PrunedAssumption, BlocksAssumption
    DEF PrunedAssumption, BlocksAssumption, CoinsInit
  <1>2. CacheInv /\ TipCoins = db /\ ViewCoins = db /\ TipBlock = dbBest /\ ViewBlock = dbBest
    <2>1. CacheInv /\ Plain!Init
      BY Zenon, <1>1, CacheInit
    <2> QED BY <2>1 DEF Plain!Init
  <1>3. db = Unspent[dbBest]
    <2>1. Genesis \in BlockHash
      BY Zenon, BlocksAssumption DEF BlocksAssumption
    <2>2. \A x \in Txid : LatestMaker(Genesis, x) = {}
      BY Zenon, ChainGenesis DEF LatestMaker
    <2>3. Unspent[Genesis] = [x \in Txid |-> Pruned]
      BY Zenon, <2>1, <2>2 DEF Unspent
    <2> QED BY Zenon, <1>0, <2>3
  <1>4. saved.undo = undo /\ saved.failed = {} /\ DOMAIN undo = {}
    BY <1>0
  <1>5. Ledger
    <2>1. Chain[dbBest] = {}
      BY Zenon, <1>0, ChainGenesis
    <2>2. UndoRight(undo)
      BY Zenon, <1>4 DEF UndoRight
    <2>3. failed = {}
      BY Zenon, <1>0
    <2> QED BY <1>2, <1>3, <1>4, <2>1, <2>2, <2>3 DEF Ledger
  <1>6. JobInv /\ TipInv
    <2>1. NoJob.kind \notin Connecting \cup {"disconnect"}
      BY Zenon DEF NoJob, Connecting
    <2> QED BY Zenon, <1>0, <1>2, <2>1 DEF JobInv, IdleInv, TipInv
  <1>7. FlushInv
    BY Zenon, <1>0 DEF FlushInv
  <1> QED BY Zenon, <1>1, <1>2, <1>5, <1>6, <1>7 DEF LedgerInv

----------------------------------------------------------------------------
(* What follows. *)

\* Every step of the node keeps the invariant, and is one of the caches or does not touch them.
LEMMA LedgerNext ==
    ASSUME fEnforceBIP30, LedgerInv, [Next]_vars
    PROVE  LedgerInv' /\ [CoinsNext]_coinVars
  <1>1. ASSUME NEW b \in BlockHash \ {Genesis}, NEW kind \in {"connect", "test"}, ConnectBlock(b, kind)
        PROVE  LedgerInv' /\ CoinsNext
    BY Zenon, <1>1, ConnectBlockStep DEF Connecting
  <1>2. ASSUME CheckNew \/ HaveInputs \/ Spend \/ AddOutputs \/ FinishConnect \/ Reject \/ JustChecked
        PROVE  LedgerInv' /\ CoinsNext
    BY Zenon, <1>2, CheckNewStep, HaveInputsStep, SpendStep, AddOutputsStep,
       FinishConnectStep,
       RejectStep, JustCheckedStep
  <1>3. ASSUME DisconnectBlock \/ RemoveOutputs \/ ApplyTxInUndo \/ FinishDisconnect \/ ApplyView
        PROVE  LedgerInv' /\ CoinsNext
    BY Zenon, <1>3, DisconnectBlockStep, RemoveOutputsStep, ApplyTxInUndoStep,
       FinishDisconnectStep, ApplyViewStep
  <1>4. ASSUME UpdateTip \/ WriteBlockIndex \/ FlushFails
        PROVE  LedgerInv' /\ UNCHANGED coinVars
    BY Zenon, <1>4, UpdateTipStep, WriteBlockIndexStep, FlushFailsStep
  <1>5. ASSUME FlushCoins \/ CrashAndLoad
        PROVE  LedgerInv' /\ CoinsNext
    BY Zenon, <1>5, FlushCoinsStep, CrashAndLoadStep
  <1>6. ASSUME NEW x \in Watched, LookUp(x) \/ GiveUp(x)
        PROVE  LedgerInv' /\ CoinsNext
    BY Zenon, <1>6, LookUpStep
  <1>7. ASSUME UNCHANGED vars
        PROVE  LedgerInv' /\ UNCHANGED coinVars
    <2>1. UNCHANGED coinVars /\ UNCHANGED nodeVars
      BY Zenon, <1>7 DEF vars
    <2>2. CacheInv' /\ UNCHANGED <<Layers, ViewCoins, ViewBlock>>
      BY Zenon, <2>1, SameCoins DEF LedgerInv
    <2> QED BY Zenon, <2>1, <2>2, NodeSame
  <1>8. CASE Next
    BY Zenon, <1>1, <1>2, <1>3, <1>4, <1>5, <1>6, <1>8 DEF Next
  <1> QED BY Zenon, <1>7, <1>8

\* With BIP30 enforced the coins, the undo data and the block index agree with the blocks
\* in every reachable state: in the middle of ConnectBlock and DisconnectBlock, between the
\* two writes of FlushStateToDisk and after a crash.
THEOREM LedgerInvariance ==
    ASSUME fEnforceBIP30
    PROVE  Spec => []LedgerInv
  <1>1. Init => LedgerInv
    BY Zenon, InitLedger
  <1>2. LedgerInv /\ [Next]_vars => LedgerInv'
    BY Zenon, LedgerNext
  <1> QED BY <1>1, <1>2, PTL DEF Spec

\* The database and pcoinsTip hold exactly the unspent outputs of their best blocks, and
\* between two blocks pcoinsTip stands for the tip of chainActive.
THEOREM UtxoExactAlways ==
    ASSUME fEnforceBIP30
    PROVE  Spec => []UtxoExact
  <1>1. LedgerInv => UtxoExact
    BY Zenon, JobKinds DEF LedgerInv, Ledger, IdleInv, UtxoExact, DatabaseExact, TipsAgree
  <1> QED BY <1>1, LedgerInvariance, PTL

\* DisconnectBlock finds undo data for every block of the chain, after a crash too.
THEOREM UndoCompleteAlways ==
    ASSUME fEnforceBIP30
    PROVE  Spec => []UndoComplete
  <1>1. LedgerInv => UndoComplete
    BY Zenon DEF LedgerInv, Ledger, UndoComplete
  <1> QED BY <1>1, LedgerInvariance, PTL

\* ConnectBlock marks no valid block as invalid and lets no invalid one into the chain.
THEOREM VerdictExactAlways ==
    ASSUME fEnforceBIP30
    PROVE  Spec => []VerdictExact
  <1>1. LedgerInv => VerdictExact
    BY Zenon DEF LedgerInv, Ledger, VerdictExact
  <1> QED BY <1>1, LedgerInvariance, PTL

\* DisconnectBlock never reports that the database is corrupted, the assertion of
\* UpdateCoins holds, and ModifyNewCoins overwrites nothing.
THEOREM CoinsAsExpectedAlways ==
    ASSUME fEnforceBIP30
    PROVE  Spec => []CoinsAsExpected
  <1>1. LedgerInv => DisconnectClean
    BY Zenon, JobKinds DEF LedgerInv, DisconnectInv, DisconnectClean
  <1>2. ASSUME LedgerInv PROVE UpdateCoinsSafe
    <2> USE <1>2
    <2> DEFINE b == job.block
               n == job.done
               m == job.spent
    <2>1. ASSUME AtSpend PROVE IsAvailable(ViewCoins[NextIn(b, n, m)[1]], NextIn(b, n, m))
      <3>0. /\ Working(Connecting) /\ job.unique = Txs(b) /\ n < Txs(b)
            /\ job.have = Len(vin[vtx[b][n + 1]]) /\ m < Len(vin[vtx[b][n + 1]])
        BY Zenon, <2>1 DEF AtSpend, AtTx, ThisTx, Inputs
      <3>1. /\ b \in BlockHash \ {Genesis} /\ Found(b, Txs(b), n, job.have, m)
            /\ ViewCoins = Mid(b, n, m)
        BY Zenon, <3>0, AtWork
      <3>2. n \in Nat /\ m \in Nat
        BY Zenon, <3>1, FoundTypes
      <3>3. IsAvailable(NextCoins(b, n, m), NextIn(b, n, m))
        BY Zenon, <3>0, <3>1, <3>2, SpendThere
      <3> QED BY Zenon, <3>1, <3>3 DEF NextCoins
    <2>2. ASSUME AtCreate PROVE ViewCoins[NextTx(b, n)] = Pruned
      <3>0. /\ Working(Connecting) /\ job.unique = Txs(b) /\ n < Txs(b)
            /\ job.have = Ins(b, n) /\ job.spent = Ins(b, n)
        BY Zenon, <2>2 DEF AtCreate, AtTx, ThisTx, Inputs, NextTx, Ins
      <3>1. /\ b \in BlockHash \ {Genesis} /\ Found(b, Txs(b), n, job.have, job.spent)
            /\ ViewCoins = Mid(b, n, Ins(b, n))
        BY Zenon, <3>0, AtWork
      <3>2. n \in Nat /\ InputsValid(b, n + 1) /\ AllNew(b)
        <4>1. job.have = Len(vin[vtx[b][n + 1]])
          BY Zenon, <3>0 DEF Ins, NextTx
        <4> QED BY Zenon, <3>0, <3>1, <4>1, MakeFound, FoundAllNew
      <3>3. Mid(b, n, Ins(b, n))[NextTx(b, n)] = Pruned
        BY Zenon, <3>0, <3>1, <3>2, MakeWrites
      <3> QED BY Zenon, <3>1, <3>3
    <2> QED BY Zenon, <2>1, <2>2 DEF UpdateCoinsSafe, ThisTx, NextIn, NextTx
  <1>3. LedgerInv => CoinsAsExpected
    BY Zenon, <1>1, <1>2 DEF CoinsAsExpected
  <1> QED BY <1>3, LedgerInvariance, PTL

\* Whatever blocks are connected, disconnected, tested and lost in a crash, every step of
\* the node is a step of the layered caches.
LEMMA NodeUsesCaches ==
    ASSUME fEnforceBIP30
    PROVE  Spec => CoinsSpec
  <1>1. Init => CoinsInit
    BY Zenon, InitLedger
  <1>2. LedgerInv /\ [Next]_vars => [CoinsNext]_coinVars
    BY Zenon, LedgerNext
  <1> QED BY <1>1, <1>2, LedgerInvariance, PTL DEF Spec, CoinsSpec

\* The flags of both caches are honest in every state of the node.
THEOREM NodeFlagsHonest ==
    ASSUME fEnforceBIP30
    PROVE  Spec => []CacheFlagsHonest
  BY NodeUsesCaches, CacheFlagsHonestAlways, PTL

\* The node's layers of coins behave as three plain maps.
THEOREM NodeImplementsPlainMaps ==
    ASSUME fEnforceBIP30
    PROVE  Spec => ImplementsPlainMaps
  BY NodeUsesCaches, CachesImplementPlainMaps, PTL
=============================================================================
