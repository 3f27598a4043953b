---------------------------- MODULE BlockDownload ----------------------------
(***************************************************************************)
(* How a node learns of headers and fetches blocks from its peers          *)
(* (net_processing.cpp): which peer is asked for headers, which block is   *)
(* in flight from whom, who is disconnected for holding up the others.     *)
(*                                                                         *)
(* One thread handles the messages of all peers and sends to them, so a    *)
(* handler is a step.  A peer answers late, or never, if it is Slow; time  *)
(* is what may pass before a Slow peer answers.  All blocks are valid, and *)
(* validation is reduced to what it makes of the chain.                    *)
(***************************************************************************)
EXTENDS BlockTree, Sequences, FiniteSets

CONSTANTS
  Peer,
  Slow,          \* peers that need not answer in time
  Preferred,     \* outbound or whitelisted peers: fPreferredDownload
  Whitelisted,
  Compact,       \* peers with fSupportsDesiredCmpctVersion
  Tips,          \* Tips[p]: the tips the chain of p goes through, the best one last
  Submitted,     \* blocks that may also come by "submitblock"
  NearTip,       \* height from which a block counts as recent
  BLOCK_DOWNLOAD_WINDOW,
  MAX_BLOCKS_IN_TRANSIT_PER_PEER,
  MAX_HEADERS_RESULTS

ASSUME DownloadAssumption ==
  /\ IsFiniteSet(Peer) /\ NULL \notin Peer
  /\ \A p \in Peer : Tips[p] \in Seq(Block) /\ Tips[p] # <<>>
  /\ {BLOCK_DOWNLOAD_WINDOW, MAX_BLOCKS_IN_TRANSIT_PER_PEER, MAX_HEADERS_RESULTS} \subseteq Nat \ {0}

VARIABLES
  known,         \* mapBlockIndex
  have,          \* blocks with BLOCK_HAVE_DATA
  tip,           \* chainActive.Tip()
  valid,         \* blocks with BLOCK_VALID_CHAIN: they have been connected
  pindexBestHeader,
  node,          \* mapNodeState, with what CNode keeps of the peer
  mapBlocksInFlight,             \* the peer a block is in flight from, or NULL
  nPeersWithValidatedDownloads,
  nPreferredDownload,
  nSyncStarted,
  chain,         \* chain[p]: how far p is in Tips[p]
  mail           \* what is under way: news of p, and requests p has to answer

vars == <<known, have, tip, valid, pindexBestHeader, node, mapBlocksInFlight,
          nPeersWithValidatedDownloads, nPreferredDownload, nSyncStarted, chain, mail>>

chainstate == <<have, tip, valid>>

blocks == <<known, chainstate, pindexBestHeader>>

\* vBlocksInFlight is a list in the code, but nothing looks at its order except the timeout
\* of its first block; stalling is nStallingSince, with the block that was waited for in
\* place of the time.
NewNode ==
  [best |-> NULL, unknown |-> NULL, common |-> NULL, vBlocksInFlight |-> {},
   nBlocksInFlight |-> 0, nValidHeaders |-> 0, stalling |-> NULL, sync |-> FALSE,
   ban |-> FALSE, pending |-> 0, disconnect |-> FALSE]

NoMail == [news |-> FALSE, headers |-> <<>>, blocks |-> {}, cmpct |-> {}, txns |-> {}]

Init ==
  /\ known = {Genesis} /\ have = {Genesis} /\ tip = Genesis /\ valid = {Genesis}
  /\ pindexBestHeader = Genesis
  /\ node = [p \in {} |-> NewNode]
  /\ mapBlocksInFlight = [b \in Block |-> NULL]
  /\ nPeersWithValidatedDownloads = 0 /\ nPreferredDownload = 0 /\ nSyncStarted = 0
  /\ chain = [p \in Peer |-> 1]
  /\ mail = [p \in Peer |-> NoMail]

\* Of blocks of one chain: the lowest, the highest, the n lowest.
Lowest(bs) == CHOOSE b \in bs : \A c \in bs : nHeight[b] <= nHeight[c]

Highest(bs) == CHOOSE b \in bs : \A c \in bs : nHeight[c] <= nHeight[b]

UpTo(bs, b) == {c \in bs : nHeight[c] <= nHeight[b]}

FirstOf(bs, n) == {b \in bs : Cardinality(UpTo(bs, b)) <= n}

Nodes == DOMAIN node

Connected(p) == p \in Nodes /\ ~node[p].disconnect

PeerTip(p) == Tips[p][chain[p]]

\* CanDirectFetch, and the end of the initial download: the tip is recent.
CanDirectFetch == nHeight[tip] >= NearTip

----------------------------------------------------------------------------
(* Blocks in flight.  The handlers change the download state in several    *)
(* calls, so it is passed along as a record.                               *)

Download == [node |-> node, inFlight |-> mapBlocksInFlight,
             validated |-> nPeersWithValidatedDownloads, mail |-> mail]

Becomes(d) ==
  /\ node' = d.node /\ mapBlocksInFlight' = d.inFlight
  /\ nPeersWithValidatedDownloads' = d.validated /\ mail' = d.mail

\* A variant that does not lift the accusation.
KeepsStalling(d, b) ==
  LET p == d.inFlight[b]
      last == d.node[p].nValidHeaders = 1
  IN  IF p = NULL THEN d
      ELSE [d EXCEPT
              !.node[p].vBlocksInFlight = {e \in @ : e.hash # b},
              !.node[p].nBlocksInFlight = @ - 1,
              !.node[p].nValidHeaders = @ - 1,
              !.validated = IF last THEN @ - 1 ELSE @,
              !.inFlight[b] = NULL]

\* A variant that leaves the block in the list of the peer.
KeepsInList(d, b) ==
  IF d.inFlight[b] = NULL THEN d ELSE [d EXCEPT !.inFlight[b] = NULL]

\* MarkBlockAsReceived
Received(d, b) ==
  LET p == d.inFlight[b]
      last == d.node[p].nValidHeaders = 1
  IN  IF p = NULL THEN d
      ELSE [d EXCEPT
              !.node[p].vBlocksInFlight = {e \in @ : e.hash # b},
              !.node[p].nBlocksInFlight = @ - 1,
              !.node[p].nValidHeaders = @ - 1,
              !.node[p].stalling = NULL,
              !.validated = IF last THEN @ - 1 ELSE @,
              !.inFlight[b] = NULL]

\* MarkBlockAsInFlight, for blocks that are in flight from nobody, so that the
\* MarkBlockAsReceived in it does nothing; every caller has a header, so
\* fValidatedHeaders holds.
InFlight(d, p, bs, partial) ==
  LET first == d.node[p].nValidHeaders = 0 /\ bs # {}
  IN  [d EXCEPT
         !.node[p].vBlocksInFlight = @ \cup {[hash |-> b, partial |-> partial] : b \in bs},
         !.node[p].nBlocksInFlight = @ + Cardinality(bs),
         !.node[p].nValidHeaders = @ + Cardinality(bs),
         !.validated = IF first THEN @ + 1 ELSE @,
         !.inFlight = [b \in Block |-> IF b \in bs THEN p ELSE @[b]]]

GetData(d, p, bs) == [d EXCEPT !.mail[p].blocks = @ \cup bs]

Fetch(d, p, bs) == GetData(InFlight(d, p, bs, FALSE), p, bs)

FetchCompact(d, p, bs) == [InFlight(d, p, bs, FALSE) EXCEPT !.mail[p].cmpct = @ \cup bs]

\* RequestHeadersFrom
RequestHeadersFrom(d, p, from, force) ==
  IF d.node[p].pending > 0 /\ ~force THEN d
  ELSE [d EXCEPT !.mail[p].headers = Append(@, from), !.node[p].pending = @ + 1]

\* ProcessBlockAvailability and UpdateBlockAvailability, with the blocks known then.
Better(b, best) == best = NULL \/ nChainWork[b] >= nChainWork[best]

ProcessBlockAvailability(d, p, index) ==
  LET n == d.node[p]
  IN  IF n.unknown = NULL \/ n.unknown \notin index THEN d
      ELSE [d EXCEPT !.node[p].best = IF Better(n.unknown, @) THEN n.unknown ELSE @,
                     !.node[p].unknown = NULL]

UpdateBlockAvailability(d, p, b, index) ==
  LET e == ProcessBlockAvailability(d, p, index)
  IN  IF b \in index
      THEN [e EXCEPT !.node[p].best = IF Better(b, @) THEN b ELSE @]
      ELSE [e EXCEPT !.node[p].unknown = b]

----------------------------------------------------------------------------
(* Validation. *)

\* AddToBlockIndex
Indexed(index) ==
  LET best == {b \in index : \A c \in index : nChainWork[c] <= nChainWork[b]}
  IN  /\ known' = index
      /\ IF \E b \in best : nChainWork[b] > nChainWork[pindexBestHeader]
         THEN pindexBestHeader' \in best
         ELSE UNCHANGED pindexBestHeader

\* ProcessNewBlock, for a block with a known parent: without a request it is kept only if
\* it has more work than the tip.
Kept(b, requested) == b \notin have /\ (requested \/ nChainWork[b] > nChainWork[tip])

ProcessNewBlock(b, requested) ==
  LET now == IF Kept(b, requested) THEN have \cup {b} ELSE have
      linked == {x \in now : Ancestors[x] \subseteq now}
      best == {x \in linked : \A y \in linked : nChainWork[y] <= nChainWork[x]}
  IN  /\ have' = now
      /\ IF \E x \in best : nChainWork[x] > nChainWork[tip] THEN tip' \in best
         ELSE UNCHANGED tip
      /\ valid' = valid \cup Ancestors[tip']

----------------------------------------------------------------------------
(* Peers come and go. *)

\* InitializeNode, and UpdatePreferredDownload once the version is known.
InitializeNode(p) ==
  /\ p \notin Nodes
  /\ node' = [q \in Nodes \cup {p} |-> IF q = p THEN NewNode ELSE node[q]]
  /\ nPreferredDownload' = nPreferredDownload + (IF p \in Preferred THEN 1 ELSE 0)
  /\ UNCHANGED <<blocks, mapBlocksInFlight, nPeersWithValidatedDownloads, nSyncStarted,
                 chain, mail>>

\* A variant that does not count the peer off.
KeepsCount(p) ==
  /\ p \in Nodes /\ node[p].disconnect
  /\ nSyncStarted' = nSyncStarted - (IF node[p].sync THEN 1 ELSE 0)
  /\ nPreferredDownload' = nPreferredDownload - (IF p \in Preferred THEN 1 ELSE 0)
  /\ nPeersWithValidatedDownloads' = nPeersWithValidatedDownloads
  /\ mapBlocksInFlight' = [b \in Block |-> IF mapBlocksInFlight[b] = p THEN NULL
                                          ELSE mapBlocksInFlight[b]]
  /\ node' = [q \in Nodes \ {p} |-> node[q]]
  /\ mail' = [mail EXCEPT ![p] = NoMail]
  /\ UNCHANGED <<blocks, chain>>

FinalizeNode(p) ==
  /\ p \in Nodes /\ node[p].disconnect
  /\ nSyncStarted' = nSyncStarted - (IF node[p].sync THEN 1 ELSE 0)
  /\ nPreferredDownload' = nPreferredDownload - (IF p \in Preferred THEN 1 ELSE 0)
  /\ nPeersWithValidatedDownloads' =
       nPeersWithValidatedDownloads - (IF node[p].nValidHeaders # 0 THEN 1 ELSE 0)
  /\ mapBlocksInFlight' =
       [b \in Block |-> IF \E e \in node[p].vBlocksInFlight : e.hash = b THEN NULL
                        ELSE mapBlocksInFlight[b]]
  /\ node' = [q \in Nodes \ {p} |-> node[q]]
  /\ mail' = [mail EXCEPT ![p] = NoMail]
  /\ UNCHANGED <<blocks, chain>>

\* A Slow peer may close the connection.
Leave(p) ==
  /\ p \in Slow /\ Connected(p)
  /\ node' = [node EXCEPT ![p].disconnect = TRUE]
  /\ UNCHANGED <<blocks, mapBlocksInFlight, nPeersWithValidatedDownloads, nPreferredDownload,
                 nSyncStarted, chain, mail>>

\* The chain of a peer grows or is reorganised, and the peer announces its new tip.
PeerMoves(p) ==
  /\ chain[p] < Len(Tips[p])
  /\ chain' = [chain EXCEPT ![p] = @ + 1]
  /\ mail' = [mail EXCEPT ![p].news = Connected(p)]
  /\ UNCHANGED <<blocks, node, mapBlocksInFlight, nPeersWithValidatedDownloads,
                 nPreferredDownload, nSyncStarted>>

----------------------------------------------------------------------------
(* Messages. *)

\* A message from p is handled: d is what becomes of the download state.
Handled(p, d) ==
  /\ Connected(p) /\ Becomes(d)
  /\ UNCHANGED <<nPreferredDownload, nSyncStarted, chain>>

News(p) == Connected(p) /\ mail[p].news

Heard(p) == [Download EXCEPT !.mail[p].news = FALSE]

\* "inv" of a block.
Inv(p) ==
  LET b == PeerTip(p)
      d == UpdateBlockAvailability(Heard(p), p, b, known)
  IN  /\ News(p)
      /\ Handled(p, IF b \in known \/ mapBlocksInFlight[b] # NULL THEN d
                    ELSE RequestHeadersFrom(d, p, pindexBestHeader, TRUE))
      /\ UNCHANGED blocks

\* The blocks up to b which a direct fetch asks for, and whether it is within its limit.
Missing(d, b) ==
  {x \in Ancestors[b] : x \notin Ancestors[tip] \cup have /\ d.inFlight[x] = NULL}

Within(d, b) ==
  LET n == Cardinality(Missing(d, b))
  IN  \/ n <= MAX_BLOCKS_IN_TRANSIT_PER_PEER
      \/ n = MAX_BLOCKS_IN_TRANSIT_PER_PEER + 1 /\ Contains(tip, pprev[Lowest(Missing(d, b))])

\* A variant that is off by one.
RoomForOneMore(d, p) ==
  MAX_BLOCKS_IN_TRANSIT_PER_PEER - d.node[p].nBlocksInFlight + 1

Room(d, p) == MAX_BLOCKS_IN_TRANSIT_PER_PEER - d.node[p].nBlocksInFlight

\* A single block is asked for as a compact block, if nothing else is in flight and it can
\* be connected at once.
AsCompact(d, p, b, vGetData) ==
  /\ p \in Compact /\ Cardinality(vGetData) = 1
  /\ \A x \in Block : d.inFlight[x] = NULL
  /\ pprev[b] \in valid

DirectFetch(d, p, b) ==
  LET vGetData == FirstOf(Missing(d, b), Room(d, p))
  IN  IF ~(CanDirectFetch /\ nChainWork[tip] <= nChainWork[b] /\ Within(d, b)) THEN d
      ELSE IF AsCompact(d, p, b, vGetData) THEN FetchCompact(d, p, vGetData)
      ELSE Fetch(d, p, vGetData)

\* "headers": hs are the headers, a piece of a chain.  One header that does not connect makes us
\* ask for more; a full message makes us ask for the next ones.

\* A variant that counts messages nobody asked for.
CountsUnrequested(pending) == pending - 1

PendingAfterHeaders(pending) == IF pending > 0 THEN pending - 1 ELSE 0

Headers(d, p, hs) ==
  LET last == Highest(hs)
      index == known \cup hs
  IN  \E e \in {[d EXCEPT !.node[p].pending = PendingAfterHeaders(@)]} :
        IF hs = {} THEN Handled(p, e) /\ UNCHANGED blocks
        ELSE IF pprev[Lowest(hs)] \notin known
        THEN /\ Handled(p, UpdateBlockAvailability(
                             RequestHeadersFrom(e, p, pindexBestHeader, TRUE), p, last, known))
             /\ UNCHANGED blocks
        ELSE /\ \E f \in {UpdateBlockAvailability(e, p, last, index)} :
                  \E h \in {IF Cardinality(hs) = MAX_HEADERS_RESULTS
                            THEN RequestHeadersFrom(f, p, last, FALSE) ELSE f} :
                    Handled(p, DirectFetch(h, p, last))
             /\ Indexed(index)
             /\ UNCHANGED chainstate

HeadersAnnounce(p) == News(p) /\ Headers(Heard(p), p, {PeerTip(p)})

\* The answer to "getheaders": what follows the fork, as far as one message goes.
HeadersReply(p) ==
  LET from == Head(mail[p].headers)
      next == Ancestors[PeerTip(p)] \ Ancestors[from]
  IN  /\ mail[p].headers # <<>>
      /\ Headers([Download EXCEPT !.mail[p].headers = Tail(@)], p,
                 FirstOf(next, MAX_HEADERS_RESULTS))

\* A variant that leaves the block in flight.
KeepsInFlight(d, p, b) ==
  /\ Handled(p, d)
  /\ ProcessNewBlock(b, d.inFlight[b] # NULL \/ (p \in Whitelisted /\ CanDirectFetch))
  /\ UNCHANGED <<known, pindexBestHeader>>

\* "block".  Blocks of whitelisted peers are processed without a request, too.
BlockMessage(d, p, b) ==
  /\ Handled(p, Received(d, b))
  /\ ProcessNewBlock(b, d.inFlight[b] # NULL \/ (p \in Whitelisted /\ CanDirectFetch))
  /\ UNCHANGED <<known, pindexBestHeader>>

BlockArrives(p, b) ==
  b \in mail[p].blocks /\ BlockMessage([Download EXCEPT !.mail[p].blocks = @ \ {b}], p, b)

\* "blocktxn": the rest of a compact block.  The transactions complete the block, or
\* collide and make us ask for all of it, or are wrong.
HasPartial(n, b) == [hash |-> b, partial |-> TRUE] \in n.vBlocksInFlight

BlockTxn(p, b, status) ==
  LET d == [Download EXCEPT !.mail[p].txns = @ \ {b}]
      expected == mapBlocksInFlight[b] = p /\ HasPartial(node[p], b)
  IN  /\ b \in mail[p].txns
      /\ status = "invalid" => p \in Slow
      /\ Handled(p, IF ~expected THEN d
                    ELSE IF status = "ok" THEN Received(d, b)
                    ELSE IF status = "failed" THEN GetData(d, p, {b})
                    ELSE [Received(d, b) EXCEPT !.node[p].ban = TRUE])
      /\ IF expected /\ status = "ok" THEN ProcessNewBlock(b, TRUE) ELSE UNCHANGED chainstate
      /\ UNCHANGED <<known, pindexBestHeader>>

\* "cmpctblock": d is the state before, status what the short ids give: all transactions
\* ("ok"), some of them ("some"), a collision ("failed"), or nonsense ("invalid").
WithPartial(d, p, b) ==
  IF d.inFlight[b] # p THEN InFlight(d, p, {b}, TRUE)
  ELSE [d EXCEPT !.node[p].vBlocksInFlight =
          {e \in @ : e.hash # b} \cup {[hash |-> b, partial |-> TRUE]}]

Reconstruct(d, p, b, status) ==
  LET holder == d.inFlight[b]
      mine == holder = p \/ (holder = NULL /\ Room(d, p) > 0)
      Ignored(e) == Handled(p, e) /\ UNCHANGED chainstate
      Stored(e) == Handled(p, Received(e, b)) /\ ProcessNewBlock(b, TRUE)
  IN  IF ~mine THEN IF status = "ok" THEN Stored(d) ELSE Ignored(d)
      ELSE IF HasPartial(d.node[p], b) THEN Ignored(d)
      ELSE \E f \in {WithPartial(d, p, b)} :
             \/ status = "ok" /\ Stored(f)
             \/ status = "some" /\ Ignored([f EXCEPT !.mail[p].txns = @ \cup {b}])
             \/ status = "failed" /\ Ignored(GetData(f, p, {b}))
             \/ status = "invalid" /\ Ignored([Received(f, b) EXCEPT !.node[p].ban = TRUE])

CompactBlock(d, p, b, status) ==
  LET index == known \cup {b}
      holder == d.inFlight[b]
      old == nChainWork[b] <= nChainWork[tip]
      far == nHeight[b] > nHeight[tip] + 2
      asked == (old \/ far) /\ holder # NULL
  IN  IF pprev[b] \notin known
      THEN /\ Handled(p, IF CanDirectFetch THEN RequestHeadersFrom(d, p, pindexBestHeader, TRUE)
                         ELSE d)
           /\ UNCHANGED blocks
      ELSE IF b \notin have /\ ~old /\ far /\ holder = NULL /\ CanDirectFetch
      THEN Headers(d, p, {b})
      ELSE /\ Indexed(index)
           /\ \E e \in {UpdateBlockAvailability(d, p, b, index)} :
                IF b \in have \/ (holder = NULL /\ (old \/ ~CanDirectFetch))
                THEN Handled(p, e) /\ UNCHANGED chainstate
                ELSE IF asked THEN Handled(p, GetData(e, p, {b})) /\ UNCHANGED chainstate
                ELSE Reconstruct(e, p, b, status)

\* A peer that is not Slow announces blocks in this way once we have asked it to, after
\* the initial download.
CmpctAnnounce(p, status) ==
  /\ News(p)
  /\ p \in Slow \/ (p \in Compact /\ CanDirectFetch)
  /\ status = "invalid" => p \in Slow
  /\ CompactBlock(Heard(p), p, PeerTip(p), status)

\* The answer to a request for a compact block, which is the full block if it is deep in the
\* chain of p.
CmpctReply(p, b, status) ==
  /\ b \in mail[p].cmpct
  /\ status = "invalid" => p \in Slow
  /\ \E d \in {[Download EXCEPT !.mail[p].cmpct = @ \ {b}]} :
       IF status = "full" THEN BlockMessage(d, p, b) ELSE CompactBlock(d, p, b, status)

\* "submitblock": a block from somewhere else.
SubmitBlock(b) ==
  /\ b \in Submitted \ have /\ pprev[b] \in known
  /\ Indexed(known \cup {b}) /\ ProcessNewBlock(b, TRUE)
  /\ UNCHANGED <<node, mapBlocksInFlight, nPeersWithValidatedDownloads, nPreferredDownload,
                 nSyncStarted, chain, mail>>

----------------------------------------------------------------------------
(* SendMessages. *)

fFetch(p) == p \in Preferred \/ nPreferredDownload = 0

StartsSync(p) ==
  ~node[p].sync /\ ((nSyncStarted = 0 /\ fFetch(p)) \/ nHeight[pindexBestHeader] >= NearTip)

\* The headers sync is started first, from the block before the best header.
Started(p) ==
  IF ~StartsSync(p) THEN Download
  ELSE RequestHeadersFrom(
         [Download EXCEPT !.node[p].sync = TRUE], p,
         IF pindexBestHeader = Genesis THEN Genesis ELSE pprev[pindexBestHeader], FALSE)

SyncsStarted(p) == nSyncStarted + (IF StartsSync(p) THEN 1 ELSE 0)

Sending(p) ==
  /\ Connected(p)
  /\ UNCHANGED <<blocks, nPreferredDownload, chain>>

\* SendRejectsAndCheckIfBanned
SendBan(p) ==
  /\ Sending(p) /\ node[p].ban
  /\ node' = [node EXCEPT ![p].ban = FALSE, ![p].disconnect = p \notin Whitelisted]
  /\ UNCHANGED <<mapBlocksInFlight, nPeersWithValidatedDownloads, nSyncStarted, mail>>

\* A request for b is open, if p has been asked for it and has not answered: for the block, for
\* the rest of a compact block that has come, or for a compact block.
Open(d, p, b) ==
  \/ b \in d.mail[p].blocks
  \/ b \in IF HasPartial(d.node[p], b) THEN d.mail[p].txns ELSE d.mail[p].cmpct

\* Two seconds of stalling, or too long for the first block in flight.  A peer that is not
\* Slow has answered all it was asked by then.
SendTimeout(p) ==
  /\ Sending(p) /\ ~node[p].ban
  /\ p \in Slow \/ \A e \in node[p].vBlocksInFlight : ~Open(Download, p, e.hash)
  /\ node[p].stalling # NULL \/ node[p].vBlocksInFlight # {}
  /\ Becomes([Started(p) EXCEPT !.node[p].disconnect = TRUE])
  /\ nSyncStarted' = SyncsStarted(p)

\* A variant without the timeout.
NeverLate(p) == FALSE

\* The only peer asked for headers does not send them, and there is another to ask.
HeadersLate(p) ==
  /\ p \in Slow
  /\ node[p].sync /\ nHeight[pindexBestHeader] < NearTip
  /\ nSyncStarted = 1
  /\ nPreferredDownload - (IF p \in Preferred THEN 1 ELSE 0) >= 1

SendHeadersTimeout(p) ==
  /\ Sending(p) /\ ~node[p].ban
  /\ HeadersLate(p) /\ p \notin Whitelisted
  /\ node' = [node EXCEPT ![p].disconnect = TRUE]
  /\ UNCHANGED <<mapBlocksInFlight, nPeersWithValidatedDownloads, nSyncStarted, mail>>

\* FindNextBlocksToDownload, in a state in which p has a best block with enough work: a
\* walk from the last common block towards the best block of p, as far as the window and
\* one block more.
LastCommonGuess(n) ==
  IF n.common # NULL THEN n.common
  ELSE IF nHeight[n.best] < nHeight[tip] THEN GetAncestor(tip, nHeight[n.best]) ELSE tip

\* A variant that trusts the guess.
TakesGuess(n) == LastCommonGuess(n)

LastCommon(n) == LastCommonAncestor(LastCommonGuess(n), n.best)

Walk(n, from) ==
  {b \in Ancestors[n.best] : nHeight[b] - nHeight[from] \in 1..(BLOCK_DOWNLOAD_WINDOW + 1)}

\* The last common block moves up to the last block with all data below it.
MovesUp(from, path) ==
  LET there == {b \in path : Ancestors[b] \subseteq have}
  IN  IF there = {} THEN from ELSE Highest(there)

\* The blocks to fetch are the first ones that are missing and not in flight; if the only
\* such block is the one beyond the window, the peer with the first block in flight holds
\* us up, unless it is this one.
FindNextBlocksToDownload(p, n, from, path) ==
  LET nWindowEnd == nHeight[from] + BLOCK_DOWNLOAD_WINDOW
      missing == {b \in path : b \notin have /\ mapBlocksInFlight[b] = NULL}
      inFlight == {b \in path : b \notin have /\ mapBlocksInFlight[b] # NULL}
      within == {b \in missing : nHeight[b] <= nWindowEnd}
      stuck == /\ within = {} /\ missing # {} /\ inFlight # {}
               /\ mapBlocksInFlight[Lowest(inFlight)] # p
  IN  [vBlocks |-> FirstOf(within, MAX_BLOCKS_IN_TRANSIT_PER_PEER - n.nBlocksInFlight),
       waitingFor |-> IF stuck THEN Lowest(inFlight) ELSE NULL]

Accuse(d, p, waitingFor) ==
  LET staller == mapBlocksInFlight[waitingFor]
  IN  IF waitingFor # NULL /\ d.node[p].nBlocksInFlight = 0 /\ d.node[staller].stalling = NULL
      THEN [d EXCEPT !.node[staller].stalling = waitingFor]
      ELSE d

FetchFrom(d, p) ==
  LET n == d.node[p]
  IN  IF n.best = NULL \/ ~Better(n.best, tip) THEN Becomes(d)
      ELSE \E from \in {LastCommon(n)} :
             \E path \in {Walk(n, from)} :
               \E next \in {FindNextBlocksToDownload(p, n, from, path)} :
                 \E e \in {Fetch([d EXCEPT !.node[p].common = MovesUp(from, path)], p, next.vBlocks)} :
                   Becomes(Accuse(e, p, next.waitingFor))

\* The rest of SendMessages: the headers timer, then blocks to ask for, and the peer that
\* holds us up if there are none.
SendFetch(p) ==
  LET resets == HeadersLate(p) /\ p \in Whitelisted
  IN  /\ Sending(p) /\ ~node[p].ban
      /\ nSyncStarted' = SyncsStarted(p) - (IF resets THEN 1 ELSE 0)
      /\ \E d \in {IF resets THEN [Started(p) EXCEPT !.node[p].sync = FALSE] ELSE Started(p)} :
           IF (fFetch(p) \/ CanDirectFetch) /\ Room(d, p) > 0
           THEN \E e \in {ProcessBlockAvailability(d, p, known)} : FetchFrom(e, p)
           ELSE Becomes(d)

----------------------------------------------------------------------------

\* What a peer sends.
Sends(p) ==
  \/ Inv(p) \/ HeadersAnnounce(p) \/ HeadersReply(p)
  \/ \E status \in {"ok", "some", "failed", "invalid"} : CmpctAnnounce(p, status)
  \/ \E b \in mail[p].blocks : BlockArrives(p, b)
  \/ \E b \in mail[p].cmpct, status \in {"full", "ok", "some", "failed", "invalid"} :
       CmpctReply(p, b, status)
  \/ \E b \in mail[p].txns, status \in {"ok", "failed", "invalid"} : BlockTxn(p, b, status)

\* The three reasons for which SendMessages gives up a peer.
GivesUp(p) == SendBan(p) \/ SendTimeout(p) \/ SendHeadersTimeout(p)

Next ==
  \/ \E p \in Peer :
       \/ InitializeNode(p) \/ FinalizeNode(p) \/ Leave(p) \/ PeerMoves(p)
       \/ Sends(p) \/ GivesUp(p) \/ SendFetch(p)
  \/ \E b \in Block \ {Genesis} : SubmitBlock(b)

Spec == Init /\ [][Next]_vars

\* Connections that are closed are removed, and SendMessages gives up peers that are
\* late.  A peer that is not Slow is connected again and sends what it has to send.  The
\* message handler comes to all peers in turn, in the order in which they connected, so a
\* peer that comes back does not overtake another one: SendFetch is strongly fair in
\* asking for headers and blocks.
Fairness ==
  /\ \A p \in Peer : WF_vars(FinalizeNode(p)) /\ WF_vars(GivesUp(p))
  /\ \A p \in Peer \ Slow :
       /\ WF_vars(InitializeNode(p)) /\ WF_vars(Sends(p)) /\ WF_vars(SendFetch(p))
       /\ SF_<<nSyncStarted, mapBlocksInFlight>>(SendFetch(p))

FairSpec == Spec /\ Fairness

----------------------------------------------------------------------------
(* Properties. *)

Mark == [hash : Block, partial : BOOLEAN]

NodeState ==
  [best : BlockOrNull, unknown : BlockOrNull, common : BlockOrNull,
   vBlocksInFlight : SUBSET Mark, nBlocksInFlight : Nat, nValidHeaders : Nat,
   stalling : BlockOrNull, sync : BOOLEAN, ban : BOOLEAN, pending : Nat, disconnect : BOOLEAN]

Mail == [news : BOOLEAN, headers : Seq(Block), blocks : SUBSET Block, cmpct : SUBSET Block,
         txns : SUBSET Block]

\* The type of the state; what is stored or asked for is indexed.
TypeOK ==
  /\ known \subseteq Block /\ have \subseteq known /\ tip \in have /\ pindexBestHeader \in known
  /\ valid \subseteq have
  /\ Nodes \subseteq Peer /\ node \in [Nodes -> NodeState]
  /\ mapBlocksInFlight \in [Block -> Peer \cup {NULL}]
  /\ {nPeersWithValidatedDownloads, nPreferredDownload, nSyncStarted} \subseteq Nat
  /\ chain \in [Peer -> Nat] /\ \A p \in Peer : chain[p] \in DOMAIN Tips[p]
  /\ mail \in [Peer -> Mail]
  /\ \A p \in Peer : mail[p].blocks \cup mail[p].cmpct \cup mail[p].txns \subseteq known

\* The map of blocks in flight and the lists of the peers are two views of one relation:
\* a block is in flight from at most one peer, once, and from no peer that is gone
\* (MarkBlockAsReceived follows the iterator in the map into the list).
InFlightExact ==
  /\ \A b \in Block, p \in Peer :
       mapBlocksInFlight[b] = p <=> p \in Nodes /\ \E e \in node[p].vBlocksInFlight : e.hash = b
  /\ \A p \in Nodes : \A e, f \in node[p].vBlocksInFlight : e.hash = f.hash => e = f

\* The counters agree with what they count, so the assertions of FinalizeNode hold and the
\* download timeout is computed from the right number of peers; and no peer has more
\* blocks to send than MAX_BLOCKS_IN_TRANSIT_PER_PEER, whichever of the three ways of
\* asking was used.
CountersExact ==
  /\ \A p \in Nodes : /\ node[p].nBlocksInFlight = Cardinality(node[p].vBlocksInFlight)
                       /\ node[p].nValidHeaders = Cardinality(node[p].vBlocksInFlight)
                       /\ node[p].nBlocksInFlight <= MAX_BLOCKS_IN_TRANSIT_PER_PEER
  /\ nPeersWithValidatedDownloads = Cardinality({p \in Nodes : node[p].vBlocksInFlight # {}})
  /\ nPreferredDownload = Cardinality(Nodes \cap Preferred)
  /\ nSyncStarted = Cardinality({p \in Nodes : node[p].sync})

\* A peer that is about to be disconnected for stalling still has in flight the block that
\* was waited for when it was first found stalling: MarkBlockAsReceived lifts the accusation
\* for every block that a peer sends, this one or another.
StallerOwes ==
  \A p \in Nodes : node[p].stalling # NULL => mapBlocksInFlight[node[p].stalling] = p

\* What is in flight from a peer has been asked of it and not been answered, so no peer
\* is disconnected over a block it was never asked for or has sent; but for blocks that
\* "submitblock" has brought in between: a "cmpctblock" with a block that is there is not
\* taken for an answer.
RequestsOpen ==
  \A b \in Block, p \in Peer :
    mapBlocksInFlight[b] = p => Open(Download, p, b) \/ b \in have \cap Submitted

\* The same without the exception: every answer is taken for one.
AnswersCounted ==
  \A b \in Block, p \in Peer : mapBlocksInFlight[b] = p => Open(Download, p, b)

\* pindexLastCommonBlock is "the last full block we both have": we have it with all
\* blocks below it, and it is on a chain the peer has been on.
CommonBlockExact ==
  \A p \in Nodes :
    node[p].common # NULL =>
      /\ Ancestors[node[p].common] \subseteq have
      /\ \E i \in 1..chain[p] : node[p].common \in Ancestors[Tips[p][i]]

\* The node catches up with every peer that answers in time, whatever the other peers do,
\* unless that peer is behind the best header known ("start at the block preceding the
\* currently best known header. This ensures that we always get a non-empty list of
\* headers back as long as the peer is up-to-date").
SyncCompletes ==
  \A p \in Peer \ Slow :
    <>[](\/ nChainWork[tip] >= nChainWork[PeerTip(p)]
         \/ nChainWork[PeerTip(p)] < nChainWork[pindexBestHeader])
=============================================================================
