------------------------ MODULE BlockDownloadProofs ------------------------
(***************************************************************************)
(* The bookkeeping of block downloads is exact for every tree of blocks,   *)
(* any number of peers and all limits: every handler keeps the invariant   *)
(* of DownloadStateProofs.                                                 *)
(***************************************************************************)
EXTENDS DownloadStateProofs

\* The mail of a peer that has just connected.
LEMMA NoMailType == NoMail \in Mail /\ NoMail.blocks = {} /\ NoMail.cmpct = {} /\ NoMail.txns = {}
  BY DEF NoMail, Mail

\* The rest of a compact block is asked for: then the request for the block is open.
LEMMA SomeSound ==
  ASSUME NEW d, NEW index, index \subseteq Block, NEW stored, NEW c, NEW b \in index,
         Sound(d, index, stored, c, {b}), NEW p \in Peer, HasPartial(d.node[p], b), d.inFlight[b] = p
  PROVE  LET e == [d EXCEPT !.mail[p].txns = @ \cup {b}]
         IN  Sound(e, index, stored, c, {}) /\ SamePeers(d, e)
  <1> DEFINE m == d.mail[p]
             l == [m EXCEPT !.txns = m.txns \cup {b}]
             e == [d EXCEPT !.mail[p] = l]
             Y == {} \cup Came(stored)
  <1>1. e = [d EXCEPT !.mail[p].txns = @ \cup {b}]
    BY Zenon
  <1>2. m \in Mail /\ MailOK(m, p, index, c)
    <2>1. d \in DownloadState /\ MailOK(d.mail[p], p, index, c)
      BY Zenon DEF Sound, Good
    <2>2. d.mail \in [Peer -> Mail]
      BY Zenon, <2>1, StateFields
    <2> QED
      BY Zenon, <2>1, <2>2
  <1>3. \A x \in Block \ ({b} \cup Came(stored)), q \in Peer : d.inFlight[x] = q => Open(d, q, x)
    BY Zenon DEF Sound, Good
  <1>4. \A x \in Block \ ({b} \cup Came(stored)) : d.inFlight[x] = p => OpenIn(m, d.node[p], x)
    BY Zenon, <1>3 DEF Open, OpenIn
  <1> HIDE DEF m
  <1>5. l \in Mail /\ l.blocks = m.blocks /\ l.cmpct = m.cmpct /\ l.txns = m.txns \cup {b}
    BY Zenon, <1>2 DEF Mail
  <1> HIDE DEF l
  <1>6. MailOK(l, p, index, c)
    BY Zenon, <1>2, <1>5 DEF MailOK
  <1>7. OpenWith(d, p, l, Y)
    <2>1. ASSUME NEW x \in Block \ Y, d.inFlight[x] = p PROVE OpenIn(l, d.node[p], x)
      <3>1. CASE x = b
        BY Zenon, <3>1, <1>5 DEF OpenIn
      <3>2. CASE x # b
        <4>1. OpenIn(m, d.node[p], x)
          BY Zenon, <2>1, <3>2, <1>4
        <4> QED
          BY Zenon, <4>1, <1>5 DEF OpenIn
      <3> QED
        BY Zenon, <3>1, <3>2
    <2>2. ASSUME NEW x \in Block \ Y, NEW q \in Peer \ {p}, d.inFlight[x] = q PROVE Open(d, q, x)
      BY Zenon, <2>2, <1>3
    <2> QED
      BY Zenon, <2>1, <2>2 DEF OpenWith
  <1>8. Sound(e, index, stored, c, {}) /\ e.node = d.node
    BY <1>5, <1>6, <1>7, MailChanged
  <1> HIDE DEF e
  <1>9. SamePeers(d, e)
    BY Zenon, <1>8 DEF SamePeers, Syncing
  <1> QED
    BY Zenon, <1>1, <1>8, <1>9

\* "cmpctblock", once the header is indexed; it may be the answer to a request for the block.
LEMMA ReconstructStep ==
  ASSUME DownloadInv, NEW p \in Peer, NEW d, NEW status, NEW index, known' = index,
         pindexBestHeader' \in index, known \subseteq index, index \subseteq Block,
         \A x \in index : Ancestors[x] \subseteq index, NEW b \in index, b \notin have,
         Sound(d, index, have, chain, {b}), SamePeers(Download, d), p \in DOMAIN d.node,
         Sound(d, index, have, chain, {}) \/ (d.inFlight[b] = p /\ ~HasPartial(d.node[p], b)),
         Reconstruct(d, p, b, status)
  PROVE  DownloadInv'
  <1> DEFINE mine == d.inFlight[b] = p \/ (d.inFlight[b] = NULL /\ Room(d, p) > 0)
             f == WithPartial(d, p, b)
             Some == [f EXCEPT !.mail[p].txns = @ \cup {b}]
             Failed == GetData(f, p, {b})
             Invalid == [Received(f, b) EXCEPT !.node[p].ban = TRUE]
             Ignored(e) == Handled(p, e) /\ UNCHANGED chainstate
             Stored(e) == Handled(p, e) /\ ProcessNewBlock(b, TRUE)
  <1>2. \/ ~mine /\ (Stored(Received(d, b)) \/ Ignored(d))
        \/ mine /\ HasPartial(d.node[p], b) /\ Ignored(d)
        \/ /\ mine /\ ~HasPartial(d.node[p], b)
           /\ Stored(Received(f, b)) \/ Ignored(Some) \/ Ignored(Failed) \/ Ignored(Invalid)
    BY Zenon DEF Reconstruct
  <1>b. b \in Block
    BY Zenon
  <1>3. ASSUME NEW e, Sound(e, index, have, chain, {}), SamePeers(d, e),
               Ignored(e) \/ (Stored(e) /\ e.inFlight[b] = NULL)
        PROVE  DownloadInv'
    <2>1. SamePeers(Download, e) /\ TRUE \in BOOLEAN
      BY Zenon, <1>3, SamePeersTrans
    <2>2. /\ Handled(p, e)
          /\ (e.inFlight[b] = NULL /\ \E r \in BOOLEAN : ProcessNewBlock(b, r)) \/ UNCHANGED chainstate
      BY Zenon, <1>3, <2>1
    <2> QED
      BY Zenon, <1>3, <2>1, <2>2, HandledBlock
  <1> HIDE DEF Ignored, Stored
  <1>4. ASSUME ~mine \/ HasPartial(d.node[p], b), Ignored(d) PROVE DownloadInv'
    <2>1. SamePeers(d, d)
      BY Zenon DEF SamePeers
    <2>2. Sound(d, index, have, chain, {})
      BY Zenon, <1>4
    <2> QED
      BY Zenon, <1>3, <1>4, <2>1, <2>2
  <1>5. ASSUME Stored(Received(d, b)) PROVE DownloadInv'
    <2> DEFINE g == Received(d, b)
    <2>1. Sound(g, index, have, chain, {}) /\ SamePeers(d, g) /\ g.inFlight[b] = NULL
      BY Zenon, <1>b, ReceivedAll
    <2>2. Stored(g)
      BY Zenon, <1>5
    <2> HIDE DEF g
    <2> QED
      BY Zenon, <1>3, <2>1, <2>2
  <1>6. ASSUME mine, ~HasPartial(d.node[p], b),
               Stored(Received(f, b)) \/ Ignored(Some) \/ Ignored(Failed) \/ Ignored(Invalid)
        PROVE  DownloadInv'
    <2>1. /\ Sound(f, index, have, chain, {b}) /\ SamePeers(d, f) /\ f.mail = d.mail
          /\ f.inFlight[b] = p /\ HasPartial(f.node[p], b)
      BY Zenon, <1>b, <1>6, WithPartialSound
    <2> HIDE DEF f
    <2>2. p \in DOMAIN f.node
      BY Zenon, <2>1 DEF SamePeers
    <2> DEFINE g == Received(f, b)
    <2>3. Sound(g, index, have, chain, {}) /\ SamePeers(f, g) /\ g.inFlight[b] = NULL
      BY Zenon, <1>b, <2>1, ReceivedAll
    <2> HIDE DEF g
    <2>5. Sound(g, index, have, chain, {}) /\ SamePeers(d, g) /\ p \in DOMAIN g.node
      BY Zenon, <2>1, <2>2, <2>3, SamePeersTrans DEF SamePeers
    <2>6. Sound(Invalid, index, have, chain, {}) /\ SamePeers(d, Invalid)
      <3>1. Invalid = [g EXCEPT !.node[p].ban = TRUE]
        BY Zenon DEF g
      <3>2. Sound(Invalid, index, have, chain, {}) /\ SamePeers(g, Invalid)
        BY Zenon, <3>1, <2>5, FlagsSound
      <3> HIDE DEF Invalid
      <3> QED
        BY Zenon, <3>2, <2>5, SamePeersTrans
    <2>7. Sound(Failed, index, have, chain, {}) /\ SamePeers(d, Failed)
      <3>1. {b} \in SUBSET index /\ \A x \in {b} : x \in {b} /\ f.inFlight[x] = p
        BY Zenon, <2>1
      <3>2. Sound(Failed, index, have, chain, {}) /\ SamePeers(f, Failed)
        BY <2>1, <3>1, GetDataSound
      <3> HIDE DEF Failed
      <3> QED
        BY Zenon, <3>2, <2>1, SamePeersTrans
    <2>8. Sound(Some, index, have, chain, {}) /\ SamePeers(d, Some)
      <3>1. Sound(Some, index, have, chain, {}) /\ SamePeers(f, Some)
        BY Zenon, <2>1, SomeSound
      <3> HIDE DEF Some
      <3> QED
        BY Zenon, <3>1, <2>1, SamePeersTrans
    <2> HIDE DEF Some, Failed, Invalid
    <2>9. CASE Stored(Received(f, b))
      BY Zenon, <1>3, <2>9, <2>3, <2>5 DEF g
    <2> QED
      BY Zenon, <1>3, <1>6, <2>6, <2>7, <2>8, <2>9
  <1> QED
    BY Zenon, <1>2, <1>4, <1>5, <1>6

\* A compact block comes, unasked or as an answer.
LEMMA CompactBlockStep ==
  ASSUME DownloadInv, NEW p \in Peer, Connected(p), NEW b \in Block, PeerHas(chain, p, b), NEW status,
         NEW d, Sound(d, known, have, chain, {b}), SamePeers(Download, d),
         \/ Sound(d, known, have, chain, {})
         \/ b \in known /\ b \notin have /\ d.inFlight[b] = p /\ ~HasPartial(d.node[p], b),
         CompactBlock(d, p, b, status)
  PROVE  DownloadInv'
  <1> DEFINE index == known \cup {b}
             r == RequestHeadersFrom(d, p, pindexBestHeader, TRUE)
             e == UpdateBlockAvailability(d, p, b, index)
             g == GetData(e, p, {b})
             answer == d.inFlight[b] = p /\ ~HasPartial(d.node[p], b)
  <1>3. p \in DOMAIN d.node /\ p # NULL
    BY Zenon, PeerFacts, DownloadAssumption DEF SamePeers
  <1>4. Rooted(known, have, tip, pindexBestHeader) /\ pindexBestHeader \in Block
        /\ chain \in [Peer -> Nat]
    BY Zenon DEF DownloadInv, Rooted, OnChain
  <1>a. \/ Sound(d, known, have, chain, {})
        \/ pprev[b] \in known /\ b \notin have /\ d.inFlight[b] # NULL /\ answer
    <2>1. Genesis \in have
      <3>1. tip \in Block /\ Ancestors[tip] \subseteq have
        BY Zenon, <1>4 DEF Rooted
      <3> QED
        BY Zenon, <3>1, BlockTreeAssumption
    <2>2. ASSUME b \in known, b \notin have PROVE pprev[b] \in known
      <3>1. b \in Block \ {Genesis} /\ Ancestors[b] \subseteq known
        BY Zenon, <2>1, <2>2, <1>4 DEF Rooted
      <3>2. pprev[b] \in Ancestors[b]
        BY Zenon, <3>1, NextBlock, SelfAncestor
      <3> QED
        BY Zenon, <3>1, <3>2
    <2> QED
      BY Zenon, <2>2, <1>3
  <1>5. \/ pprev[b] \notin known /\ UNCHANGED blocks /\ (Handled(p, r) \/ Handled(p, d))
        \/ d.inFlight[b] = NULL /\ Headers(d, p, {b})
        \/ /\ pprev[b] \in known /\ Indexed(index)
           /\ \/ (b \in have \/ d.inFlight[b] = NULL) /\ Handled(p, e) /\ UNCHANGED chainstate
              \/ Handled(p, g) /\ UNCHANGED chainstate
              \/ b \notin have /\ Reconstruct(e, p, b, status)
    BY <1>4, Zenon DEF CompactBlock
  <1>6. CASE pprev[b] \notin known /\ UNCHANGED blocks /\ (Handled(p, r) \/ Handled(p, d))
    <2>1. Rooted(known', have', tip', pindexBestHeader') /\ known' = known /\ have' = have
      BY Zenon, <1>4, <1>6 DEF blocks, chainstate
    <2>2. Sound(d, known, have, chain, {})
      BY Zenon, <1>a, <1>6
    <2>3. Sound(r, known, have, chain, {}) /\ SamePeers(d, r)
      BY Zenon, <1>3, <1>4, <2>2, RequestHeadersSound
    <2> HIDE DEF r
    <2>4. SamePeers(Download, r)
      BY Zenon, <2>3, SamePeersTrans
    <2> QED
      BY Zenon, <1>6, <2>1, <2>2, <2>3, <2>4, HandledInv
  <1>7. CASE d.inFlight[b] = NULL /\ Headers(d, p, {b})
    <2> DEFINE hs == {b}
    <2>1. /\ hs \in SUBSET Ancestors[b] /\ (hs # {} => Piece(hs))
          /\ \A x \in hs : PeerHas(chain, p, x)
      BY Zenon, SelfAncestor, SinglePiece
    <2>2. Headers(d, p, hs) /\ Sound(d, known, have, chain, {})
      BY Zenon, <1>a, <1>7
    <2> HIDE DEF hs
    <2> QED
      BY Zenon, <2>1, <2>2, HeadersStep
  <1>8. CASE /\ pprev[b] \in known /\ Indexed(index)
             /\ \/ (b \in have \/ d.inFlight[b] = NULL) /\ Handled(p, e) /\ UNCHANGED chainstate
                \/ Handled(p, g) /\ UNCHANGED chainstate
                \/ b \notin have /\ Reconstruct(e, p, b, status)
    <2>1. b # Genesis
      BY Zenon, <1>4, <1>8, BlockTreeAssumption DEF Rooted
    <2>2. index \in SUBSET Block /\ \A x \in index : Ancestors[x] \subseteq index
      BY Zenon, <1>4, <1>8, <2>1, NextBlock DEF Rooted
    <2>3. known' = index /\ pindexBestHeader' \in index /\ known \subseteq index /\ b \in index
      BY Zenon, <1>4, <1>8, IndexedBest DEF Rooted
    <2> HIDE DEF index
    <2>4. /\ Sound(d, index, have, chain, {b})
          /\ Sound(d, known, have, chain, {}) => Sound(d, index, have, chain, {})
      BY Zenon, <1>4, <2>3, SoundLearns
    <2>5. /\ Sound(e, index, have, chain, {b}) /\ SamePeers(d, e) /\ e.inFlight = d.inFlight
          /\ e.node[p].vBlocksInFlight = d.node[p].vBlocksInFlight
          /\ Sound(d, index, have, chain, {}) => Sound(e, index, have, chain, {})
      <3>1. ASSUME NEW X, Sound(d, index, have, chain, X)
            PROVE  /\ Sound(e, index, have, chain, X) /\ SamePeers(d, e) /\ e.inFlight = d.inFlight
                   /\ e.node[p].vBlocksInFlight = d.node[p].vBlocksInFlight
        BY ZenonT(60), <1>3, <3>1, UpdateAvailabilitySound
      <3> HIDE DEF e
      <3> QED
        BY Zenon, <2>4, <3>1
    <2> HIDE DEF e
    <2>a. \/ Sound(e, index, have, chain, {})
          \/ b \notin have /\ e.inFlight[b] # NULL /\ e.inFlight[b] = p /\ ~HasPartial(e.node[p], b)
      BY Zenon, <1>a, <2>4, <2>5 DEF HasPartial
    <2>6. SamePeers(Download, e) /\ p \in DOMAIN e.node
      BY Zenon, <1>3, <2>5, SamePeersTrans DEF SamePeers
    <2>7. Sound(g, index, have, chain, {}) /\ SamePeers(e, g)
      <3>0. {b} \in SUBSET index /\ index \subseteq Block
        BY Zenon, <2>2, <2>3
      <3>1. CASE Sound(e, index, have, chain, {})
        <4>1. \A x \in {} : x \in {b} /\ e.inFlight[x] = p
          BY Zenon
        <4> QED
          BY <3>0, <3>1, <4>1, GetDataSound
      <3>2. CASE e.inFlight[b] = p
        <4>1. \A x \in {b} : x \in {b} /\ e.inFlight[x] = p
          BY Zenon, <3>2
        <4> QED
          BY <3>0, <2>5, <4>1, GetDataSound
      <3> QED
        BY Zenon, <2>a, <3>1, <3>2
    <2> HIDE DEF g
    <2>8. SamePeers(Download, g)
      BY Zenon, <2>6, <2>7, SamePeersTrans
    <2>9. CASE (b \in have \/ d.inFlight[b] = NULL) /\ Handled(p, e) /\ UNCHANGED chainstate
      <3>1. Sound(e, index, have, chain, {})
        BY Zenon, <2>5, <2>9, <2>a
      <3> QED
        BY Zenon, <2>2, <2>3, <2>6, <2>9, <3>1, HandledBlock
    <2>10. CASE Handled(p, g) /\ UNCHANGED chainstate
      BY Zenon, <2>2, <2>3, <2>7, <2>8, <2>10, HandledBlock
    <2>11. CASE b \notin have /\ Reconstruct(e, p, b, status)
      BY Zenon, <2>2, <2>3, <2>5, <2>6, <2>a, <2>11, ReconstructStep
    <2> QED
      BY Zenon, <1>8, <2>9, <2>10, <2>11
  <1> QED
    BY Zenon, <1>5, <1>6, <1>7, <1>8

\* An announcement by "cmpctblock" keeps the invariant.
LEMMA CmpctAnnounceStep ==
  ASSUME DownloadInv, NEW p \in Peer, NEW status, CmpctAnnounce(p, status)
  PROVE  DownloadInv'
  <1> DEFINE b == PeerTip(p)
             d == Heard(p)
  <1>1. Connected(p) /\ CompactBlock(d, p, b, status)
    BY Zenon DEF CmpctAnnounce, News
  <1>2. Sound(d, known, have, chain, {}) /\ SamePeers(Download, d)
    BY Zenon, HeardSound
  <1>3. b \in Block /\ PeerHas(chain, p, b)
    BY Zenon, <1>1, PeerFacts
  <1> HIDE DEF b, d
  <1>4. Sound(d, known, have, chain, {b})
    <2>1. {} \subseteq {b}
      BY Zenon
    <2> QED
      BY <1>2, <2>1, SoundWeaker
  <1> QED
    BY Zenon, <1>1, <1>2, <1>3, <1>4, CompactBlockStep

\* So does the answer to a request for a compact block, even if the block has come from elsewhere
\* and the answer is not taken for one.
LEMMA CmpctReplyStep ==
  ASSUME DownloadInv, NEW p \in Peer, NEW b \in mail[p].cmpct, NEW status, CmpctReply(p, b, status)
  PROVE  DownloadInv'
  <1> DEFINE d == [Download EXCEPT !.mail[p].cmpct = @ \ {b}]
  <1>1. BlockMessage(d, p, b) \/ CompactBlock(d, p, b, status)
    BY Zenon DEF CmpctReply
  <1>2. b \in known /\ b \in Block /\ PeerHas(chain, p, b)
    BY Zenon, DownloadFields DEF DownloadInv, Sound, MailOK, Rooted
  <1>3. /\ Sound(d, known, have, chain, {b}) /\ SamePeers(Download, d)
        /\ d.inFlight = mapBlocksInFlight /\ d.node = node
        /\ (mapBlocksInFlight[b] = p => b \in have \/ HasPartial(node[p], b)) =>
             Sound(d, known, have, chain, {})
    BY Zenon, <1>2, AnswerSound
  <1> HIDE DEF d
  <1>4. CASE BlockMessage(d, p, b)
    BY Zenon, <1>2, <1>3, <1>4, BlockMessageStep
  <1>5. CASE CompactBlock(d, p, b, status)
    <2>1. \/ Sound(d, known, have, chain, {})
          \/ b \in known /\ b \notin have /\ d.inFlight[b] = p /\ ~HasPartial(d.node[p], b)
      BY Zenon, <1>2, <1>3
    <2>2. Connected(p)
      BY Zenon, <1>5 DEF CompactBlock, Headers, Reconstruct, Handled
    <2> QED
      BY Zenon, <1>2, <1>3, <1>5, <2>1, <2>2, CompactBlockStep
  <1> QED
    BY Zenon, <1>1, <1>4, <1>5

\* SendMessages has come to its end.
LEMMA SentInv ==
  ASSUME DownloadInv, NEW e, NEW p, Sending(p), Becomes(e), Sound(e, known, have, chain, {}),
         DOMAIN e.node = Nodes, nSyncStarted' = Cardinality(Syncing(e))
  PROVE  DownloadInv'
  <1>1. UNCHANGED blocks /\ nPreferredDownload' = nPreferredDownload /\ chain' = chain
    BY Zenon DEF Sending
  <1>2. known' = known /\ have' = have /\ tip' = tip /\ pindexBestHeader' = pindexBestHeader
    BY Zenon, <1>1 DEF blocks, chainstate
  <1>3. Download' = e
    BY Zenon, BecomesDownload DEF Sound, Good
  <1>4. Nodes' = Nodes
    BY Zenon DEF Nodes, Becomes
  <1> QED
    BY Zenon, <1>1, <1>2, <1>3, <1>4 DEF DownloadInv

\* A step that only changes flags of a node keeps the invariant.
LEMMA FlaggedStep ==
  ASSUME DownloadInv, NEW p \in Nodes, NEW m, Flagged(node[p], m), node' = [node EXCEPT ![p] = m],
         UNCHANGED <<blocks, mapBlocksInFlight, nPeersWithValidatedDownloads, nPreferredDownload,
                     nSyncStarted, chain, mail>>
  PROVE  DownloadInv'
  <1> DEFINE e == [Download EXCEPT !.node[p] = m]
  <1>1. Sound(Download, known, have, chain, {}) /\ p \in DOMAIN Download.node /\ Download.node = node
    BY Zenon, DownloadFields DEF DownloadInv, Nodes
  <1>2. Sound(e, known, have, chain, {}) /\ SamePeers(Download, e)
    BY Zenon, <1>1, FlaggedSound
  <1>3. Download' = e
    BY <1>1 DEF Download
  <1> HIDE DEF e
  <1>4. Nodes' = Nodes
    BY Zenon, <1>2, <1>3, DownloadFields DEF SamePeers, Nodes
  <1> QED
    BY Zenon, <1>2, <1>3, <1>4 DEF DownloadInv, SamePeers, blocks, chainstate

\* A peer that closes its connection is only flagged.
LEMMA LeaveStep ==
  ASSUME DownloadInv, NEW p \in Peer, Leave(p)
  PROVE  DownloadInv'
  <1> DEFINE m == [node[p] EXCEPT !.disconnect = TRUE]
  <1>1. /\ p \in Nodes /\ node' = [node EXCEPT ![p] = m]
        /\ UNCHANGED <<blocks, mapBlocksInFlight, nPeersWithValidatedDownloads, nPreferredDownload,
                       nSyncStarted, chain, mail>>
    BY Zenon DEF Leave, Connected
  <1>2. node[p] \in NodeState
    BY Zenon, <1>1, DownloadFields DEF DownloadInv, Sound, Good, NodeOK, Nodes
  <1>3. Flagged(node[p], m)
    BY Zenon, <1>2 DEF Flagged, NodeState
  <1> HIDE DEF m
  <1> QED
    BY Zenon, <1>1, <1>3, FlaggedStep

\* A banned peer is only flagged, too.
LEMMA SendBanStep ==
  ASSUME DownloadInv, NEW p \in Peer, SendBan(p)
  PROVE  DownloadInv'
  <1> DEFINE m == [node[p] EXCEPT !.ban = FALSE, !.disconnect = (p \notin Whitelisted)]
  <1>1. p \in Nodes /\ node[p] \in NodeState
    BY Zenon, DownloadFields DEF DownloadInv, Sound, Good, NodeOK, Nodes, SendBan,
       Sending, Connected
  <1>2. /\ node' = [node EXCEPT ![p] = m]
        /\ UNCHANGED <<blocks, mapBlocksInFlight, nPeersWithValidatedDownloads, nPreferredDownload,
                       nSyncStarted, chain, mail>>
    BY Zenon, <1>1 DEF SendBan, Sending
  <1>3. Flagged(node[p], m)
    <2>1. (p \notin Whitelisted) \in BOOLEAN
      BY Zenon
    <2> QED
      BY Zenon, <1>1, <2>1 DEF Flagged, NodeState
  <1> HIDE DEF m
  <1> QED
    BY Zenon, <1>1, <1>2, <1>3, FlaggedStep

\* So is a peer that does not send headers.
LEMMA SendHeadersTimeoutStep ==
  ASSUME DownloadInv, NEW p \in Peer, SendHeadersTimeout(p)
  PROVE  DownloadInv'
  <1> DEFINE m == [node[p] EXCEPT !.disconnect = TRUE]
  <1>1. /\ p \in Nodes /\ node' = [node EXCEPT ![p] = m]
        /\ UNCHANGED <<blocks, mapBlocksInFlight, nPeersWithValidatedDownloads, nPreferredDownload,
                       nSyncStarted, chain, mail>>
    BY Zenon DEF SendHeadersTimeout, Sending, Connected
  <1>2. node[p] \in NodeState
    BY Zenon, <1>1, DownloadFields DEF DownloadInv, Sound, Good, NodeOK, Nodes
  <1>3. Flagged(node[p], m)
    BY Zenon, <1>2 DEF Flagged, NodeState
  <1> HIDE DEF m
  <1> QED
    BY Zenon, <1>1, <1>3, FlaggedStep

\* What a peer had before its chain moved it has had afterwards.
LEMMA PeerMovesStep ==
  ASSUME DownloadInv, NEW p \in Peer, PeerMoves(p)
  PROVE  DownloadInv'
  <1> DEFINE l == [Download.mail[p] EXCEPT !.news = Connected(p)]
             e == [Download EXCEPT !.mail[p] = l]
  <1>1. /\ chain[p] < Len(Tips[p]) /\ chain' = [chain EXCEPT ![p] = chain[p] + 1]
        /\ mail' = [mail EXCEPT ![p].news = Connected(p)]
        /\ UNCHANGED <<blocks, node, mapBlocksInFlight, nPeersWithValidatedDownloads,
                       nPreferredDownload, nSyncStarted>>
    BY Zenon DEF PeerMoves
  <1>2. Sound(Download, known, have, chain, {}) /\ Download.mail[p] \in Mail /\ OnChain(chain)
        /\ Download.mail \in [Peer -> Mail]
    <2>1. Sound(Download, known, have, chain, {}) /\ Download \in DownloadState /\ OnChain(chain)
      BY Zenon DEF DownloadInv, Sound, Good
    <2>2. Download.mail \in [Peer -> Mail]
      BY Zenon, <2>1, StateFields
    <2> QED
      BY Zenon, <2>1, <2>2
  <1>3. /\ l \in Mail /\ l.blocks = Download.mail[p].blocks /\ l.txns = Download.mail[p].txns
        /\ l.cmpct = Download.mail[p].cmpct
    <2>1. Connected(p) \in BOOLEAN
      BY Zenon, DownloadFields, <1>2 DEF Connected, Sound, Good, NodeOK, NodeState, Nodes
    <2> QED
      BY Zenon, <1>2, <2>1 DEF Mail
  <1>4. mail' = [mail EXCEPT ![p] = l]
    BY <1>1, DownloadFields, Zenon
  <1> HIDE DEF l
  <1>5. Download' = e
    BY <1>1, <1>4 DEF Download
  <1>6. Sound(e, known, have, chain, {}) /\ SamePeers(Download, e)
    BY Zenon, <1>2, <1>3, MailSound
  <1> HIDE DEF e
  <1>7. \A q \in Peer : chain[q] \in Nat /\ chain[q] \in DOMAIN Tips[q] /\ Tips[q] \in Seq(Block)
    BY Zenon, <1>2, DownloadAssumption DEF OnChain
  <1>8. chain \in [Peer -> Nat] /\ chain' \in [Peer -> Nat] /\ \A q \in Peer : chain[q] <= chain'[q]
    BY <1>1, <1>2, <1>7 DEF OnChain
  <1>9. OnChain(chain')
    <2>1. chain[p] + 1 \in DOMAIN Tips[p]
      BY <1>1, <1>7
    <2> QED
      BY Zenon, <1>1, <1>7, <1>8, <2>1 DEF OnChain
  <1>10. Sound(e, known, have, chain', {})
    <2>1. known \subseteq known /\ have \subseteq have
      BY Zenon
    <2>2. \A b \in Block : b \in have => b \in have \/ e.inFlight[b] = NULL \/ b \in Submitted
      BY Zenon
    <2> QED
      BY Zenon, <1>6, <1>8, <2>1, <2>2, SoundGrows
  <1>11. Nodes' = Nodes /\ Syncing(e) = Syncing(Download)
    BY Zenon, <1>1, <1>6 DEF Nodes, SamePeers
  <1> QED
    BY Zenon, <1>1, <1>5, <1>9, <1>10, <1>11 DEF DownloadInv, blocks, chainstate

\* A new peer is counted if it is preferred.
LEMMA InitializeNodeStep ==
  ASSUME DownloadInv, NEW p \in Peer, InitializeNode(p)
  PROVE  DownloadInv'
  <1> DEFINE e == Download'
  <1>1. /\ p \notin Nodes
        /\ node' = [q \in Nodes \cup {p} |-> IF q = p THEN NewNode ELSE node[q]]
        /\ nPreferredDownload' = nPreferredDownload + (IF p \in Preferred THEN 1 ELSE 0)
        /\ UNCHANGED <<blocks, mapBlocksInFlight, nPeersWithValidatedDownloads, nSyncStarted, chain, mail>>
    BY Zenon DEF InitializeNode
  <1>2. Sound(Download, known, have, chain, {}) /\ Download \in DownloadState
    BY Zenon DEF DownloadInv, Sound, Good
  <1>t. /\ Nodes \in SUBSET Peer /\ node \in [Nodes -> NodeState]
        /\ mapBlocksInFlight \in [Block -> Peer \cup {NULL}] /\ nPeersWithValidatedDownloads \in Int
        /\ mail \in [Peer -> Mail]
    BY Zenon, <1>2, StateFields, DownloadFields DEF Nodes
  <1>3. /\ e.node = node' /\ e.inFlight = mapBlocksInFlight /\ e.validated = nPeersWithValidatedDownloads
        /\ e.mail = mail /\ e = [node |-> node', inFlight |-> mapBlocksInFlight,
                                 validated |-> nPeersWithValidatedDownloads, mail |-> mail]
    BY Zenon, <1>1 DEF Download
  <1>4. /\ DOMAIN node' = Nodes \cup {p} /\ node'[p] = NewNode /\ \A q \in Nodes : node'[q] = node[q]
    BY Zenon, <1>1
  <1>5. NodeOK(NewNode) /\ NewNode.vBlocksInFlight = {} /\ NewNode.stalling = NULL /\ NewNode.best = NULL
        /\ NewNode.unknown = NULL /\ NewNode.common = NULL /\ NewNode.sync = FALSE
    BY Zenon, NewNodeOK DEF NewNode
  <1>6. e \in DownloadState
    <2>1. node' \in [Nodes \cup {p} -> NodeState] /\ Nodes \cup {p} \in SUBSET Peer
      BY Zenon, <1>1, <1>4, <1>5, <1>t DEF NodeOK
    <2>2. node' \in NodeMap
      BY Zenon, <2>1 DEF NodeMap
    <2> QED
      BY Zenon, <2>2, <1>3, <1>t DEF DownloadState
  <1> HIDE DEF e
  <1>7. Good(e, {} \cup Came(have))
    <2>0. /\ DOMAIN e.node = Nodes \cup {p} /\ e.node[p] = NewNode
          /\ \A q \in Nodes : e.node[q] = node[q]
      BY Zenon, <1>3, <1>4
    <2>1. ASSUME NEW q \in DOMAIN e.node PROVE NodeOK(e.node[q])
      BY Zenon, <2>0, <1>5, FlatInv
    <2>2. ASSUME NEW q \in DOMAIN e.node, e.node[q].stalling # NULL
          PROVE  e.inFlight[e.node[q].stalling] = q
      <3>1. q \in Nodes /\ e.node[q] = node[q]
        BY Zenon, <2>0, <2>2, <1>5
      <3> QED
        BY Zenon, <3>1, <2>2, <1>3, FlatInv
    <2>3. ~\E b : Listed(NewNode, b)
      BY Zenon, <1>5 DEF Listed
    <2>4. ASSUME NEW b \in Block, NEW q \in Peer
          PROVE  e.inFlight[b] = q <=> q \in DOMAIN e.node /\ Listed(e.node[q], b)
      <3>1. mapBlocksInFlight[b] = q <=> q \in Nodes /\ Listed(node[q], b)
        BY Zenon, FlatInv
      <3> QED
        BY Zenon, <3>1, <2>0, <2>3, <1>1, <1>3
    <2>5. Downloading(e) = Downloading(Download)
      <3>1. \A q : q \in Downloading(e) <=>
                  q \in Nodes \cup {p} /\ e.node[q].vBlocksInFlight # {}
        BY Zenon, <2>0 DEF Downloading
      <3>2. \A q : q \in Downloading(Download) <=> q \in Nodes /\ node[q].vBlocksInFlight # {}
        BY Zenon, DownloadFields DEF Downloading, Nodes
      <3>3. \A q : q \in Downloading(e) <=> q \in Downloading(Download)
        BY Zenon, <3>1, <3>2, <2>0, <1>1, <1>5
      <3> QED
        BY Zenon, <3>3
    <2>6. e.validated = Cardinality(Downloading(e))
      BY Zenon, <1>3, <2>5, FlatInv
    <2>7. ASSUME NEW b \in Block \ ({} \cup Came(have)), NEW q \in Peer, e.inFlight[b] = q
          PROVE  Open(e, q, b)
      <3>1. mapBlocksInFlight[b] = q
        BY Zenon, <1>3, <2>7
      <3>2. Open(Download, q, b) /\ q \in Nodes
        BY Zenon, <3>1, FlatInv
      <3>3. e.mail[q] = Download.mail[q] /\ e.node[q] = Download.node[q]
        BY Zenon, <3>2, <2>0, <1>3, DownloadFields
      <3> QED
        BY Zenon, <3>2, <3>3 DEF Open
    <2> QED
      BY Zenon, <1>6, <2>1, <2>2, <2>4, <2>6, <2>7 DEF Good
  <1>8. Sound(e, known, have, chain, {})
    <2>1. \A q \in DOMAIN e.node : Credited(e.node[q], q, known, have, chain)
      BY Zenon, <1>2, <1>3, <1>4, <1>5, DownloadFields DEF Sound, Credited, Nodes
    <2>2. Landed(e, have) /\ \A q \in Peer : MailOK(e.mail[q], q, known, chain)
      BY Zenon, <1>2, <1>3, DownloadFields DEF Sound, Landed
    <2> QED
      BY Zenon, <1>7, <2>1, <2>2 DEF Sound
  <1>9. Syncing(e) = Syncing(Download)
    BY <1>1, <1>3, <1>4, <1>5, DownloadFields DEF Syncing, Nodes
  <1>10. nPreferredDownload' = Cardinality(Nodes' \cap Preferred)
    <2>1. Nodes' = Nodes \cup {p}
      BY Zenon, <1>4 DEF Nodes
    <2>2. IsFiniteSet(Nodes \cap Preferred) /\ Cardinality(Nodes \cap Preferred) \in Nat
      BY Zenon, <1>t, FS_Subset, FS_CardinalityType, DownloadAssumption
    <2>3. CASE p \in Preferred
      <3>1. Nodes' \cap Preferred = (Nodes \cap Preferred) \cup {p} /\ p \notin Nodes \cap Preferred
        BY Zenon, <2>1, <2>3, <1>1
      <3>2. Cardinality((Nodes \cap Preferred) \cup {p}) = Cardinality(Nodes \cap Preferred) + 1
        BY Zenon, <2>2, <3>1, FS_AddElement
      <3> QED
        BY Zenon, <3>1, <3>2, <2>3, <1>1 DEF DownloadInv
    <2>4. CASE p \notin Preferred
      <3>1. Nodes' \cap Preferred = Nodes \cap Preferred
        BY Zenon, <2>1, <2>4
      <3>2. nPreferredDownload' = Cardinality(Nodes \cap Preferred) + 0
        BY Zenon, <2>4, <1>1 DEF DownloadInv
      <3>3. nPreferredDownload' = Cardinality(Nodes \cap Preferred)
        BY <3>2, <2>2
      <3> QED
        BY Zenon, <3>1, <3>3
    <2> QED
      BY Zenon, <2>3, <2>4
  <1> QED
    BY Zenon, <1>1, <1>8, <1>9, <1>10 DEF DownloadInv, blocks, chainstate, e

\* FinalizeNode takes the blocks of a peer out of flight and counts it off everywhere.
LEMMA FinalizeNodeStep ==
  ASSUME DownloadInv, NEW p \in Peer, FinalizeNode(p)
  PROVE  DownloadInv'
  <1> DEFINE e == Download'
             n == node[p]
  <1>1. /\ p \in Nodes
        /\ nSyncStarted' = nSyncStarted - (IF n.sync THEN 1 ELSE 0)
        /\ nPreferredDownload' = nPreferredDownload - (IF p \in Preferred THEN 1 ELSE 0)
        /\ nPeersWithValidatedDownloads' =
             nPeersWithValidatedDownloads - (IF n.nValidHeaders # 0 THEN 1 ELSE 0)
        /\ mapBlocksInFlight' = [b \in Block |-> IF Listed(n, b) THEN NULL ELSE mapBlocksInFlight[b]]
        /\ node' = [q \in Nodes \ {p} |-> node[q]]
        /\ mail' = [mail EXCEPT ![p] = NoMail]
        /\ UNCHANGED <<blocks, chain>>
    BY Zenon DEF FinalizeNode, Listed
  <1>2. Sound(Download, known, have, chain, {}) /\ Download \in DownloadState
    BY Zenon DEF DownloadInv, Sound, Good
  <1>t. /\ Nodes \in SUBSET Peer /\ node \in [Nodes -> NodeState]
        /\ mapBlocksInFlight \in [Block -> Peer \cup {NULL}] /\ nPeersWithValidatedDownloads \in Int
        /\ mail \in [Peer -> Mail] /\ NULL \notin Peer
    BY Zenon, <1>2, StateFields, DownloadFields, DownloadAssumption DEF Nodes
  <1>3. /\ e.node = node' /\ e.inFlight = mapBlocksInFlight' /\ e.validated = nPeersWithValidatedDownloads'
        /\ e.mail = mail' /\ e = [node |-> node', inFlight |-> mapBlocksInFlight',
                                  validated |-> nPeersWithValidatedDownloads', mail |-> mail']
    BY Zenon DEF Download
  <1>4. DOMAIN node' = Nodes \ {p} /\ \A q \in Nodes \ {p} : node'[q] = node[q]
    BY Zenon, <1>1
  <1>5. NodeOK(n) /\ \A b \in Block : mapBlocksInFlight[b] = p <=> Listed(n, b)
    BY Zenon, <1>1, <1>2, DownloadFields DEF Sound, Good, Nodes
  <1>6. \A b \in Block : mapBlocksInFlight'[b] = IF mapBlocksInFlight[b] = p THEN NULL ELSE mapBlocksInFlight[b]
    BY Zenon, <1>1, <1>5
  <1>7. NoMail \in Mail /\ NoMail.blocks = {} /\ NoMail.cmpct = {} /\ NoMail.txns = {}
    BY Zenon, NoMailType
  <1>8. mail' \in [Peer -> Mail] /\ mail'[p] = NoMail /\ \A q \in Peer \ {p} : mail'[q] = mail[q]
    BY Zenon, <1>1, <1>7, <1>t
  <1>9. e \in DownloadState
    <2>1. node' \in [Nodes \ {p} -> NodeState] /\ Nodes \ {p} \in SUBSET Peer
      BY Zenon, <1>1, <1>t
    <2>2. node' \in NodeMap
      BY Zenon, <2>1 DEF NodeMap
    <2>3. mapBlocksInFlight' \in [Block -> Peer \cup {NULL}] /\ nPeersWithValidatedDownloads' \in Int
      BY <1>1, <1>t
    <2> QED
      BY Zenon, <2>2, <2>3, <1>3, <1>8 DEF DownloadState
  <1> HIDE DEF e, n
  <1>10. Good(e, {} \cup Came(have))
    <2>1. \A q \in DOMAIN e.node : NodeOK(e.node[q])
      BY Zenon, <1>2, <1>3, <1>4, DownloadFields DEF Sound, Good, Nodes
    <2>2. ASSUME NEW q \in DOMAIN e.node, e.node[q].stalling # NULL
          PROVE  e.inFlight[e.node[q].stalling] = q
      <3>1. q \in Nodes \ {p} /\ e.node[q] = node[q] /\ node[q] \in NodeState
        BY Zenon, <1>3, <1>4, <1>t
      <3>2. node[q].stalling \in Block /\ mapBlocksInFlight[node[q].stalling] = q
        BY Zenon, <3>1, <2>2, <1>2, DownloadFields DEF Sound, Good, Nodes, NodeState,
           BlockOrNull
      <3> QED
        BY Zenon, <3>1, <3>2, <1>3, <1>6
    <2>3. ASSUME NEW b \in Block, NEW q \in Peer
          PROVE  e.inFlight[b] = q <=> q \in DOMAIN e.node /\ Listed(e.node[q], b)
      <3>1. mapBlocksInFlight[b] = q <=> q \in Nodes /\ Listed(node[q], b)
        BY Zenon, <1>2, DownloadFields DEF Sound, Good, Nodes
      <3>2. e.inFlight[b] = q <=> q # p /\ mapBlocksInFlight[b] = q
        BY Zenon, <1>3, <1>6, <1>t
      <3> QED
        BY Zenon, <3>1, <3>2, <1>3, <1>4
    <2>4. e.validated = Cardinality(Downloading(e))
      <3>1. IsFiniteSet(Downloading(Download)) /\ Cardinality(Downloading(Download)) \in Nat
            /\ nPeersWithValidatedDownloads = Cardinality(Downloading(Download))
        BY Zenon, <1>2, DownloadingFinite, DownloadFields DEF Sound, Good
      <3>2. Downloading(e) = Downloading(Download) \ {p}
        BY Zenon, <1>3, <1>4, DownloadFields DEF Downloading, Nodes
      <3>3. p \in Downloading(Download) <=> n.nValidHeaders # 0
        <4>1. n.vBlocksInFlight = {} <=> n.nValidHeaders = 0
          BY Zenon, <1>5, FS_EmptySet DEF NodeOK
        <4> QED
          BY Zenon, <4>1, <1>1, DownloadFields DEF Downloading, Nodes, n
      <3>4. CASE p \in Downloading(Download)
        <4>1. Cardinality(Downloading(Download) \ {p}) = Cardinality(Downloading(Download)) - 1
          BY Zenon, <3>1, <3>4, FS_RemoveElement
        <4> QED
          BY Zenon, <4>1, <3>1, <3>2, <3>3, <3>4, <1>1, <1>3
      <3>5. CASE p \notin Downloading(Download)
        <4>1. Downloading(e) = Downloading(Download)
          BY Zenon, <3>2, <3>5
        <4> QED
          BY <4>1, <3>1, <3>3, <3>5, <1>1, <1>3
      <3> QED
        BY Zenon, <3>4, <3>5
    <2>5. ASSUME NEW b \in Block \ ({} \cup Came(have)), NEW q \in Peer, e.inFlight[b] = q
          PROVE  Open(e, q, b)
      <3>1. q # p /\ mapBlocksInFlight[b] = q
        BY Zenon, <2>5, <1>3, <1>6, <1>t
      <3>2. Open(Download, q, b) /\ q \in Nodes
        BY Zenon, <3>1, FlatInv
      <3>3. e.mail[q] = mail[q] /\ e.node[q] = node[q]
        BY Zenon, <3>1, <3>2, <1>3, <1>4, <1>8
      <3> QED
        BY Zenon, <3>2, <3>3, DownloadFields DEF Open
    <2> QED
      BY Zenon, <1>9, <2>1, <2>2, <2>3, <2>4, <2>5 DEF Good
  <1>11. Sound(e, known, have, chain, {})
    <2>1. \A q \in DOMAIN e.node : Credited(e.node[q], q, known, have, chain)
      BY Zenon, <1>2, <1>3, <1>4, DownloadFields DEF Sound, Nodes
    <2>2. ASSUME NEW q \in Peer PROVE MailOK(e.mail[q], q, known, chain)
      <3>1. CASE q = p
        BY Zenon, <3>1, <1>3, <1>7, <1>8 DEF MailOK
      <3>2. CASE q # p
        BY Zenon, <3>2, <1>2, <1>3, <1>8, DownloadFields DEF Sound
      <3> QED
        BY Zenon, <3>1, <3>2
    <2>3. Landed(e, have)
      BY Zenon, <1>2, <1>3, <1>6, DownloadFields DEF Sound, Landed
    <2> QED
      BY Zenon, <1>10, <2>1, <2>2, <2>3 DEF Sound
  <1>12. nSyncStarted' = Cardinality(Syncing(e))
    <2>1. Syncing(Download) \in SUBSET Peer
      BY Zenon, <1>t, DownloadFields DEF Syncing, Nodes
    <2>2. IsFiniteSet(Syncing(Download)) /\ Cardinality(Syncing(Download)) \in Nat
      BY Zenon, <2>1, FS_Subset, FS_CardinalityType, DownloadAssumption
    <2>3. Syncing(e) = Syncing(Download) \ {p} /\ (p \in Syncing(Download) <=> n.sync)
      <3>1. DOMAIN e.node = Nodes \ {p} /\ \A q \in Nodes \ {p} : e.node[q] = node[q]
        BY Zenon, <1>3, <1>4
      <3>2. Download.node = node /\ DOMAIN Download.node = Nodes
        BY Zenon, DownloadFields DEF Nodes
      <3>3. Syncing(e) = Syncing(Download) \ {p}
        BY Zenon, <3>1, <3>2 DEF Syncing
      <3> QED
        BY Zenon, <1>1, <3>2, <3>3 DEF Syncing, n
    <2>4. CASE p \in Syncing(Download)
      <3>1. Cardinality(Syncing(Download) \ {p}) = Cardinality(Syncing(Download)) - 1
        BY Zenon, <2>2, <2>4, FS_RemoveElement
      <3> QED
        BY Zenon, <3>1, <2>2, <2>3, <2>4, <1>1 DEF DownloadInv
    <2>5. CASE p \notin Syncing(Download)
      <3>1. Syncing(e) = Syncing(Download)
        BY Zenon, <2>3, <2>5
      <3> QED
        <4>1. nSyncStarted = Cardinality(Syncing(Download)) /\ nSyncStarted' = nSyncStarted - 0
          BY Zenon, <2>3, <2>5, <1>1 DEF DownloadInv
        <4> QED
          BY <4>1, <3>1, <2>2
    <2> QED
      BY Zenon, <2>4, <2>5
  <1>13. nPreferredDownload' = Cardinality(Nodes' \cap Preferred)
    <2>1. Nodes' = Nodes \ {p}
      BY Zenon, <1>4 DEF Nodes
    <2>2. IsFiniteSet(Nodes \cap Preferred) /\ Cardinality(Nodes \cap Preferred) \in Nat
      BY Zenon, <1>t, FS_Subset, FS_CardinalityType, DownloadAssumption
    <2>3. CASE p \in Preferred
      <3>1. Nodes' \cap Preferred = (Nodes \cap Preferred) \ {p} /\ p \in Nodes \cap Preferred
        BY Zenon, <2>1, <2>3, <1>1
      <3>2. Cardinality((Nodes \cap Preferred) \ {p}) = Cardinality(Nodes \cap Preferred) - 1
        BY Zenon, <2>2, <3>1, FS_RemoveElement
      <3> QED
        BY Zenon, <3>1, <3>2, <2>3, <1>1 DEF DownloadInv
    <2>4. CASE p \notin Preferred
      <3>1. Nodes' \cap Preferred = Nodes \cap Preferred
        BY Zenon, <2>1, <2>4
      <3> QED
        <4>1. nPreferredDownload = Cardinality(Nodes \cap Preferred) /\ nPreferredDownload' = nPreferredDownload - 0
          BY Zenon, <2>4, <1>1 DEF DownloadInv
        <4>2. Cardinality(Nodes' \cap Preferred) = Cardinality(Nodes \cap Preferred)
          BY <3>1, Zenon
        <4> QED
          BY <4>1, <4>2, <2>2
    <2> QED
      BY Zenon, <2>3, <2>4
  <1> QED
    BY Zenon, <1>1, <1>11, <1>12, <1>13 DEF DownloadInv, blocks, chainstate, e

\* The start of the headers sync is counted.
LEMMA StartedSound ==
  ASSUME DownloadInv, NEW p \in Peer, Connected(p)
  PROVE  /\ Sound(Started(p), known, have, chain, {}) /\ DOMAIN Started(p).node = Nodes
         /\ Started(p).inFlight = mapBlocksInFlight
         /\ SyncsStarted(p) = Cardinality(Syncing(Started(p)))
         /\ IsFiniteSet(Syncing(Started(p))) /\ SyncsStarted(p) \in Nat
         /\ node[p].sync => p \in Syncing(Started(p))
  <1> DEFINE n == Download.node[p]
             m == [n EXCEPT !.sync = TRUE]
             d == [Download EXCEPT !.node[p] = m]
             from == IF pindexBestHeader = Genesis THEN Genesis ELSE pprev[pindexBestHeader]
             e == RequestHeadersFrom(d, p, from, FALSE)
  <1>1. Sound(Download, known, have, chain, {}) /\ p \in DOMAIN Download.node /\ Download.node = node
        /\ DOMAIN Download.node = Nodes /\ Download.inFlight = mapBlocksInFlight
    BY Zenon, DownloadFields DEF DownloadInv, Connected, Nodes
  <1>2. Syncing(Download) \in SUBSET Peer
    BY Zenon, <1>1, StateFields DEF Syncing, Sound, Good
  <1>3. IsFiniteSet(Syncing(Download)) /\ Cardinality(Syncing(Download)) \in Nat
        /\ nSyncStarted = Cardinality(Syncing(Download))
    BY Zenon, <1>2, FS_Subset, FS_CardinalityType, DownloadAssumption DEF DownloadInv
  <1>4. CASE ~StartsSync(p)
    <2>1. Started(p) = Download /\ SyncsStarted(p) = nSyncStarted + 0
      BY Zenon, <1>4 DEF Started, SyncsStarted
    <2>2. SyncsStarted(p) = nSyncStarted
      BY <2>1, <1>3
    <2>3. node[p].sync => p \in Syncing(Download)
      BY Zenon, <1>1 DEF Syncing
    <2> QED
      BY Zenon, <1>1, <1>3, <2>1, <2>2, <2>3
  <1>5. CASE StartsSync(p)
    <2>1. Started(p) = e /\ SyncsStarted(p) = nSyncStarted + 1 /\ ~n.sync
      BY Zenon, <1>1, <1>5 DEF Started, SyncsStarted, StartsSync
    <2>2. from \in Block
      BY Zenon, FirstBlock, NextBlock DEF DownloadInv, Rooted
    <2>3. n \in NodeState /\ Credited(n, p, known, have, chain)
      BY Zenon, <1>1 DEF Sound, Good, NodeOK
    <2> HIDE DEF from
    <2>4. /\ m \in NodeState /\ m.vBlocksInFlight = n.vBlocksInFlight
          /\ m.nBlocksInFlight = n.nBlocksInFlight
          /\ m.nValidHeaders = n.nValidHeaders /\ m.stalling = n.stalling
          /\ m.best = n.best /\ m.unknown = n.unknown /\ m.common = n.common /\ m.sync = TRUE
      <3> HIDE DEF n
      <3> QED
        BY Zenon, <2>3 DEF NodeState
    <2> HIDE DEF m
    <2>5. Credited(m, p, known, have, chain)
      BY Zenon, <2>3, <2>4 DEF Credited
    <2>6. /\ Sound(d, known, have, chain, {}) /\ d.node = [Download.node EXCEPT ![p] = m]
          /\ d.inFlight = Download.inFlight /\ DOMAIN d.node = DOMAIN Download.node
      BY <1>1, <2>4, <2>5, NodeChanged
    <2> HIDE DEF d
    <2>7. Sound(e, known, have, chain, {}) /\ SamePeers(d, e) /\ e.inFlight = d.inFlight
      <3>1. Sound(d, known, have, chain, {}) /\ p \in DOMAIN d.node
        BY Zenon, <1>1, <2>6
      <3> QED
        BY Zenon, <3>1, <2>2, RequestHeadersSound
    <2> HIDE DEF e
    <2>8. Syncing(e) = Syncing(Download) \cup {p} /\ p \notin Syncing(Download)
      <3>1. Syncing(e) = Syncing(d)
        BY Zenon, <2>7 DEF SamePeers
      <3>2. d.node[p].sync /\ \A q \in DOMAIN Download.node \ {p} : d.node[q] = Download.node[q]
        BY Zenon, <1>1, <2>4, <2>6
      <3>3. Syncing(d) = Syncing(Download) \cup {p}
        BY Zenon, <3>2, <1>1, <2>6 DEF Syncing
      <3>4. p \notin Syncing(Download)
        BY Zenon, <2>1 DEF Syncing
      <3> QED
        BY Zenon, <3>1, <3>3, <3>4
    <2>9. IsFiniteSet(Syncing(e)) /\ Cardinality(Syncing(e)) = Cardinality(Syncing(Download)) + 1
      BY <1>3, <2>8, FS_AddElement
    <2>10. DOMAIN e.node = Nodes
      BY Zenon, <1>1, <2>6, <2>7 DEF SamePeers
    <2>11. e.inFlight = mapBlocksInFlight /\ p \in Syncing(e)
      BY Zenon, <1>1, <2>6, <2>7, <2>8
    <2>12. SyncsStarted(p) = Cardinality(Syncing(e)) /\ SyncsStarted(p) \in Nat
      BY <1>3, <2>1, <2>9
    <2> QED
      BY Zenon, <2>1, <2>7, <2>9, <2>10, <2>11, <2>12
  <1> QED
    BY Zenon, <1>4, <1>5

\* A peer that is late with a block is flagged after the headers sync has been started.
LEMMA SendTimeoutStep ==
  ASSUME DownloadInv, NEW p \in Peer, SendTimeout(p)
  PROVE  DownloadInv'
  <1> DEFINE d == Started(p)
             e == [d EXCEPT !.node[p].disconnect = TRUE]
  <1>1. Sending(p) /\ Connected(p) /\ Becomes(e) /\ nSyncStarted' = SyncsStarted(p)
    BY Zenon DEF SendTimeout, Sending
  <1>2. /\ Sound(d, known, have, chain, {}) /\ DOMAIN d.node = Nodes
        /\ SyncsStarted(p) = Cardinality(Syncing(d)) /\ p \in DOMAIN d.node
    BY Zenon, <1>1, StartedSound DEF Connected
  <1> HIDE DEF d
  <1>3. Sound(e, known, have, chain, {}) /\ SamePeers(d, e)
    BY Zenon, <1>2, FlagsSound
  <1> HIDE DEF e
  <1> QED
    BY Zenon, <1>1, <1>2, <1>3, SentInv DEF SamePeers

\* FindNextBlocksToDownload starts from a block we have with all blocks below it.
LEMMA GuessStored ==
  ASSUME Rooted(known, have, tip, pindexBestHeader), NEW n \in NodeState, n.best \in Block,
         n.common # NULL => Ancestors[n.common] \subseteq have
  PROVE  LastCommonGuess(n) \in Block /\ Ancestors[LastCommonGuess(n)] \subseteq have
  <1>1. tip \in Block /\ Ancestors[tip] \subseteq have
    BY Zenon DEF Rooted
  <1>2. CASE n.common # NULL
    BY Zenon, <1>2 DEF LastCommonGuess, NodeState, BlockOrNull
  <1>3. CASE n.common = NULL /\ nHeight[n.best] < nHeight[tip]
    <2>1. nHeight[n.best] \in 0..nHeight[tip]
      <3>1. nHeight[n.best] \in Nat /\ nHeight[tip] \in Nat
        BY Zenon, <1>1, BlockTreeAssumption
      <3> QED
        BY <3>1, <1>3
    <2>2. GetAncestor(tip, nHeight[n.best]) \in Ancestors[tip]
      BY Zenon, <1>1, <2>1, GetAncestorExact
    <2>3. LastCommonGuess(n) = GetAncestor(tip, nHeight[n.best])
      BY Zenon, <1>3 DEF LastCommonGuess
    <2> DEFINE a == LastCommonGuess(n)
    <2>4. a \in Ancestors[tip]
      BY Zenon, <2>2, <2>3
    <2> HIDE DEF a
    <2>5. a \in Block /\ Ancestors[a] \subseteq Ancestors[tip]
      BY Zenon, <1>1, <2>4, BlockTreeAssumption
    <2> QED
      BY Zenon, <1>1, <2>5 DEF a
  <1>4. CASE n.common = NULL /\ ~(nHeight[n.best] < nHeight[tip])
    BY Zenon, <1>1, <1>4 DEF LastCommonGuess
  <1> QED
    BY Zenon, <1>2, <1>3, <1>4

\* The last common block ends up on the chain of the peer and stored.
LEMMA CommonStored ==
  ASSUME NEW best \in Block, NEW guess \in Block, Ancestors[guess] \subseteq have,
         NEW path \in SUBSET Ancestors[best]
  PROVE  LET common == MovesUp(LastCommonAncestor(guess, best), path)
         IN  common \in Ancestors[best] /\ Ancestors[common] \subseteq have
  <1> DEFINE from == LastCommonAncestor(guess, best)
             there == {b \in path : Ancestors[b] \subseteq have}
  <1>1. from \in Ancestors[guess] /\ from \in Ancestors[best]
    BY Zenon, LastCommonAncestorExact
  <1>2. Ancestors[from] \subseteq have
    <2>1. Ancestors[from] \subseteq Ancestors[guess]
      <3> HIDE DEF from
      <3> QED
        BY Zenon, <1>1, BlockTreeAssumption
    <2> QED
      BY Zenon, <2>1
  <1> HIDE DEF from
  <1>3. CASE there = {}
    BY Zenon, <1>1, <1>2, <1>3 DEF MovesUp, from
  <1>4. CASE there # {}
    <2>1. MovesUp(from, path) = Highest(there)
      BY Zenon, <1>4 DEF MovesUp
    <2>2. there \in SUBSET Ancestors[best] /\ \A b \in there : Ancestors[b] \subseteq have
      BY Zenon
    <2> HIDE DEF there
    <2>3. Highest(there) \in there
      BY Zenon, <1>4, <2>2, HighestIn
    <2> QED
      BY Zenon, <2>1, <2>2, <2>3 DEF from
  <1> QED
    BY Zenon, <1>3, <1>4

\* The last part of SendMessages: the last common block moves up, blocks are asked for within
\* the window and the limit, or the peer that holds us up is accused.
LEMMA FetchFromSound ==
  ASSUME DownloadInv, NEW p \in Peer, NEW d, Sound(d, known, have, chain, {}), p \in DOMAIN d.node,
         d.inFlight = mapBlocksInFlight, FetchFrom(d, p)
  PROVE  \E e : Becomes(e) /\ Sound(e, known, have, chain, {}) /\ SamePeers(d, e)
  <1> DEFINE n == d.node[p]
             from == LastCommon(n)
             path == Walk(n, from)
             next == FindNextBlocksToDownload(p, n, from, path)
             common == MovesUp(from, path)
             m == [n EXCEPT !.common = common]
             f == [d EXCEPT !.node[p] = m]
             g == Fetch(f, p, next.vBlocks)
             h == Accuse(g, p, next.waitingFor)
  <1>1. SamePeers(d, d)
    BY Zenon DEF SamePeers
  <1>2. CASE n.best = NULL \/ ~Better(n.best, tip)
    <2>1. Becomes(d)
      BY Zenon, <1>2 DEF FetchFrom
    <2> QED
      BY Zenon, <1>1, <2>1
  <1>3. CASE ~(n.best = NULL \/ ~Better(n.best, tip))
    <2>1. Becomes(h)
      BY <1>3, Zenon DEF FetchFrom
    <2>2. NodeOK(n) /\ n \in NodeState /\ Credited(n, p, known, have, chain)
          /\ Rooted(known, have, tip, pindexBestHeader)
      BY Zenon DEF Sound, Good, NodeOK, DownloadInv
    <2>n. h = Accuse(g, p, next.waitingFor) /\ f = [d EXCEPT !.node[p] = m] /\ n = d.node[p]
      BY Zenon
    <2> HIDE DEF n
    <2>3. n.best \in known /\ n.best \in Block /\ PeerHas(chain, p, n.best)
          /\ Ancestors[n.best] \subseteq known
      BY Zenon, <2>2, <1>3 DEF Credited, Rooted
    <2>4. LastCommonGuess(n) \in Block /\ Ancestors[LastCommonGuess(n)] \subseteq have
      BY Zenon, <2>2, <2>3, GuessStored DEF Credited
    <2>5. path \in SUBSET Ancestors[n.best]
      BY Zenon DEF Walk
    <2>6. common \in Ancestors[n.best] /\ Ancestors[common] \subseteq have
      <3> HIDE DEF path
      <3> QED
        BY Zenon, <2>3, <2>4, <2>5, CommonStored DEF LastCommon
    <2> HIDE DEF common, path, from
    <2>7. common \in Block /\ PeerHas(chain, p, common)
      <3>1. \A a \in Ancestors[n.best] : a \in Block /\ PeerHas(chain, p, a)
        BY Zenon, <2>3, HasBelow, BlockTreeAssumption DEF DownloadInv
      <3> QED
        BY Zenon, <2>6, <3>1
    <2>8. /\ m \in NodeState /\ m.vBlocksInFlight = n.vBlocksInFlight
          /\ m.nBlocksInFlight = n.nBlocksInFlight
          /\ m.nValidHeaders = n.nValidHeaders /\ m.stalling = n.stalling
          /\ m.best = n.best /\ m.unknown = n.unknown /\ m.common = common /\ m.sync = n.sync
      BY Zenon, <2>2, <2>7 DEF NodeState, BlockOrNull
    <2> HIDE DEF m
    <2>9. Credited(m, p, known, have, chain)
      BY Zenon, <2>2, <2>6, <2>7, <2>8 DEF Credited
    <2>10. /\ Sound(f, known, have, chain, {}) /\ f.node = [d.node EXCEPT ![p] = m]
           /\ f.inFlight = d.inFlight /\ DOMAIN f.node = DOMAIN d.node /\ f.node[p] = m
      BY <2>8, <2>9, NodeChanged DEF n
    <2> HIDE DEF f
    <2>11. SamePeers(d, f)
      BY Zenon, <2>8, <2>10 DEF SamePeers, Syncing, n
    <2> DEFINE missing == {b \in path : b \notin have /\ mapBlocksInFlight[b] = NULL}
               inFlight == {b \in path : b \notin have /\ mapBlocksInFlight[b] # NULL}
               within == {b \in missing : nHeight[b] <= nHeight[from] + BLOCK_DOWNLOAD_WINDOW}
               room == MAX_BLOCKS_IN_TRANSIT_PER_PEER - n.nBlocksInFlight
               bs == FirstOf(within, room)
               w == next.waitingFor
    <2>12. next.vBlocks = bs /\ (w = NULL \/ (inFlight # {} /\ w = Lowest(inFlight)))
      BY Zenon DEF FindNextBlocksToDownload
    <2> HIDE DEF next
    <2>13. room \in Nat /\ n.nBlocksInFlight \in Nat /\ MAX_BLOCKS_IN_TRANSIT_PER_PEER \in Nat
      <3>1. n.nBlocksInFlight \in Nat /\ n.nBlocksInFlight <= MAX_BLOCKS_IN_TRANSIT_PER_PEER
        BY Zenon, <2>2 DEF NodeOK, NodeState
      <3>2. MAX_BLOCKS_IN_TRANSIT_PER_PEER \in Nat
        BY Zenon, DownloadAssumption
      <3> QED
        BY Zenon, <3>1, <3>2, BelowLimit
    <2>14. /\ within \in SUBSET Ancestors[n.best]
           /\ \A b \in within : mapBlocksInFlight[b] = NULL /\ b \notin have
      BY Zenon, <2>5
    <2>15. inFlight \in SUBSET Block /\ \A b \in inFlight : mapBlocksInFlight[b] # NULL
      BY Zenon, <2>3, <2>5, BlockTreeAssumption
    <2> HIDE DEF within, inFlight
    <2>16. /\ bs \subseteq within /\ IsFiniteSet(bs)
           /\ Cardinality(bs) \in Nat /\ Cardinality(bs) <= room
      BY ZenonT(40), <2>3, <2>13, <2>14, FirstOfBound
    <2> HIDE DEF bs
    <2>17. /\ bs \in SUBSET known /\ \A b \in bs : f.inFlight[b] = NULL /\ b \notin have
           /\ f.node[p].nBlocksInFlight + Cardinality(bs) <= MAX_BLOCKS_IN_TRANSIT_PER_PEER
      <3>1. bs \in SUBSET known
        BY Zenon, <2>3, <2>14, <2>16
      <3>2. \A b \in bs : f.inFlight[b] = NULL /\ b \notin have
        BY Zenon, <2>10, <2>14, <2>16
      <3>3. f.node[p].nBlocksInFlight = n.nBlocksInFlight
        BY Zenon, <2>8, <2>10
      <3>4. n.nBlocksInFlight <= MAX_BLOCKS_IN_TRANSIT_PER_PEER
        BY Zenon, <2>2 DEF NodeOK
      <3>5. n.nBlocksInFlight + Cardinality(bs) <= MAX_BLOCKS_IN_TRANSIT_PER_PEER
        BY Zenon, <2>13, <2>16, <3>4, BelowLimit
      <3> QED
        BY Zenon, <3>1, <3>2, <3>3, <3>5
    <2>18. /\ Sound(g, known, have, chain, {}) /\ SamePeers(f, g)
           /\ g.inFlight = [b \in Block |-> IF b \in bs THEN p ELSE f.inFlight[b]]
      <3>1. p \in DOMAIN f.node /\ known \subseteq Block
        BY Zenon, <2>2, <2>10 DEF Rooted
      <3>2. g = Fetch(f, p, bs)
        BY Zenon, <2>12
      <3>3. Sound(f, known, have, chain, {})
        BY Zenon, <2>10
      <3>4. bs \in SUBSET known /\ IsFiniteSet(bs)
        BY Zenon, <2>16, <2>17
      <3>5. \A b \in bs : f.inFlight[b] = NULL /\ b \notin have
        BY Zenon, <2>17
      <3>6. f.node[p].nBlocksInFlight + Cardinality(bs) <= MAX_BLOCKS_IN_TRANSIT_PER_PEER
        BY Zenon, <2>17
      <3> HIDE DEF g, h, room
      <3>7. LET e == Fetch(f, p, bs)
            IN  /\ Sound(e, known, have, chain, {}) /\ SamePeers(f, e)
                /\ e.inFlight = GivenTo(p, bs, f.inFlight)
        BY ZenonT(60), <3>1, <3>3, <3>4, <3>5, <3>6, FetchSound
      <3> QED
        BY Zenon, <3>2, <3>7 DEF GivenTo
    <2>19. w \in BlockOrNull /\ (w # NULL => g.inFlight[w] \in Peer /\ mapBlocksInFlight[w] = g.inFlight[w])
      <3>1. CASE w = NULL
        BY Zenon, <3>1 DEF BlockOrNull
      <3>2. CASE w # NULL
        <4>1. w \in inFlight
          BY Zenon, <3>2, <2>12, <2>15, LowestIn
        <4>2. w \in Block /\ mapBlocksInFlight[w] # NULL /\ w \notin bs
          BY Zenon, <4>1, <2>15, <2>14, <2>16
        <4>3. g.inFlight[w] = mapBlocksInFlight[w]
          BY Zenon, <4>2, <2>10, <2>18
        <4>4. mapBlocksInFlight \in [Block -> Peer \cup {NULL}]
          BY Zenon, StateFields DEF Sound, Good
        <4> QED
          BY Zenon, <4>2, <4>3, <4>4 DEF BlockOrNull
      <3> QED
        BY Zenon, <3>1, <3>2
    <2>20. p \in DOMAIN g.node
      BY Zenon, <2>10, <2>18 DEF SamePeers
    <2> HIDE DEF g, w
    <2>21. Sound(Accuse(g, p, w), known, have, chain, {}) /\ SamePeers(g, Accuse(g, p, w))
      BY Zenon, <2>18, <2>19, <2>20, AccuseSound
    <2>22. h = Accuse(g, p, w)
      BY Zenon DEF w
    <2> HIDE DEF h
    <2>23. SamePeers(d, h)
      BY Zenon, <2>11, <2>18, <2>21, <2>22, SamePeersTrans
    <2> QED
      BY Zenon, <2>1, <2>21, <2>22, <2>23
  <1> QED
    BY Zenon, <1>2, <1>3

\* SendMessages for a peer that is kept, with the headers timer set back or not.
LEMMA SendFetchStep ==
  ASSUME DownloadInv, NEW p \in Peer, SendFetch(p)
  PROVE  DownloadInv'
  <1> DEFINE resets == HeadersLate(p) /\ p \in Whitelisted
             s == Started(p)
             r == [s EXCEPT !.node[p].sync = FALSE]
             d == IF resets THEN r ELSE s
             e == ProcessBlockAvailability(d, p, known)
  <1>1. /\ Sending(p) /\ Connected(p) /\ nSyncStarted' = SyncsStarted(p) - (IF resets THEN 1 ELSE 0)
        /\ FetchFrom(e, p) \/ Becomes(d)
    BY Zenon DEF SendFetch, Sending
  <1>2. /\ Sound(s, known, have, chain, {}) /\ DOMAIN s.node = Nodes /\ s.inFlight = mapBlocksInFlight
        /\ SyncsStarted(p) = Cardinality(Syncing(s)) /\ SyncsStarted(p) \in Nat
        /\ IsFiniteSet(Syncing(s)) /\ (node[p].sync => p \in Syncing(s))
    BY Zenon, <1>1, StartedSound
  <1>p. p \in DOMAIN s.node
    BY Zenon, <1>1, <1>2 DEF Connected
  <1>n. HeadersLate(p) => node[p].sync
    BY Zenon DEF HeadersLate
  <1> HIDE DEF s
  <1>3. /\ Sound(d, known, have, chain, {}) /\ DOMAIN d.node = Nodes /\ d.inFlight = mapBlocksInFlight
        /\ nSyncStarted' = Cardinality(Syncing(d))
    <2>1. CASE ~resets
      <3>1. d = s /\ nSyncStarted' = SyncsStarted(p) - 0
        BY Zenon, <2>1, <1>1
      <3>2. nSyncStarted' = SyncsStarted(p)
        BY <3>1, <1>2
      <3> QED
        BY <1>2, <3>1, <3>2, Zenon
    <2>2. CASE resets
      <3> DEFINE n == s.node[p]
                 m == [n EXCEPT !.sync = FALSE]
                 x == [s EXCEPT !.node[p] = m]
      <3>1. d = x /\ nSyncStarted' = SyncsStarted(p) - 1 /\ p \in Syncing(s)
        <4>1. r = x
          BY Zenon
        <4> QED
          BY <4>1, <2>2, <1>1, <1>2, <1>n, Zenon
      <3>2. n \in NodeState /\ Credited(n, p, known, have, chain)
        BY Zenon, <1>2, <1>p DEF Sound, Good, NodeOK
      <3>3. /\ m \in NodeState /\ m.vBlocksInFlight = n.vBlocksInFlight
            /\ m.nBlocksInFlight = n.nBlocksInFlight
            /\ m.nValidHeaders = n.nValidHeaders /\ m.stalling = n.stalling
            /\ m.best = n.best /\ m.unknown = n.unknown /\ m.common = n.common /\ m.sync = FALSE
        <4> HIDE DEF n
        <4> QED
          BY Zenon, <3>2 DEF NodeState
      <3> HIDE DEF m
      <3>4. Credited(m, p, known, have, chain)
        BY Zenon, <3>2, <3>3 DEF Credited
      <3>5. /\ Sound(x, known, have, chain, {}) /\ x.node = [s.node EXCEPT ![p] = m]
            /\ x.inFlight = s.inFlight /\ DOMAIN x.node = DOMAIN s.node /\ x.node[p] = m
        BY <1>2, <1>p, <3>3, <3>4, NodeChanged
      <3> HIDE DEF x
      <3>6. Syncing(x) = Syncing(s) \ {p}
        BY Zenon, <3>3, <3>5, <1>p DEF Syncing
      <3>7. Cardinality(Syncing(x)) = Cardinality(Syncing(s)) - 1
        BY Zenon, <3>1, <3>6, <1>2, FS_RemoveElement
      <3> QED
        BY <1>2, <3>1, <3>5, <3>7, Zenon
    <2> QED
      BY Zenon, <2>1, <2>2
  <1>q. p \in DOMAIN d.node
    BY Zenon, <1>2, <1>p, <1>3
  <1> HIDE DEF d
  <1>4. CASE Becomes(d)
    BY Zenon, <1>1, <1>3, <1>4, SentInv
  <1>5. CASE FetchFrom(e, p)
    <2>1. Sound(e, known, have, chain, {}) /\ SamePeers(d, e) /\ e.inFlight = d.inFlight
      BY Zenon, <1>3, <1>q, ProcessAvailabilitySound
    <2> HIDE DEF e
    <2>2. p \in DOMAIN e.node /\ e.inFlight = mapBlocksInFlight
      BY Zenon, <2>1, <1>3, <1>q DEF SamePeers
    <2>3. PICK f : Becomes(f) /\ Sound(f, known, have, chain, {}) /\ SamePeers(e, f)
      BY Zenon, <1>5, <2>1, <2>2, FetchFromSound
    <2>4. DOMAIN f.node = Nodes /\ nSyncStarted' = Cardinality(Syncing(f))
      BY Zenon, <2>1, <2>3, <1>3 DEF SamePeers
    <2> QED
      BY Zenon, <1>1, <2>3, <2>4, SentInv
  <1> QED
    BY Zenon, <1>1, <1>4, <1>5

----------------------------------------------------------------------------

\* A node that starts knows no peers.
LEMMA InitInv == Init => DownloadInv
  <1> SUFFICES ASSUME Init PROVE DownloadInv
    BY Zenon
  <1>1. /\ known = {Genesis} /\ have = {Genesis} /\ tip = Genesis /\ pindexBestHeader = Genesis
        /\ DOMAIN node = {} /\ Nodes = {} /\ mapBlocksInFlight = [b \in Block |-> NULL]
        /\ nPeersWithValidatedDownloads = 0 /\ nPreferredDownload = 0 /\ nSyncStarted = 0
        /\ chain = [p \in Peer |-> 1] /\ mail = [p \in Peer |-> NoMail] /\ NULL \notin Peer
    BY Zenon, DownloadAssumption DEF Init, Nodes
  <1>2. Rooted(known, have, tip, pindexBestHeader)
    BY Zenon, <1>1, FirstBlock, BlockTreeAssumption DEF Rooted
  <1>3. OnChain(chain)
    <2>1. ASSUME NEW p \in Peer PROVE 1 \in DOMAIN Tips[p]
      <3>1. Tips[p] \in Seq(Block) /\ Tips[p] # <<>>
        BY Zenon, DownloadAssumption
      <3> QED
        BY Zenon, <3>1, FirstIndex
    <2> QED
      BY Zenon, <2>1, <1>1 DEF OnChain
  <1>4. Download \in DownloadState
    <2>1. node \in NodeMap
      <3>1. node \in [{} -> NodeState] /\ {} \in SUBSET Peer
        BY Zenon DEF Init
      <3> QED
        BY Zenon, <3>1 DEF NodeMap
    <2>2. mail \in [Peer -> Mail]
      BY <1>1 DEF NoMail, Mail
    <2> QED
      BY <1>1, <2>1, <2>2 DEF Download, DownloadState
  <1>5. DOMAIN Download.node = {} /\ Download.inFlight = mapBlocksInFlight /\ Download.validated = 0
        /\ Download.mail = mail
    BY Zenon, <1>1, DownloadFields
  <1>6. Downloading(Download) = {} /\ Syncing(Download) = {} /\ Nodes \cap Preferred = {}
    BY Zenon, <1>1, <1>5 DEF Downloading, Syncing
  <1>7. Good(Download, {} \cup Came(have)) /\ Landed(Download, have)
    <2>1. Download.validated = Cardinality(Downloading(Download))
      BY Zenon, <1>5, <1>6, FS_EmptySet
    <2>2. \A b \in Block, p \in Peer : Download.inFlight[b] # p /\ p \notin DOMAIN Download.node
      BY Zenon, <1>1, <1>5
    <2> QED
      BY Zenon, <1>1, <1>4, <1>5, <2>1, <2>2 DEF Good, Landed
  <1>8. Sound(Download, known, have, chain, {})
    <2>1. NoMail.blocks = {} /\ NoMail.cmpct = {} /\ NoMail.txns = {}
      BY Zenon, NoMailType
    <2>2. \A p \in Peer : Download.mail[p] = NoMail
      BY Zenon, <1>1, <1>5
    <2>3. \A p \in Peer : MailOK(Download.mail[p], p, known, chain)
      BY Zenon, <2>1, <2>2 DEF MailOK
    <2> QED
      BY Zenon, <1>5, <1>7, <2>3 DEF Sound
  <1> QED
    BY Zenon, <1>1, <1>2, <1>3, <1>6, <1>8, FS_EmptySet DEF DownloadInv

\* Every handler keeps the invariant.
LEMMA NextInv == DownloadInv /\ [Next]_vars => DownloadInv'
  <1> SUFFICES ASSUME DownloadInv, [Next]_vars PROVE DownloadInv'
    BY Zenon
  <1>1. CASE UNCHANGED vars
    <2>1. /\ known' = known /\ have' = have /\ tip' = tip /\ pindexBestHeader' = pindexBestHeader
          /\ node' = node /\ mapBlocksInFlight' = mapBlocksInFlight
          /\ nPeersWithValidatedDownloads' = nPeersWithValidatedDownloads
          /\ nPreferredDownload' = nPreferredDownload /\ nSyncStarted' = nSyncStarted
          /\ chain' = chain /\ mail' = mail
      BY Zenon, <1>1 DEF vars
    <2>2. Download' = Download /\ Nodes' = Nodes
      BY Zenon, <2>1 DEF Download, Nodes
    <2> QED
      BY Zenon, <2>1, <2>2 DEF DownloadInv
  <1>2. ASSUME NEW p \in Peer, InitializeNode(p) \/ FinalizeNode(p) \/ Leave(p) \/ PeerMoves(p)
        PROVE  DownloadInv'
    BY Zenon, <1>2, InitializeNodeStep, FinalizeNodeStep, LeaveStep, PeerMovesStep
  <1>3. ASSUME NEW p \in Peer, Sends(p)
        PROVE  DownloadInv'
    <2>1. CASE Inv(p) \/ HeadersAnnounce(p) \/ HeadersReply(p)
      BY Zenon, <2>1, InvStep, HeadersAnnounceStep, HeadersReplyStep
    <2>2. ASSUME NEW status \in {"ok", "some", "failed", "invalid"}, CmpctAnnounce(p, status)
          PROVE  DownloadInv'
      BY Zenon, <2>2, CmpctAnnounceStep
    <2>3. ASSUME NEW b \in mail[p].blocks, BlockArrives(p, b)
          PROVE  DownloadInv'
      BY Zenon, <2>3, BlockArrivesStep
    <2>4. ASSUME NEW b \in mail[p].txns, NEW status \in {"ok", "failed", "invalid"}, BlockTxn(p, b, status)
          PROVE  DownloadInv'
      BY Zenon, <2>4, BlockTxnStep
    <2>5. ASSUME NEW b \in mail[p].cmpct, NEW status \in {"full", "ok", "some", "failed", "invalid"},
                 CmpctReply(p, b, status)
          PROVE  DownloadInv'
      BY Zenon, <2>5, CmpctReplyStep
    <2> QED
      BY Zenon, <1>3, <2>1, <2>2, <2>3, <2>4, <2>5 DEF Sends
  <1>4. ASSUME NEW p \in Peer, GivesUp(p)
        PROVE  DownloadInv'
    BY Zenon, <1>4, SendBanStep, SendTimeoutStep, SendHeadersTimeoutStep DEF GivesUp
  <1>5. ASSUME NEW p \in Peer, SendFetch(p)
        PROVE  DownloadInv'
    BY Zenon, <1>5, SendFetchStep
  <1>6. ASSUME NEW b \in Block \ {Genesis}, SubmitBlock(b)
        PROVE  DownloadInv'
    BY Zenon, <1>6, SubmitBlockStep
  <1> QED
    BY Zenon, <1>1, <1>2, <1>3, <1>4, <1>5, <1>6 DEF Next

\* The inductive invariant: what the index, the lists of the peers and the requests under way have
\* to do with each other after every handler.
THEOREM Invariance == Spec => []DownloadInv
  BY InitInv, NextInv, PTL DEF Spec

\* Only ProcessNewBlock stores and connects blocks.
LEMMA OnlyProcessNewBlock ==
  ASSUME [Next]_vars
  PROVE  UNCHANGED chainstate \/ \E b, r : ProcessNewBlock(b, r)
  <1>1. CASE UNCHANGED vars
    BY Zenon, <1>1 DEF vars, chainstate
  <1>2. ASSUME UNCHANGED blocks PROVE UNCHANGED chainstate
    BY Zenon, <1>2 DEF blocks
  <1>3. ASSUME NEW p \in Peer, InitializeNode(p) \/ FinalizeNode(p) \/ Leave(p) \/ PeerMoves(p)
        PROVE  UNCHANGED chainstate
    BY Zenon, <1>2, <1>3 DEF InitializeNode, FinalizeNode, Leave, PeerMoves
  <1>4. ASSUME NEW p \in Peer, GivesUp(p) \/ SendFetch(p)
        PROVE  UNCHANGED chainstate
    BY Zenon, <1>2, <1>4 DEF GivesUp, SendBan, SendTimeout, SendHeadersTimeout, SendFetch, Sending
  <1>5. ASSUME NEW d, NEW p, NEW hs, Headers(d, p, hs)
        PROVE  UNCHANGED chainstate
    BY Zenon, <1>2, <1>5 DEF Headers
  <1>6. ASSUME NEW d, NEW p, NEW b, NEW status, CompactBlock(d, p, b, status)
        PROVE  UNCHANGED chainstate \/ \E r : ProcessNewBlock(b, r)
    BY Zenon, <1>2, <1>5, <1>6 DEF CompactBlock, Reconstruct
  <1>7. ASSUME NEW p \in Peer, Sends(p)
        PROVE  UNCHANGED chainstate \/ \E b, r : ProcessNewBlock(b, r)
    BY Zenon, <1>2, <1>5, <1>6, <1>7 DEF Sends, Inv, HeadersAnnounce, HeadersReply, CmpctAnnounce,
       BlockArrives, CmpctReply, BlockMessage, BlockTxn
  <1>8. ASSUME NEW b, SubmitBlock(b)
        PROVE  \E r : ProcessNewBlock(b, r)
    BY Zenon, <1>8 DEF SubmitBlock
  <1> QED
    BY Zenon, <1>1, <1>3, <1>4, <1>7, <1>8 DEF Next

\* What has been connected is stored.
LEMMA ValidStored == Spec => [](valid \subseteq have)
  <1>1. Init => valid \subseteq have
    BY Zenon DEF Init
  <1>2. DownloadInv /\ DownloadInv' /\ valid \subseteq have /\ [Next]_vars => (valid \subseteq have)'
    <2> SUFFICES ASSUME DownloadInv, DownloadInv', valid \subseteq have, [Next]_vars
                 PROVE  valid' \subseteq have'
      BY Zenon
    <2>1. Ancestors[tip'] \subseteq have'
      BY Zenon DEF DownloadInv, Rooted
    <2>2. CASE UNCHANGED chainstate
      BY Zenon, <2>2 DEF chainstate
    <2>3. ASSUME NEW b, NEW r, ProcessNewBlock(b, r)
          PROVE  valid' \subseteq have'
      <3>1. have \subseteq have' /\ valid' = valid \cup Ancestors[tip']
        BY Zenon, <2>3 DEF ProcessNewBlock
      <3> QED
        BY Zenon, <2>1, <3>1
    <2> QED
      BY Zenon, <2>2, <2>3, OnlyProcessNewBlock
  <1> QED
    BY <1>1, <1>2, Invariance, PTL DEF Spec

\* The state has its type after any number of messages: nothing is in flight from a peer that
\* does not exist, and nothing is asked for that is not indexed.
THEOREM TypeCorrect == Spec => []TypeOK
  <1>1. DownloadInv /\ valid \subseteq have => TypeOK
    <2> SUFFICES ASSUME DownloadInv, valid \subseteq have PROVE TypeOK
      BY Zenon
    <2>1. Rooted(known, have, tip, pindexBestHeader) /\ OnChain(chain)
          /\ Sound(Download, known, have, chain, {})
      BY Zenon DEF DownloadInv
    <2>2. /\ Nodes \in SUBSET Peer /\ node \in [Nodes -> NodeState]
          /\ mapBlocksInFlight \in [Block -> Peer \cup {NULL}] /\ mail \in [Peer -> Mail]
      BY Zenon, <2>1, StateFields, DownloadFields DEF Nodes, Sound, Good
    <2>3. Syncing(Download) \in SUBSET Peer /\ Downloading(Download) \in SUBSET Peer
          /\ Nodes \cap Preferred \in SUBSET Peer
      BY Zenon, <2>2, DownloadFields DEF Syncing, Downloading, Nodes
    <2>4. /\ Cardinality(Syncing(Download)) \in Nat /\ Cardinality(Downloading(Download)) \in Nat
          /\ Cardinality(Nodes \cap Preferred) \in Nat
      BY Zenon, <2>3, FS_Subset, FS_CardinalityType, DownloadAssumption
    <2>5. nPeersWithValidatedDownloads = Cardinality(Downloading(Download))
      BY Zenon, <2>1, DownloadFields DEF Sound, Good
    <2>6. {nPeersWithValidatedDownloads, nPreferredDownload, nSyncStarted} \subseteq Nat
      BY Zenon, <2>4, <2>5 DEF DownloadInv
    <2>7. \A p \in Peer : mail[p].blocks \cup mail[p].cmpct \cup mail[p].txns \subseteq known
      BY Zenon, <2>1, DownloadFields DEF Sound, MailOK
    <2> QED
      BY Zenon, <2>1, <2>2, <2>6, <2>7 DEF TypeOK, Rooted, OnChain
  <1> QED
    BY <1>1, Invariance, ValidStored, PTL

\* The map of blocks in flight and the lists of the peers never disagree, so the iterator that
\* MarkBlockAsReceived takes from the map is always one of the list of that peer.
THEOREM InFlightExactAlways == Spec => []InFlightExact
  <1>1. DownloadInv => InFlightExact
    <2> SUFFICES ASSUME DownloadInv PROVE InFlightExact
      BY Zenon
    <2>1. \A p \in Nodes : \A e, f \in node[p].vBlocksInFlight : e.hash = f.hash => e = f
      BY Zenon, FlatInv DEF NodeOK
    <2>2. \A b \in Block, p \in Peer : mapBlocksInFlight[b] = p <=> p \in Nodes /\ Listed(node[p], b)
      BY Zenon, FlatInv
    <2> QED
      BY Zenon, <2>1, <2>2 DEF InFlightExact, Listed
  <1> QED
    BY <1>1, Invariance, PTL

\* All counters are exact, and no peer ever has more to send than the limit: the assertions at the
\* end of FinalizeNode hold however the peers came and went.
THEOREM CountersExactAlways == Spec => []CountersExact
  <1>1. DownloadInv => CountersExact
    <2> SUFFICES ASSUME DownloadInv PROVE CountersExact
      BY Zenon
    <2>1. Good(Download, {} \cup Came(have))
      BY Zenon DEF DownloadInv, Sound
    <2>2. Downloading(Download) = {p \in Nodes : node[p].vBlocksInFlight # {}}
      BY Zenon, DownloadFields DEF Downloading, Nodes
    <2>3. Syncing(Download) = {p \in Nodes : node[p].sync}
      BY Zenon, DownloadFields DEF Syncing, Nodes
    <2>4. \A p \in Nodes : NodeOK(node[p])
      BY Zenon, <2>1, DownloadFields DEF Good, Nodes
    <2>5. nPeersWithValidatedDownloads = Cardinality(Downloading(Download))
      BY Zenon, <2>1, DownloadFields DEF Good
    <2> QED
      BY Zenon, <2>2, <2>3, <2>4, <2>5 DEF CountersExact, NodeOK, DownloadInv
  <1> QED
    BY <1>1, Invariance, PTL

\* A peer that is accused of stalling owes the block it is accused over.
THEOREM StallerOwesAlways == Spec => []StallerOwes
  <1>1. DownloadInv => StallerOwes
    BY Zenon, DownloadFields DEF DownloadInv, Sound, Good, StallerOwes, Nodes
  <1> QED
    BY <1>1, Invariance, PTL

\* What is in flight from a peer was asked of it, and it has not answered, unless the block is
\* stored and one that submitblock brings: the "cmpctblock" that answers is dropped then without
\* MarkBlockAsReceived.
THEOREM RequestsOpenAlways == Spec => []RequestsOpen
  <1>1. DownloadInv => RequestsOpen
    BY Zenon, FlatInv DEF RequestsOpen, Came
  <1> QED
    BY <1>1, Invariance, PTL

\* The last common block with a peer is stored with all blocks below it, and the peer has had it,
\* through reorganisations on both sides.
THEOREM CommonBlockExactAlways == Spec => []CommonBlockExact
  <1>1. DownloadInv => CommonBlockExact
    BY Zenon, DownloadFields DEF DownloadInv, Sound, Credited, PeerHas, CommonBlockExact,
       Nodes
  <1> QED
    BY <1>1, Invariance, PTL
=============================================================================
