------------------------ MODULE DownloadStateProofs ------------------------
(***************************************************************************)
(* The inductive invariant of BlockDownload, what the calls that the       *)
(* message handlers are made of keep true of the download state, and the   *)
(* handlers of "inv", "headers", "block" and "blocktxn" and submitblock.   *)
(***************************************************************************)
EXTENDS BlockDownload, BlockTreeProofs

NodeMap == UNION {[N -> NodeState] : N \in SUBSET Peer}

DownloadState ==
  [node : NodeMap, inFlight : [Block -> Peer \cup {NULL}], validated : Int, mail : [Peer -> Mail]]

----------------------------------------------------------------------------
(* One node. *)

Listed(n, b) == \E m \in n.vBlocksInFlight : m.hash = b

\* The list of a node has every block once, and both counters say how many.
NodeOK(n) ==
  /\ n \in NodeState
  /\ IsFiniteSet(n.vBlocksInFlight)
  /\ n.nBlocksInFlight = Cardinality(n.vBlocksInFlight)
  /\ n.nValidHeaders = Cardinality(n.vBlocksInFlight)
  /\ n.nBlocksInFlight <= MAX_BLOCKS_IN_TRANSIT_PER_PEER
  /\ \A e, f \in n.vBlocksInFlight : e.hash = f.hash => e = f

Counted(n, v, k, l, s) ==
  [n EXCEPT !.vBlocksInFlight = v, !.nBlocksInFlight = k, !.nValidHeaders = l, !.stalling = s]

\* The fields of a node whose list, counters and accusation change.
LEMMA CountedFields ==
  ASSUME NEW n \in NodeState, NEW v \in SUBSET Mark, NEW k \in Nat, NEW l \in Nat, NEW s \in BlockOrNull
  PROVE  LET m == Counted(n, v, k, l, s)
         IN  /\ m \in NodeState
             /\ m.vBlocksInFlight = v /\ m.nBlocksInFlight = k /\ m.nValidHeaders = l
             /\ m.stalling = s
             /\ m.best = n.best /\ m.unknown = n.unknown /\ m.common = n.common
             /\ m.sync = n.sync /\ m.disconnect = n.disconnect
  BY Zenon DEF NodeState, Counted

\* A peer that has just connected has nothing in flight.
LEMMA NewNodeOK == NodeOK(NewNode) /\ \A b : ~Listed(NewNode, b)
  BY FS_EmptySet, DownloadAssumption DEF NodeOK, NewNode, NodeState, BlockOrNull, Listed

\* A block leaves the list.
LEMMA NodeReceived ==
  ASSUME NEW n, NodeOK(n), NEW b \in Block, Listed(n, b)
  PROVE  LET v == {e \in n.vBlocksInFlight : e.hash # b}
             m == Counted(n, v, n.nBlocksInFlight - 1, n.nValidHeaders - 1, NULL)
         IN  /\ NodeOK(m)
             /\ \A c : Listed(m, c) <=> Listed(n, c) /\ c # b
             /\ m.vBlocksInFlight = {} <=> n.nValidHeaders = 1
             /\ m.vBlocksInFlight = v /\ m.stalling = NULL
  <1> DEFINE v == {e \in n.vBlocksInFlight : e.hash # b}
             m == Counted(n, v, n.nBlocksInFlight - 1, n.nValidHeaders - 1, NULL)
  <1>1. PICK x \in n.vBlocksInFlight : x.hash = b
    BY Zenon DEF Listed
  <1>2. v = n.vBlocksInFlight \ {x}
    BY Zenon, <1>1 DEF NodeOK
  <1>3. IsFiniteSet(v) /\ Cardinality(v) = Cardinality(n.vBlocksInFlight) - 1
    BY ZenonT(40), <1>1, <1>2, FS_RemoveElement DEF NodeOK
  <1>4. Cardinality(n.vBlocksInFlight) \in Nat /\ Cardinality(v) \in Nat
    BY Zenon, <1>3, FS_CardinalityType DEF NodeOK
  <1>5. n \in NodeState /\ v \in SUBSET Mark /\ n.nBlocksInFlight - 1 \in Nat /\ n.nValidHeaders - 1 \in Nat
        /\ NULL \in BlockOrNull
    BY Zenon, <1>3, <1>4 DEF NodeOK, NodeState, BlockOrNull
  <1>6. /\ m \in NodeState /\ m.vBlocksInFlight = v /\ m.nBlocksInFlight = n.nBlocksInFlight - 1
        /\ m.nValidHeaders = n.nValidHeaders - 1 /\ m.stalling = NULL
    BY <1>5, CountedFields
  <1>7. v = {} <=> Cardinality(v) = 0
    BY Zenon, <1>3, FS_EmptySet
  <1> HIDE DEF m
  <1>8. NodeOK(m)
    BY <1>3, <1>4, <1>6, DownloadAssumption DEF NodeOK
  <1>9. \A c : Listed(m, c) <=> Listed(n, c) /\ c # b
    BY Zenon, <1>6 DEF Listed
  <1>10. m.vBlocksInFlight = {} <=> n.nValidHeaders = 1
    BY <1>3, <1>4, <1>6, <1>7 DEF NodeOK
  <1> QED
    BY Zenon, <1>6, <1>8, <1>9, <1>10 DEF m

Marks(bs, partial) == {[hash |-> b, partial |-> partial] : b \in bs}

Asked(n, bs, partial) ==
  Counted(n, n.vBlocksInFlight \cup Marks(bs, partial), n.nBlocksInFlight + Cardinality(bs),
          n.nValidHeaders + Cardinality(bs), n.stalling)

\* Blocks that are not in the list enter it.
LEMMA NodeAsked ==
  ASSUME NEW n, NodeOK(n), NEW bs \in SUBSET Block, IsFiniteSet(bs), NEW partial \in BOOLEAN,
         \A b \in bs : ~Listed(n, b),
         n.nBlocksInFlight + Cardinality(bs) <= MAX_BLOCKS_IN_TRANSIT_PER_PEER
  PROVE  LET m == Asked(n, bs, partial)
         IN  /\ NodeOK(m)
             /\ \A c : Listed(m, c) <=> Listed(n, c) \/ c \in bs
             /\ m.vBlocksInFlight = {} <=> n.nValidHeaders = 0 /\ bs = {}
             /\ m.vBlocksInFlight = n.vBlocksInFlight \cup Marks(bs, partial)
             /\ m.stalling = n.stalling
  <1> DEFINE new == Marks(bs, partial)
             v == n.vBlocksInFlight \cup new
             m == Counted(n, v, n.nBlocksInFlight + Cardinality(bs),
                          n.nValidHeaders + Cardinality(bs), n.stalling)
             f == [b \in bs |-> [hash |-> b, partial |-> partial]]
  <1>1. f \in Bijection(bs, new)
    BY Zenon DEF Marks, Bijection, Injection, Surjection, IsInjective
  <1>2. IsFiniteSet(new) /\ Cardinality(new) = Cardinality(bs)
    BY Zenon, <1>1, FS_Bijection DEF ExistsBijection
  <1>3. n.vBlocksInFlight \cap new = {}
    BY Zenon DEF Marks, Listed
  <1>4. IsFiniteSet(v) /\ Cardinality(v) = Cardinality(n.vBlocksInFlight) + Cardinality(bs)
    <2>1. /\ IsFiniteSet(v)
          /\ Cardinality(v) = Cardinality(n.vBlocksInFlight) + Cardinality(new)
                                - Cardinality(n.vBlocksInFlight \cap new)
      BY Zenon, <1>2, FS_Union DEF NodeOK
    <2>2. Cardinality(n.vBlocksInFlight) \in Nat /\ Cardinality(bs) \in Nat
      BY Zenon, FS_CardinalityType DEF NodeOK
    <2>3. Cardinality(n.vBlocksInFlight \cap new) = 0
      BY Zenon, <1>3, FS_EmptySet
    <2> QED
      BY <2>1, <2>2, <2>3, <1>2
  <1>5. Cardinality(n.vBlocksInFlight) \in Nat /\ Cardinality(bs) \in Nat
    BY Zenon, FS_CardinalityType DEF NodeOK
  <1>6. /\ n \in NodeState /\ v \in SUBSET Mark /\ n.stalling \in BlockOrNull
        /\ n.nBlocksInFlight + Cardinality(bs) \in Nat /\ n.nValidHeaders + Cardinality(bs) \in Nat
    BY <1>5 DEF NodeOK, NodeState, Marks, Mark
  <1>7. /\ m \in NodeState /\ m.vBlocksInFlight = v /\ m.nBlocksInFlight = n.nBlocksInFlight + Cardinality(bs)
        /\ m.nValidHeaders = n.nValidHeaders + Cardinality(bs) /\ m.stalling = n.stalling
    BY <1>6, CountedFields
  <1>8. \A e, g \in v : e.hash = g.hash => e = g
    BY DEF Marks, Listed, NodeOK
  <1>9. v = {} <=> n.nValidHeaders = 0 /\ bs = {}
    <2>1. n.vBlocksInFlight = {} <=> n.nValidHeaders = 0
      BY Zenon, FS_EmptySet DEF NodeOK
    <2>2. new = {} <=> bs = {}
      BY Zenon DEF Marks
    <2> QED
      BY Zenon, <2>1, <2>2
  <1>10. ASSUME NEW c PROVE (\E e \in v : e.hash = c) <=> Listed(n, c) \/ c \in bs
    <2>1. ASSUME NEW e \in v, e.hash = c PROVE Listed(n, c) \/ c \in bs
      BY <2>1 DEF Marks, Listed
    <2>2. ASSUME c \in bs PROVE \E e \in v : e.hash = c
      <3>1. [hash |-> c, partial |-> partial] \in v
        BY Zenon, <2>2 DEF Marks
      <3> QED
        BY Zenon, <3>1
    <2>3. Listed(n, c) => \E e \in v : e.hash = c
      BY Zenon DEF Listed
    <2> QED
      BY Zenon, <2>1, <2>2, <2>3
  <1> HIDE DEF m, v
  <1>11. NodeOK(m)
    BY Zenon, <1>4, <1>5, <1>7, <1>8 DEF NodeOK
  <1>12. \A c : Listed(m, c) <=> Listed(n, c) \/ c \in bs
    BY Zenon, <1>7, <1>10 DEF Listed
  <1> QED
    BY Zenon, <1>7, <1>9, <1>11, <1>12 DEF m, v, Asked

----------------------------------------------------------------------------
(* The download state. *)

Downloading(d) == {p \in DOMAIN d.node : d.node[p].vBlocksInFlight # {}}

\* What the handlers keep true of the download state in all their calls; only the blocks in
\* X are in flight without having been asked for.
Good(d, X) ==
  /\ d \in DownloadState
  /\ \A p \in DOMAIN d.node : NodeOK(d.node[p])
  /\ \A p \in DOMAIN d.node : d.node[p].stalling # NULL => d.inFlight[d.node[p].stalling] = p
  /\ \A b \in Block, p \in Peer : d.inFlight[b] = p <=> p \in DOMAIN d.node /\ Listed(d.node[p], b)
  /\ d.validated = Cardinality(Downloading(d))
  /\ \A b \in Block \ X, p \in Peer : d.inFlight[b] = p => Open(d, p, b)

\* A larger set of exceptions says less.
LEMMA GoodWeaker ==
  ASSUME NEW d, NEW X, NEW Y, Good(d, X), X \subseteq Y
  PROVE  Good(d, Y)
  BY Zenon DEF Good

\* What is not about blocks in flight stays as it is.
SameRest(d, e) ==
  /\ DOMAIN e.node = DOMAIN d.node
  /\ \A q \in DOMAIN d.node :
       /\ e.node[q].best = d.node[q].best /\ e.node[q].unknown = d.node[q].unknown
       /\ e.node[q].common = d.node[q].common /\ e.node[q].sync = d.node[q].sync

\* The parts of the download state have their types.
LEMMA StateFields ==
  ASSUME NEW d \in DownloadState
  PROVE  /\ DOMAIN d.node \in SUBSET Peer /\ d.node \in [DOMAIN d.node -> NodeState]
         /\ d.inFlight \in [Block -> Peer \cup {NULL}] /\ d.validated \in Int
         /\ d.mail \in [Peer -> Mail]
  BY Zenon DEF DownloadState, NodeMap

\* The peers that download are finitely many, so their number is a number.
LEMMA DownloadingFinite ==
  ASSUME NEW d \in DownloadState
  PROVE  IsFiniteSet(Downloading(d)) /\ Cardinality(Downloading(d)) \in Nat
  <1>1. Downloading(d) \in SUBSET Peer
    BY Zenon, StateFields DEF Downloading
  <1> QED
    BY Zenon, <1>1, FS_Subset, FS_CardinalityType, DownloadAssumption

\* MarkBlockAsReceived takes a block out of flight and keeps all books in step.
LEMMA ReceivedGood ==
  ASSUME NEW d, NEW X, Good(d, X), NEW b \in Block
  PROVE  LET e == Received(d, b)
         IN  /\ Good(e, X \ {b}) /\ SameRest(d, e) /\ e.mail = d.mail
             /\ e.inFlight = [d.inFlight EXCEPT ![b] = NULL]
  <1> DEFINE e == Received(d, b)
             p == d.inFlight[b]
             n == d.node[p]
             m == Counted(n, {x \in n.vBlocksInFlight : x.hash # b}, n.nBlocksInFlight - 1,
                          n.nValidHeaders - 1, NULL)
  <1>d. d \in DownloadState
    BY Zenon DEF Good
  <1>t. /\ DOMAIN d.node \in SUBSET Peer /\ d.node \in [DOMAIN d.node -> NodeState]
        /\ d.inFlight \in [Block -> Peer \cup {NULL}] /\ d.validated \in Int
        /\ d.mail \in [Peer -> Mail] /\ NULL \notin Peer
    BY Zenon, <1>d, StateFields, DownloadAssumption
  <1>1. CASE p = NULL
    <2>1. e = d
      BY Zenon, <1>1 DEF Received
    <2>2. d.inFlight = [d.inFlight EXCEPT ![b] = NULL]
      BY Zenon, <1>1, <1>t
    <2>3. Good(d, X \ {b})
      BY <1>1, <1>t DEF Good
    <2> QED
      BY Zenon, <2>1, <2>2, <2>3 DEF SameRest
  <1>2. CASE p # NULL
    <2>1. p \in Peer /\ p \in DOMAIN d.node /\ Listed(n, b) /\ NodeOK(n)
      BY <1>2, <1>t DEF Good
    <2>2. /\ NodeOK(m)
          /\ \A c : Listed(m, c) <=> Listed(n, c) /\ c # b
          /\ m.vBlocksInFlight = {} <=> n.nValidHeaders = 1
          /\ m.vBlocksInFlight = {x \in n.vBlocksInFlight : x.hash # b} /\ m.stalling = NULL
      <3> HIDE DEF n
      <3> QED
        BY Zenon, <2>1, NodeReceived
    <2>3. /\ m.best = n.best /\ m.unknown = n.unknown /\ m.common = n.common /\ m.sync = n.sync
      BY Zenon, <2>1 DEF NodeOK, NodeState, Counted
    <2>4. /\ e.node = [d.node EXCEPT ![p] = m]
          /\ e.inFlight = [d.inFlight EXCEPT ![b] = NULL]
          /\ e.validated = IF n.nValidHeaders = 1 THEN d.validated - 1 ELSE d.validated
          /\ e.mail = d.mail
      BY ZenonT(40), <1>2, <1>d DEF Received, DownloadState, Counted
    <2>5. e = [node |-> e.node, inFlight |-> e.inFlight, validated |-> e.validated, mail |-> e.mail]
      BY Zenon, <1>2, <1>d DEF Received, DownloadState
    <2> HIDE DEF e, m
    <2>6. DOMAIN e.node = DOMAIN d.node /\ e.node[p] = m /\ \A q \in DOMAIN d.node \ {p} : e.node[q] = d.node[q]
      BY Zenon, <2>1, <2>4, <1>t
    <2>7. e.inFlight[b] = NULL /\ \A c \in Block \ {b} : e.inFlight[c] = d.inFlight[c]
      BY Zenon, <2>4, <1>t
    <2>8. e \in DownloadState
      <3>1. m \in NodeState
        BY Zenon, <2>2 DEF NodeOK
      <3>2. e.node \in NodeMap
        BY <3>1, <2>1, <2>4, <1>t DEF NodeMap
      <3>3. e.inFlight \in [Block -> Peer \cup {NULL}] /\ e.validated \in Int /\ e.mail \in [Peer -> Mail]
        BY <2>4, <1>t
      <3> QED
        BY Zenon, <3>2, <3>3, <2>5 DEF DownloadState
    <2>9. \A q \in DOMAIN e.node : NodeOK(e.node[q])
      BY Zenon, <2>2, <2>6 DEF Good
    <2>10. ASSUME NEW q \in DOMAIN e.node, e.node[q].stalling # NULL
           PROVE  e.inFlight[e.node[q].stalling] = q
      <3>1. q \in DOMAIN d.node /\ q # p /\ e.node[q] = d.node[q]
        BY Zenon, <2>2, <2>6, <2>10
      <3>2. d.inFlight[d.node[q].stalling] = q /\ d.node[q].stalling \in Block
        BY <3>1, <2>10, <1>t DEF Good, NodeState, BlockOrNull
      <3> QED
        BY Zenon, <3>1, <3>2, <2>7
    <2>11. ASSUME NEW c \in Block, NEW q \in Peer
           PROVE  e.inFlight[c] = q <=> q \in DOMAIN e.node /\ Listed(e.node[q], c)
      <3>1. d.inFlight[c] = q <=> q \in DOMAIN d.node /\ Listed(d.node[q], c)
        BY Zenon DEF Good
      <3>2. CASE c = b
        BY Zenon, <3>1, <3>2, <2>2, <2>6, <2>7, <1>t
      <3>3. CASE c # b
        BY Zenon, <3>1, <3>3, <2>2, <2>6, <2>7
      <3> QED
        BY Zenon, <3>2, <3>3
    <2>12. e.validated = Cardinality(Downloading(e))
      <3>1. d.validated = Cardinality(Downloading(d)) /\ p \in Downloading(d)
        BY Zenon, <2>1 DEF Good, Downloading, Listed
      <3>2. Downloading(e) = IF n.nValidHeaders = 1 THEN Downloading(d) \ {p} ELSE Downloading(d)
        <4>1. \A q \in DOMAIN d.node \ {p} : q \in Downloading(e) <=> q \in Downloading(d)
          BY Zenon, <2>6 DEF Downloading
        <4>2. p \in Downloading(e) <=> ~(n.nValidHeaders = 1)
          BY Zenon, <2>1, <2>2, <2>6 DEF Downloading
        <4>3. Downloading(e) \subseteq DOMAIN d.node /\ Downloading(d) \subseteq DOMAIN d.node
          BY Zenon, <2>6 DEF Downloading
        <4> QED
          BY <3>1, <4>1, <4>2, <4>3
      <3>3. IsFiniteSet(Downloading(d)) /\ Cardinality(Downloading(d)) \in Nat
        BY Zenon, <1>d, DownloadingFinite
      <3>4. Cardinality(Downloading(d) \ {p}) = Cardinality(Downloading(d)) - 1
        BY Zenon, <3>1, <3>3, FS_RemoveElement
      <3> QED
        BY Zenon, <3>1, <3>2, <3>4, <2>4
    <2>13. ASSUME NEW c \in Block \ (X \ {b}), NEW q \in Peer, e.inFlight[c] = q PROVE Open(e, q, c)
      <3>1. c # b /\ d.inFlight[c] = q
        BY Zenon, <2>7, <2>13, <1>t
      <3>2. Open(d, q, c) /\ q \in DOMAIN d.node
        BY Zenon, <3>1, <2>13 DEF Good
      <3>3. HasPartial(d.node[q], c) <=> HasPartial(e.node[q], c)
        BY <3>1, <3>2, <2>2, <2>6 DEF HasPartial
      <3> QED
        BY Zenon, <3>2, <3>3, <2>4 DEF Open
    <2>14. Good(e, X \ {b})
      BY Zenon, <2>8, <2>9, <2>10, <2>11, <2>12, <2>13 DEF Good
    <2>15. SameRest(d, e)
      BY Zenon, <2>1, <2>3, <2>6 DEF SameRest
    <2> QED
      BY Zenon, <2>4, <2>14, <2>15 DEF e
  <1> QED
    BY Zenon, <1>1, <1>2

\* e is d with the blocks bs in flight from p.
PutInFlight(d, e, p, bs, partial) ==
  /\ e.mail = d.mail
  /\ e.inFlight = [b \in Block |-> IF b \in bs THEN p ELSE d.inFlight[b]]
  /\ \A b \in bs : HasPartial(e.node[p], b) <=> partial

\* MarkBlockAsInFlight, for blocks nobody has been asked for and within the limit.
LEMMA InFlightGood ==
  ASSUME NEW d, NEW X, Good(d, X), NEW p \in DOMAIN d.node, NEW bs \in SUBSET Block, IsFiniteSet(bs),
         NEW partial \in BOOLEAN, \A b \in bs : d.inFlight[b] = NULL,
         d.node[p].nBlocksInFlight + Cardinality(bs) <= MAX_BLOCKS_IN_TRANSIT_PER_PEER
  PROVE  LET e == InFlight(d, p, bs, partial)
         IN  Good(e, X \cup bs) /\ SameRest(d, e) /\ PutInFlight(d, e, p, bs, partial)
  <1> DEFINE e == InFlight(d, p, bs, partial)
             n == d.node[p]
             m == Asked(n, bs, partial)
  <1>d. d \in DownloadState
    BY Zenon DEF Good
  <1>t. /\ DOMAIN d.node \in SUBSET Peer /\ d.node \in [DOMAIN d.node -> NodeState]
        /\ d.inFlight \in [Block -> Peer \cup {NULL}] /\ d.validated \in Int
        /\ d.mail \in [Peer -> Mail] /\ NULL \notin Peer
    BY Zenon, <1>d, StateFields, DownloadAssumption
  <1>1. p \in Peer /\ NodeOK(n) /\ \A b \in bs : ~Listed(n, b)
    BY <1>t DEF Good
  <1>2. /\ NodeOK(m)
        /\ \A c : Listed(m, c) <=> Listed(n, c) \/ c \in bs
        /\ m.vBlocksInFlight = {} <=> n.nValidHeaders = 0 /\ bs = {}
        /\ m.vBlocksInFlight = n.vBlocksInFlight \cup Marks(bs, partial)
        /\ m.stalling = n.stalling
    <2> HIDE DEF n
    <2>1. n.nBlocksInFlight + Cardinality(bs) <= MAX_BLOCKS_IN_TRANSIT_PER_PEER
      BY Zenon DEF n
    <2> QED
      BY <1>1, <2>1, NodeAsked
  <1>3. /\ m.best = n.best /\ m.unknown = n.unknown /\ m.common = n.common /\ m.sync = n.sync
    BY Zenon, <1>1 DEF NodeOK, NodeState, Counted, Asked
  <1>4. m = [n EXCEPT !.vBlocksInFlight = n.vBlocksInFlight \cup {[hash |-> b, partial |-> partial] : b \in bs},
                      !.nBlocksInFlight = n.nBlocksInFlight + Cardinality(bs),
                      !.nValidHeaders = n.nValidHeaders + Cardinality(bs)]
    BY Zenon, <1>1 DEF NodeOK, NodeState, Counted, Asked, Marks
  <1>5. /\ e.node = [d.node EXCEPT ![p] = m]
        /\ e.inFlight = [b \in Block |-> IF b \in bs THEN p ELSE d.inFlight[b]]
        /\ e.validated = IF n.nValidHeaders = 0 /\ bs # {} THEN d.validated + 1 ELSE d.validated
        /\ e.mail = d.mail
        /\ e = [node |-> e.node, inFlight |-> e.inFlight, validated |-> e.validated, mail |-> e.mail]
    <2> HIDE DEF m
    <2>0. e.node = [d.node EXCEPT ![p] =
                     [n EXCEPT !.vBlocksInFlight = n.vBlocksInFlight \cup {[hash |-> b, partial |-> partial] : b \in bs},
                               !.nBlocksInFlight = n.nBlocksInFlight + Cardinality(bs),
                               !.nValidHeaders = n.nValidHeaders + Cardinality(bs)]]
      BY <1>d, Zenon DEF InFlight, DownloadState
    <2>1. e.node = [d.node EXCEPT ![p] = m]
      BY <1>4, <2>0, Zenon
    <2>2. e.inFlight = [b \in Block |-> IF b \in bs THEN p ELSE d.inFlight[b]]
      BY Zenon, <1>d DEF InFlight, DownloadState
    <2>3. e.validated = IF n.nValidHeaders = 0 /\ bs # {} THEN d.validated + 1 ELSE d.validated
      BY Zenon, <1>d DEF InFlight, DownloadState
    <2>4. e.mail = d.mail
      BY Zenon, <1>d DEF InFlight, DownloadState
    <2>5. e = [node |-> e.node, inFlight |-> e.inFlight, validated |-> e.validated, mail |-> e.mail]
      <3>1. d = [x \in {"node", "inFlight", "validated", "mail"} |-> d[x]]
        BY Zenon, <1>d DEF DownloadState
      <3>2. e = [x \in DOMAIN d |-> e[x]]
        BY <3>1, ZenonT(40) DEF InFlight
      <3>3. e = [x \in {"node", "inFlight", "validated", "mail"} |-> e[x]]
        BY <3>1, <3>2, Zenon
      <3> HIDE DEF e
      <3> QED
        BY Zenon, <3>3
    <2> QED
      BY Zenon, <2>1, <2>2, <2>3, <2>4, <2>5
  <1> HIDE DEF e, m
  <1>6. DOMAIN e.node = DOMAIN d.node /\ e.node[p] = m /\ \A q \in DOMAIN d.node \ {p} : e.node[q] = d.node[q]
    BY Zenon, <1>5, <1>t
  <1>7. \A c \in Block : e.inFlight[c] = IF c \in bs THEN p ELSE d.inFlight[c]
    BY Zenon, <1>5
  <1>8. e \in DownloadState
    <2>1. m \in NodeState
      BY Zenon, <1>2 DEF NodeOK
    <2>2. e.node \in NodeMap
      BY <2>1, <1>5, <1>t DEF NodeMap
    <2>3. e.inFlight \in [Block -> Peer \cup {NULL}] /\ e.validated \in Int /\ e.mail \in [Peer -> Mail]
      BY <1>1, <1>5, <1>t
    <2> QED
      BY Zenon, <2>2, <2>3, <1>5 DEF DownloadState
  <1>9. \A q \in DOMAIN e.node : NodeOK(e.node[q])
    BY Zenon, <1>2, <1>6 DEF Good
  <1>10. ASSUME NEW q \in DOMAIN e.node, e.node[q].stalling # NULL
         PROVE  e.inFlight[e.node[q].stalling] = q
    <2>1. q \in DOMAIN d.node /\ e.node[q].stalling = d.node[q].stalling
      BY Zenon, <1>2, <1>6, <1>10
    <2>2. d.inFlight[d.node[q].stalling] = q /\ d.node[q].stalling \in Block
      BY <2>1, <1>10, <1>t DEF Good, NodeState, BlockOrNull
    <2>3. d.node[q].stalling \notin bs
      BY Zenon, <2>1, <2>2, <1>t
    <2> QED
      BY Zenon, <2>1, <2>2, <2>3, <1>7
  <1>11. ASSUME NEW c \in Block, NEW q \in Peer
         PROVE  e.inFlight[c] = q <=> q \in DOMAIN e.node /\ Listed(e.node[q], c)
    <2>1. d.inFlight[c] = q <=> q \in DOMAIN d.node /\ Listed(d.node[q], c)
      BY Zenon DEF Good
    <2>2. CASE c \in bs
      BY Zenon, <2>1, <2>2, <1>2, <1>6, <1>7, <1>t
    <2>3. CASE c \notin bs
      BY Zenon, <2>1, <2>3, <1>2, <1>6, <1>7
    <2> QED
      BY Zenon, <2>2, <2>3
  <1>12. e.validated = Cardinality(Downloading(e))
    <2>1. IsFiniteSet(Downloading(d)) /\ Cardinality(Downloading(d)) \in Nat
          /\ d.validated = Cardinality(Downloading(d))
      BY Zenon, <1>d, DownloadingFinite DEF Good
    <2>2. p \in Downloading(d) <=> n.nValidHeaders # 0
      BY Zenon, <1>1, FS_EmptySet DEF NodeOK, Downloading
    <2>3. \A q \in DOMAIN d.node \ {p} : q \in Downloading(e) <=> q \in Downloading(d)
      BY Zenon, <1>6 DEF Downloading
    <2>4. p \in Downloading(e) <=> ~(n.nValidHeaders = 0 /\ bs = {})
      BY Zenon, <1>2, <1>6 DEF Downloading
    <2>5. Downloading(e) \subseteq DOMAIN d.node /\ Downloading(d) \subseteq DOMAIN d.node
      BY Zenon, <1>6 DEF Downloading
    <2>6. CASE n.nValidHeaders = 0 /\ bs # {}
      <3>1. Downloading(e) = Downloading(d) \cup {p} /\ p \notin Downloading(d)
        BY Zenon, <2>2, <2>3, <2>4, <2>5, <2>6
      <3>2. Cardinality(Downloading(d) \cup {p}) = Cardinality(Downloading(d)) + 1
        BY Zenon, <2>1, <3>1, FS_AddElement
      <3> QED
        BY Zenon, <3>1, <3>2, <2>1, <2>6, <1>5
    <2>7. CASE ~(n.nValidHeaders = 0 /\ bs # {})
      <3>1. Downloading(e) = Downloading(d)
        BY <2>2, <2>3, <2>4, <2>5, <2>7
      <3> QED
        BY Zenon, <3>1, <2>1, <2>7, <1>5
    <2> QED
      BY Zenon, <2>6, <2>7
  <1>13. ASSUME NEW c \in Block \ (X \cup bs), NEW q \in Peer, e.inFlight[c] = q PROVE Open(e, q, c)
    <2>1. d.inFlight[c] = q /\ c \notin bs /\ c \notin X
      BY Zenon, <1>7, <1>13
    <2>2. Open(d, q, c) /\ q \in DOMAIN d.node
      BY Zenon, <2>1 DEF Good
    <2>3. HasPartial(d.node[q], c) <=> HasPartial(e.node[q], c)
      <3>1. CASE q = p
        BY <3>1, <2>1, <1>2, <1>6 DEF HasPartial, Marks
      <3>2. CASE q # p
        BY Zenon, <3>2, <2>2, <1>6
      <3> QED
        BY Zenon, <3>1, <3>2
    <2> QED
      BY Zenon, <2>2, <2>3, <1>5 DEF Open
  <1>14. Good(e, X \cup bs)
    BY Zenon, <1>8, <1>9, <1>10, <1>11, <1>12, <1>13 DEF Good
  <1>15. SameRest(d, e)
    BY Zenon, <1>3, <1>6 DEF SameRest
  <1>16. ASSUME NEW b \in bs PROVE HasPartial(e.node[p], b) <=> partial
    <2>1. [hash |-> b, partial |-> partial] \in m.vBlocksInFlight
      BY Zenon, <1>2 DEF Marks
    <2>2. HasPartial(m, b) => [hash |-> b, partial |-> TRUE] = [hash |-> b, partial |-> partial]
      BY <2>1, <1>2 DEF HasPartial, NodeOK
    <2>3. HasPartial(m, b) <=> partial
      BY Zenon, <2>1, <2>2 DEF HasPartial
    <2> QED
      BY Zenon, <2>3, <1>6
  <1> QED
    BY Zenon, <1>5, <1>14, <1>15, <1>16 DEF e, PutInFlight

\* Nothing about blocks in flight changes.
SameMarks(d, e) ==
  /\ DOMAIN e.node = DOMAIN d.node /\ e.inFlight = d.inFlight /\ e.validated = d.validated
  /\ \A q \in DOMAIN d.node :
       /\ e.node[q].vBlocksInFlight = d.node[q].vBlocksInFlight
       /\ e.node[q].nBlocksInFlight = d.node[q].nBlocksInFlight
       /\ e.node[q].nValidHeaders = d.node[q].nValidHeaders
       /\ e.node[q].stalling = d.node[q].stalling

\* What the handlers keep true only depends on the lists and on what has been asked for.
LEMMA SameMarksGood ==
  ASSUME NEW d, NEW e, NEW X, NEW Y, Good(d, X), e \in DownloadState, SameMarks(d, e),
         \A b \in Block \ Y, q \in Peer : d.inFlight[b] = q => Open(e, q, b)
  PROVE  Good(e, Y)
  <1>1. \A q \in DOMAIN e.node : e.node[q] \in NodeState
    BY Zenon, StateFields
  <1>2. \A q \in DOMAIN e.node : NodeOK(e.node[q])
    BY <1>1 DEF Good, SameMarks, NodeOK
  <1>3. \A q \in DOMAIN e.node, b \in Block : Listed(e.node[q], b) <=> Listed(d.node[q], b)
    BY Zenon DEF SameMarks, Listed
  <1>4. Downloading(e) = Downloading(d)
    BY Zenon DEF SameMarks, Downloading
  <1>5. \A q \in DOMAIN e.node : e.node[q].stalling # NULL => e.inFlight[e.node[q].stalling] = q
    BY Zenon DEF Good, SameMarks
  <1>6. \A b \in Block, q \in Peer : e.inFlight[b] = q <=> q \in DOMAIN e.node /\ Listed(e.node[q], b)
    BY <1>3 DEF Good, SameMarks
  <1>7. e.validated = Cardinality(Downloading(e))
    BY Zenon, <1>4 DEF Good, SameMarks
  <1>8. \A b \in Block \ Y, q \in Peer : e.inFlight[b] = q => Open(e, q, b)
    BY Zenon DEF SameMarks
  <1> QED
    BY Zenon, <1>2, <1>5, <1>6, <1>7, <1>8 DEF Good

----------------------------------------------------------------------------
(* What the node knows of its peers, and the inductive invariant. *)

\* p has been on a chain with b, when the chains of the peers are c.
PeerHas(c, p, b) == \E i \in 1..c[p] : b \in Ancestors[Tips[p][i]]

\* Every block a peer is credited with is a block it has had; its best block is indexed and
\* its last common block stored with all blocks below it.
Credited(n, p, index, stored, c) ==
  /\ n.best # NULL => n.best \in index /\ PeerHas(c, p, n.best)
  /\ n.unknown # NULL => PeerHas(c, p, n.unknown)
  /\ n.common # NULL => Ancestors[n.common] \subseteq stored /\ PeerHas(c, p, n.common)

\* What p has been asked for is indexed, and compact blocks are only asked of peers that have
\* had them.
MailOK(l, p, index, c) ==
  l.blocks \cup l.cmpct \cup l.txns \subseteq index /\ \A b \in l.cmpct : PeerHas(c, p, b)

\* Blocks that are stored and may be in flight all the same.
Came(stored) == stored \cap Submitted

Landed(d, stored) == \A b \in Block : b \in stored => d.inFlight[b] = NULL \/ b \in Submitted

Sound(d, index, stored, c, X) ==
  /\ Good(d, X \cup Came(stored)) /\ Landed(d, stored)
  /\ \A p \in DOMAIN d.node : Credited(d.node[p], p, index, stored, c)
  /\ \A p \in Peer : MailOK(d.mail[p], p, index, c)

\* The index is closed under predecessors, and the active chain is stored.
Rooted(index, stored, t, best) ==
  /\ index \subseteq Block /\ \A b \in index : Ancestors[b] \subseteq index
  /\ stored \subseteq index /\ t \in stored /\ Ancestors[t] \subseteq stored
  /\ best \in index

OnChain(c) == c \in [Peer -> Nat] /\ \A p \in Peer : c[p] \in DOMAIN Tips[p]

Syncing(d) == {p \in DOMAIN d.node : d.node[p].sync}

DownloadInv ==
  /\ Rooted(known, have, tip, pindexBestHeader)
  /\ OnChain(chain)
  /\ Sound(Download, known, have, chain, {})
  /\ nPreferredDownload = Cardinality(Nodes \cap Preferred)
  /\ nSyncStarted = Cardinality(Syncing(Download))

\* A larger set of exceptions says less.
LEMMA SoundWeaker ==
  ASSUME NEW d, NEW index, NEW stored, NEW c, NEW X, NEW Y, Sound(d, index, stored, c, X),
         X \subseteq Y
  PROVE  Sound(d, index, stored, c, Y)
  <1>1. X \cup Came(stored) \subseteq Y \cup Came(stored)
    BY Zenon
  <1>2. Good(d, Y \cup Came(stored))
    BY Zenon, <1>1, GoodWeaker DEF Sound
  <1> QED
    BY Zenon, <1>2 DEF Sound

\* A block that is not in flight, or is stored, need not be an exception.
LEMMA SoundStronger ==
  ASSUME NEW d, NEW index, NEW stored, NEW c, NEW b \in Block, Sound(d, index, stored, c, {b}),
         \A q \in Peer : d.inFlight[b] = q => b \in stored \/ Open(d, q, b)
  PROVE  Sound(d, index, stored, c, {})
  <1>1. NULL \notin Peer /\ \A q \in Peer : d.inFlight[b] = q => b \in Came(stored) \/ Open(d, q, b)
    BY Zenon, DownloadAssumption DEF Sound, Landed, Came
  <1>2. \A x \in Block \ ({b} \cup Came(stored)), q \in Peer : d.inFlight[x] = q => Open(d, q, x)
    BY Zenon DEF Sound, Good
  <1>3. ASSUME NEW x \in Block \ ({} \cup Came(stored)), NEW q \in Peer, d.inFlight[x] = q
        PROVE  Open(d, q, x)
    <2>1. CASE x = b
      BY Zenon, <1>1, <1>3, <2>1
    <2>2. CASE x # b
      BY Zenon, <1>2, <1>3, <2>2
    <2> QED
      BY Zenon, <2>1, <2>2
  <1>4. Good(d, {} \cup Came(stored))
    BY Zenon, <1>3 DEF Sound, Good
  <1> QED
    BY Zenon, <1>4 DEF Sound

\* A change of one node that is not about blocks in flight.
LEMMA NodeChanged ==
  ASSUME NEW d, NEW index, NEW stored, NEW c, NEW X, Sound(d, index, stored, c, X),
         NEW p \in DOMAIN d.node, NEW m \in NodeState,
         m.vBlocksInFlight = d.node[p].vBlocksInFlight, m.nBlocksInFlight = d.node[p].nBlocksInFlight,
         m.nValidHeaders = d.node[p].nValidHeaders, m.stalling = d.node[p].stalling,
         Credited(m, p, index, stored, c)
  PROVE  LET e == [d EXCEPT !.node[p] = m]
         IN  /\ Sound(e, index, stored, c, X)
             /\ e.node = [d.node EXCEPT ![p] = m] /\ e.inFlight = d.inFlight /\ e.mail = d.mail
             /\ DOMAIN e.node = DOMAIN d.node /\ e.node[p] = m
  <1> DEFINE e == [d EXCEPT !.node[p] = m]
  <1>d. d \in DownloadState
    BY Zenon DEF Good, Sound
  <1>t. /\ DOMAIN d.node \in SUBSET Peer /\ d.node \in [DOMAIN d.node -> NodeState]
        /\ d.inFlight \in [Block -> Peer \cup {NULL}] /\ d.validated \in Int
        /\ d.mail \in [Peer -> Mail]
    BY Zenon, <1>d, StateFields
  <1>1. /\ e.node = [d.node EXCEPT ![p] = m] /\ e.inFlight = d.inFlight
        /\ e.validated = d.validated /\ e.mail = d.mail
    BY Zenon, <1>d DEF DownloadState
  <1>2. [d.node EXCEPT ![p] = m] \in NodeMap
    BY Zenon, <1>t DEF NodeMap
  <1>3. e \in DownloadState
    BY Zenon, <1>d, <1>2 DEF DownloadState
  <1> HIDE DEF e
  <1>4. DOMAIN e.node = DOMAIN d.node /\ e.node[p] = m /\ \A q \in DOMAIN d.node \ {p} : e.node[q] = d.node[q]
    BY Zenon, <1>1, <1>t
  <1>5. SameMarks(d, e)
    BY Zenon, <1>1, <1>4 DEF SameMarks
  <1> DEFINE Y == X \cup Came(stored)
  <1> HIDE DEF Y
  <1>g. Good(d, Y)
    BY Zenon DEF Sound, Y
  <1>6. ASSUME NEW b \in Block \ Y, NEW q \in Peer, d.inFlight[b] = q PROVE Open(e, q, b)
    <2>1. Open(d, q, b) /\ q \in DOMAIN d.node
      BY Zenon, <1>6, <1>g DEF Good
    <2>2. e.node[q].vBlocksInFlight = d.node[q].vBlocksInFlight
      BY Zenon, <2>1, <1>5 DEF SameMarks
    <2> QED
      BY Zenon, <2>1, <2>2, <1>1 DEF Open, HasPartial
  <1>7. Good(e, Y)
    BY Zenon, <1>g, <1>3, <1>5, <1>6, SameMarksGood
  <1>8. \A q \in DOMAIN e.node : Credited(e.node[q], q, index, stored, c)
    BY Zenon, <1>4 DEF Sound
  <1>9. Landed(e, stored) /\ \A q \in Peer : MailOK(e.mail[q], q, index, c)
    BY Zenon, <1>1 DEF Sound, Landed
  <1>10. Sound(e, index, stored, c, X)
    BY Zenon, <1>7, <1>8, <1>9 DEF Sound, Y
  <1> QED
    BY Zenon, <1>1, <1>4, <1>10 DEF e

\* With mail l for a node n, the request for b is open.
OpenIn(l, n, b) == b \in l.blocks \/ b \in IF HasPartial(n, b) THEN l.txns ELSE l.cmpct

\* With mail l for p, all blocks in flight have been asked for, except those in Y.
OpenWith(d, p, l, Y) ==
  /\ \A b \in Block \ Y : d.inFlight[b] = p => OpenIn(l, d.node[p], b)
  /\ \A b \in Block \ Y, q \in Peer \ {p} : d.inFlight[b] = q => Open(d, q, b)

\* A change of the mail of one peer, after which only blocks in Y are not asked for.
LEMMA MailChanged ==
  ASSUME NEW d, NEW index, NEW stored, NEW c, NEW X, NEW Y, Sound(d, index, stored, c, X),
         NEW p \in Peer, NEW l \in Mail, MailOK(l, p, index, c),
         OpenWith(d, p, l, Y \cup Came(stored))
  PROVE  LET e == [d EXCEPT !.mail[p] = l]
         IN  /\ Sound(e, index, stored, c, Y)
             /\ e.node = d.node /\ e.inFlight = d.inFlight /\ e.mail = [d.mail EXCEPT ![p] = l]
  <1> DEFINE e == [d EXCEPT !.mail[p] = l]
  <1>d. d \in DownloadState
    BY Zenon DEF Good, Sound
  <1>t. d.mail \in [Peer -> Mail]
    BY Zenon, <1>d, StateFields
  <1>1. /\ e.mail = [d.mail EXCEPT ![p] = l] /\ e.inFlight = d.inFlight
        /\ e.validated = d.validated /\ e.node = d.node
    BY Zenon, <1>d DEF DownloadState
  <1>2. [d.mail EXCEPT ![p] = l] \in [Peer -> Mail]
    BY Zenon, <1>t
  <1>3. e \in DownloadState
    BY Zenon, <1>d, <1>2 DEF DownloadState
  <1> HIDE DEF e
  <1>4. e.mail[p] = l /\ \A q \in Peer \ {p} : e.mail[q] = d.mail[q]
    BY Zenon, <1>1, <1>t
  <1>5. SameMarks(d, e)
    BY Zenon, <1>1 DEF SameMarks
  <1> DEFINE Z == Y \cup Came(stored)
  <1>w. OpenWith(d, p, l, Z) /\ Good(d, X \cup Came(stored))
    BY Zenon DEF Sound
  <1> HIDE DEF Z
  <1>6. ASSUME NEW b \in Block \ Z, NEW q \in Peer, d.inFlight[b] = q PROVE Open(e, q, b)
    <2>1. CASE q = p
      BY Zenon, <1>w, <1>1, <1>4, <1>6, <2>1 DEF Open, OpenIn, OpenWith
    <2>2. CASE q # p
      BY Zenon, <1>w, <1>1, <1>4, <1>6, <2>2 DEF Open, OpenWith
    <2> QED
      BY Zenon, <2>1, <2>2
  <1>7. Good(e, Z)
    BY Zenon, <1>w, <1>3, <1>5, <1>6, SameMarksGood
  <1>8. \A q \in DOMAIN e.node : Credited(e.node[q], q, index, stored, c)
    BY Zenon, <1>1 DEF Sound
  <1>9. Landed(e, stored) /\ \A q \in Peer : MailOK(e.mail[q], q, index, c)
    BY Zenon, <1>1, <1>4 DEF Sound, Landed
  <1>10. Sound(e, index, stored, c, Y)
    BY Zenon, <1>7, <1>8, <1>9 DEF Sound, Z
  <1> QED
    BY Zenon, <1>1, <1>10 DEF e

\* MarkBlockAsReceived takes the block out of flight, whoever sent it, and out of the exception X.
LEMMA ReceivedSound ==
  ASSUME NEW d, NEW index, NEW stored, NEW c, NEW X, Sound(d, index, stored, c, X), NEW b \in Block
  PROVE  LET e == Received(d, b)
         IN  /\ Sound(e, index, stored, c, X \ {b}) /\ DOMAIN e.node = DOMAIN d.node
             /\ Syncing(e) = Syncing(d) /\ e.mail = d.mail
             /\ e.inFlight = [d.inFlight EXCEPT ![b] = NULL]
  <1> DEFINE e == Received(d, b)
  <1>1. /\ Good(e, (X \cup Came(stored)) \ {b}) /\ SameRest(d, e) /\ e.mail = d.mail
        /\ e.inFlight = [d.inFlight EXCEPT ![b] = NULL]
    BY Zenon, ReceivedGood DEF Sound
  <1> HIDE DEF e
  <1>g. Good(e, (X \ {b}) \cup Came(stored))
    <2>1. (X \cup Came(stored)) \ {b} \subseteq (X \ {b}) \cup Came(stored)
      BY Zenon
    <2> QED
      BY Zenon, <1>1, <2>1, GoodWeaker
  <1>l. Landed(e, stored)
    <2>1. d.inFlight \in [Block -> Peer \cup {NULL}]
      BY Zenon, StateFields DEF Sound, Good
    <2> QED
      BY Zenon, <1>1, <2>1 DEF Sound, Landed
  <1>2. Syncing(e) = Syncing(d) /\ DOMAIN e.node = DOMAIN d.node
    BY Zenon, <1>1 DEF Syncing, SameRest
  <1>3. \A q \in DOMAIN e.node : Credited(e.node[q], q, index, stored, c)
    BY Zenon, <1>1 DEF Sound, SameRest, Credited
  <1>4. Sound(e, index, stored, c, X \ {b})
    BY Zenon, <1>1, <1>g, <1>l, <1>3 DEF Sound
  <1> QED
    BY Zenon, <1>1, <1>2, <1>4 DEF e

\* MarkBlockAsInFlight; the blocks are then in flight without having been asked for.
LEMMA InFlightSound ==
  ASSUME NEW d, NEW index, NEW stored, NEW c, NEW X, Sound(d, index, stored, c, X),
         NEW p \in DOMAIN d.node, NEW bs \in SUBSET Block, IsFiniteSet(bs),
         NEW partial \in BOOLEAN, \A b \in bs : d.inFlight[b] = NULL /\ b \notin stored,
         d.node[p].nBlocksInFlight + Cardinality(bs) <= MAX_BLOCKS_IN_TRANSIT_PER_PEER
  PROVE  LET e == InFlight(d, p, bs, partial)
         IN  /\ Sound(e, index, stored, c, X \cup bs) /\ DOMAIN e.node = DOMAIN d.node
             /\ Syncing(e) = Syncing(d) /\ PutInFlight(d, e, p, bs, partial)
  <1> DEFINE e == InFlight(d, p, bs, partial)
  <1>1. /\ Good(e, (X \cup Came(stored)) \cup bs) /\ SameRest(d, e)
        /\ PutInFlight(d, e, p, bs, partial)
    <2> DEFINE Y == X \cup Came(stored)
    <2>1. Good(d, Y) /\ \A b \in bs : d.inFlight[b] = NULL
      BY Zenon DEF Sound
    <2> HIDE DEF Y
    <2>2. Good(e, Y \cup bs) /\ SameRest(d, e) /\ PutInFlight(d, e, p, bs, partial)
      BY Zenon, <2>1, InFlightGood
    <2> QED
      BY Zenon, <2>2 DEF Y
  <1> HIDE DEF e
  <1>g. Good(e, (X \cup bs) \cup Came(stored))
    <2>1. (X \cup Came(stored)) \cup bs \subseteq (X \cup bs) \cup Came(stored)
      BY Zenon
    <2> QED
      BY Zenon, <1>1, <2>1, GoodWeaker
  <1>l. Landed(e, stored)
    BY Zenon, <1>1 DEF Sound, Landed, PutInFlight
  <1>2. Syncing(e) = Syncing(d) /\ DOMAIN e.node = DOMAIN d.node
    BY Zenon, <1>1 DEF Syncing, SameRest
  <1>3. \A q \in DOMAIN e.node : Credited(e.node[q], q, index, stored, c)
    BY Zenon, <1>1 DEF Sound, SameRest, Credited
  <1>4. Sound(e, index, stored, c, X \cup bs)
    BY Zenon, <1>1, <1>g, <1>l, <1>3 DEF Sound, PutInFlight
  <1> QED
    BY Zenon, <1>1, <1>2, <1>4 DEF e

\* The same peers, the same of them asked for headers.
SamePeers(d, e) == DOMAIN e.node = DOMAIN d.node /\ Syncing(e) = Syncing(d)

\* Asking for blocks settles those that are in flight without a request.
LEMMA GetDataSound ==
  ASSUME NEW d, NEW index, NEW stored, NEW c, NEW X, Sound(d, index, stored, c, X),
         NEW p \in Peer, index \subseteq Block, NEW bs \in SUBSET index,
         \A b \in X : b \in bs /\ d.inFlight[b] = p
  PROVE  LET e == GetData(d, p, bs)
         IN  Sound(e, index, stored, c, {}) /\ SamePeers(d, e) /\ e.inFlight = d.inFlight
  <1> DEFINE l == [d.mail[p] EXCEPT !.blocks = d.mail[p].blocks \cup bs]
             e == [d EXCEPT !.mail[p] = l]
  <1>d. d \in DownloadState /\ d.mail \in [Peer -> Mail]
    BY Zenon, StateFields DEF Good, Sound
  <1>1. /\ l \in Mail /\ l.blocks = d.mail[p].blocks \cup bs
        /\ l.txns = d.mail[p].txns /\ l.cmpct = d.mail[p].cmpct
    BY Zenon, <1>d DEF Mail
  <1>2. GetData(d, p, bs) = e
    BY Zenon DEF GetData
  <1> HIDE DEF l
  <1>3. MailOK(l, p, index, c)
    BY Zenon, <1>1 DEF Sound, MailOK
  <1>4. \A b \in Block \ (X \cup Came(stored)), q \in Peer : d.inFlight[b] = q => Open(d, q, b)
    BY Zenon DEF Sound, Good
  <1>5. OpenWith(d, p, l, {} \cup Came(stored))
    <2>1. ASSUME NEW b \in Block \ Came(stored), d.inFlight[b] = p PROVE OpenIn(l, d.node[p], b)
      <3>1. CASE b \in X
        BY Zenon, <3>1, <1>1 DEF OpenIn
      <3>2. CASE b \notin X
        BY Zenon, <3>2, <2>1, <1>1, <1>4 DEF Open, OpenIn
      <3> QED
        BY Zenon, <3>1, <3>2
    <2>2. ASSUME NEW b \in Block \ Came(stored), NEW q \in Peer \ {p}, d.inFlight[b] = q
          PROVE  Open(d, q, b)
      BY Zenon, <2>2, <1>4
    <2> QED
      BY Zenon, <2>1, <2>2 DEF OpenWith
  <1>7. Sound(e, index, stored, c, {}) /\ e.node = d.node /\ e.inFlight = d.inFlight
    BY <1>1, <1>3, <1>5, MailChanged
  <1> HIDE DEF e
  <1> QED
    BY Zenon, <1>2, <1>7 DEF SamePeers, Syncing

GivenTo(p, bs, inFlight) == [b \in Block |-> IF b \in bs THEN p ELSE inFlight[b]]

\* Asking for blocks as the handlers do: they are put in flight, then asked for.
LEMMA FetchSound ==
  ASSUME NEW d, NEW index, NEW stored, NEW c, Sound(d, index, stored, c, {}),
         NEW p \in DOMAIN d.node, index \subseteq Block, NEW bs \in SUBSET index, IsFiniteSet(bs),
         \A b \in bs : d.inFlight[b] = NULL /\ b \notin stored,
         d.node[p].nBlocksInFlight + Cardinality(bs) <= MAX_BLOCKS_IN_TRANSIT_PER_PEER
  PROVE  LET e == Fetch(d, p, bs)
         IN  /\ Sound(e, index, stored, c, {}) /\ SamePeers(d, e)
             /\ e.inFlight = GivenTo(p, bs, d.inFlight)
  <1> DEFINE f == InFlight(d, p, bs, FALSE)
             e == GetData(f, p, bs)
  <1>1. bs \in SUBSET Block /\ FALSE \in BOOLEAN
    BY Zenon
  <1>2. /\ Sound(f, index, stored, c, bs) /\ DOMAIN f.node = DOMAIN d.node
        /\ Syncing(f) = Syncing(d) /\ PutInFlight(d, f, p, bs, FALSE)
    <2>1. /\ Sound(f, index, stored, c, {} \cup bs) /\ DOMAIN f.node = DOMAIN d.node
          /\ Syncing(f) = Syncing(d) /\ PutInFlight(d, f, p, bs, FALSE)
      BY Zenon, <1>1, InFlightSound
    <2>2. {} \cup bs = bs
      BY Zenon
    <2> QED
      BY Zenon, <2>1, <2>2
  <1>3. e = Fetch(d, p, bs)
    BY Zenon DEF Fetch
  <1> HIDE DEF f
  <1>4. f.inFlight = [b \in Block |-> IF b \in bs THEN p ELSE d.inFlight[b]]
    BY Zenon, <1>2 DEF PutInFlight
  <1>5. \A b \in bs : b \in bs /\ f.inFlight[b] = p
    BY Zenon, <1>1, <1>4
  <1>6. p \in Peer
    BY Zenon, StateFields DEF Sound, Good
  <1>7. Sound(e, index, stored, c, {}) /\ SamePeers(f, e) /\ e.inFlight = f.inFlight
    BY <1>2, <1>5, <1>6, GetDataSound
  <1> HIDE DEF e
  <1> QED
    BY Zenon, <1>2, <1>3, <1>4, <1>7 DEF SamePeers, GivenTo

\* Asking for compact blocks: as for blocks, but of a peer that has had them.
LEMMA FetchCompactSound ==
  ASSUME NEW d, NEW index, NEW stored, NEW c, Sound(d, index, stored, c, {}),
         NEW p \in DOMAIN d.node, index \subseteq Block, NEW bs \in SUBSET index, IsFiniteSet(bs),
         \A b \in bs : d.inFlight[b] = NULL /\ b \notin stored, \A b \in bs : PeerHas(c, p, b),
         d.node[p].nBlocksInFlight + Cardinality(bs) <= MAX_BLOCKS_IN_TRANSIT_PER_PEER
  PROVE  LET e == FetchCompact(d, p, bs)
         IN  Sound(e, index, stored, c, {}) /\ SamePeers(d, e)
  <1> DEFINE f == InFlight(d, p, bs, FALSE)
             m == f.mail[p]
             l == [m EXCEPT !.cmpct = m.cmpct \cup bs]
             e == [f EXCEPT !.mail[p] = l]
  <1>1. bs \in SUBSET Block /\ FALSE \in BOOLEAN
    BY Zenon
  <1>2. /\ Sound(f, index, stored, c, bs) /\ DOMAIN f.node = DOMAIN d.node
        /\ Syncing(f) = Syncing(d) /\ PutInFlight(d, f, p, bs, FALSE)
    <2>1. /\ Sound(f, index, stored, c, {} \cup bs) /\ DOMAIN f.node = DOMAIN d.node
          /\ Syncing(f) = Syncing(d) /\ PutInFlight(d, f, p, bs, FALSE)
      BY Zenon, <1>1, InFlightSound
    <2>2. {} \cup bs = bs
      BY Zenon
    <2> QED
      BY Zenon, <2>1, <2>2
  <1>3. e = FetchCompact(d, p, bs)
    BY Zenon DEF FetchCompact
  <1> HIDE DEF f
  <1>4. p \in Peer /\ m \in Mail
    <2>1. f \in DownloadState
      BY Zenon, <1>2 DEF Sound, Good
    <2>2. DOMAIN f.node \in SUBSET Peer /\ f.mail \in [Peer -> Mail]
      BY Zenon, <2>1, StateFields
    <2> QED
      BY Zenon, <1>2, <2>2
  <1>5. l \in Mail /\ l.cmpct = m.cmpct \cup bs /\ l.blocks = m.blocks /\ l.txns = m.txns
    <2> HIDE DEF m
    <2> QED
      BY Zenon, <1>1, <1>4 DEF Mail
  <1> HIDE DEF l
  <1>6. MailOK(l, p, index, c)
    BY Zenon, <1>2, <1>4, <1>5 DEF Sound, MailOK
  <1>7. \A b \in Block \ (bs \cup Came(stored)), q \in Peer : f.inFlight[b] = q => Open(f, q, b)
    BY Zenon, <1>2 DEF Sound, Good
  <1>8. \A b \in bs : f.inFlight[b] = p /\ ~HasPartial(f.node[p], b)
    BY Zenon, <1>1, <1>2 DEF PutInFlight
  <1>9. OpenWith(f, p, l, {} \cup Came(stored))
    <2>1. ASSUME NEW b \in Block \ Came(stored), f.inFlight[b] = p PROVE OpenIn(l, f.node[p], b)
      <3>1. CASE b \in bs
        BY Zenon, <3>1, <1>5, <1>8 DEF OpenIn
      <3>2. CASE b \notin bs
        BY Zenon, <3>2, <2>1, <1>4, <1>5, <1>7 DEF Open, OpenIn
      <3> QED
        BY Zenon, <3>1, <3>2
    <2>2. ASSUME NEW b \in Block \ Came(stored), NEW q \in Peer \ {p}, f.inFlight[b] = q
          PROVE  Open(f, q, b)
      BY Zenon, <2>2, <1>7, <1>8
    <2> QED
      BY Zenon, <2>1, <2>2 DEF OpenWith
  <1>10. Sound(e, index, stored, c, {}) /\ e.node = f.node
    BY <1>2, <1>4, <1>5, <1>6, <1>9, MailChanged
  <1> HIDE DEF e
  <1> QED
    BY Zenon, <1>2, <1>3, <1>10 DEF SamePeers, Syncing

\* A request for headers leaves the requests for blocks as they are.
LEMMA HeadersField ==
  ASSUME NEW l \in Mail, NEW h \in Seq(Block)
  PROVE  LET k == [l EXCEPT !.headers = h]
         IN  k \in Mail /\ k.blocks = l.blocks /\ k.txns = l.txns /\ k.cmpct = l.cmpct
  BY Zenon DEF Mail

\* Mail in which the requests for blocks are the same.
LEMMA MailSound ==
  ASSUME NEW d, NEW index, NEW stored, NEW c, NEW X, Sound(d, index, stored, c, X), NEW p \in Peer,
         NEW l \in Mail, l.blocks = d.mail[p].blocks, l.txns = d.mail[p].txns,
         l.cmpct = d.mail[p].cmpct
  PROVE  LET e == [d EXCEPT !.mail[p] = l]
         IN  /\ Sound(e, index, stored, c, X) /\ SamePeers(d, e)
             /\ e.node = d.node /\ e.inFlight = d.inFlight
  <1> DEFINE e == [d EXCEPT !.mail[p] = l]
             Y == X \cup Came(stored)
  <1>1. MailOK(l, p, index, c)
    BY Zenon DEF Sound, MailOK
  <1> HIDE DEF Y
  <1>2. \A b \in Block \ Y, q \in Peer : d.inFlight[b] = q => Open(d, q, b)
    BY Zenon DEF Sound, Good, Y
  <1>3. OpenWith(d, p, l, Y)
    BY Zenon, <1>2 DEF Open, OpenIn, OpenWith
  <1>4. Sound(e, index, stored, c, X) /\ e.node = d.node /\ e.inFlight = d.inFlight
    BY <1>1, <1>3, MailChanged DEF Y
  <1> HIDE DEF e
  <1> QED
    BY Zenon, <1>4 DEF SamePeers, Syncing, e

\* RequestHeadersFrom leaves the blocks in flight alone.
LEMMA RequestHeadersSound ==
  ASSUME NEW d, NEW index, NEW stored, NEW c, Sound(d, index, stored, c, {}),
         NEW p \in DOMAIN d.node, NEW from \in Block, NEW force
  PROVE  LET e == RequestHeadersFrom(d, p, from, force)
         IN  Sound(e, index, stored, c, {}) /\ SamePeers(d, e) /\ e.inFlight = d.inFlight
  <1> DEFINE l == [d.mail[p] EXCEPT !.headers = Append(d.mail[p].headers, from)]
             f == [d EXCEPT !.mail[p] = l]
             m == [f.node[p] EXCEPT !.pending = f.node[p].pending + 1]
             e == [f EXCEPT !.node[p] = m]
  <1>d. d \in DownloadState /\ d.mail \in [Peer -> Mail] /\ p \in Peer
    BY Zenon, StateFields DEF Good, Sound
  <1>1. /\ l \in Mail /\ l.blocks = d.mail[p].blocks
        /\ l.txns = d.mail[p].txns /\ l.cmpct = d.mail[p].cmpct
    <2>1. d.mail[p] \in Mail /\ Append(d.mail[p].headers, from) \in Seq(Block)
      BY <1>d DEF Mail
    <2> QED
      BY Zenon, <2>1, HeadersField
  <1>2. RequestHeadersFrom(d, p, from, force) = e \/ RequestHeadersFrom(d, p, from, force) = d
    BY Zenon DEF RequestHeadersFrom
  <1> HIDE DEF l
  <1>7. Sound(f, index, stored, c, {}) /\ f.node = d.node /\ f.inFlight = d.inFlight
    BY <1>1, <1>d, MailSound
  <1> HIDE DEF f
  <1>8. p \in DOMAIN f.node /\ f.node[p] \in NodeState /\ Credited(f.node[p], p, index, stored, c)
    BY Zenon, <1>7 DEF Sound, Good, NodeOK
  <1>9. /\ m \in NodeState /\ m.vBlocksInFlight = f.node[p].vBlocksInFlight
        /\ m.nBlocksInFlight = f.node[p].nBlocksInFlight
        /\ m.nValidHeaders = f.node[p].nValidHeaders /\ m.stalling = f.node[p].stalling
        /\ m.best = f.node[p].best /\ m.unknown = f.node[p].unknown /\ m.common = f.node[p].common
        /\ m.sync = f.node[p].sync
    BY <1>8 DEF NodeState
  <1> HIDE DEF m
  <1>10. Credited(m, p, index, stored, c)
    BY Zenon, <1>8, <1>9 DEF Credited
  <1>11. /\ Sound(e, index, stored, c, {}) /\ e.node = [f.node EXCEPT ![p] = m]
         /\ e.inFlight = f.inFlight /\ DOMAIN e.node = DOMAIN f.node
    BY <1>7, <1>8, <1>9, <1>10, NodeChanged
  <1> HIDE DEF e
  <1>12. Syncing(e) = Syncing(d)
    BY <1>7, <1>9, <1>11 DEF Syncing
  <1>13. SamePeers(d, d) /\ SamePeers(d, e)
    BY Zenon, <1>7, <1>11, <1>12 DEF SamePeers
  <1> QED
    BY Zenon, <1>2, <1>7, <1>11, <1>13

\* Learning more, storing more and peers moving on take nothing away from a peer's credit.
LEMMA SoundGrows ==
  ASSUME NEW d, NEW index, NEW stored, NEW c, NEW X, Sound(d, index, stored, c, X),
         NEW more, index \subseteq more, NEW full, stored \subseteq full,
         \A b \in Block : b \in full => b \in stored \/ d.inFlight[b] = NULL \/ b \in Submitted,
         NEW k, c \in [Peer -> Nat], k \in [Peer -> Nat], \A p \in Peer : c[p] <= k[p]
  PROVE  Sound(d, more, full, k, X)
  <1>1. \A p \in DOMAIN d.node : p \in Peer
    BY Zenon, StateFields DEF Sound, Good
  <1>2. ASSUME NEW p \in Peer, NEW b, PeerHas(c, p, b) PROVE PeerHas(k, p, b)
    <2>1. PICK i \in 1..c[p] : b \in Ancestors[Tips[p][i]]
      BY Zenon, <1>2 DEF PeerHas
    <2>2. i \in 1..k[p]
      OBVIOUS
    <2> QED
      BY Zenon, <2>1, <2>2 DEF PeerHas
  <1>3. ASSUME NEW p \in DOMAIN d.node PROVE Credited(d.node[p], p, more, full, k)
    <2>1. Credited(d.node[p], p, index, stored, c)
      BY Zenon DEF Sound
    <2> QED
      BY Zenon, <2>1, <1>1, <1>2 DEF Credited
  <1>4. \A p \in Peer : MailOK(d.mail[p], p, more, k)
    BY Zenon, <1>2 DEF Sound, MailOK
  <1>5. Landed(d, full)
    BY Zenon DEF Sound, Landed
  <1>6. Good(d, X \cup Came(full))
    <2>1. X \cup Came(stored) \subseteq X \cup Came(full)
      BY Zenon DEF Came
    <2> QED
      BY Zenon, <2>1, GoodWeaker DEF Sound
  <1> QED
    BY Zenon, <1>3, <1>4, <1>5, <1>6 DEF Sound

\* The same with nothing new stored.
LEMMA SoundLearns ==
  ASSUME NEW d, NEW index, NEW stored, NEW c, NEW X, Sound(d, index, stored, c, X),
         NEW more, index \subseteq more, c \in [Peer -> Nat]
  PROVE  Sound(d, more, stored, c, X)
  <1>1. stored \subseteq stored /\ \A p \in Peer : c[p] <= c[p]
    OBVIOUS
  <1> QED
    BY Zenon, <1>1, SoundGrows

\* ProcessBlockAvailability and UpdateBlockAvailability credit the peer with what it has.
LEMMA ProcessAvailabilitySound ==
  ASSUME NEW d, NEW index, NEW stored, NEW c, NEW X, Sound(d, index, stored, c, X),
         NEW p \in DOMAIN d.node
  PROVE  LET e == ProcessBlockAvailability(d, p, index)
         IN  /\ Sound(e, index, stored, c, X) /\ SamePeers(d, e) /\ e.inFlight = d.inFlight
             /\ e.node[p].vBlocksInFlight = d.node[p].vBlocksInFlight
  <1> DEFINE n == d.node[p]
             best == IF Better(n.unknown, n.best) THEN n.unknown ELSE n.best
             m == [n EXCEPT !.best = best, !.unknown = NULL]
             e == [d EXCEPT !.node[p] = m]
  <1>1. SamePeers(d, d)
    BY Zenon DEF SamePeers
  <1>2. CASE n.unknown = NULL \/ n.unknown \notin index
    BY Zenon, <1>1, <1>2 DEF ProcessBlockAvailability
  <1>3. CASE ~(n.unknown = NULL \/ n.unknown \notin index)
    <2>1. ProcessBlockAvailability(d, p, index) = e
      BY <1>3, Zenon DEF ProcessBlockAvailability
    <2>2. n \in NodeState /\ Credited(n, p, index, stored, c)
      BY Zenon DEF Sound, Good, NodeOK
    <2> HIDE DEF n
    <2>3. best \in BlockOrNull /\ (best # NULL => best \in index /\ PeerHas(c, p, best))
      BY Zenon, <2>2, <1>3 DEF NodeState, Credited
    <2> HIDE DEF best
    <2>4. /\ m \in NodeState /\ m.vBlocksInFlight = n.vBlocksInFlight
          /\ m.nBlocksInFlight = n.nBlocksInFlight
          /\ m.nValidHeaders = n.nValidHeaders /\ m.stalling = n.stalling
          /\ m.best = best /\ m.unknown = NULL /\ m.common = n.common /\ m.sync = n.sync
      BY Zenon, <2>2, <2>3 DEF NodeState, BlockOrNull
    <2> HIDE DEF m
    <2>5. Credited(m, p, index, stored, c)
      BY Zenon, <2>2, <2>3, <2>4 DEF Credited
    <2>6. /\ Sound(e, index, stored, c, X) /\ e.node = [d.node EXCEPT ![p] = m]
          /\ e.inFlight = d.inFlight /\ DOMAIN e.node = DOMAIN d.node
      BY <2>4, <2>5, NodeChanged DEF n
    <2> HIDE DEF e
    <2>7. SamePeers(d, e)
      BY Zenon, <2>4, <2>6 DEF SamePeers, Syncing, n
    <2>8. e.node[p].vBlocksInFlight = d.node[p].vBlocksInFlight
      BY Zenon, <2>4, <2>6 DEF n
    <2> QED
      BY Zenon, <2>1, <2>6, <2>7, <2>8
  <1> QED
    BY Zenon, <1>2, <1>3

\* UpdateBlockAvailability credits a peer with a block that the peer has.
LEMMA UpdateAvailabilitySound ==
  ASSUME NEW d, NEW index, NEW stored, NEW c, NEW X, Sound(d, index, stored, c, X),
         NEW p \in DOMAIN d.node, NEW b \in Block, PeerHas(c, p, b)
  PROVE  LET e == UpdateBlockAvailability(d, p, b, index)
         IN  /\ Sound(e, index, stored, c, X) /\ SamePeers(d, e) /\ e.inFlight = d.inFlight
             /\ e.node[p].vBlocksInFlight = d.node[p].vBlocksInFlight
  <1> DEFINE f == ProcessBlockAvailability(d, p, index)
             n == f.node[p]
             best == IF Better(b, n.best) THEN b ELSE n.best
             m == IF b \in index THEN [n EXCEPT !.best = best] ELSE [n EXCEPT !.unknown = b]
             e == [f EXCEPT !.node[p] = m]
  <1>1. /\ Sound(f, index, stored, c, X) /\ SamePeers(d, f) /\ f.inFlight = d.inFlight
        /\ f.node[p].vBlocksInFlight = d.node[p].vBlocksInFlight
    BY Zenon, ProcessAvailabilitySound
  <1>2. UpdateBlockAvailability(d, p, b, index) = e
    BY Zenon DEF UpdateBlockAvailability
  <1> HIDE DEF f
  <1>3. p \in DOMAIN f.node /\ n \in NodeState /\ Credited(n, p, index, stored, c)
    BY Zenon, <1>1 DEF Sound, Good, NodeOK, SamePeers
  <1> HIDE DEF n
  <1>4. best \in BlockOrNull /\ (b \in index /\ best # NULL => best \in index /\ PeerHas(c, p, best))
    BY Zenon, <1>3 DEF NodeState, Credited, BlockOrNull
  <1> HIDE DEF best
  <1>5. /\ m \in NodeState /\ m.vBlocksInFlight = n.vBlocksInFlight
        /\ m.nBlocksInFlight = n.nBlocksInFlight
        /\ m.nValidHeaders = n.nValidHeaders /\ m.stalling = n.stalling
        /\ m.best = IF b \in index THEN best ELSE n.best
        /\ m.unknown = IF b \in index THEN n.unknown ELSE b
        /\ m.common = n.common /\ m.sync = n.sync
    <2>1. CASE b \in index
      BY Zenon, <1>3, <1>4, <2>1 DEF NodeState, BlockOrNull
    <2>2. CASE b \notin index
      BY Zenon, <1>3, <2>2 DEF NodeState, BlockOrNull
    <2> QED
      BY Zenon, <2>1, <2>2
  <1> HIDE DEF m
  <1>6. Credited(m, p, index, stored, c)
    BY Zenon, <1>3, <1>4, <1>5 DEF Credited
  <1>7. /\ Sound(e, index, stored, c, X) /\ e.node = [f.node EXCEPT ![p] = m]
        /\ e.inFlight = f.inFlight /\ DOMAIN e.node = DOMAIN f.node
    BY <1>1, <1>3, <1>5, <1>6, NodeChanged DEF n
  <1> HIDE DEF e
  <1>8. SamePeers(d, e)
    BY <1>1, <1>5, <1>7 DEF SamePeers, Syncing, n
  <1>9. e.node[p].vBlocksInFlight = d.node[p].vBlocksInFlight
    BY Zenon, <1>1, <1>3, <1>5, <1>7 DEF n
  <1> QED
    BY Zenon, <1>1, <1>2, <1>7, <1>8, <1>9

\* The n lowest blocks are at most n.
LEMMA FirstOfBound ==
  ASSUME NEW t \in Block, NEW bs \in SUBSET Ancestors[t], NEW n \in Nat
  PROVE  /\ FirstOf(bs, n) \subseteq bs /\ IsFiniteSet(FirstOf(bs, n))
         /\ Cardinality(FirstOf(bs, n)) \in Nat /\ Cardinality(FirstOf(bs, n)) <= n
  <1> DEFINE first == FirstOf(bs, n)
  <1>1. first \subseteq bs
    BY Zenon DEF FirstOf
  <1>2. IsFiniteSet(first) /\ Cardinality(first) \in Nat
    BY Zenon, <1>1, ChainsFinite, FS_Subset, FS_CardinalityType
  <1>3. CASE first = {}
    BY <1>1, <1>2, <1>3, FS_EmptySet
  <1>4. CASE first # {}
    <2> HIDE DEF first
    <2>1. first \in SUBSET Ancestors[t]
      BY Zenon, <1>1
    <2>2. PICK x \in first : \A c \in first : nHeight[c] <= nHeight[x]
      BY <2>1, <1>4, HighestExists
    <2>3. first \subseteq UpTo(bs, x)
      BY Zenon, <1>1, <2>2 DEF UpTo
    <2>4. Cardinality(UpTo(bs, x)) <= n
      BY Zenon, <2>2 DEF FirstOf, first
    <2>5. IsFiniteSet(UpTo(bs, x))
      <3>1. UpTo(bs, x) \in SUBSET Ancestors[t]
        BY Zenon DEF UpTo
      <3> QED
        BY Zenon, <3>1, ChainsFinite, FS_Subset
    <2>6. Cardinality(first) <= Cardinality(UpTo(bs, x)) /\ Cardinality(UpTo(bs, x)) \in Nat
      BY Zenon, <2>3, <2>5, FS_Subset, FS_CardinalityType
    <2> QED
      BY <1>1, <1>2, <2>4, <2>6 DEF first
  <1> QED
    BY Zenon, <1>3, <1>4

\* A change of one node that keeps the same blocks in its list.
LEMMA NodeReplaced ==
  ASSUME NEW d, NEW index, NEW stored, NEW c, NEW X, Sound(d, index, stored, c, X),
         NEW p \in DOMAIN d.node, NEW m, NodeOK(m),
         \A b : Listed(m, b) <=> Listed(d.node[p], b),
         m.stalling # NULL => d.inFlight[m.stalling] = p,
         \A b \in Block \ (X \cup Came(stored)) : d.inFlight[b] = p => OpenIn(d.mail[p], m, b),
         m.best = d.node[p].best, m.unknown = d.node[p].unknown, m.common = d.node[p].common,
         m.sync = d.node[p].sync
  PROVE  LET e == [d EXCEPT !.node[p] = m]
         IN  /\ Sound(e, index, stored, c, X) /\ SamePeers(d, e)
             /\ e.node[p] = m /\ e.inFlight = d.inFlight /\ e.mail = d.mail
  <1> DEFINE e == [d EXCEPT !.node[p] = m]
  <1>d. d \in DownloadState
    BY Zenon DEF Good, Sound
  <1>t. /\ DOMAIN d.node \in SUBSET Peer /\ d.node \in [DOMAIN d.node -> NodeState]
        /\ d.inFlight \in [Block -> Peer \cup {NULL}] /\ d.validated \in Int
        /\ d.mail \in [Peer -> Mail]
    BY Zenon, <1>d, StateFields
  <1>1. /\ e.node = [d.node EXCEPT ![p] = m] /\ e.inFlight = d.inFlight
        /\ e.validated = d.validated /\ e.mail = d.mail
    BY Zenon, <1>d DEF DownloadState
  <1>2. [d.node EXCEPT ![p] = m] \in NodeMap
    BY Zenon, <1>t DEF NodeMap, NodeOK
  <1>3. e \in DownloadState
    BY Zenon, <1>d, <1>2 DEF DownloadState
  <1> HIDE DEF e
  <1>4. DOMAIN e.node = DOMAIN d.node /\ e.node[p] = m /\ \A q \in DOMAIN d.node \ {p} : e.node[q] = d.node[q]
    BY Zenon, <1>1, <1>t
  <1>5. \A q \in DOMAIN e.node : NodeOK(e.node[q])
    BY Zenon, <1>4 DEF Sound, Good
  <1>6. \A q \in DOMAIN e.node : e.node[q].stalling # NULL => e.inFlight[e.node[q].stalling] = q
    BY Zenon, <1>1, <1>4 DEF Sound, Good
  <1>7. \A b \in Block, q \in Peer : e.inFlight[b] = q <=> q \in DOMAIN e.node /\ Listed(e.node[q], b)
    BY <1>1, <1>4 DEF Sound, Good
  <1>8. Downloading(e) = Downloading(d)
    <2>1. m.vBlocksInFlight = {} <=> d.node[p].vBlocksInFlight = {}
      BY Zenon DEF Listed
    <2> QED
      BY Zenon, <1>4, <2>1 DEF Downloading
  <1> DEFINE Y == X \cup Came(stored)
  <1>y. Good(d, Y) /\ \A b \in Block \ Y : d.inFlight[b] = p => OpenIn(d.mail[p], m, b)
    BY Zenon DEF Sound
  <1> HIDE DEF Y
  <1>9. ASSUME NEW b \in Block \ Y, NEW q \in Peer, e.inFlight[b] = q PROVE Open(e, q, b)
    <2>1. Open(d, q, b) /\ q \in DOMAIN d.node
      BY Zenon, <1>y, <1>1, <1>9 DEF Good
    <2>2. CASE q = p
      BY Zenon, <1>y, <1>1, <1>4, <1>9, <2>2 DEF Open, OpenIn
    <2>3. CASE q # p
      BY Zenon, <1>1, <1>4, <2>1, <2>3 DEF Open
    <2> QED
      BY Zenon, <2>2, <2>3
  <1>10. Good(e, Y)
    BY Zenon, <1>y, <1>1, <1>3, <1>5, <1>6, <1>7, <1>8, <1>9 DEF Good
  <1>11. \A q \in DOMAIN e.node : Credited(e.node[q], q, index, stored, c)
    BY ZenonT(40), <1>4 DEF Sound, Credited
  <1>12. Sound(e, index, stored, c, X)
    BY Zenon, <1>1, <1>10, <1>11 DEF Sound, Landed, Y
  <1>13. SamePeers(d, e)
    BY Zenon, <1>4 DEF SamePeers, Syncing
  <1> QED
    BY Zenon, <1>1, <1>4, <1>12, <1>13 DEF e

\* The flags of a node.
Flagged(n, m) ==
  /\ m \in NodeState /\ m.vBlocksInFlight = n.vBlocksInFlight
  /\ m.nBlocksInFlight = n.nBlocksInFlight /\ m.nValidHeaders = n.nValidHeaders
  /\ m.stalling = n.stalling /\ m.best = n.best /\ m.unknown = n.unknown
  /\ m.common = n.common /\ m.sync = n.sync

\* Flags of a node have nothing to do with its blocks.
LEMMA FlaggedSound ==
  ASSUME NEW d, NEW index, NEW stored, NEW c, NEW X, Sound(d, index, stored, c, X),
         NEW p \in DOMAIN d.node, NEW m, Flagged(d.node[p], m)
  PROVE  LET e == [d EXCEPT !.node[p] = m]
         IN  /\ Sound(e, index, stored, c, X) /\ SamePeers(d, e)
             /\ e.inFlight = d.inFlight /\ e.mail = d.mail
  <1> DEFINE e == [d EXCEPT !.node[p] = m]
  <1>1. Credited(m, p, index, stored, c)
    BY Zenon DEF Flagged, Credited, Sound
  <1>2. /\ Sound(e, index, stored, c, X) /\ e.node = [d.node EXCEPT ![p] = m]
        /\ e.inFlight = d.inFlight /\ e.mail = d.mail /\ DOMAIN e.node = DOMAIN d.node
    BY <1>1, NodeChanged DEF Flagged
  <1> HIDE DEF e
  <1>3. SamePeers(d, e)
    BY Zenon, <1>2 DEF SamePeers, Syncing, Flagged
  <1> QED
    BY Zenon, <1>2, <1>3 DEF e

\* Misbehaving and fDisconnect.
LEMMA FlagsSound ==
  ASSUME NEW d, NEW index, NEW stored, NEW c, NEW X, Sound(d, index, stored, c, X),
         NEW p \in DOMAIN d.node
  PROVE  LET Alike(e) == Sound(e, index, stored, c, X) /\ SamePeers(d, e)
         IN  /\ Alike([d EXCEPT !.node[p].ban = TRUE])
             /\ Alike([d EXCEPT !.node[p].disconnect = TRUE])
  <1> DEFINE n == d.node[p]
             Alike(e) == Sound(e, index, stored, c, X) /\ SamePeers(d, e)
  <1>1. n \in NodeState
    BY Zenon DEF Sound, Good, NodeOK
  <1> HIDE DEF n
  <1>2. Flagged(n, [n EXCEPT !.ban = TRUE]) /\ Flagged(n, [n EXCEPT !.disconnect = TRUE])
    BY Zenon, <1>1 DEF Flagged, NodeState
  <1>3. \A m : Flagged(n, m) => Alike([d EXCEPT !.node[p] = m])
    BY Zenon, FlaggedSound DEF n
  <1> HIDE DEF Alike
  <1>4. /\ [d EXCEPT !.node[p].ban = TRUE] = [d EXCEPT !.node[p] = [n EXCEPT !.ban = TRUE]]
        /\ [d EXCEPT !.node[p].disconnect = TRUE] = [d EXCEPT !.node[p] = [n EXCEPT !.disconnect = TRUE]]
    BY Zenon DEF n
  <1>5. /\ Alike([d EXCEPT !.node[p].ban = TRUE])
        /\ Alike([d EXCEPT !.node[p].disconnect = TRUE])
    BY <1>2, <1>3, <1>4, Zenon
  <1> QED
    BY <1>5, Zenon DEF Alike

\* nPendingHeaderRequests.
LEMMA PendingSound ==
  ASSUME NEW d, NEW index, NEW stored, NEW c, NEW X, Sound(d, index, stored, c, X),
         NEW p \in DOMAIN d.node, NEW k \in Nat
  PROVE  LET e == [d EXCEPT !.node[p].pending = k]
         IN  Sound(e, index, stored, c, X) /\ SamePeers(d, e)
  <1> DEFINE n == d.node[p]
             m == [n EXCEPT !.pending = k]
  <1>1. n \in NodeState
    BY Zenon DEF Sound, Good, NodeOK
  <1>2. Flagged(n, m)
    <2> HIDE DEF n
    <2> QED
      BY Zenon, <1>1 DEF Flagged, NodeState
  <1>3. [d EXCEPT !.node[p].pending = k] = [d EXCEPT !.node[p] = m]
    BY Zenon
  <1> HIDE DEF m
  <1>4. Sound([d EXCEPT !.node[p] = m], index, stored, c, X) /\ SamePeers(d, [d EXCEPT !.node[p] = m])
    BY Zenon, <1>2, FlaggedSound
  <1> QED
    BY Zenon, <1>3, <1>4

\* StallingSince: the peer accused has the block in flight.
LEMMA AccuseSound ==
  ASSUME NEW d, NEW index, NEW stored, NEW c, Sound(d, index, stored, c, {}),
         NEW p \in DOMAIN d.node, NEW w \in BlockOrNull,
         w # NULL => d.inFlight[w] \in Peer /\ mapBlocksInFlight[w] = d.inFlight[w]
  PROVE  LET e == Accuse(d, p, w)
         IN  Sound(e, index, stored, c, {}) /\ SamePeers(d, e)
  <1> DEFINE s == mapBlocksInFlight[w]
             n == d.node[s]
             m == [n EXCEPT !.stalling = w]
             e == [d EXCEPT !.node[s] = m]
  <1>1. SamePeers(d, d)
    BY Zenon DEF SamePeers
  <1>2. CASE w = NULL
    BY Zenon, <1>1, <1>2 DEF Accuse
  <1>3. CASE w # NULL
    <2>1. Accuse(d, p, w) = d \/ Accuse(d, p, w) = e
      BY Zenon DEF Accuse
    <2>2. w \in Block /\ s \in DOMAIN d.node /\ NodeOK(n) /\ d.inFlight[w] = s /\ s \in Peer
      BY Zenon, <1>3 DEF Sound, Good, BlockOrNull
    <2> HIDE DEF n, s
    <2>3. /\ m \in NodeState /\ m.vBlocksInFlight = n.vBlocksInFlight
          /\ m.nBlocksInFlight = n.nBlocksInFlight /\ m.nValidHeaders = n.nValidHeaders
          /\ m.stalling = w /\ m.best = n.best /\ m.unknown = n.unknown
          /\ m.common = n.common /\ m.sync = n.sync
      BY Zenon, <2>2 DEF NodeOK, NodeState
    <2> HIDE DEF m
    <2>4. NodeOK(m) /\ \A b : Listed(m, b) <=> Listed(n, b)
      BY Zenon, <2>2, <2>3 DEF NodeOK, Listed
    <2>o. \A b \in Block \ ({} \cup Came(stored)), q \in Peer : d.inFlight[b] = q => Open(d, q, b)
      BY Zenon DEF Sound, Good
    <2>5. \A b \in Block \ ({} \cup Came(stored)) : d.inFlight[b] = s => OpenIn(d.mail[s], m, b)
      BY Zenon, <2>o, <2>2, <2>3 DEF Open, OpenIn, HasPartial, n
    <2>6. Sound(e, index, stored, c, {}) /\ SamePeers(d, e)
      BY ZenonT(60), <2>2, <2>3, <2>4, <2>5, NodeReplaced DEF n
    <2> QED
      BY Zenon, <1>1, <2>1, <2>6
  <1> QED
    BY Zenon, <1>2, <1>3

\* A block in the list gets its partial block.
LEMMA NodePartial ==
  ASSUME NEW n, NodeOK(n), NEW b \in Block, Listed(n, b)
  PROVE  LET m == [n EXCEPT !.vBlocksInFlight =
                     {x \in n.vBlocksInFlight : x.hash # b} \cup {[hash |-> b, partial |-> TRUE]}]
         IN  /\ NodeOK(m) /\ HasPartial(m, b)
             /\ \A c : Listed(m, c) <=> Listed(n, c)
             /\ \A c : c # b => (HasPartial(m, c) <=> HasPartial(n, c))
             /\ m.stalling = n.stalling /\ m.best = n.best /\ m.unknown = n.unknown
             /\ m.common = n.common /\ m.sync = n.sync
  <1> DEFINE v == n.vBlocksInFlight
             r == {x \in v : x.hash # b}
             new == [hash |-> b, partial |-> TRUE]
             w == r \cup {new}
             m == [n EXCEPT !.vBlocksInFlight = w]
  <1>1. PICK x \in v : x.hash = b
    BY Zenon DEF Listed
  <1>2. r = v \ {x} /\ new \notin r
    BY Zenon, <1>1 DEF NodeOK
  <1>3. IsFiniteSet(v) /\ Cardinality(v) \in Nat
    BY Zenon, FS_CardinalityType DEF NodeOK
  <1>4. IsFiniteSet(r) /\ Cardinality(r) = Cardinality(v) - 1
    BY <1>1, <1>2, <1>3, FS_RemoveElement
  <1>5. IsFiniteSet(w) /\ Cardinality(w) = Cardinality(r) + 1
    BY Zenon, <1>2, <1>4, FS_AddElement
  <1>6. Cardinality(w) = Cardinality(v)
    BY <1>3, <1>4, <1>5
  <1>7. new \in Mark /\ n \in NodeState /\ v \in SUBSET Mark
    BY Zenon DEF Mark, NodeOK, NodeState
  <1>8. w \in SUBSET Mark /\ new \in w
    BY Zenon, <1>7
  <1>9. \A e, f \in w : e.hash = f.hash => e = f
    <2>1. new.hash = b /\ \A e, f \in v : e.hash = f.hash => e = f
      BY Zenon DEF NodeOK
    <2> HIDE DEF new, v
    <2> QED
      BY Zenon, <2>1
  <1>10. \A c : (\E e \in w : e.hash = c) <=> Listed(n, c)
    <2>1. \A c : c # b => ((\E e \in w : e.hash = c) <=> Listed(n, c))
      BY DEF Listed
    <2>2. (\E e \in w : e.hash = b) /\ Listed(n, b)
      BY Zenon, <1>8
    <2> QED
      BY Zenon, <2>1, <2>2
  <1>11. \A c : c # b => ([hash |-> c, partial |-> TRUE] \in w <=> HasPartial(n, c))
    BY Zenon DEF HasPartial
  <1> HIDE DEF w, new
  <1>12. /\ m \in NodeState /\ m.vBlocksInFlight = w
         /\ m.nBlocksInFlight = n.nBlocksInFlight /\ m.nValidHeaders = n.nValidHeaders
         /\ m.stalling = n.stalling /\ m.best = n.best /\ m.unknown = n.unknown
         /\ m.common = n.common /\ m.sync = n.sync
    BY Zenon, <1>7, <1>8 DEF NodeState
  <1> HIDE DEF m
  <1>13. NodeOK(m)
    BY Zenon, <1>5, <1>6, <1>9, <1>12 DEF NodeOK
  <1>14. HasPartial(m, b)
    BY Zenon, <1>8, <1>12 DEF HasPartial, new
  <1>15. \A c : Listed(m, c) <=> Listed(n, c)
    BY Zenon, <1>10, <1>12 DEF Listed
  <1>16. \A c : c # b => (HasPartial(m, c) <=> HasPartial(n, c))
    BY Zenon, <1>11, <1>12 DEF HasPartial
  <1> QED
    BY Zenon, <1>12, <1>13, <1>14, <1>15, <1>16 DEF m, w, new

\* "cmpctblock" puts the block in flight from p, or gives it its partial block: a block that
\* was in flight without one has been asked for in full.
LEMMA WithPartialSound ==
  ASSUME NEW d, NEW index, NEW stored, NEW c, NEW b \in Block, b \notin stored,
         Sound(d, index, stored, c, {b}), NEW p \in DOMAIN d.node, ~HasPartial(d.node[p], b),
         d.inFlight[b] = p \/ (d.inFlight[b] = NULL /\ Room(d, p) > 0)
  PROVE  LET e == WithPartial(d, p, b)
         IN  /\ Sound(e, index, stored, c, {b}) /\ SamePeers(d, e) /\ e.mail = d.mail
             /\ e.inFlight[b] = p /\ HasPartial(e.node[p], b)
  <1> DEFINE e == WithPartial(d, p, b)
             n == d.node[p]
  <1>1. d \in DownloadState /\ p \in Peer /\ NodeOK(n) /\ NULL \notin Peer
    BY Zenon, StateFields, DownloadAssumption DEF Sound, Good
  <1>2. CASE d.inFlight[b] # p
    <2>1. e = InFlight(d, p, {b}, TRUE)
      BY Zenon, <1>2 DEF WithPartial
    <2>2. IsFiniteSet({b}) /\ Cardinality({b}) = 1
      BY Zenon, FS_Singleton
    <2>3. n.nBlocksInFlight + Cardinality({b}) <= MAX_BLOCKS_IN_TRANSIT_PER_PEER
      BY <2>2, <1>1, <1>2, DownloadAssumption DEF Room, NodeOK, NodeState
    <2> DEFINE bs == {b}
    <2>4. bs \in SUBSET Block /\ TRUE \in BOOLEAN /\ \A x \in bs : d.inFlight[x] = NULL /\ x \notin stored
      BY Zenon, <1>2
    <2>5. /\ Sound(e, index, stored, c, bs) /\ DOMAIN e.node = DOMAIN d.node
          /\ Syncing(e) = Syncing(d) /\ PutInFlight(d, e, p, bs, TRUE)
      <3>1. /\ IsFiniteSet(bs) /\ d.node[p].nBlocksInFlight + Cardinality(bs) <= MAX_BLOCKS_IN_TRANSIT_PER_PEER
            /\ e = InFlight(d, p, bs, TRUE)
        BY Zenon, <2>1, <2>2, <2>3
      <3>2. Sound(d, index, stored, c, bs) /\ bs \cup bs = bs
        BY Zenon
      <3> HIDE DEF bs, e
      <3>3. LET g == InFlight(d, p, bs, TRUE)
            IN  /\ Sound(g, index, stored, c, bs \cup bs) /\ DOMAIN g.node = DOMAIN d.node
                /\ Syncing(g) = Syncing(d) /\ PutInFlight(d, g, p, bs, TRUE)
        BY Zenon, <3>1, <3>2, <2>4, InFlightSound
      <3> QED
        BY Zenon, <3>1, <3>2, <3>3
    <2> HIDE DEF e
    <2>6. e.mail = d.mail /\ e.inFlight[b] = p /\ HasPartial(e.node[p], b)
      BY Zenon, <2>5 DEF PutInFlight
    <2> QED
      BY Zenon, <2>5, <2>6 DEF SamePeers, e
  <1>3. CASE d.inFlight[b] = p
    <2> DEFINE m == [n EXCEPT !.vBlocksInFlight =
                       {x \in n.vBlocksInFlight : x.hash # b} \cup {[hash |-> b, partial |-> TRUE]}]
    <2>1. e = [d EXCEPT !.node[p] = m]
      BY <1>3, Zenon DEF WithPartial
    <2>2. Listed(n, b)
      BY Zenon, <1>1, <1>3 DEF Sound, Good
    <2>3. /\ NodeOK(m) /\ HasPartial(m, b)
          /\ \A x : Listed(m, x) <=> Listed(n, x)
          /\ \A x : x # b => (HasPartial(m, x) <=> HasPartial(n, x))
          /\ m.stalling = n.stalling /\ m.best = n.best /\ m.unknown = n.unknown
          /\ m.common = n.common /\ m.sync = n.sync
      <3> HIDE DEF n
      <3> QED
        BY Zenon, <1>1, <2>2, NodePartial
    <2> HIDE DEF m
    <2>o. \A x \in Block \ ({b} \cup Came(stored)), q \in Peer : d.inFlight[x] = q => Open(d, q, x)
      BY Zenon DEF Sound, Good
    <2>4. \A x \in Block \ ({b} \cup Came(stored)) : d.inFlight[x] = p => OpenIn(d.mail[p], m, x)
      BY Zenon, <2>o, <1>1, <2>3 DEF Open, OpenIn
    <2>5. m.stalling # NULL => d.inFlight[m.stalling] = p
      BY Zenon, <2>3 DEF Sound, Good
    <2>6. /\ Sound(e, index, stored, c, {b}) /\ SamePeers(d, e)
          /\ e.node[p] = m /\ e.inFlight = d.inFlight /\ e.mail = d.mail
      BY <2>1, <2>3, <2>4, <2>5, NodeReplaced
    <2> HIDE DEF e
    <2> QED
      BY Zenon, <2>3, <2>6, <1>3 DEF e
  <1> QED
    BY Zenon, <1>2, <1>3

----------------------------------------------------------------------------
(* Headers and blocks. *)

\* A set of blocks has a lowest one.
LEMMA LowestIn ==
  ASSUME NEW bs \in SUBSET Block, bs # {}
  PROVE  Lowest(bs) \in bs /\ \A c \in bs : nHeight[Lowest(bs)] <= nHeight[c]
  BY Zenon, LowestExists DEF Lowest

\* A set of blocks of one chain has a highest one.
LEMMA HighestIn ==
  ASSUME NEW t \in Block, NEW bs \in SUBSET Ancestors[t], bs # {}
  PROVE  Highest(bs) \in bs
  BY HighestExists DEF Highest

\* Blocks of a chain without a gap.
Piece(hs) == \A x \in hs : \A a \in Ancestors[x] : Lowest(hs) \in Ancestors[a] => a \in hs

\* One header is a piece of a chain.
LEMMA SinglePiece == \A b \in Block : Piece({b}) /\ Lowest({b}) = b
  <1> SUFFICES ASSUME NEW b \in Block PROVE Piece({b}) /\ Lowest({b}) = b
    BY Zenon
  <1>1. Lowest({b}) = b
    BY LowestIn
  <1>2. ASSUME NEW a \in Ancestors[b], b \in Ancestors[a] PROVE a = b
    <2>1. a \in Block /\ nHeight[a] \in Nat /\ nHeight[b] \in Nat
      BY Zenon, BlockTreeAssumption
    <2>2. (a = b \/ nHeight[a] < nHeight[b]) /\ (b = a \/ nHeight[b] < nHeight[a])
      BY Zenon, <1>2, <2>1, HeightsGrow
    <2> QED
      BY <2>1, <2>2
  <1> QED
    BY Zenon, <1>1, <1>2 DEF Piece

\* An answer to "getheaders" has no gap.
LEMMA ReplyPiece ==
  ASSUME NEW t \in Block, NEW f \in Block, NEW n \in Nat
  PROVE  LET hs == FirstOf(Ancestors[t] \ Ancestors[f], n)
         IN  hs \in SUBSET Ancestors[t] /\ (hs # {} => Piece(hs))
  <1> DEFINE next == Ancestors[t] \ Ancestors[f]
             hs == FirstOf(next, n)
  <1>1. hs \subseteq next /\ next \subseteq Ancestors[t] /\ Ancestors[t] \subseteq Block
    BY Zenon, BlockTreeAssumption DEF FirstOf
  <1>2. ASSUME hs # {}, NEW x \in hs, NEW a \in Ancestors[x], Lowest(hs) \in Ancestors[a]
        PROVE  a \in hs
    <2>1. Lowest(hs) \in hs
      <3>1. hs \in SUBSET Block
        BY Zenon, <1>1
      <3> HIDE DEF hs
      <3> QED
        BY Zenon, <3>1, <1>2, LowestIn
    <2>2. a \in Ancestors[t] /\ a \in Block /\ x \in Block
      BY Zenon, <1>1, BlockTreeAssumption
    <2>3. a \notin Ancestors[f]
      <3>1. Lowest(hs) \notin Ancestors[f]
        BY Zenon, <1>1, <2>1
      <3>2. a \in Ancestors[f] => Ancestors[a] \subseteq Ancestors[f]
        BY Zenon, BlockTreeAssumption
      <3> HIDE DEF hs
      <3> QED
        BY Zenon, <1>2, <3>1, <3>2
    <2>4. nHeight[a] <= nHeight[x] /\ nHeight[a] \in Nat /\ nHeight[x] \in Nat
      <3>1. nHeight[a] \in Nat /\ nHeight[x] \in Nat
        BY Zenon, <2>2, BlockTreeAssumption
      <3>2. a = x \/ nHeight[a] < nHeight[x]
        BY Zenon, <2>2, HeightsGrow
      <3> QED
        BY <3>1, <3>2
    <2>5. \A y \in next : nHeight[y] \in Nat
      BY Zenon, <1>1, BlockTreeAssumption
    <2>6. UpTo(next, a) \subseteq UpTo(next, x)
      BY <2>4, <2>5 DEF UpTo
    <2>7. UpTo(next, x) \in SUBSET Ancestors[t]
      BY Zenon DEF UpTo
    <2>8. IsFiniteSet(UpTo(next, x))
      BY Zenon, <2>7, ChainsFinite, FS_Subset
    <2>9. Cardinality(UpTo(next, a)) <= Cardinality(UpTo(next, x))
          /\ Cardinality(UpTo(next, a)) \in Nat /\ Cardinality(UpTo(next, x)) \in Nat
      BY Zenon, <2>6, <2>8, FS_Subset, FS_CardinalityType
    <2>10. Cardinality(UpTo(next, x)) <= n
      BY Zenon DEF FirstOf
    <2>11. Cardinality(UpTo(next, a)) <= n
      BY <2>9, <2>10
    <2> QED
      BY Zenon, <2>2, <2>3, <2>11 DEF FirstOf
  <1>3. hs # {} => Piece(hs)
    <2> HIDE DEF hs
    <2> QED
      BY Zenon, <1>2 DEF Piece
  <1> QED
    BY Zenon, <1>1, <1>3

\* A piece that connects to the index leaves it closed under predecessors.
LEMMA PieceCloses ==
  ASSUME NEW index \in SUBSET Block, \A b \in index : Ancestors[b] \subseteq index,
         NEW t \in Block, NEW hs \in SUBSET Ancestors[t], hs # {}, Piece(hs),
         pprev[Lowest(hs)] \in index
  PROVE  index \cup hs \in SUBSET Block /\ \A b \in index \cup hs : Ancestors[b] \subseteq index \cup hs
  <1>1. hs \in SUBSET Block /\ NULL \notin Block /\ pprev[Genesis] = NULL
    BY Zenon, BlockTreeAssumption
  <1>2. Lowest(hs) \in hs /\ Lowest(hs) \in Block
    BY Zenon, <1>1, LowestIn
  <1>3. Ancestors[Lowest(hs)] = Ancestors[pprev[Lowest(hs)]] \cup {Lowest(hs)}
    BY Zenon, <1>1, <1>2, NextBlock
  <1>4. ASSUME NEW x \in hs, NEW a \in Ancestors[x] PROVE a \in index \cup hs
    <2>1. a \in Ancestors[t] /\ Lowest(hs) \in Ancestors[t]
      BY Zenon, <1>1, <1>2, BlockTreeAssumption
    <2>2. a \in Ancestors[Lowest(hs)] \/ Lowest(hs) \in Ancestors[a]
      BY Zenon, <2>1, BlockTreeAssumption
    <2> QED
      BY Zenon, <2>2, <1>2, <1>3 DEF Piece
  <1> QED
    BY Zenon, <1>1, <1>4

\* AddToBlockIndex: the best header is indexed.
LEMMA IndexedBest ==
  ASSUME pindexBestHeader \in known, NEW index, known \subseteq index, Indexed(index)
  PROVE  known' = index /\ pindexBestHeader' \in index
  BY Zenon DEF Indexed

\* ProcessNewBlock leaves the active chain stored.
LEMMA NewBlockStored ==
  ASSUME Rooted(known, have, tip, pindexBestHeader), NEW b, NEW requested, ProcessNewBlock(b, requested)
  PROVE  /\ have \subseteq have' /\ have' \subseteq have \cup {b}
         /\ tip' \in have' /\ Ancestors[tip'] \subseteq have'
  BY Zenon DEF Rooted, ProcessNewBlock

----------------------------------------------------------------------------
(* The handlers. *)

\* The download state is made of the variables.
LEMMA DownloadFields ==
  /\ Download.node = node /\ Download.inFlight = mapBlocksInFlight
  /\ Download.validated = nPeersWithValidatedDownloads /\ Download.mail = mail
  BY Zenon DEF Download

\* The state after a handler is the record it has worked on.
LEMMA BecomesDownload ==
  ASSUME NEW e \in DownloadState, Becomes(e)
  PROVE  Download' = e
  BY Zenon DEF Becomes, Download, DownloadState

\* The invariant, said of the variables.
LEMMA FlatInv ==
  ASSUME DownloadInv
  PROVE  /\ \A q \in Nodes : NodeOK(node[q])
         /\ \A q \in Nodes : node[q].stalling # NULL => mapBlocksInFlight[node[q].stalling] = q
         /\ \A b \in Block, q \in Peer : mapBlocksInFlight[b] = q <=> q \in Nodes /\ Listed(node[q], b)
         /\ \A b \in Block, q \in Peer :
              mapBlocksInFlight[b] = q => Open(Download, q, b) \/ b \in Came(have)
         /\ nPeersWithValidatedDownloads = Cardinality(Downloading(Download))
  <1>1. /\ Good(Download, {} \cup Came(have))
        /\ \A b \in Block : b \in Block \ ({} \cup Came(have)) \/ b \in Came(have)
    BY Zenon DEF DownloadInv, Sound
  <1> QED
    BY Zenon, <1>1, DownloadFields DEF Good, Nodes

\* A chain that is not empty has a first block.
LEMMA FirstIndex ==
  ASSUME NEW S, NEW s \in Seq(S), s # <<>>
  PROVE  1 \in DOMAIN s
  OBVIOUS

\* An index of a prefix of a sequence.
LEMMA InPrefix ==
  ASSUME NEW S, NEW s \in Seq(S), NEW k \in DOMAIN s, NEW i \in 1..k
  PROVE  s[i] \in S
  OBVIOUS

\* What is left of a limit.
LEMMA BelowLimit ==
  ASSUME NEW k \in Nat, NEW limit \in Nat, k <= limit
  PROVE  limit - k \in Nat /\ \A c \in Nat : c <= limit - k => k + c <= limit
  OBVIOUS

\* A message has been handled.
LEMMA HandledInv ==
  ASSUME DownloadInv, NEW e, NEW p, Handled(p, e),
         Sound(e, known', have', chain, {}), SamePeers(Download, e),
         Rooted(known', have', tip', pindexBestHeader')
  PROVE  DownloadInv'
  <1>1. /\ Becomes(e) /\ nPreferredDownload' = nPreferredDownload /\ nSyncStarted' = nSyncStarted
        /\ chain' = chain
    BY Zenon DEF Handled
  <1>2. Download' = e
    BY Zenon, <1>1, BecomesDownload DEF Sound, Good
  <1>3. Nodes' = Nodes
    BY Zenon, <1>1, DownloadFields DEF Nodes, SamePeers, Becomes
  <1>4. Syncing(Download') = Syncing(Download)
    BY Zenon, <1>2 DEF SamePeers
  <1> QED
    BY Zenon, <1>1, <1>2, <1>3, <1>4 DEF DownloadInv

\* A connected peer has a node state, and has had all blocks of its chain.
LEMMA PeerFacts ==
  ASSUME DownloadInv, NEW p \in Peer, Connected(p)
  PROVE  /\ p \in DOMAIN Download.node /\ PeerTip(p) \in Block
         /\ \A b \in Ancestors[PeerTip(p)] : b \in Block /\ PeerHas(chain, p, b)
         /\ PeerHas(chain, p, PeerTip(p))
  <1>1. p \in DOMAIN Download.node
    BY Zenon, DownloadFields DEF Connected, Nodes
  <1>2. chain[p] \in Nat /\ chain[p] \in DOMAIN Tips[p] /\ Tips[p] \in Seq(Block)
    BY Zenon, DownloadAssumption DEF DownloadInv, OnChain
  <1>3. chain[p] \in 1..chain[p] /\ PeerTip(p) \in Block
    BY <1>2 DEF PeerTip
  <1>4. \A b \in Ancestors[PeerTip(p)] : b \in Block /\ PeerHas(chain, p, b)
    <2>1. \A b \in Ancestors[PeerTip(p)] : b \in Block
      BY Zenon, <1>3, BlockTreeAssumption
    <2>2. \A b \in Ancestors[PeerTip(p)] : PeerHas(chain, p, b)
      BY Zenon, <1>3 DEF PeerHas, PeerTip
    <2> QED
      BY Zenon, <2>1, <2>2
  <1> QED
    BY Zenon, <1>1, <1>3, <1>4, SelfAncestor

\* Taking an announcement from the queue of a peer.
LEMMA HeardSound ==
  ASSUME DownloadInv, NEW p \in Peer
  PROVE  /\ Sound(Heard(p), known, have, chain, {}) /\ SamePeers(Download, Heard(p))
         /\ Heard(p).inFlight = mapBlocksInFlight
  <1> DEFINE l == [Download.mail[p] EXCEPT !.news = FALSE]
             e == [Download EXCEPT !.mail[p] = l]
  <1>1. Heard(p) = e
    BY Zenon DEF Heard
  <1>2. Sound(Download, known, have, chain, {}) /\ Download.mail[p] \in Mail
    BY StateFields DEF DownloadInv, Sound, Good
  <1>3. /\ l \in Mail /\ l.blocks = Download.mail[p].blocks /\ l.txns = Download.mail[p].txns
        /\ l.cmpct = Download.mail[p].cmpct
    BY Zenon, <1>2 DEF Mail
  <1> HIDE DEF l
  <1>4. Sound(e, known, have, chain, {}) /\ SamePeers(Download, e) /\ e.inFlight = Download.inFlight
    BY ZenonT(60), <1>2, <1>3, MailSound
  <1> QED
    BY Zenon, <1>1, <1>4, DownloadFields

\* What a peer has had, it has had with all blocks below it.
LEMMA HasBelow ==
  ASSUME OnChain(chain), NEW p \in Peer, NEW b \in Block, PeerHas(chain, p, b)
  PROVE  \A a \in Ancestors[b] : PeerHas(chain, p, a)
  <1>1. PICK i \in 1..chain[p] : b \in Ancestors[Tips[p][i]]
    BY Zenon DEF PeerHas
  <1>2. chain[p] \in DOMAIN Tips[p] /\ Tips[p] \in Seq(Block)
    BY Zenon, DownloadAssumption DEF OnChain
  <1>3. Tips[p][i] \in Block
    BY Zenon, <1>2, InPrefix
  <1>4. Ancestors[b] \subseteq Ancestors[Tips[p][i]]
    BY Zenon, <1>1, <1>3, BlockTreeAssumption
  <1> QED
    BY Zenon, <1>1, <1>4 DEF PeerHas

\* Several calls of a handler together leave the peers as they are.
LEMMA SamePeersTrans ==
  ASSUME NEW d, NEW e, NEW f, SamePeers(d, e), SamePeers(e, f)
  PROVE  SamePeers(d, f)
  BY Zenon DEF SamePeers

\* "inv" keeps the invariant.
LEMMA InvStep ==
  ASSUME DownloadInv, NEW p \in Peer, Inv(p)
  PROVE  DownloadInv'
  <1> DEFINE b == PeerTip(p)
             d == UpdateBlockAvailability(Heard(p), p, b, known)
             e == RequestHeadersFrom(d, p, pindexBestHeader, TRUE)
  <1>1. Connected(p) /\ UNCHANGED blocks /\ (Handled(p, d) \/ Handled(p, e))
    BY Zenon DEF Inv, News
  <1>2. Rooted(known', have', tip', pindexBestHeader') /\ pindexBestHeader \in Block
        /\ known' = known /\ have' = have
    BY Zenon, <1>1 DEF DownloadInv, blocks, chainstate, Rooted
  <1>3. Sound(Heard(p), known, have, chain, {}) /\ SamePeers(Download, Heard(p))
    BY Zenon, HeardSound
  <1>4. p \in DOMAIN Heard(p).node /\ b \in Block /\ PeerHas(chain, p, b)
    BY Zenon, <1>1, <1>3, PeerFacts DEF SamePeers
  <1> HIDE DEF b
  <1>5. Sound(d, known, have, chain, {}) /\ SamePeers(Heard(p), d)
    BY Zenon, <1>3, <1>4, UpdateAvailabilitySound
  <1> HIDE DEF d
  <1>6. p \in DOMAIN d.node
    BY Zenon, <1>4, <1>5 DEF SamePeers
  <1>7. Sound(e, known, have, chain, {}) /\ SamePeers(d, e)
    BY Zenon, <1>2, <1>5, <1>6, RequestHeadersSound
  <1> HIDE DEF e
  <1>8. SamePeers(Download, d) /\ SamePeers(Download, e)
    BY Zenon, <1>3, <1>5, <1>7, SamePeersTrans
  <1> QED
    BY Zenon, <1>1, <1>2, <1>5, <1>7, <1>8, HandledInv

\* What DirectFetch asks for.
LEMMA DirectFetchSound ==
  ASSUME NEW d, NEW index \in SUBSET Block, Sound(d, index, have, chain, {}),
         NEW p \in DOMAIN d.node, NEW b \in index, Ancestors[b] \subseteq index,
         \A x \in Ancestors[b] : PeerHas(chain, p, x)
  PROVE  LET e == DirectFetch(d, p, b)
         IN  Sound(e, index, have, chain, {}) /\ SamePeers(d, e)
  <1> DEFINE bs == FirstOf(Missing(d, b), Room(d, p))
             e == Fetch(d, p, bs)
             f == FetchCompact(d, p, bs)
  <1>1. Room(d, p) \in Nat /\ d.node[p].nBlocksInFlight \in Nat
        /\ Room(d, p) = MAX_BLOCKS_IN_TRANSIT_PER_PEER - d.node[p].nBlocksInFlight
        /\ MAX_BLOCKS_IN_TRANSIT_PER_PEER \in Nat
    BY DownloadAssumption DEF Room, Sound, Good, NodeOK, NodeState
  <1>2. /\ Missing(d, b) \in SUBSET Ancestors[b]
        /\ \A x \in Missing(d, b) : d.inFlight[x] = NULL /\ x \notin have
    BY Zenon DEF Missing
  <1>3. /\ bs \subseteq Missing(d, b) /\ IsFiniteSet(bs)
        /\ Cardinality(bs) \in Nat /\ Cardinality(bs) <= Room(d, p)
    BY Zenon, <1>1, <1>2, FirstOfBound
  <1> HIDE DEF bs
  <1>4. /\ bs \in SUBSET index /\ \A x \in bs : d.inFlight[x] = NULL /\ x \notin have
        /\ \A x \in bs : PeerHas(chain, p, x)
        /\ d.node[p].nBlocksInFlight + Cardinality(bs) <= MAX_BLOCKS_IN_TRANSIT_PER_PEER
    BY <1>1, <1>2, <1>3
  <1>5. Sound(e, index, have, chain, {}) /\ SamePeers(d, e)
    BY Zenon, <1>3, <1>4, FetchSound
  <1>c. Sound(f, index, have, chain, {}) /\ SamePeers(d, f)
    BY Zenon, <1>3, <1>4, FetchCompactSound
  <1>6. DirectFetch(d, p, b) = d \/ DirectFetch(d, p, b) = e \/ DirectFetch(d, p, b) = f
    BY Zenon DEF DirectFetch, bs
  <1>7. SamePeers(d, d)
    BY Zenon DEF SamePeers
  <1> QED
    BY Zenon, <1>5, <1>c, <1>6, <1>7

\* "headers", for headers that are a piece of a chain the peer has been on.
LEMMA HeadersStep ==
  ASSUME DownloadInv, NEW p \in Peer, Connected(p), NEW d, Sound(d, known, have, chain, {}),
         SamePeers(Download, d), NEW t \in Block, NEW hs \in SUBSET Ancestors[t],
         hs # {} => Piece(hs), \A x \in hs : PeerHas(chain, p, x),
         Headers(d, p, hs)
  PROVE  DownloadInv'
  <1> DEFINE k == PendingAfterHeaders(d.node[p].pending)
             e == [d EXCEPT !.node[p].pending = k]
             last == Highest(hs)
             index == known \cup hs
  <1>1. p \in DOMAIN d.node /\ \A x \in hs : x \in Block
    BY Zenon, PeerFacts, BlockTreeAssumption DEF SamePeers
  <1>2. Rooted(known, have, tip, pindexBestHeader) /\ pindexBestHeader \in Block
        /\ chain \in [Peer -> Nat]
    BY Zenon DEF DownloadInv, Rooted, OnChain
  <1>3. k \in Nat
    BY <1>1 DEF PendingAfterHeaders, Sound, Good, NodeOK, NodeState
  <1>4. e = [d EXCEPT !.node[p].pending = PendingAfterHeaders(@)]
    BY Zenon
  <1>5. Sound(e, known, have, chain, {}) /\ SamePeers(d, e)
    BY Zenon, <1>1, <1>3, PendingSound
  <1> HIDE DEF k
  <1>6. p \in DOMAIN e.node /\ SamePeers(Download, e)
    BY Zenon, <1>1, <1>5, SamePeersTrans DEF SamePeers
  <1>7. CASE hs = {}
    <2>1. Handled(p, e) /\ UNCHANGED blocks
      BY Zenon, <1>4, <1>7 DEF Headers
    <2>2. Rooted(known', have', tip', pindexBestHeader') /\ known' = known /\ have' = have
      BY Zenon, <2>1, <1>2 DEF blocks, chainstate
    <2> HIDE DEF e
    <2> QED
      BY Zenon, <1>5, <1>6, <2>1, <2>2, HandledInv
  <1>8. ASSUME hs # {} PROVE last \in hs /\ last \in Block /\ PeerHas(chain, p, last)
    BY Zenon, <1>1, <1>8, HighestIn
  <1>9. CASE hs # {} /\ pprev[Lowest(hs)] \notin known
    <2> DEFINE f == RequestHeadersFrom(e, p, pindexBestHeader, TRUE)
               g == UpdateBlockAvailability(f, p, last, known)
    <2>1. Handled(p, g) /\ UNCHANGED blocks
      BY Zenon, <1>4, <1>9 DEF Headers
    <2>2. Rooted(known', have', tip', pindexBestHeader') /\ known' = known /\ have' = have
      BY Zenon, <2>1, <1>2 DEF blocks, chainstate
    <2> HIDE DEF e, last
    <2>3. Sound(f, known, have, chain, {}) /\ SamePeers(e, f)
      BY Zenon, <1>2, <1>5, <1>6, RequestHeadersSound
    <2> HIDE DEF f
    <2>4. p \in DOMAIN f.node
      BY Zenon, <1>6, <2>3 DEF SamePeers
    <2>5. Sound(g, known, have, chain, {}) /\ SamePeers(f, g)
      BY Zenon, <1>8, <1>9, <2>3, <2>4, UpdateAvailabilitySound
    <2> HIDE DEF g
    <2>6. SamePeers(Download, g)
      BY Zenon, <1>6, <2>3, <2>5, SamePeersTrans
    <2> QED
      BY Zenon, <2>1, <2>2, <2>5, <2>6, HandledInv
  <1>10. CASE hs # {} /\ pprev[Lowest(hs)] \in known
    <2> DEFINE f == UpdateBlockAvailability(e, p, last, index)
               h == IF Cardinality(hs) = MAX_HEADERS_RESULTS
                    THEN RequestHeadersFrom(f, p, last, FALSE) ELSE f
               g == DirectFetch(h, p, last)
    <2>1. Handled(p, g) /\ Indexed(index) /\ UNCHANGED chainstate
      BY Zenon, <1>4, <1>10 DEF Headers
    <2>2. index \in SUBSET Block /\ \A b \in index : Ancestors[b] \subseteq index
      BY Zenon, <1>1, <1>2, <1>10, PieceCloses DEF Rooted
    <2>3. known \subseteq index /\ hs \subseteq index
      BY Zenon
    <2> HIDE DEF index
    <2>4. known' = index /\ pindexBestHeader' \in index
      BY Zenon, <2>1, <2>3, <1>2, IndexedBest DEF Rooted
    <2>5. Rooted(known', have', tip', pindexBestHeader') /\ have' = have
      BY Zenon, <2>1, <2>2, <2>3, <2>4, <1>2 DEF Rooted, chainstate
    <2> HIDE DEF e, last
    <2>6. Sound(e, index, have, chain, {})
      BY Zenon, <1>2, <1>5, <2>3, SoundLearns
    <2>7. last \in Block /\ PeerHas(chain, p, last) /\ last \in index
      BY Zenon, <1>8, <1>10, <2>3
    <2>8. Sound(f, index, have, chain, {}) /\ SamePeers(e, f)
      BY Zenon, <1>6, <2>6, <2>7, UpdateAvailabilitySound
    <2> HIDE DEF f
    <2>9. p \in DOMAIN f.node /\ SamePeers(f, f)
      BY Zenon, <1>6, <2>8 DEF SamePeers
    <2>10. Sound(h, index, have, chain, {}) /\ SamePeers(f, h)
      BY Zenon, <2>7, <2>8, <2>9, RequestHeadersSound
    <2> HIDE DEF h
    <2>11. p \in DOMAIN h.node
      BY Zenon, <2>9, <2>10 DEF SamePeers
    <2>b. \A x \in Ancestors[last] : PeerHas(chain, p, x)
      BY Zenon, <2>7, HasBelow DEF DownloadInv
    <2>12. Sound(g, index, have, chain, {}) /\ SamePeers(h, g)
      BY Zenon, <2>2, <2>7, <2>b, <2>10, <2>11, DirectFetchSound
    <2> HIDE DEF g
    <2>13. SamePeers(Download, g)
      BY Zenon, <1>6, <2>8, <2>10, <2>12, SamePeersTrans
    <2> QED
      BY Zenon, <2>1, <2>4, <2>5, <2>12, <2>13, HandledInv
  <1> QED
    BY Zenon, <1>7, <1>9, <1>10

\* An announcement by "headers" keeps the invariant.
LEMMA HeadersAnnounceStep ==
  ASSUME DownloadInv, NEW p \in Peer, HeadersAnnounce(p)
  PROVE  DownloadInv'
  <1> DEFINE hs == {PeerTip(p)}
  <1>1. Connected(p) /\ Headers(Heard(p), p, hs)
    BY Zenon DEF HeadersAnnounce, News
  <1>2. PeerTip(p) \in Block /\ PeerHas(chain, p, PeerTip(p))
    BY Zenon, <1>1, PeerFacts
  <1>3. /\ hs \in SUBSET Ancestors[PeerTip(p)] /\ (hs # {} => Piece(hs))
        /\ \A x \in hs : PeerHas(chain, p, x)
    BY Zenon, <1>2, SelfAncestor, SinglePiece
  <1> HIDE DEF hs
  <1> QED
    BY Zenon, <1>1, <1>2, <1>3, HeardSound, HeadersStep

\* The answer to "getheaders" keeps the invariant: its headers are a piece of the chain of the peer.
LEMMA HeadersReplyStep ==
  ASSUME DownloadInv, NEW p \in Peer, HeadersReply(p)
  PROVE  DownloadInv'
  <1> DEFINE from == Head(mail[p].headers)
             hs == FirstOf(Ancestors[PeerTip(p)] \ Ancestors[from], MAX_HEADERS_RESULTS)
             l == [Download.mail[p] EXCEPT !.headers = Tail(Download.mail[p].headers)]
             d == [Download EXCEPT !.mail[p] = l]
  <1>1. mail[p].headers # <<>> /\ Headers([Download EXCEPT !.mail[p].headers = Tail(@)], p, hs)
    BY Zenon DEF HeadersReply
  <1>2. Headers(d, p, hs)
    BY <1>1, Zenon
  <1>3. Sound(Download, known, have, chain, {}) /\ Download.mail[p] \in Mail /\ Download.mail = mail
    BY StateFields, DownloadFields DEF DownloadInv, Sound, Good
  <1>4. from \in Block /\ Tail(Download.mail[p].headers) \in Seq(Block)
    BY <1>1, <1>3 DEF Mail
  <1>5. /\ l \in Mail /\ l.blocks = Download.mail[p].blocks /\ l.txns = Download.mail[p].txns
        /\ l.cmpct = Download.mail[p].cmpct
    BY Zenon, <1>3, <1>4, HeadersField
  <1>6. Connected(p)
    BY Zenon, <1>2 DEF Headers, Handled
  <1>7. /\ PeerTip(p) \in Block /\ MAX_HEADERS_RESULTS \in Nat
        /\ \A x \in Ancestors[PeerTip(p)] : PeerHas(chain, p, x)
    BY Zenon, <1>6, PeerFacts, DownloadAssumption
  <1>8. hs \in SUBSET Ancestors[PeerTip(p)] /\ (hs # {} => Piece(hs))
    BY Zenon, <1>4, <1>7, ReplyPiece
  <1> HIDE DEF hs, l
  <1>9. Sound(d, known, have, chain, {}) /\ SamePeers(Download, d)
    BY Zenon, <1>3, <1>5, MailSound
  <1> HIDE DEF d
  <1> QED
    BY Zenon, <1>2, <1>6, <1>7, <1>8, <1>9, HeadersStep

\* Mail of p with less of b, and of nothing else, leaves at most b without an open request.
LEMMA LessMail ==
  ASSUME DownloadInv, NEW p \in Peer, NEW b \in Block, NEW l \in Mail,
         l.blocks \subseteq mail[p].blocks, mail[p].blocks \subseteq l.blocks \cup {b},
         l.cmpct \subseteq mail[p].cmpct, mail[p].cmpct \subseteq l.cmpct \cup {b},
         l.txns \subseteq mail[p].txns, mail[p].txns \subseteq l.txns \cup {b}
  PROVE  LET e == [Download EXCEPT !.mail[p] = l]
         IN  /\ Sound(e, known, have, chain, {b}) /\ SamePeers(Download, e)
             /\ e.inFlight = mapBlocksInFlight /\ e.node = node
             /\ (mapBlocksInFlight[b] = p => b \in have \/ OpenIn(l, node[p], b)) =>
                  Sound(e, known, have, chain, {})
  <1> DEFINE e == [Download EXCEPT !.mail[p] = l]
  <1>1. Sound(Download, known, have, chain, {}) /\ Download.mail = mail /\ Download.node = node
        /\ Download.inFlight = mapBlocksInFlight
    BY Zenon, DownloadFields DEF DownloadInv
  <1>2. MailOK(l, p, known, chain)
    BY Zenon, <1>1 DEF Sound, MailOK
  <1>3. \A x \in Block, q \in Peer : mapBlocksInFlight[x] = q => Open(Download, q, x) \/ x \in Came(have)
    BY Zenon, FlatInv
  <1>4. OpenWith(Download, p, l, {b} \cup Came(have))
    <2>1. ASSUME NEW x \in Block \ ({b} \cup Came(have)), Download.inFlight[x] = p
          PROVE  OpenIn(l, Download.node[p], x)
      <3>1. x # b /\ x \notin Came(have) /\ Open(Download, p, x)
        BY Zenon, <2>1, <1>1, <1>3
      <3> QED
        BY Zenon, <3>1, <1>1 DEF Open, OpenIn
    <2>2. ASSUME NEW x \in Block \ ({b} \cup Came(have)), NEW q \in Peer \ {p}, Download.inFlight[x] = q
          PROVE  Open(Download, q, x)
      BY Zenon, <2>2, <1>1, <1>3
    <2> QED
      BY Zenon, <2>1, <2>2 DEF OpenWith
  <1>5. /\ Sound(e, known, have, chain, {b}) /\ e.node = Download.node
        /\ e.inFlight = Download.inFlight /\ e.mail = [mail EXCEPT ![p] = l]
    BY <1>1, <1>2, <1>4, MailChanged
  <1> HIDE DEF e
  <1>6. SamePeers(Download, e)
    BY Zenon, <1>5 DEF SamePeers, Syncing
  <1>7. ASSUME mapBlocksInFlight[b] = p => b \in have \/ OpenIn(l, node[p], b)
        PROVE  Sound(e, known, have, chain, {})
    <2>1. mail \in [Peer -> Mail]
      BY Zenon, <1>1, StateFields DEF Sound, Good
    <2>2. e.mail[p] = l /\ \A q \in Peer \ {p} : e.mail[q] = mail[q]
      BY Zenon, <2>1, <1>5
    <2>3. ASSUME NEW q \in Peer, e.inFlight[b] = q PROVE b \in have \/ Open(e, q, b)
      <3>1. CASE q = p
        BY Zenon, <3>1, <2>2, <2>3, <1>1, <1>5, <1>7 DEF Open, OpenIn
      <3>2. CASE q # p
        <4>1. Open(Download, q, b) \/ b \in have
          BY Zenon, <2>3, <1>1, <1>3, <1>5 DEF Came
        <4> QED
          BY Zenon, <4>1, <3>2, <2>2, <1>1, <1>5 DEF Open
      <3> QED
        BY Zenon, <3>1, <3>2
    <2> QED
      BY Zenon, <1>5, <2>3, SoundStronger
  <1> QED
    BY Zenon, <1>1, <1>5, <1>6, <1>7 DEF e

\* A block, a compact block or the rest of one comes from p: nothing else is answered by it.
LEMMA AnswerSound ==
  ASSUME DownloadInv, NEW p \in Peer, NEW b \in Block
  PROVE  LET d == [Download EXCEPT !.mail[p].blocks = @ \ {b}]
             e == [Download EXCEPT !.mail[p].txns = @ \ {b}]
             f == [Download EXCEPT !.mail[p].cmpct = @ \ {b}]
             Answered(g) == /\ Sound(g, known, have, chain, {b}) /\ SamePeers(Download, g)
                            /\ g.inFlight = mapBlocksInFlight /\ g.node = node
         IN  /\ Answered(d) /\ Answered(e) /\ Answered(f)
             /\ (mapBlocksInFlight[b] = p => ~HasPartial(node[p], b)) => Sound(e, known, have, chain, {})
             /\ (mapBlocksInFlight[b] = p => b \in have \/ HasPartial(node[p], b)) =>
                  Sound(f, known, have, chain, {})
  <1> DEFINE m == mail[p]
             l1 == [m EXCEPT !.blocks = m.blocks \ {b}]
             l2 == [m EXCEPT !.txns = m.txns \ {b}]
             l3 == [m EXCEPT !.cmpct = m.cmpct \ {b}]
             d == [Download EXCEPT !.mail[p] = l1]
             e == [Download EXCEPT !.mail[p] = l2]
             f == [Download EXCEPT !.mail[p] = l3]
  <1>1. /\ d = [Download EXCEPT !.mail[p].blocks = @ \ {b}]
        /\ e = [Download EXCEPT !.mail[p].txns = @ \ {b}]
        /\ f = [Download EXCEPT !.mail[p].cmpct = @ \ {b}]
    BY Zenon, DownloadFields
  <1>2. m \in Mail
    <2>1. Download \in DownloadState /\ Download.mail = mail
      BY Zenon, DownloadFields DEF DownloadInv, Sound, Good
    <2>2. mail \in [Peer -> Mail]
      BY Zenon, <2>1, StateFields
    <2> QED
      BY Zenon, <2>2
  <1>3. mapBlocksInFlight[b] = p => Open(Download, p, b) \/ b \in have
    BY Zenon, FlatInv DEF Came
  <1>4. mapBlocksInFlight[b] = p =>
          b \in have \/ b \in m.blocks \/ b \in IF HasPartial(node[p], b) THEN m.txns ELSE m.cmpct
    BY Zenon, <1>3, DownloadFields DEF Open
  <1> DEFINE Less(l) == /\ l.blocks \subseteq m.blocks /\ m.blocks \subseteq l.blocks \cup {b}
                        /\ l.cmpct \subseteq m.cmpct /\ m.cmpct \subseteq l.cmpct \cup {b}
                        /\ l.txns \subseteq m.txns /\ m.txns \subseteq l.txns \cup {b}
             Answered(g) == /\ Sound(g, known, have, chain, {b}) /\ SamePeers(Download, g)
                            /\ g.inFlight = mapBlocksInFlight /\ g.node = node
             Needs(l) == mapBlocksInFlight[b] = p => b \in have \/ OpenIn(l, node[p], b)
  <1>5. \A l \in Mail : Less(l) =>
          /\ Answered([Download EXCEPT !.mail[p] = l])
          /\ Needs(l) => Sound([Download EXCEPT !.mail[p] = l], known, have, chain, {})
    <2> SUFFICES ASSUME NEW l \in Mail, Less(l)
                 PROVE  /\ Answered([Download EXCEPT !.mail[p] = l])
                        /\ Needs(l) => Sound([Download EXCEPT !.mail[p] = l], known, have, chain, {})
      BY Zenon
    <2> QED
      BY Zenon, LessMail
  <1> HIDE DEF m
  <1>6. /\ l1 \in Mail /\ l1.blocks = m.blocks \ {b} /\ l1.txns = m.txns /\ l1.cmpct = m.cmpct
        /\ l2 \in Mail /\ l2.blocks = m.blocks /\ l2.txns = m.txns \ {b} /\ l2.cmpct = m.cmpct
        /\ l3 \in Mail /\ l3.blocks = m.blocks /\ l3.txns = m.txns /\ l3.cmpct = m.cmpct \ {b}
    BY Zenon, <1>2 DEF Mail
  <1> HIDE DEF l1, l2, l3
  <1>7. Less(l1) /\ Less(l2) /\ Less(l3)
    BY Zenon, <1>6
  <1>8. /\ (mapBlocksInFlight[b] = p => ~HasPartial(node[p], b)) => Needs(l2)
        /\ (mapBlocksInFlight[b] = p => b \in have \/ HasPartial(node[p], b)) => Needs(l3)
    BY Zenon, <1>4, <1>6 DEF OpenIn
  <1> HIDE DEF Less, Answered, Needs
  <1>9. /\ Answered(d) /\ Answered(e) /\ Answered(f)
        /\ Needs(l2) => Sound(e, known, have, chain, {})
        /\ Needs(l3) => Sound(f, known, have, chain, {})
    BY Zenon, <1>5, <1>6, <1>7
  <1> HIDE DEF d, e, f
  <1> QED
    BY Zenon, <1>1, <1>8, <1>9 DEF Answered

\* A block has been stored, or not.
LEMMA StoredRooted ==
  ASSUME Rooted(known, have, tip, pindexBestHeader), NEW b, b \in known',
         known \subseteq known', known' \subseteq Block, \A x \in known' : Ancestors[x] \subseteq known',
         pindexBestHeader' \in known',
         (\E r \in BOOLEAN : ProcessNewBlock(b, r)) \/ UNCHANGED chainstate
  PROVE  /\ Rooted(known', have', tip', pindexBestHeader')
         /\ have \subseteq have' /\ have' \subseteq have \cup {b}
  <1>1. have \subseteq have' /\ have' \subseteq have \cup {b} /\ tip' \in have' /\ Ancestors[tip'] \subseteq have'
    <2>1. CASE UNCHANGED chainstate
      BY Zenon, <2>1 DEF Rooted, chainstate
    <2>2. ASSUME NEW r \in BOOLEAN, ProcessNewBlock(b, r)
          PROVE  have \subseteq have' /\ have' \subseteq have \cup {b} /\ tip' \in have' /\ Ancestors[tip'] \subseteq have'
      BY Zenon, <2>2, NewBlockStored
    <2> QED
      BY Zenon, <2>1, <2>2
  <1> QED
    BY Zenon, <1>1 DEF Rooted

\* A message with the block b has been handled: the block is stored and no longer in flight, or
\* nothing is stored.
LEMMA HandledBlock ==
  ASSUME DownloadInv, NEW e, NEW p, Handled(p, e),
         NEW index, known' = index, pindexBestHeader' \in index, known \subseteq index, index \subseteq Block,
         \A x \in index : Ancestors[x] \subseteq index, NEW b \in index,
         (e.inFlight[b] = NULL /\ \E r \in BOOLEAN : ProcessNewBlock(b, r)) \/ UNCHANGED chainstate,
         Sound(e, index, have, chain, {}), SamePeers(Download, e)
  PROVE  DownloadInv'
  <1>1. Rooted(known, have, tip, pindexBestHeader) /\ chain \in [Peer -> Nat]
    BY Zenon DEF DownloadInv, OnChain
  <1>2. Rooted(known', have', tip', pindexBestHeader') /\ have \subseteq have' /\ have' \subseteq have \cup {b}
    BY Zenon, <1>1, StoredRooted
  <1>3. Sound(e, index, have', chain, {})
    <2>1. index \subseteq index /\ \A q \in Peer : chain[q] <= chain[q]
      BY <1>1
    <2>2. \A x \in Block : x \in have' => x \in have \/ e.inFlight[x] = NULL \/ x \in Submitted
      BY Zenon, <1>2 DEF chainstate
    <2> QED
      BY Zenon, <1>1, <1>2, <2>1, <2>2, SoundGrows
  <1> QED
    BY Zenon, <1>2, <1>3, HandledInv

\* MarkBlockAsReceived, when only b may be without an open request.
LEMMA ReceivedAll ==
  ASSUME NEW d, NEW index, NEW stored, NEW c, NEW b \in Block, Sound(d, index, stored, c, {b})
  PROVE  LET e == Received(d, b)
         IN  Sound(e, index, stored, c, {}) /\ SamePeers(d, e) /\ e.inFlight[b] = NULL
  <1> DEFINE e == Received(d, b)
  <1>1. /\ Sound(e, index, stored, c, {b} \ {b}) /\ SamePeers(d, e)
        /\ e.inFlight = [d.inFlight EXCEPT ![b] = NULL]
    BY Zenon, ReceivedSound DEF SamePeers
  <1>2. {b} \ {b} = {} /\ d.inFlight \in [Block -> Peer \cup {NULL}]
    BY Zenon, StateFields DEF Sound, Good
  <1> HIDE DEF e
  <1>3. e.inFlight[b] = NULL
    BY Zenon, <1>1, <1>2
  <1> QED
    BY Zenon, <1>1, <1>2, <1>3 DEF e

\* "block" keeps the invariant: the block is no longer in flight once it has come.
LEMMA BlockMessageStep ==
  ASSUME DownloadInv, NEW p \in Peer, NEW b \in known, NEW d, Sound(d, known, have, chain, {b}),
         SamePeers(Download, d), BlockMessage(d, p, b)
  PROVE  DownloadInv'
  <1> DEFINE e == Received(d, b)
             r == d.inFlight[b] # NULL \/ (p \in Whitelisted /\ CanDirectFetch)
  <1>1. Handled(p, e) /\ ProcessNewBlock(b, r) /\ UNCHANGED <<known, pindexBestHeader>>
    BY Zenon DEF BlockMessage
  <1>2. r \in BOOLEAN
    BY Zenon
  <1>3. Rooted(known, have, tip, pindexBestHeader) /\ b \in Block
    BY Zenon DEF DownloadInv, Rooted
  <1> HIDE DEF r
  <1>4. Sound(e, known, have, chain, {}) /\ SamePeers(d, e) /\ e.inFlight[b] = NULL
    BY Zenon, <1>3, ReceivedAll
  <1> HIDE DEF e
  <1>5. SamePeers(Download, e)
    BY Zenon, <1>4, SamePeersTrans
  <1> QED
    BY Zenon, <1>1, <1>2, <1>3, <1>4, <1>5, HandledBlock DEF Rooted

\* So does a block that was asked for.
LEMMA BlockArrivesStep ==
  ASSUME DownloadInv, NEW p \in Peer, NEW b \in mail[p].blocks, BlockArrives(p, b)
  PROVE  DownloadInv'
  <1> DEFINE d == [Download EXCEPT !.mail[p].blocks = @ \ {b}]
  <1>1. BlockMessage(d, p, b)
    BY Zenon DEF BlockArrives
  <1>2. b \in known /\ b \in Block
    BY Zenon, DownloadFields DEF DownloadInv, Sound, MailOK, Rooted
  <1>3. Sound(d, known, have, chain, {b}) /\ SamePeers(Download, d)
    BY Zenon, <1>2, AnswerSound
  <1> HIDE DEF d
  <1> QED
    BY Zenon, <1>1, <1>2, <1>3, BlockMessageStep

\* "blocktxn" keeps the invariant in all its three outcomes.
LEMMA BlockTxnStep ==
  ASSUME DownloadInv, NEW p \in Peer, NEW b \in mail[p].txns, NEW status, BlockTxn(p, b, status)
  PROVE  DownloadInv'
  <1> DEFINE d == [Download EXCEPT !.mail[p].txns = @ \ {b}]
             expected == mapBlocksInFlight[b] = p /\ HasPartial(node[p], b)
             f == Received(d, b)
             g == GetData(d, p, {b})
             h == [Received(d, b) EXCEPT !.node[p].ban = TRUE]
  <1>1. Connected(p) /\ UNCHANGED <<known, pindexBestHeader>>
    BY Zenon DEF BlockTxn, Handled
  <1>2. \/ ~expected /\ Handled(p, d) /\ UNCHANGED chainstate
        \/ expected /\ \/ Handled(p, f) /\ ProcessNewBlock(b, TRUE)
                       \/ (Handled(p, g) \/ Handled(p, h)) /\ UNCHANGED chainstate
    BY Zenon DEF BlockTxn
  <1>3. Rooted(known, have, tip, pindexBestHeader) /\ b \in known /\ b \in Block
    BY Zenon, DownloadFields DEF DownloadInv, Sound, MailOK, Rooted
  <1>4. Sound(d, known, have, chain, {b}) /\ SamePeers(Download, d) /\ d.inFlight = mapBlocksInFlight
        /\ (~expected => Sound(d, known, have, chain, {}))
    BY Zenon, <1>3, AnswerSound
  <1>5. p \in DOMAIN d.node
    BY Zenon, <1>1, <1>4, PeerFacts DEF SamePeers
  <1> HIDE DEF d
  <1>6. ASSUME NEW e, Handled(p, e), Sound(e, known, have, chain, {}), SamePeers(d, e),
               (e.inFlight[b] = NULL /\ ProcessNewBlock(b, TRUE)) \/ UNCHANGED chainstate
        PROVE  DownloadInv'
    <2>1. SamePeers(Download, e) /\ TRUE \in BOOLEAN
      BY Zenon, <1>4, <1>6, SamePeersTrans
    <2> QED
      BY Zenon, <1>1, <1>3, <1>6, <2>1, HandledBlock DEF Rooted
  <1>7. CASE ~expected
    <2>1. SamePeers(d, d)
      BY Zenon DEF SamePeers
    <2> QED
      BY Zenon, <1>2, <1>4, <1>6, <1>7, <2>1
  <1>8. CASE expected
    <2>1. Sound(f, known, have, chain, {}) /\ SamePeers(d, f) /\ f.inFlight[b] = NULL
      BY Zenon, <1>3, <1>4, ReceivedAll
    <2>2. p \in DOMAIN f.node
      BY Zenon, <2>1, <1>5 DEF SamePeers
    <2>3. h = [f EXCEPT !.node[p].ban = TRUE]
      BY Zenon
    <2> HIDE DEF f
    <2>4. Sound(h, known, have, chain, {}) /\ SamePeers(f, h)
      BY Zenon, <2>1, <2>2, <2>3, FlagsSound
    <2>5. Sound(g, known, have, chain, {}) /\ SamePeers(d, g)
      <3>1. {b} \in SUBSET known /\ \A x \in {b} : x \in {b} /\ d.inFlight[x] = p
        BY Zenon, <1>3, <1>4, <1>8
      <3>2. known \subseteq Block
        BY Zenon, <1>3 DEF Rooted
      <3> QED
        BY <1>4, <3>1, <3>2, GetDataSound
    <2> HIDE DEF g, h
    <2>6. SamePeers(d, h)
      BY Zenon, <2>1, <2>4, SamePeersTrans
    <2> QED
      BY Zenon, <1>2, <1>6, <1>8, <2>1, <2>4, <2>5, <2>6
  <1> QED
    BY Zenon, <1>7, <1>8

\* A block from elsewhere keeps the invariant; what is in flight stays in flight.
LEMMA SubmitBlockStep ==
  ASSUME DownloadInv, NEW b \in Block \ {Genesis}, SubmitBlock(b)
  PROVE  DownloadInv'
  <1> DEFINE index == known \cup {b}
  <1>1. /\ b \in Submitted /\ pprev[b] \in known /\ Indexed(index) /\ ProcessNewBlock(b, TRUE) /\ UNCHANGED <<node, mapBlocksInFlight, nPeersWithValidatedDownloads, nPreferredDownload,
                 nSyncStarted, chain, mail>>
    BY Zenon DEF SubmitBlock
  <1>2. Rooted(known, have, tip, pindexBestHeader) /\ chain \in [Peer -> Nat]
    BY Zenon DEF DownloadInv, OnChain
  <1>3. index \in SUBSET Block /\ \A x \in index : Ancestors[x] \subseteq index
    BY Zenon, <1>1, <1>2, NextBlock DEF Rooted
  <1>4. known' = index /\ pindexBestHeader' \in index
    BY Zenon, <1>1, <1>2, IndexedBest DEF Rooted
  <1>5. Rooted(known', have', tip', pindexBestHeader') /\ have \subseteq have' /\ have' \subseteq have \cup {b}
    <2>1. \E r \in BOOLEAN : ProcessNewBlock(b, r)
      BY <1>1, Zenon
    <2> QED
      BY Zenon, <1>2, <1>3, <1>4, <2>1, StoredRooted
  <1>6. Download' = Download /\ Nodes' = Nodes
    BY Zenon, <1>1 DEF Download, Nodes
  <1>7. Sound(Download, index, have', chain, {})
    <2>1. known \subseteq index /\ \A q \in Peer : chain[q] <= chain[q]
      BY <1>2
    <2>2. Sound(Download, known, have, chain, {})
      BY Zenon DEF DownloadInv
    <2>3. \A x \in Block : x \in have' => x \in have \/ Download.inFlight[x] = NULL \/ x \in Submitted
      BY Zenon, <1>1, <1>5
    <2> HIDE DEF index
    <2> QED
      BY Zenon, <1>2, <1>5, <2>1, <2>2, <2>3, SoundGrows
  <1> HIDE DEF index
  <1> QED
    BY Zenon, <1>1, <1>4, <1>5, <1>6, <1>7 DEF DownloadInv
=============================================================================
