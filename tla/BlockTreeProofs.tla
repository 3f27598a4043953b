--------------------------- MODULE BlockTreeProofs ---------------------------
(***************************************************************************)
(* What holds in every tree of blocks: heights grow along a chain, a chain *)
(* has one block of each height, two chains have a highest block in        *)
(* common.  The proofs are by induction on the height.                     *)
(***************************************************************************)
EXTENDS BlockTree, FiniteSetTheorems, TLAPS

\* Every set of naturals has a least element; inductions below look at a least
\* counterexample.
LEMMA LeastNatural ==
  ASSUME NEW T \in SUBSET Nat, T # {}
  PROVE  \E m \in T : \A n \in T : m <= n
  <1> DEFINE Segments == {1..n : n \in T}
             R == StrictSubsetOrdering(Nat)
  <1>1. Segments \subseteq FiniteSubsetsOf(Nat) /\ Segments # {}
    <2>1. \A n \in T : IsFiniteSet(1..n) /\ 1..n \subseteq Nat
      BY FS_Interval
    <2> QED
      BY <2>1 DEF FiniteSubsetsOf
  <1>2. PICK s \in Segments : \A t \in Segments : ~(<<t, s>> \in R)
    BY <1>1, WFMin, FS_StrictSubsetOrderingWellFounded
  <1>3. PICK m \in T : s = 1..m
    BY <1>2
  <1>4. ASSUME NEW n \in T, ~(m <= n) PROVE FALSE
    <2>1. n \in Nat /\ m \in Nat /\ n < m
      BY <1>4
    <2>2. 1..n \subseteq 1..m /\ m \in 1..m /\ m \notin 1..n
      BY <2>1
    <2>3. <<1..n, 1..m>> \in R
      BY <2>1, <2>2 DEF StrictSubsetOrdering
    <2> QED
      BY <2>3, <1>2, <1>3
  <1> QED
    BY <1>4

\* The step from a block to the next, and the genesis.
LEMMA NextBlock ==
  \A b \in Block \ {Genesis} :
    /\ pprev[b] \in Block
    /\ Ancestors[b] = Ancestors[pprev[b]] \cup {b}
    /\ nHeight[b] = nHeight[pprev[b]] + 1
  BY BlockTreeAssumption

\* The first block has no predecessor.
LEMMA FirstBlock == Genesis \in Block /\ Ancestors[Genesis] = {Genesis} /\ nHeight[Genesis] = 0
  BY BlockTreeAssumption

\* Induction along chains: what holds of the genesis, and of a block if it does of the
\* block before, holds of all blocks.
LEMMA ChainInduction ==
  ASSUME NEW S \in SUBSET Block, Genesis \in S,
         \A b \in Block \ {Genesis} : pprev[b] \in S => b \in S
  PROVE  S = Block
  <1> DEFINE T == {nHeight[c] : c \in Block \ S}
  <1> SUFFICES ASSUME Block \ S # {} PROVE FALSE
    OBVIOUS
  <1>1. T \in SUBSET Nat /\ T # {}
    BY BlockTreeAssumption
  <1>2. PICK m \in T : \A n \in T : m <= n
    BY <1>1, LeastNatural
  <1>3. PICK c \in Block \ S : nHeight[c] = m
    BY <1>2
  <1>4. c # Genesis /\ pprev[c] \in Block \ S /\ nHeight[c] = nHeight[pprev[c]] + 1
    BY <1>3, BlockTreeAssumption
  <1>5. nHeight[pprev[c]] \in T /\ nHeight[pprev[c]] \in Nat
    BY <1>4, BlockTreeAssumption
  <1>6. m <= nHeight[pprev[c]]
    BY <1>2, <1>5
  <1> QED
    BY <1>3, <1>4, <1>5, <1>6

\* Below a block are blocks of less height.
LEMMA HeightsGrow ==
  \A b \in Block : \A a \in Ancestors[b] : a = b \/ nHeight[a] < nHeight[b]
  <1> DEFINE S == {b \in Block : \A a \in Ancestors[b] : a = b \/ nHeight[a] < nHeight[b]}
  <1>1. Genesis \in S
    BY BlockTreeAssumption
  <1>2. ASSUME NEW b \in Block \ {Genesis}, pprev[b] \in S PROVE b \in S
    <2>1. /\ pprev[b] \in Block /\ nHeight[b] = nHeight[pprev[b]] + 1
          /\ nHeight[pprev[b]] \in Nat
      BY BlockTreeAssumption
    <2>2. \A a \in Ancestors[b] : a = b \/ a \in Ancestors[pprev[b]]
      BY NextBlock
    <2>3. \A a \in Ancestors[b] : nHeight[a] \in Nat
      BY BlockTreeAssumption
    <2>4. ASSUME NEW a \in Ancestors[pprev[b]] PROVE a = pprev[b] \/ nHeight[a] < nHeight[pprev[b]]
      BY <1>2
    <2>5. ASSUME NEW a \in Ancestors[b], a # b PROVE nHeight[a] < nHeight[b]
      BY <2>1, <2>2, <2>3, <2>4, <2>5
    <2> QED
      BY <2>5
  <1> HIDE DEF S
  <1>3. S = Block
    <2>1. S \in SUBSET Block
      BY DEF S
    <2> QED
      BY <1>1, <1>2, <2>1, ChainInduction
  <1> QED
    BY <1>3 DEF S

\* A block is on its own chain.
LEMMA SelfAncestor == \A b \in Block : b \in Ancestors[b]
  <1>1. ASSUME NEW b \in Block, b # Genesis PROVE b \in Ancestors[b]
    BY <1>1, NextBlock
  <1> QED
    BY <1>1, FirstBlock

\* A chain has one block of each height.
LEMMA HeightsDistinct ==
  \A b \in Block : \A a, c \in Ancestors[b] : nHeight[a] = nHeight[c] => a = c
  <1> SUFFICES ASSUME NEW b \in Block, NEW a \in Ancestors[b], NEW c \in Ancestors[b],
                      nHeight[a] = nHeight[c]
               PROVE  a = c
    OBVIOUS
  <1>1. a \in Block /\ c \in Block /\ (a \in Ancestors[c] \/ c \in Ancestors[a])
    BY BlockTreeAssumption
  <1>2. nHeight[a] \in Nat /\ nHeight[c] \in Nat
    BY <1>1, BlockTreeAssumption
  <1> QED
    BY <1>1, <1>2, HeightsGrow

\* Of two blocks of a chain, the one that is not higher is below the other.
LEMMA LowerIsAncestor ==
  ASSUME NEW b \in Block, NEW a \in Ancestors[b], NEW c \in Ancestors[b], nHeight[a] <= nHeight[c]
  PROVE  a \in Ancestors[c]
  <1>1. a \in Block /\ c \in Block /\ (a \in Ancestors[c] \/ c \in Ancestors[a])
    BY BlockTreeAssumption
  <1>2. nHeight[a] \in Nat /\ nHeight[c] \in Nat
    BY <1>1, BlockTreeAssumption
  <1>3. CASE c \in Ancestors[a]
    BY <1>1, <1>2, <1>3, HeightsGrow, SelfAncestor
  <1> QED
    BY <1>1, <1>3

\* There is a block of every height up to that of the last one: CBlockIndex::GetAncestor
\* finds it.
LEMMA HeightsFilled ==
  \A b \in Block : \A h \in 0..nHeight[b] : \E a \in Ancestors[b] : nHeight[a] = h
  <1> DEFINE S == {b \in Block : \A h \in 0..nHeight[b] : \E a \in Ancestors[b] : nHeight[a] = h}
  <1>1. Genesis \in S
    BY BlockTreeAssumption
  <1>2. ASSUME NEW b \in Block \ {Genesis}, pprev[b] \in S PROVE b \in S
    <2>1. /\ pprev[b] \in Block /\ nHeight[b] = nHeight[pprev[b]] + 1
          /\ nHeight[pprev[b]] \in Nat /\ Ancestors[b] = Ancestors[pprev[b]] \cup {b}
      BY BlockTreeAssumption
    <2>2. ASSUME NEW h \in 0..nHeight[b] PROVE \E a \in Ancestors[b] : nHeight[a] = h
      <3>1. CASE h = nHeight[b]
        BY <3>1, <2>1
      <3>2. CASE h # nHeight[b]
        <4>1. h \in 0..nHeight[pprev[b]]
          BY <3>2, <2>1
        <4>2. \E a \in Ancestors[pprev[b]] : nHeight[a] = h
          BY <4>1, <1>2
        <4> QED
          BY <4>2, <2>1
      <3> QED
        BY <3>1, <3>2
    <2> QED
      BY <2>2
  <1> HIDE DEF S
  <1>3. S = Block
    <2>1. S \in SUBSET Block
      BY DEF S
    <2> QED
      BY <1>1, <1>2, <2>1, ChainInduction
  <1> QED
    BY <1>3 DEF S

\* CBlockIndex::GetAncestor returns the block of that height on the chain.
LEMMA GetAncestorExact ==
  ASSUME NEW b \in Block, NEW h \in 0..nHeight[b]
  PROVE  GetAncestor(b, h) \in Ancestors[b] /\ nHeight[GetAncestor(b, h)] = h
  BY HeightsFilled DEF GetAncestor

\* Chains are finite.
LEMMA ChainsFinite == \A b \in Block : IsFiniteSet(Ancestors[b])
  <1> DEFINE S == {b \in Block : IsFiniteSet(Ancestors[b])}
  <1>1. Genesis \in S
    BY FS_Singleton, FirstBlock
  <1>2. ASSUME NEW b \in Block \ {Genesis}, pprev[b] \in S PROVE b \in S
    <2>1. Ancestors[b] = Ancestors[pprev[b]] \cup {b}
      BY BlockTreeAssumption
    <2>2. IsFiniteSet(Ancestors[pprev[b]])
      BY <1>2
    <2> QED
      BY <2>1, <2>2, FS_AddElement
  <1> HIDE DEF S
  <1>3. S = Block
    <2>1. S \in SUBSET Block
      BY DEF S
    <2> QED
      BY <1>1, <1>2, <2>1, ChainInduction
  <1> QED
    BY <1>3 DEF S

\* Blocks of one chain have a highest one, above which all others are.
LEMMA HighestExists ==
  ASSUME NEW b \in Block, NEW bs \in SUBSET Ancestors[b], bs # {}
  PROVE  \E f \in bs : (\A c \in bs : nHeight[c] <= nHeight[f]) /\ bs \subseteq Ancestors[f]
  <1> DEFINE T == {nHeight[b] - nHeight[c] : c \in bs}
  <1>1. nHeight[b] \in Nat /\ \A c \in bs : c \in Block /\ nHeight[c] \in Nat /\ nHeight[c] <= nHeight[b]
    <2>1. nHeight[b] \in Nat /\ \A c \in bs : c \in Block /\ nHeight[c] \in Nat
      BY BlockTreeAssumption
    <2> QED
      BY <2>1, HeightsGrow
  <1>2. T \in SUBSET Nat /\ T # {}
    BY <1>1
  <1>3. PICK m \in T : \A n \in T : m <= n
    BY <1>2, LeastNatural
  <1>4. PICK f \in bs : m = nHeight[b] - nHeight[f]
    BY <1>3
  <1>5. ASSUME NEW c \in bs PROVE nHeight[c] <= nHeight[f]
    <2>1. m <= nHeight[b] - nHeight[c]
      BY <1>3
    <2> QED
      BY <2>1, <1>4, <1>1
  <1>6. ASSUME NEW c \in bs PROVE c \in Ancestors[f]
    BY <1>5, LowerIsAncestor
  <1> QED
    BY <1>5, <1>6

\* Blocks have a lowest one.
LEMMA LowestExists ==
  ASSUME NEW bs \in SUBSET Block, bs # {}
  PROVE  \E f \in bs : \A c \in bs : nHeight[f] <= nHeight[c]
  <1> DEFINE T == {nHeight[c] : c \in bs}
  <1>1. T \in SUBSET Nat /\ T # {}
    BY BlockTreeAssumption
  <1>2. PICK m \in T : \A n \in T : m <= n
    BY <1>1, LeastNatural
  <1> QED
    BY <1>2

\* Two chains have a highest block in common; HighestCommon names it.
HighestCommon(a, b) ==
  CHOOSE f \in Ancestors[a] \cap Ancestors[b] : Ancestors[a] \cap Ancestors[b] = Ancestors[f]

LEMMA CommonExists ==
  ASSUME NEW a \in Block, NEW b \in Block
  PROVE  /\ HighestCommon(a, b) \in Ancestors[a] \cap Ancestors[b]
         /\ Ancestors[a] \cap Ancestors[b] = Ancestors[HighestCommon(a, b)]
  <1> DEFINE common == Ancestors[a] \cap Ancestors[b]
  <1>1. common # {} /\ common \in SUBSET Ancestors[b]
    BY BlockTreeAssumption
  <1>2. PICK f \in common : common \subseteq Ancestors[f]
    <2> HIDE DEF common
    <2> QED
      BY <1>1, HighestExists
  <1>3. Ancestors[f] \subseteq common
    BY <1>2, BlockTreeAssumption
  <1> QED
    BY <1>2, <1>3 DEF HighestCommon

\* It is the only block with what both chains share below it.
LEMMA CommonUnique ==
  ASSUME NEW a \in Block, NEW b \in Block, NEW f \in Block, NEW g \in Block,
         Ancestors[a] \cap Ancestors[b] = Ancestors[f], Ancestors[a] \cap Ancestors[b] = Ancestors[g]
  PROVE  f = g
  <1>1. f \in Ancestors[g] /\ g \in Ancestors[f]
    BY SelfAncestor
  <1>2. nHeight[f] \in Nat /\ nHeight[g] \in Nat
    BY BlockTreeAssumption
  <1> QED
    BY <1>1, <1>2, HeightsGrow

\* Where b is not on the chain of a, nothing changes when the block before takes its place.
LEMMA CommonBefore ==
  ASSUME NEW a \in Block, NEW b \in Block, b \notin Ancestors[a]
  PROVE  /\ b # Genesis /\ pprev[b] \in Block
         /\ Ancestors[a] \cap Ancestors[b] = Ancestors[a] \cap Ancestors[pprev[b]]
  <1>1. b # Genesis
    BY BlockTreeAssumption
  <1> QED
    BY <1>1, NextBlock

\* The walk of CChain::FindFork ends, at the highest block of the chain of t that is below
\* the block it started from.
LEMMA BackToChain ==
  ASSUME NEW t \in Block
  PROVE  LET back[pindex \in BlockOrNull] ==
               IF pindex = NULL \/ Contains(t, pindex) THEN pindex ELSE back[pprev[pindex]]
         IN  /\ back[NULL] = NULL
             /\ \A b \in Block : back[b] = HighestCommon(t, b)
  <1> DEFINE IsBack(f) ==
               f = [pindex \in BlockOrNull |->
                      IF pindex = NULL \/ Contains(t, pindex) THEN pindex ELSE f[pprev[pindex]]]
             back == CHOOSE f : IsBack(f)
             found == [pindex \in BlockOrNull |->
                         IF pindex = NULL THEN NULL ELSE HighestCommon(t, pindex)]
  <1>0. NULL \notin Block /\ NULL \in BlockOrNull /\ Block \subseteq BlockOrNull
    BY BlockTreeAssumption DEF BlockOrNull
  <1>1. ASSUME NEW b \in Block, Contains(t, b) PROVE HighestCommon(t, b) = b
    <2>1. Ancestors[t] \cap Ancestors[b] = Ancestors[b]
      BY <1>1, BlockTreeAssumption DEF Contains
    <2>2. HighestCommon(t, b) \in Block
      BY CommonExists, BlockTreeAssumption
    <2> QED
      BY <2>1, <2>2, CommonExists, CommonUnique
  <1>2. ASSUME NEW b \in Block, ~Contains(t, b)
        PROVE  pprev[b] \in Block /\ HighestCommon(t, b) = HighestCommon(t, pprev[b])
    <2>1. pprev[b] \in Block /\ Ancestors[t] \cap Ancestors[b] = Ancestors[t] \cap Ancestors[pprev[b]]
      BY <1>2, CommonBefore DEF Contains
    <2> QED
      BY <2>1 DEF HighestCommon
  <1>3. IsBack(found)
    <2> SUFFICES ASSUME NEW p \in BlockOrNull
                 PROVE  found[p] = IF p = NULL \/ Contains(t, p) THEN p ELSE found[pprev[p]]
      OBVIOUS
    <2>1. CASE p = NULL
      BY <2>1, <1>0
    <2>2. CASE p # NULL /\ Contains(t, p)
      <3>1. p \in Block
        BY <2>2 DEF BlockOrNull
      <3> QED
        BY <2>2, <3>1, <1>1, <1>0
    <2>3. CASE p # NULL /\ ~Contains(t, p)
      <3>1. p \in Block
        BY <2>3 DEF BlockOrNull
      <3>2. pprev[p] \in Block /\ HighestCommon(t, p) = HighestCommon(t, pprev[p])
        BY <2>3, <3>1, <1>2
      <3>3. pprev[p] # NULL /\ pprev[p] \in BlockOrNull
        BY <3>2, <1>0
      <3>4. found[pprev[p]] = HighestCommon(t, pprev[p]) /\ found[p] = HighestCommon(t, p)
        BY <3>3, <2>3
      <3> QED
        BY <2>3, <3>2, <3>4
    <2> QED
      BY <2>1, <2>2, <2>3
  <1> HIDE DEF found
  <1>4. IsBack(back)
    BY <1>3
  <1> HIDE DEF back
  <1>5. \A p \in BlockOrNull : back[p] = IF p = NULL \/ Contains(t, p) THEN p ELSE back[pprev[p]]
    BY <1>4
  <1> DEFINE S == {b \in Block : back[b] = HighestCommon(t, b)}
  <1>6. Genesis \in S
    BY <1>5, <1>0, <1>1, BlockTreeAssumption DEF Contains
  <1>7. ASSUME NEW b \in Block \ {Genesis}, pprev[b] \in S PROVE b \in S
    <2>1. CASE Contains(t, b)
      BY <2>1, <1>5, <1>0, <1>1
    <2>2. CASE ~Contains(t, b)
      <3>1. back[b] = back[pprev[b]]
        BY <2>2, <1>5, <1>0
      <3> QED
        BY <3>1, <2>2, <1>2, <1>7
    <2> QED
      BY <2>1, <2>2
  <1> HIDE DEF S
  <1>8. S = Block
    <2>1. S \in SUBSET Block
      BY DEF S
    <2> QED
      BY <1>6, <1>7, <2>1, ChainInduction
  <1>9. back[NULL] = NULL /\ \A b \in Block : back[b] = HighestCommon(t, b)
    BY <1>8, <1>5, <1>0 DEF S
  <1> QED
    BY <1>9 DEF back

\* A chain cut to the height of another has the same blocks in common with it.
LEMMA CutExact ==
  ASSUME NEW t \in Block, NEW b \in Block, nHeight[b] > nHeight[t]
  PROVE  /\ GetAncestor(b, nHeight[t]) \in Block
         /\ nHeight[GetAncestor(b, nHeight[t])] = nHeight[t]
         /\ Ancestors[t] \cap Ancestors[GetAncestor(b, nHeight[t])] = Ancestors[t] \cap Ancestors[b]
  <1> DEFINE c == GetAncestor(b, nHeight[t])
  <1>0. nHeight[t] \in Nat /\ nHeight[b] \in Nat
    BY BlockTreeAssumption
  <1>1. c \in Ancestors[b] /\ nHeight[c] = nHeight[t]
    BY <1>0, GetAncestorExact
  <1> HIDE DEF c
  <1>2. c \in Block /\ Ancestors[c] \subseteq Ancestors[b]
    BY <1>1, BlockTreeAssumption
  <1>3. ASSUME NEW d \in Ancestors[t] \cap Ancestors[b] PROVE d \in Ancestors[c]
    <2>1. d \in Block /\ nHeight[d] \in Nat
      BY BlockTreeAssumption
    <2>2. nHeight[d] <= nHeight[c]
      BY <2>1, <1>0, <1>1, HeightsGrow
    <2> QED
      BY <2>2, <1>1, LowerIsAncestor
  <1> QED
    BY <1>1, <1>2, <1>3 DEF c

\* CChain::FindFork, which cuts the other chain to the height of the active one and goes
\* back, always finds a block, and it is the highest that the chains share.
THEOREM FindForkExact ==
  ASSUME NEW t \in Block, NEW b \in Block
  PROVE  /\ FindFork(t, b) \in Ancestors[t] \cap Ancestors[b]
         /\ Ancestors[t] \cap Ancestors[b] = Ancestors[FindFork(t, b)]
  <1> DEFINE start == IF b # NULL /\ nHeight[b] > nHeight[t] THEN GetAncestor(b, nHeight[t]) ELSE b
  <1>1. start \in Block /\ Ancestors[t] \cap Ancestors[start] = Ancestors[t] \cap Ancestors[b]
    BY CutExact, BlockTreeAssumption
  <1>2. FindFork(t, b) = HighestCommon(t, start)
    <2> HIDE DEF start
    <2>1. LET back[pindex \in BlockOrNull] ==
                IF pindex = NULL \/ Contains(t, pindex) THEN pindex ELSE back[pprev[pindex]]
          IN  back[start] = HighestCommon(t, start)
      BY <1>1, BackToChain
    <2> QED
      BY <2>1 DEF FindFork, start
  <1> HIDE DEF start
  <1>3. /\ HighestCommon(t, start) \in Ancestors[t] \cap Ancestors[start]
        /\ Ancestors[t] \cap Ancestors[start] = Ancestors[HighestCommon(t, start)]
    BY <1>1, CommonExists
  <1> QED
    BY <1>1, <1>2, <1>3

\* The walk of LastCommonAncestor: from blocks of one height it ends where the chains meet.
LEMMA BackTogether ==
  LET back[q \in BlockOrNull \X BlockOrNull] ==
        IF q[1] = q[2] \/ q[1] = NULL \/ q[2] = NULL THEN q[1]
        ELSE back[<<pprev[q[1]], pprev[q[2]]>>]
  IN  \A a, b \in Block : nHeight[a] = nHeight[b] => back[<<a, b>>] = HighestCommon(a, b)
  <1> DEFINE Step(f, q) == IF q[1] = q[2] \/ q[1] = NULL \/ q[2] = NULL THEN q[1]
                           ELSE f[<<pprev[q[1]], pprev[q[2]]>>]
             IsBack(f) == f = [q \in BlockOrNull \X BlockOrNull |-> Step(f, q)]
             back == CHOOSE f : IsBack(f)
             Found(a, b) == IF a = NULL \/ b = NULL THEN a
                            ELSE IF nHeight[a] = nHeight[b] THEN HighestCommon(a, b)
                            ELSE IF nHeight[a] < nHeight[b] THEN NULL
                            ELSE GetAncestor(a, nHeight[a] - nHeight[b] - 1)
             found == [q \in BlockOrNull \X BlockOrNull |-> Found(q[1], q[2])]
  <1>0. NULL \notin Block /\ NULL \in BlockOrNull /\ Block \subseteq BlockOrNull /\ pprev[Genesis] = NULL
        /\ nHeight \in [Block -> Nat] /\ Genesis \in Block
    BY BlockTreeAssumption DEF BlockOrNull
  <1>1. ASSUME NEW a \in Block PROVE HighestCommon(a, a) = a
    <2>1. HighestCommon(a, a) \in Block
      BY CommonExists, BlockTreeAssumption
    <2> QED
      BY <2>1, CommonExists, CommonUnique
  <1>2. ASSUME NEW a \in Block, NEW b \in Block, a # b, nHeight[a] = nHeight[b]
        PROVE  /\ a # Genesis /\ b # Genesis /\ pprev[a] \in Block /\ pprev[b] \in Block
               /\ nHeight[pprev[a]] = nHeight[pprev[b]]
               /\ HighestCommon(a, b) = HighestCommon(pprev[a], pprev[b])
    <2>1. a \notin Ancestors[b] /\ b \notin Ancestors[a]
      BY <1>2, <1>0, HeightsGrow
    <2>2. /\ a # Genesis /\ b # Genesis /\ pprev[a] \in Block /\ pprev[b] \in Block
          /\ Ancestors[a] \cap Ancestors[b] = Ancestors[pprev[a]] \cap Ancestors[pprev[b]]
      BY <2>1, NextBlock, BlockTreeAssumption
    <2>3. nHeight[pprev[a]] = nHeight[pprev[b]]
      BY <2>2, <1>2, <1>0, NextBlock
    <2> QED
      BY <2>2, <2>3 DEF HighestCommon
  <1>3. ASSUME NEW a \in BlockOrNull, NEW b \in BlockOrNull
        PROVE  Found(a, b) = IF a = b \/ a = NULL \/ b = NULL THEN a ELSE Found(pprev[a], pprev[b])
    <2>1. CASE a = NULL \/ b = NULL
      BY <2>1
    <2>2. CASE a \in Block /\ a = b
      BY <2>2, <1>0, <1>1
    <2>3. CASE a \in Block /\ b \in Block /\ a # b /\ nHeight[a] = nHeight[b]
      BY <2>3, <1>2, <1>0
    <2>4. CASE a \in Block /\ b \in Block /\ nHeight[a] < nHeight[b]
      <3>1. b # Genesis /\ pprev[b] \in Block /\ nHeight[b] = nHeight[pprev[b]] + 1
        BY <2>4, <1>0, FirstBlock, NextBlock
      <3>2. CASE a = Genesis
        BY <3>1, <3>2, <2>4, <1>0
      <3>3. CASE a # Genesis
        <4>1. pprev[a] \in Block /\ nHeight[a] = nHeight[pprev[a]] + 1
          BY <3>3, <2>4, NextBlock
        <4>2. nHeight[pprev[a]] < nHeight[pprev[b]]
          BY <4>1, <3>1, <2>4, <1>0
        <4>3. Found(pprev[a], pprev[b]) = NULL
          BY <4>1, <3>1, <4>2, <1>0
        <4>4. a # b /\ a # NULL /\ b # NULL /\ Found(a, b) = NULL
          BY <2>4, <1>0
        <4> QED
          BY <4>3, <4>4
      <3> QED
        BY <3>2, <3>3
    <2>5. CASE a \in Block /\ b \in Block /\ nHeight[a] > nHeight[b]
      <3>1. a # Genesis /\ pprev[a] \in Block /\ nHeight[a] = nHeight[pprev[a]] + 1
        BY <2>5, <1>0, FirstBlock, NextBlock
      <3>2. /\ a # b /\ a # NULL /\ b # NULL
            /\ Found(a, b) = GetAncestor(a, nHeight[a] - nHeight[b] - 1)
        BY <2>5, <1>0
      <3>3. CASE b = Genesis
        <4>1. nHeight[a] - nHeight[b] - 1 = nHeight[pprev[a]]
          BY <3>1, <3>3, <1>0, FirstBlock
        <4>2. pprev[a] \in Ancestors[a]
          BY <3>1, <2>5, NextBlock, SelfAncestor
        <4>3. /\ nHeight[pprev[a]] \in 0..nHeight[a]
          BY <3>1, <2>5, <1>0
        <4>4. GetAncestor(a, nHeight[pprev[a]]) = pprev[a]
          <5>1. /\ GetAncestor(a, nHeight[pprev[a]]) \in Ancestors[a]
                /\ nHeight[GetAncestor(a, nHeight[pprev[a]])] = nHeight[pprev[a]]
            BY <4>3, <2>5, GetAncestorExact
          <5> QED
            BY <5>1, <4>2, <2>5, HeightsDistinct
        <4>5. Found(pprev[a], pprev[b]) = pprev[a]
          BY <3>3, <1>0
        <4> QED
          BY <3>2, <4>1, <4>4, <4>5
      <3>4. CASE b # Genesis
        <4>1. pprev[b] \in Block /\ nHeight[b] = nHeight[pprev[b]] + 1
          BY <3>4, <2>5, NextBlock
        <4>2. /\ nHeight[pprev[a]] > nHeight[pprev[b]]
              /\ nHeight[a] - nHeight[b] - 1 = nHeight[pprev[a]] - nHeight[pprev[b]] - 1
          BY <4>1, <3>1, <2>5, <1>0
        <4> DEFINE h == nHeight[a] - nHeight[b] - 1
        <4>3. h \in 0..nHeight[pprev[a]] /\ h \in 0..nHeight[a]
          BY <4>1, <3>1, <2>5, <1>0
        <4>4. Found(pprev[a], pprev[b]) = GetAncestor(pprev[a], h)
          BY <4>1, <4>2, <3>1, <1>0
        <4> HIDE DEF h
        <4>5. GetAncestor(pprev[a], h) \in Ancestors[pprev[a]] /\ nHeight[GetAncestor(pprev[a], h)] = h
          BY <4>3, <3>1, GetAncestorExact
        <4>6. GetAncestor(a, h) \in Ancestors[a] /\ nHeight[GetAncestor(a, h)] = h
          BY <4>3, <2>5, GetAncestorExact
        <4>7. GetAncestor(pprev[a], h) \in Ancestors[a]
          BY <4>5, <3>1, <2>5, NextBlock
        <4>8. GetAncestor(pprev[a], h) = GetAncestor(a, h)
          BY <4>5, <4>6, <4>7, <2>5, HeightsDistinct
        <4> QED
          BY <4>4, <4>8, <3>2 DEF h
      <3> QED
        BY <3>3, <3>4
    <2>6. (a = NULL \/ a \in Block) /\ (b = NULL \/ b \in Block)
      BY DEF BlockOrNull
    <2>7. a \in Block /\ b \in Block =>
            nHeight[a] = nHeight[b] \/ nHeight[a] < nHeight[b] \/ nHeight[a] > nHeight[b]
      BY <1>0
    <2> HIDE DEF Found
    <2> QED
      BY <2>1, <2>2, <2>3, <2>4, <2>5, <2>6, <2>7
  <1> HIDE DEF Found
  <1>4. IsBack(found)
    <2> SUFFICES ASSUME NEW q \in BlockOrNull \X BlockOrNull PROVE found[q] = Step(found, q)
      BY Zenon
    <2>1. q[1] \in BlockOrNull /\ q[2] \in BlockOrNull
      OBVIOUS
    <2>2. CASE q[1] = q[2] \/ q[1] = NULL \/ q[2] = NULL
      BY <2>1, <2>2, <1>3
    <2>3. CASE ~(q[1] = q[2] \/ q[1] = NULL \/ q[2] = NULL)
      <3>1. pprev[q[1]] \in BlockOrNull /\ pprev[q[2]] \in BlockOrNull
        BY <2>1, <2>3, BlockTreeAssumption DEF BlockOrNull
      <3>2. found[<<pprev[q[1]], pprev[q[2]]>>] = Found(pprev[q[1]], pprev[q[2]])
        BY <3>1
      <3> QED
        BY <2>1, <2>3, <3>2, <1>3
    <2> QED
      BY <2>2, <2>3
  <1> HIDE DEF found
  <1>5. IsBack(back)
    BY <1>4
  <1> HIDE DEF back
  <1>6. ASSUME NEW a \in Block, NEW b \in Block
        PROVE  back[<<a, b>>] = IF a = b THEN a ELSE back[<<pprev[a], pprev[b]>>]
    <2>1. <<a, b>> \in BlockOrNull \X BlockOrNull /\ a # NULL /\ b # NULL
      BY <1>0
    <2> QED
      BY <2>1, <1>5
  <1> DEFINE S == {a \in Block : \A b \in Block :
                     nHeight[a] = nHeight[b] => back[<<a, b>>] = HighestCommon(a, b)}
  <1>7. ASSUME NEW a \in Block, a = Genesis \/ pprev[a] \in S PROVE a \in S
    <2> SUFFICES ASSUME NEW b \in Block, nHeight[a] = nHeight[b]
                 PROVE  back[<<a, b>>] = HighestCommon(a, b)
      OBVIOUS
    <2>1. CASE a = b
      BY <2>1, <1>1, <1>6
    <2>2. CASE a # b
      <3>1. /\ a # Genesis /\ pprev[a] \in Block /\ pprev[b] \in Block
            /\ nHeight[pprev[a]] = nHeight[pprev[b]]
            /\ HighestCommon(a, b) = HighestCommon(pprev[a], pprev[b])
        BY <2>2, <1>2
      <3>2. back[<<pprev[a], pprev[b]>>] = HighestCommon(pprev[a], pprev[b])
        BY <3>1, <1>7
      <3>3. back[<<a, b>>] = back[<<pprev[a], pprev[b]>>]
        BY <2>2, <1>6
      <3> QED
        BY <3>1, <3>2, <3>3
    <2> QED
      BY <2>1, <2>2
  <1> HIDE DEF S
  <1>8. S = Block
    <2>1. S \in SUBSET Block
      BY DEF S
    <2> QED
      BY <1>7, <1>0, <2>1, ChainInduction
  <1>9. \A a, b \in Block : nHeight[a] = nHeight[b] => back[<<a, b>>] = HighestCommon(a, b)
    BY <1>8 DEF S
  <1> QED
    BY <1>9 DEF back

\* LastCommonAncestor never fails its assertion ("Eventually all chain branches meet at the
\* genesis block"), and returns the highest block that the chains share.
THEOREM LastCommonAncestorExact ==
  ASSUME NEW a \in Block, NEW b \in Block
  PROVE  /\ LastCommonAncestor(a, b) \in Ancestors[a] \cap Ancestors[b]
         /\ Ancestors[a] \cap Ancestors[b] = Ancestors[LastCommonAncestor(a, b)]
  <1> DEFINE pa == IF nHeight[a] > nHeight[b] THEN GetAncestor(a, nHeight[b]) ELSE a
             pb == IF nHeight[b] > nHeight[a] THEN GetAncestor(b, nHeight[a]) ELSE b
  <1>1. pa \in Block /\ pb \in Block /\ nHeight[pa] = nHeight[pb]
        /\ Ancestors[pa] \cap Ancestors[pb] = Ancestors[a] \cap Ancestors[b]
    <2>0. nHeight[a] \in Nat /\ nHeight[b] \in Nat
      BY BlockTreeAssumption
    <2>1. CASE nHeight[a] > nHeight[b]
      BY <2>0, <2>1, CutExact
    <2>2. CASE nHeight[b] > nHeight[a]
      BY <2>0, <2>2, CutExact
    <2>3. CASE nHeight[a] = nHeight[b]
      BY <2>0, <2>3
    <2> QED
      BY <2>0, <2>1, <2>2, <2>3
  <1>2. LastCommonAncestor(a, b) = HighestCommon(pa, pb)
    <2> HIDE DEF pa, pb
    <2>1. LET back[q \in BlockOrNull \X BlockOrNull] ==
                IF q[1] = q[2] \/ q[1] = NULL \/ q[2] = NULL THEN q[1]
                ELSE back[<<pprev[q[1]], pprev[q[2]]>>]
          IN  back[<<pa, pb>>] = HighestCommon(pa, pb)
      BY <1>1, BackTogether
    <2> QED
      BY <2>1 DEF LastCommonAncestor, pa, pb
  <1> HIDE DEF pa, pb
  <1>3. /\ HighestCommon(pa, pb) \in Ancestors[pa] \cap Ancestors[pb]
        /\ Ancestors[pa] \cap Ancestors[pb] = Ancestors[HighestCommon(pa, pb)]
    BY <1>1, CommonExists
  <1> QED
    BY <1>1, <1>2, <1>3
==============================================================================
