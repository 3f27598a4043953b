--------------------------- MODULE ChainStateProofs ---------------------------
(***************************************************************************)
(* What ChainState guarantees for every tree of blocks, every number of     *)
(* threads and every choice of the bounds.                                  *)
(*                                                                          *)
(* TypeInv    types, and the shape of the block index                       *)
(* LinkInv    nChainTx and the candidates: the assert of FindMostWorkChain  *)
(* RuleInv    without invalidateblock, marks of invalidity have a cause in  *)
(*            the rules, and the active chain has none                      *)
(***************************************************************************)
EXTENDS ChainState, BlockTreeProofs, FiniteSetTheorems, TLAPS

(* The groups of variables are abbreviations only *)
USE DEF entryVars, linkVars, statusVars, rpcVars, threadVars

------------------------------------------------------------------------------
(* The tree *)

(* A block is among its own ancestors, as is everything its predecessor has    *)
(* (CBlockIndex::pprev).                                                       *)
LEMMA TreeFacts ==
    /\ Genesis \in Block /\ NULL \notin Block
    /\ \A b \in Block : Ancestors[b] \subseteq Block /\ b \in Ancestors[b] /\ Genesis \in Ancestors[b]
    /\ \A b \in Block : \A a \in Ancestors[b] : Ancestors[a] \subseteq Ancestors[b]
    /\ \A b \in Block \ {Genesis} :
          /\ pprev[b] \in Block /\ pprev[b] \in Ancestors[b]
          /\ Ancestors[b] = Ancestors[pprev[b]] \cup {b}
  <1> USE BlockTreeAssumption DEF BlockTreeAssumption
  <1>1. Genesis \in Block /\ NULL \notin Block
    OBVIOUS
  <1>2. ASSUME NEW b \in Block
        PROVE  Ancestors[b] \subseteq Block /\ b \in Ancestors[b] /\ Genesis \in Ancestors[b]
    <2>1. Ancestors[b] \subseteq Block /\ Genesis \in Ancestors[b]
      OBVIOUS
    <2>2. b \in Ancestors[b]
      <3>1. CASE b = Genesis
        BY <3>1
      <3>2. CASE b # Genesis
        <4>1. Ancestors[b] = Ancestors[pprev[b]] \cup {b}
          BY <3>2
        <4> QED BY <4>1
      <3> QED BY <3>1, <3>2
    <2> QED BY <2>1, <2>2
  <1>3. \A b \in Block : \A a \in Ancestors[b] : Ancestors[a] \subseteq Ancestors[b]
    BY Zenon
  <1>4. ASSUME NEW b \in Block \ {Genesis}
        PROVE  /\ pprev[b] \in Block /\ pprev[b] \in Ancestors[b]
               /\ Ancestors[b] = Ancestors[pprev[b]] \cup {b}
    <2>1. pprev[b] \in Block
      OBVIOUS
    <2>2. Ancestors[b] = Ancestors[pprev[b]] \cup {b}
      OBVIOUS
    <2> HIDE BlockTreeAssumption DEF BlockTreeAssumption
    <2> QED BY <2>1, <2>2, <1>2
  <1> HIDE BlockTreeAssumption DEF BlockTreeAssumption
  <1> QED BY <1>1, <1>2, <1>3, <1>4

(* Two ancestors of one block are ancestors of one another (the chain from a   *)
(* block down to the genesis is a line).                                       *)
LEMMA Line ==
    ASSUME NEW b \in Block, NEW a \in Ancestors[b], NEW c \in Ancestors[b], a \notin Ancestors[c]
    PROVE  c \in Ancestors[a]
  BY BlockTreeAssumption DEF BlockTreeAssumption

(* GetAncestor and FindFork return a block or the null pointer. *)
LEMMA LookupType ==
    ASSUME NEW a \in Block, NEW b \in Block
    PROVE  /\ FindFork(a, b) \in BlockOrNull
           /\ \A h : GetAncestor(a, h) \in BlockOrNull
  <1>1. FindFork(a, b) \in BlockOrNull
    BY FindForkExact, TreeFacts DEF BlockOrNull
  <1>2. \A h : GetAncestor(a, h) \in BlockOrNull
    BY TreeFacts DEF GetAncestor, BlockOrNull
  <1> QED BY <1>1, <1>2

(* The fork warnings stay well-formed (CheckForkWarningConditions and          *)
(* CheckForkWarningConditionsOnNewFork).                                       *)
LEMMA WarningsType ==
    ASSUME NEW w \in Warnings, NEW t, NEW b
    PROVE  /\ CheckForkWarningConditions(w, t, b) \in Warnings
           /\ t \in Block /\ b \in Block => RememberFork(w, t, b) \in Warnings
  <1>1. \A f : RememberedForkTip(w, f) \in BlockOrNull
    BY DEF RememberedForkTip, Warnings, BlockOrNull
  <1>2. CheckForkWarningConditions(w, t, b) \in Warnings
    BY Zenon, <1>1 DEF CheckForkWarningConditions, Warnings
  <1>3. ASSUME t \in Block, b \in Block
        PROVE  RememberFork(w, t, b) \in Warnings
    BY Zenon, <1>3, LookupType DEF RememberFork, Warnings, BlockOrNull
  <1> QED BY <1>2, <1>3

------------------------------------------------------------------------------
(* Types *)

(* The shape of the block index: it is closed under predecessors, the genesis  *)
(* block is in it and has no undo data (ConnectBlock does not write any), and  *)
(* a thread past FindMostWorkChain has a chain to work towards.                *)
Structure ==
    /\ Genesis \in mapBlockIndex \ haveUndo
    /\ \A b \in mapBlockIndex : Ancestors[b] \subseteq mapBlockIndex
    /\ \A t \in Thread : pc[t] \in {"disconnect", "connect", "finish"} => pindexMostWork[t] # NULL

TypeInv == TypeOK /\ Structure

(* The initial state has the types and the shape. *)
LEMMA TypeInit == Init => TypeInv
  <1> SUFFICES ASSUME Init PROVE TypeInv
    OBVIOUS
  <1> USE TreeFacts DEF Init
  <1>1. validity \in [Block -> {BLOCK_VALID_UNKNOWN, BLOCK_VALID_TREE,
                               BLOCK_VALID_TRANSACTIONS, BLOCK_VALID_SCRIPTS}]
    OBVIOUS
  <1>2. nSequenceId \in [Block -> Int] /\ nBlockSequenceId \in Nat
        /\ nBlockReverseSequenceId \in Int /\ nLastPreciousChainwork \in Nat
    OBVIOUS
  <1>3. warn \in Warnings
    BY DEF NoWarnings, Warnings, BlockOrNull
  <1>4. step \in [oldTip : BlockOrNull, fork : BlockOrNull, back : BlockOrNull]
    BY DEF NoStep, BlockOrNull
  <1>5. /\ csMain \in Thread \cup {NULL}
        /\ pc \in [Thread -> {"idle", "loop"} \cup Inside]
        /\ \A t \in Thread : csMain = t <=> pc[t] \in Inside
    BY ChainStateAssumption DEF ChainStateAssumption, Inside
  <1>6. /\ pindexMostWork \in [Thread -> mapBlockIndex \cup {NULL}]
        /\ \A t \in Thread : pc[t] \in {"disconnect", "connect", "finish"} => pindexMostWork[t] # NULL
    OBVIOUS
  <1>7. \A b \in mapBlockIndex : Ancestors[b] \subseteq mapBlockIndex
    BY Zenon, BlockTreeAssumption DEF BlockTreeAssumption
  <1> QED BY <1>1, <1>2, <1>3, <1>4, <1>5, <1>6, <1>7 DEF TypeInv, TypeOK, Structure

(* RaiseValidity keeps the type of nStatus & BLOCK_VALID_MASK, and the choice  *)
(* of pindexBestInvalid stays in the index.                                    *)
LEMMA RaiseType ==
    ASSUME TypeOK, NEW b \in Block,
           NEW n \in {BLOCK_VALID_TREE, BLOCK_VALID_TRANSACTIONS, BLOCK_VALID_SCRIPTS}
    PROVE  RaiseValidity(validity, b, n)
               \in [Block -> {BLOCK_VALID_UNKNOWN, BLOCK_VALID_TREE,
                             BLOCK_VALID_TRANSACTIONS, BLOCK_VALID_SCRIPTS}]
  BY DEF TypeOK, RaiseValidity

(* Entering the index keeps it closed under predecessors (AddToBlockIndex,     *)
(* after AcceptBlockHeader found the predecessor).                             *)
LEMMA AddedBlock ==
    ASSUME TypeInv, NEW b \in Block \ {Genesis}, HeaderAccepted(b) \/ NewHeader(b), AddToBlockIndex(b)
    PROVE  /\ mapBlockIndex \subseteq mapBlockIndex' /\ mapBlockIndex' \subseteq Block
           /\ b \in mapBlockIndex' /\ pprev[b] \in mapBlockIndex
           /\ pindexBestHeader' \in mapBlockIndex'
           /\ Genesis \in mapBlockIndex'
           /\ \A x \in mapBlockIndex' : Ancestors[x] \subseteq mapBlockIndex'
  <1>1. pprev[b] \in mapBlockIndex
    BY TreeFacts DEF HeaderAccepted, NewHeader, TypeInv, TypeOK, Structure
  <1>2. Ancestors[b] = Ancestors[pprev[b]] \cup {b}
    BY TreeFacts
  <1> QED BY <1>1, <1>2 DEF AddToBlockIndex, TypeInv, TypeOK, Structure

(* Leaving ActivateBestChain releases cs_main. *)
LEMMA ReturnType ==
    ASSUME TypeInv, NEW t \in Thread, csMain = t \/ csMain = NULL, Return(t)
    PROVE  /\ csMain' \in Thread \cup {NULL}
           /\ pc' \in [Thread -> {"idle", "loop"} \cup Inside]
           /\ \A u \in Thread : csMain' = u <=> pc'[u] \in Inside
           /\ pindexMostWork' \in [Thread -> mapBlockIndex \cup {NULL}]
           /\ step' \in [oldTip : BlockOrNull, fork : BlockOrNull, back : BlockOrNull]
           /\ \A u \in Thread : pc'[u] \in {"disconnect", "connect", "finish"}
                                  => pindexMostWork'[u] # NULL
  BY ChainStateAssumption
     DEF ChainStateAssumption, Return, NoStep, BlockOrNull, TypeInv, TypeOK, Structure, Inside

(* Going on to ActivateBestChain leaves cs_main free. *)
LEMMA GoType ==
    ASSUME TypeInv, NEW t \in Thread, csMain = NULL, GoActivate(t)
    PROVE  /\ csMain' \in Thread \cup {NULL}
           /\ pc' \in [Thread -> {"idle", "loop"} \cup Inside]
           /\ \A u \in Thread : csMain' = u <=> pc'[u] \in Inside
           /\ pindexMostWork' \in [Thread -> mapBlockIndex \cup {NULL}]
           /\ step' \in [oldTip : BlockOrNull, fork : BlockOrNull, back : BlockOrNull]
           /\ \A u \in Thread : pc'[u] \in {"disconnect", "connect", "finish"}
                                  => pindexMostWork'[u] # NULL
  BY ChainStateAssumption
     DEF ChainStateAssumption, GoActivate, TypeInv, TypeOK, Structure, Inside

(* Entering ActivateBestChainStep takes cs_main and fixes its goal. *)
LEMMA BeginType ==
    ASSUME TypeInv, NEW t \in Thread, csMain = t \/ csMain = NULL, NEW b \in mapBlockIndex,
           BeginStep(t, b)
    PROVE  /\ csMain' \in Thread \cup {NULL}
           /\ pc' \in [Thread -> {"idle", "loop"} \cup Inside]
           /\ \A u \in Thread : csMain' = u <=> pc'[u] \in Inside
           /\ pindexMostWork' \in [Thread -> mapBlockIndex \cup {NULL}]
           /\ step' \in [oldTip : BlockOrNull, fork : BlockOrNull, back : BlockOrNull]
           /\ \A u \in Thread : pc'[u] \in {"disconnect", "connect", "finish"}
                                  => pindexMostWork'[u] # NULL
  <1>1. tip \in Block /\ b \in Block /\ NULL \notin mapBlockIndex
    BY TreeFacts DEF TypeInv, TypeOK
  <1>2. FindFork(tip, b) \in BlockOrNull /\ tip \in BlockOrNull /\ NULL \in BlockOrNull
    BY <1>1, LookupType DEF BlockOrNull
  <1>3. step' \in [oldTip : BlockOrNull, fork : BlockOrNull, back : BlockOrNull]
    BY <1>2 DEF BeginStep
  <1> QED BY <1>1, <1>3, ChainStateAssumption
          DEF ChainStateAssumption, BeginStep, TypeInv, TypeOK, Structure, Inside

(* Every step keeps the types and the shape. *)
LEMMA TypeStep == TypeInv /\ [Next]_vars => TypeInv'
  <1> SUFFICES ASSUME TypeInv, [Next]_vars
               PROVE  TypeInv'
    OBVIOUS
  <1>1. ASSUME NEW b \in Block \ {Genesis}, AcceptHeader(b)
        PROVE  TypeInv'
    <2>1. validity' \in [Block -> {BLOCK_VALID_UNKNOWN, BLOCK_VALID_TREE,
                                  BLOCK_VALID_TRANSACTIONS, BLOCK_VALID_SCRIPTS}]
      BY <1>1, RaiseType DEF AcceptHeader, TypeInv
    <2> QED BY <1>1, <2>1, AddedBlock DEF AcceptHeader, TypeInv, TypeOK, Structure
  <1>2. ASSUME NEW b \in Block \ {Genesis}, RejectHeader(b)
        PROVE  TypeInv'
    <2>1. Ancestors[pprev[b]] \subseteq mapBlockIndex
      BY Zenon, <1>2 DEF RejectHeader, NewHeader, TypeInv, Structure
    <2>2. failedChild' \subseteq mapBlockIndex /\ halted' \in {halted, "AcceptBlockHeader"}
      BY <1>2, <2>1 DEF RejectHeader, TypeInv, TypeOK
    <2> QED BY <1>2, <2>2 DEF RejectHeader, TypeInv, TypeOK, Structure, AssertSites
  <1>3. ASSUME NEW t \in Thread, NEW b \in Block \ {Genesis}, NEW r \in BOOLEAN,
               IgnoreBlock(t, b, r)
        PROVE  TypeInv'
    <2>1. validity' \in [Block -> {BLOCK_VALID_UNKNOWN, BLOCK_VALID_TREE,
                                  BLOCK_VALID_TRANSACTIONS, BLOCK_VALID_SCRIPTS}]
      BY Zenon, <1>3, RaiseType DEF IgnoreBlock, TypeInv
    <2>2. csMain = NULL /\ GoActivate(t) /\ HeaderAccepted(b) /\ AddToBlockIndex(b)
      BY Zenon, <1>3 DEF IgnoreBlock, Free
    <2>3. UNCHANGED <<haveData, haveUndo, processed, linkVars, failedValid,
                      failedChild, rpcVars, setBlockIndexCandidates,
                      gFailedBlocks, tip, pindexBestInvalid, warn, halted>>
      BY <1>3 DEF IgnoreBlock
    <2>4. /\ mapBlockIndex \subseteq mapBlockIndex' /\ mapBlockIndex' \subseteq Block
          /\ b \in mapBlockIndex' /\ pindexBestHeader' \in mapBlockIndex'
          /\ Genesis \in mapBlockIndex'
          /\ \A x \in mapBlockIndex' : Ancestors[x] \subseteq mapBlockIndex'
      BY <2>2, AddedBlock
    <2> QED BY <2>1, <2>2, <2>3, <2>4, GoType DEF TypeInv, TypeOK, Structure
  <1>4. ASSUME NEW t \in Thread, NEW b \in Block \ {Genesis}, NEW r \in BOOLEAN,
               RejectBlock(t, b, r)
        PROVE  TypeInv'
    <2>1. validity' \in [Block -> {BLOCK_VALID_UNKNOWN, BLOCK_VALID_TREE,
                                  BLOCK_VALID_TRANSACTIONS, BLOCK_VALID_SCRIPTS}]
      BY <1>4, RaiseType DEF RejectBlock, TypeInv
    <2>2. HeaderAccepted(b) /\ AddToBlockIndex(b) /\ failedValid' = failedValid \cup {b}
      BY <1>4 DEF RejectBlock, Stores
    <2>3. UNCHANGED <<haveData, haveUndo, processed, linkVars, failedChild, rpcVars,
                      threadVars, setBlockIndexCandidates, gFailedBlocks, tip,
                      pindexBestInvalid, warn, halted>>
      BY <1>4 DEF RejectBlock
    <2>4. /\ mapBlockIndex \subseteq mapBlockIndex' /\ mapBlockIndex' \subseteq Block
          /\ b \in mapBlockIndex' /\ pindexBestHeader' \in mapBlockIndex'
          /\ Genesis \in mapBlockIndex'
          /\ \A x \in mapBlockIndex' : Ancestors[x] \subseteq mapBlockIndex'
      BY <2>2, AddedBlock
    <2> QED BY <2>1, <2>2, <2>3, <2>4 DEF TypeInv, TypeOK, Structure
  <1>5. ASSUME NEW t \in Thread, NEW b \in Block \ {Genesis}, NEW r \in BOOLEAN,
               AcceptBlock(t, b, r)
        PROVE  TypeInv'
    <2> DEFINE queue == IF pprev[b] \in linked THEN LinkedBy(b) ELSE {}
    <2>1. /\ mapBlockIndex \subseteq mapBlockIndex' /\ mapBlockIndex' \subseteq Block
          /\ b \in mapBlockIndex' /\ pprev[b] \in mapBlockIndex
          /\ pindexBestHeader' \in mapBlockIndex' /\ Genesis \in mapBlockIndex'
          /\ \A x \in mapBlockIndex' : Ancestors[x] \subseteq mapBlockIndex'
          /\ mapBlockIndex' = mapBlockIndex \cup {b}
      BY Zenon, <1>5, AddedBlock DEF AcceptBlock, Stores, AddToBlockIndex
    <2>2. validity' \in [Block -> {BLOCK_VALID_UNKNOWN, BLOCK_VALID_TREE,
                                  BLOCK_VALID_TRANSACTIONS, BLOCK_VALID_SCRIPTS}]
      BY <1>5, RaiseType DEF AcceptBlock, ReceivedBlockTransactions, StillUnlinked, TypeInv
    <2>3. queue \subseteq mapBlockIndex'
      BY <2>1 DEF LinkedBy
    <2>4. Cardinality(queue) \in Nat
      <3>1. IsFiniteSet(queue)
        BY <2>1, <2>3, FS_Subset, ChainStateAssumption DEF ChainStateAssumption
      <3> QED BY <3>1, FS_CardinalityType
    <2>5. nBlockSequenceId' \in Nat /\ nSequenceId' \in [Block -> Int]
      <3>1. PICK o \in QueueOrders(queue) :
               nSequenceId' = [x \in Block |-> IF x \in queue THEN nBlockSequenceId + o[x]
                                               ELSE nSequenceId[x]]
        BY <1>5 DEF AcceptBlock, ReceivedBlockTransactions, StillUnlinked
      <3>2. \A x \in queue : o[x] \in Int
        BY <2>4, <3>1 DEF QueueOrders
      <3>3. nBlockSequenceId' = nBlockSequenceId + Cardinality(queue)
        BY <1>5 DEF AcceptBlock, ReceivedBlockTransactions, StillUnlinked
      <3>4. nBlockSequenceId \in Nat /\ nSequenceId \in [Block -> Int]
        BY DEF TypeInv, TypeOK
      <3> HIDE DEF queue
      <3> QED BY <2>4, <3>1, <3>2, <3>3, <3>4
    <2>6. linked' \subseteq mapBlockIndex' /\ setBlockIndexCandidates' \subseteq mapBlockIndex'
      <3>1. /\ linked' = linked \cup queue
            /\ setBlockIndexCandidates' =
                 setBlockIndexCandidates \cup NotWorse(queue, tip, nSequenceId')
        BY <1>5 DEF AcceptBlock, ReceivedBlockTransactions, StillUnlinked
      <3> HIDE DEF queue
      <3> QED BY <2>1, <2>3, <3>1 DEF NotWorse, TypeInv, TypeOK
    <2>7. mapBlocksUnlinked' \subseteq mapBlockIndex' \X mapBlockIndex'
      <3>1. mapBlocksUnlinked' \subseteq mapBlocksUnlinked \cup {<<pprev[b], b>>}
        BY <1>5 DEF AcceptBlock, ReceivedBlockTransactions, StillUnlinked
      <3> QED BY <2>1, <3>1 DEF TypeInv, TypeOK
    <2>8. haveData' = haveData \cup {b} /\ processed' = processed \cup {b}
      BY <1>5 DEF AcceptBlock, ReceivedBlockTransactions, StillUnlinked
    <2> HIDE DEF queue
    <2>9. csMain = NULL /\ GoActivate(t)
          /\ UNCHANGED <<haveUndo, failedValid, failedChild, rpcVars, gFailedBlocks, tip,
                         pindexBestInvalid, warn, halted>>
      BY <1>5 DEF AcceptBlock, ReceivedBlockTransactions, Free
    <2> QED BY ZenonT(60), <2>1, <2>2, <2>5, <2>6, <2>7, <2>8, <2>9, GoType DEF TypeInv, TypeOK, Structure
  <1>6. ASSUME NEW b \in Block, PruneOneBlockFile(b)
        PROVE  TypeInv'
    BY <1>6 DEF PruneOneBlockFile, TypeInv, TypeOK, Structure
  <1>7. ASSUME NEW t \in Thread, NEW b \in Block, InvalidateBlock(t, b)
        PROVE  TypeInv'
    <2>1. b \in mapBlockIndex \ {Genesis} /\ pprev[b] \in mapBlockIndex
      BY Zenon, <1>7, TreeFacts DEF InvalidateBlock, TypeInv, TypeOK, Structure
    <2>2. ToDisconnect(b) \subseteq mapBlockIndex
      BY DEF ToDisconnect, TypeInv, TypeOK, Structure
    <2>3. /\ tip' \in mapBlockIndex
          /\ failedChild' \subseteq mapBlockIndex /\ failedValid' \subseteq mapBlockIndex
          /\ setBlockIndexCandidates' \subseteq mapBlockIndex
          /\ gFailedBlocks' \subseteq mapBlockIndex
      BY ZenonT(60), <1>7, <2>1, <2>2 DEF InvalidateBlock, NotWorse, TypeInv, TypeOK
    <2>4. pindexBestInvalid' \in mapBlockIndex \cup {NULL}
      BY Zenon, <1>7, <2>1 DEF InvalidateBlock, MoreInvalid, TypeInv, TypeOK
    <2>5. warn' \in Warnings
      BY Zenon, <1>7, WarningsType DEF InvalidateBlock, TypeInv, TypeOK
    <2>6. csMain = NULL /\ GoActivate(t)
          /\ UNCHANGED <<entryVars, linkVars, validity, rpcVars, pindexBestHeader, halted>>
      BY Zenon, <1>7 DEF InvalidateBlock, Free
    <2> QED BY <2>3, <2>4, <2>5, <2>6, GoType DEF TypeInv, TypeOK, Structure
  <1>8. ASSUME NEW t \in Thread, NEW b \in Block, InvalidateBlockFails(t, b)
        PROVE  TypeInv'
    <2>1. tip' \in mapBlockIndex /\ halted' \in {halted, "abort"}
      BY ZenonT(60), <1>8 DEF InvalidateBlockFails, Stuck, ToDisconnect, TypeInv, TypeOK, Structure
    <2>2. csMain = NULL /\ GoActivate(t)
          /\ UNCHANGED <<entryVars, linkVars, statusVars, rpcVars, setBlockIndexCandidates,
                         gFailedBlocks, pindexBestHeader, pindexBestInvalid, warn>>
      BY Zenon, <1>8 DEF InvalidateBlockFails, Free
    <2> QED BY <2>1, <2>2, GoType DEF TypeInv, TypeOK, Structure
  <1>9. ASSUME NEW t \in Thread, NEW b \in Block, ResetBlockFailureFlags(t, b)
        PROVE  TypeInv'
    <2>1. csMain = NULL /\ GoActivate(t)
          /\ UNCHANGED <<entryVars, linkVars, validity, rpcVars, gFailedBlocks, tip,
                         pindexBestHeader, warn, halted>>
      BY Zenon, <1>9 DEF ResetBlockFailureFlags, Free
    <2>2. /\ failedValid' \subseteq failedValid /\ failedChild' \subseteq failedChild
          /\ setBlockIndexCandidates' \subseteq setBlockIndexCandidates \cup mapBlockIndex
          /\ pindexBestInvalid' \in {pindexBestInvalid, NULL}
      BY Zenon, <1>9 DEF ResetBlockFailureFlags
    <2> QED BY Zenon, <2>1, <2>2, GoType DEF TypeInv, TypeOK, Structure
  <1>10. ASSUME NEW t \in Thread, NEW b \in Block, PreciousBlock(t, b)
         PROVE  TypeInv'
    <2>1. nChainWork[tip] \in Nat
      BY BlockTreeAssumption DEF BlockTreeAssumption, TypeInv, TypeOK
    <2>2. nSequenceId' \in [Block -> Int] /\ nBlockReverseSequenceId' \in Int
      BY <1>10 DEF PreciousBlock, TypeInv, TypeOK
    <2>3. setBlockIndexCandidates' \subseteq mapBlockIndex
      BY <1>10 DEF PreciousBlock, NotWorse, TypeInv, TypeOK
    <2>4. halted' \in {halted, "PruneBlockIndexCandidates"}
      BY <1>10 DEF PreciousBlock
    <2>5. /\ Free /\ pc[t] = "idle" /\ GoActivate(t) /\ nLastPreciousChainwork' = nChainWork[tip]
          /\ UNCHANGED <<entryVars, linked, mapBlocksUnlinked, nBlockSequenceId, statusVars,
                         gFailedBlocks, tip, pindexBestHeader, pindexBestInvalid, warn>>
      BY <1>10 DEF PreciousBlock
    <2>6. csMain = NULL
      BY Zenon, <2>5 DEF Free
    <2>7. halted' \in {"no", "abort"} \cup AssertSites
      BY <2>4 DEF TypeInv, TypeOK, AssertSites
    <2> QED BY Zenon, <2>1, <2>2, <2>3, <2>5, <2>6, <2>7, GoType DEF TypeInv, TypeOK, Structure
  <1>11. ASSUME NEW t \in Thread, LockMain(t)
         PROVE  TypeInv'
    <2>0. /\ csMain = NULL /\ tip # NULL
          /\ UNCHANGED <<entryVars, linkVars, statusVars, rpcVars, setBlockIndexCandidates,
                         gFailedBlocks, tip, pindexBestHeader, pindexBestInvalid, warn, halted>>
      BY <1>11, TreeFacts DEF LockMain, Free, TypeInv, TypeOK
    <2>1. CASE pindexMostWork[t] = NULL
      <3>1. csMain' = t /\ pc' = [pc EXCEPT ![t] = "find"] /\ UNCHANGED <<pindexMostWork, step>>
        BY <1>11, <2>0, <2>1 DEF LockMain
      <3> QED BY <2>0, <3>1, ChainStateAssumption
              DEF ChainStateAssumption, TypeInv, TypeOK, Structure, Inside
    <2>2. CASE pindexMostWork[t] = tip /\ pindexMostWork[t] # NULL
      <3>1. Return(t)
        BY <1>11, <2>2 DEF LockMain
      <3> QED BY Zenon, <2>0, <3>1, ReturnType DEF TypeInv, TypeOK, Structure
    <2>3. CASE pindexMostWork[t] # tip /\ pindexMostWork[t] # NULL
      <3>1. pindexMostWork[t] \in mapBlockIndex
        BY <2>3 DEF TypeInv, TypeOK
      <3> QED BY <1>11, <2>3, <3>1, BeginType DEF LockMain, Free, TypeInv, TypeOK, Structure
    <2> QED BY <2>1, <2>2, <2>3
  <1>12. ASSUME NEW t \in Thread, FindMostWorkChain(t)
         PROVE  TypeInv'
    <2>1. halted' \in {halted, "FindMostWorkChain"}
      BY Zenon, <1>12 DEF FindMostWorkChain
    <2>2. Return(t) \/ \E c \in mapBlockIndex : BeginStep(t, c)
      BY Zenon, <1>12 DEF FindMostWorkChain, TypeInv, TypeOK
    <2>3. UNCHANGED <<entryVars, linkVars, statusVars, rpcVars, setBlockIndexCandidates,
                      gFailedBlocks, tip, pindexBestHeader, pindexBestInvalid, warn>>
      BY <1>12 DEF FindMostWorkChain
    <2>4. csMain = t
      BY Zenon, <1>12 DEF FindMostWorkChain, Finding
    <2>5. CASE Return(t)
      BY Zenon, <2>1, <2>3, <2>4, <2>5, ReturnType DEF TypeInv, TypeOK, Structure, AssertSites
    <2>6. CASE \E c \in mapBlockIndex : BeginStep(t, c)
      BY ZenonT(60), <2>1, <2>3, <2>4, <2>6, BeginType DEF TypeInv, TypeOK, Structure, AssertSites
    <2> QED BY Zenon, <2>2, <2>5, <2>6
  <1>13. ASSUME NEW t \in Thread, DropCandidate(t)
         PROVE  TypeInv'
    <2>1. PICK c \in setBlockIndexCandidates : \E x \in Unusable(c) : Drop(c, x)
      BY Zenon, <1>13 DEF DropCandidate
    <2>x. PICK x \in Unusable(c) : Drop(c, x)
      BY <2>1
    <2>2. c \in mapBlockIndex /\ Ancestors[c] \subseteq mapBlockIndex /\ x \in Block
      BY DEF Unusable, Path, TypeInv, TypeOK, Structure
    <2>3. \A y \in Ancestors[c] \ Ancestors[x] : y \in mapBlockIndex /\ pprev[y] \in mapBlockIndex
      BY <2>2, TreeFacts DEF TypeInv, TypeOK, Structure
    <2>4. failedChild' \subseteq mapBlockIndex /\ setBlockIndexCandidates' \subseteq mapBlockIndex
      BY <2>x, <2>2 DEF Drop, Above, Dropped, TypeInv, TypeOK
    <2>5. pindexBestInvalid' \in mapBlockIndex \cup {NULL}
      BY <2>x, <2>2 DEF Drop, Above, Dropped, MoreInvalid, TypeInv, TypeOK
    <2>6. mapBlocksUnlinked' \subseteq mapBlockIndex \X mapBlockIndex
      BY <2>x, <2>3 DEF Drop, Above, Dropped, TypeInv, TypeOK
    <2>7. halted' \in {halted, "FindMostWorkChain"}
      BY <2>x DEF Drop, Above, Dropped
    <2>8. UNCHANGED <<entryVars, linked, nSequenceId, nBlockSequenceId, validity,
                      failedValid, rpcVars, threadVars, gFailedBlocks, tip,
                      pindexBestHeader, warn>>
      BY <1>13 DEF DropCandidate
    <2> QED BY Zenon, <2>4, <2>5, <2>6, <2>7, <2>8 DEF TypeInv, TypeOK, Structure, AssertSites
  <1>14. ASSUME NEW t \in Thread, DisconnectTip(t)
         PROVE  TypeInv'
    <2>1. /\ csMain = t /\ pc[t] = "disconnect"
          /\ UNCHANGED <<entryVars, linkVars, statusVars, rpcVars, setBlockIndexCandidates,
                         gFailedBlocks, pindexBestHeader, pindexBestInvalid, warn>>
      BY <1>14 DEF DisconnectTip
    <2>2. CASE tip = step.fork
      BY <1>14, <2>1, <2>2 DEF DisconnectTip, TypeInv, TypeOK, Structure, Inside
    <2>3. CASE tip # step.fork /\ tip \notin haveData
      BY <1>14, <2>1, <2>3 DEF DisconnectTip, TypeInv, TypeOK, Structure
    <2>4. CASE tip # step.fork /\ tip \in haveData \ haveUndo
      <3>1. Return(t) /\ UNCHANGED <<tip, halted>>
        BY <1>14, <2>4 DEF DisconnectTip
      <3> QED BY Zenon, <2>1, <3>1, ReturnType DEF TypeInv, TypeOK, Structure
    <2>5. CASE tip # step.fork /\ tip \in haveData /\ tip \in haveUndo
      <3>1. tip' = pprev[tip] /\ UNCHANGED <<threadVars, halted>>
        BY <1>14, <2>5 DEF DisconnectTip
      <3>2. tip' \in mapBlockIndex
        BY <2>5, <3>1, TreeFacts DEF TypeInv, TypeOK, Structure
      <3> QED BY Zenon, <2>1, <3>1, <3>2 DEF TypeInv, TypeOK, Structure
    <2> QED BY <2>2, <2>3, <2>4, <2>5
  <1>15. ASSUME NEW t \in Thread, NEW b \in Block, ConnectTip(t, b)
         PROVE  TypeInv'
    <2>1. b \in mapBlockIndex \ {Genesis} /\ csMain = t /\ pc[t] = "connect"
      BY Zenon, <1>15 DEF ConnectTip, Connecting, TypeInv, TypeOK, Structure
    <2>2. validity' \in [Block -> {BLOCK_VALID_UNKNOWN, BLOCK_VALID_TREE,
                                  BLOCK_VALID_TRANSACTIONS, BLOCK_VALID_SCRIPTS}]
      BY Zenon, <1>15, RaiseType DEF ConnectTip, TypeInv
    <2>3. setBlockIndexCandidates' \subseteq setBlockIndexCandidates
          /\ halted' \in {halted, "PruneBlockIndexCandidates"}
      BY Zenon, <1>15 DEF ConnectTip, NotWorse
    <2>4. \E p \in {"finish", "connect"} : pc' = [pc EXCEPT ![t] = p]
      BY Zenon, <1>15 DEF ConnectTip
    <2>5. /\ tip' = b /\ haveUndo' = haveUndo \cup {b}
          /\ UNCHANGED <<mapBlockIndex, haveData, processed, linkVars, failedValid,
                         failedChild, rpcVars, csMain, pindexMostWork, step,
                         gFailedBlocks, pindexBestHeader, pindexBestInvalid, warn>>
      BY Zenon, <1>15 DEF ConnectTip
    <2>6. /\ pc' \in [Thread -> {"idle", "loop"} \cup Inside]
          /\ \A u \in Thread : pc'[u] \in Inside <=> pc[u] \in Inside
          /\ \A u \in Thread : pc'[u] \in {"disconnect", "connect", "finish"}
                                 => pindexMostWork[u] # NULL
      BY <2>1, <2>4 DEF TypeInv, TypeOK, Structure, Inside
    <2>7. halted' \in {"no", "abort"} \cup AssertSites
      BY <2>3 DEF TypeInv, TypeOK, AssertSites
    <2> QED BY <2>1, <2>2, <2>3, <2>5, <2>6, <2>7 DEF TypeInv, TypeOK, Structure
  <1>16. ASSUME NEW t \in Thread, NEW b \in Block, InvalidBlockFound(t, b)
         PROVE  TypeInv'
    <2>1. b \in mapBlockIndex /\ csMain = t /\ pc[t] = "connect" /\ pindexMostWork[t] \in Block
      BY <1>16 DEF InvalidBlockFound, Connecting, TypeInv, TypeOK, Structure
    <2>2. step' \in [oldTip : BlockOrNull, fork : BlockOrNull, back : BlockOrNull]
      <3>1. BatchBack(t, b) \in BlockOrNull
        BY <2>1, LookupType DEF BatchBack
      <3> QED BY <1>16, <3>1 DEF InvalidBlockFound, TypeInv, TypeOK
    <2>3. pindexBestInvalid' \in mapBlockIndex \cup {NULL}
      BY <1>16, <2>1 DEF InvalidBlockFound, MoreInvalid, TypeInv, TypeOK
    <2>4. warn' \in Warnings
      BY <1>16, WarningsType DEF InvalidBlockFound, TypeInv, TypeOK
    <2> QED BY <1>16, <2>1, <2>2, <2>3, <2>4
            DEF InvalidBlockFound, TypeInv, TypeOK, Structure, Inside
  <1>17. ASSUME NEW t \in Thread, NEW b \in Block, ConnectWithoutData(t, b)
         PROVE  TypeInv'
    BY Zenon, <1>17 DEF ConnectWithoutData, TypeInv, TypeOK, Structure
  <1>18. ASSUME NEW t \in Thread, Connected(t)
         PROVE  TypeInv'
    BY <1>18 DEF Connected, TypeInv, TypeOK, Structure, Inside
  <1>19. ASSUME NEW t \in Thread, FinishStep(t)
         PROVE  TypeInv'
    <2>1. /\ csMain = t /\ pc[t] = "finish" /\ csMain' = NULL /\ step' = NoStep
          /\ \E p \in {"idle", "loop"} : pc' = [pc EXCEPT ![t] = p]
          /\ \E m \in {pindexMostWork[t], NULL} : pindexMostWork' = [pindexMostWork EXCEPT ![t] = m]
          /\ halted' \in {halted, "CheckForkWarningConditions"}
          /\ UNCHANGED <<entryVars, linkVars, statusVars, rpcVars, setBlockIndexCandidates,
                         gFailedBlocks, tip, pindexBestHeader, pindexBestInvalid>>
      BY Zenon, <1>19 DEF FinishStep
    <2>2. warn' \in Warnings
      <3> DEFINE known == IF step.back = NULL THEN warn ELSE RememberFork(warn, tip, step.back)
      <3>1. known \in Warnings
        BY WarningsType DEF TypeInv, TypeOK, BlockOrNull
      <3>2. warn' = CheckForkWarningConditions(known, tip, pindexBestInvalid)
        BY Zenon, <1>19 DEF FinishStep
      <3> HIDE DEF known
      <3> QED BY <3>1, <3>2, WarningsType
    <2>3. step' \in [oldTip : BlockOrNull, fork : BlockOrNull, back : BlockOrNull]
      BY <2>1 DEF NoStep, BlockOrNull
    <2>4. /\ pc' \in [Thread -> {"idle", "loop"} \cup Inside]
          /\ \A u \in Thread : pc'[u] \notin Inside
      <3>1. \A u \in Thread \ {t} : pc[u] \notin Inside
        BY <2>1 DEF TypeInv, TypeOK
      <3>2. PICK p \in {"idle", "loop"} : pc' = [pc EXCEPT ![t] = p]
        BY Zenon, <2>1
      <3>3. p \notin Inside
        BY DEF Inside
      <3>4. pc \in [Thread -> {"idle", "loop"} \cup Inside]
        BY DEF TypeInv, TypeOK
      <3> QED BY <3>1, <3>2, <3>3, <3>4
    <2>5. /\ csMain' \in Thread \cup {NULL}
          /\ \A u \in Thread : csMain' = u <=> pc'[u] \in Inside
      BY <2>1, <2>4, ChainStateAssumption DEF ChainStateAssumption
    <2>6. pindexMostWork' \in [Thread -> mapBlockIndex' \cup {NULL}]
      BY <2>1 DEF TypeInv, TypeOK
    <2>7. halted' \in {"no", "abort"} \cup AssertSites
      BY <2>1 DEF TypeInv, TypeOK, AssertSites
    <2>8. TypeOK'
      BY Zenon, <2>1, <2>2, <2>3, <2>4, <2>5, <2>6, <2>7 DEF TypeInv, TypeOK
    <2>9. \A u \in Thread : pc'[u] \notin {"disconnect", "connect", "finish"}
      BY <2>4 DEF Inside
    <2> QED BY <2>1, <2>8, <2>9 DEF TypeInv, Structure
  <1>20. CASE UNCHANGED vars
    BY ZenonT(60), <1>20 DEF vars, TypeInv, TypeOK, Structure
  <1> QED BY <1>1, <1>2, <1>3, <1>4, <1>5, <1>6, <1>7, <1>8, <1>9, <1>10, <1>11, <1>12, <1>13,
             <1>14, <1>15, <1>16, <1>17, <1>18, <1>19, <1>20
          DEF Next, ProcessNewBlock, OperatorCall, ActivateBestChain

(* Every variable of ChainState keeps its type, and cs_main its discipline,    *)
(* whatever the blocks, the threads and the calls of the operator.             *)
THEOREM TypeCorrect == Spec => []TypeOK
  <1>1. TypeInv => TypeOK
    BY DEF TypeInv
  <1> QED BY <1>1, TypeInit, TypeStep, PTL DEF Spec

------------------------------------------------------------------------------
(* nChainTx *)

(* An entry of mapBlocksUnlinked is a block that was received, keyed by its    *)
(* predecessor; with it, LinkedIsReceived is inductive.                        *)
LinkInv ==
    /\ TypeInv
    /\ LinkedIsReceived
    /\ \A p \in mapBlocksUnlinked : p[1] = pprev[p[2]] /\ p[2] \in processed
    /\ halted # "FindMostWorkChain"

(* Initially only the genesis block is linked. *)
LEMMA LinkInit == Init => LinkInv
  <1> SUFFICES ASSUME Init PROVE LinkInv
    OBVIOUS
  <1>1. LinkedIsReceived
    BY BlockTreeAssumption DEF BlockTreeAssumption, Init, LinkedIsReceived
  <1> QED BY Zenon, <1>1, TypeInit DEF Init, LinkInv

(* The queue of ReceivedBlockTransactions links only blocks whose ancestors    *)
(* are linked by then, and all of them were received.                          *)
LEMMA QueueIsReceived ==
    ASSUME LinkInv, NEW b \in Block \ {Genesis}, pprev[b] \in linked, NEW d \in LinkedBy(b)
    PROVE  Ancestors[d] \subseteq (linked \cup LinkedBy(b)) \cap (processed \cup {b})
  <1>1. d \in Block /\ b \in Ancestors[d]
    BY DEF LinkedBy, LinkInv, TypeInv, TypeOK
  <1>2. SUFFICES ASSUME NEW z \in Ancestors[d]
                 PROVE  z \in linked \cup LinkedBy(b) /\ z \in processed \cup {b}
    OBVIOUS
  <1>3. CASE z = b
    BY <1>3, TreeFacts DEF LinkedBy
  <1>4. CASE z \in Ancestors[b] /\ z # b
    <2>1. z \in Ancestors[pprev[b]]
      BY <1>4, TreeFacts
    <2> QED BY <2>1 DEF LinkInv, LinkedIsReceived
  <1>5. CASE z \notin Ancestors[b]
    <2>1. b \in Ancestors[z]
      BY <1>1, <1>5, Line
    <2>2. Ancestors[z] \subseteq Ancestors[d] /\ z \in Ancestors[z]
      BY <1>1, TreeFacts
    <2>3. \A x \in Ancestors[d] \ Ancestors[b] : <<pprev[x], x>> \in mapBlocksUnlinked
      BY DEF LinkedBy
    <2>4. z \in processed
      <3>1. <<pprev[z], z>> \in mapBlocksUnlinked
        BY <1>5, <2>3
      <3> QED BY <3>1 DEF LinkInv
    <2>5. z \in mapBlockIndex
      BY <2>4 DEF LinkInv, TypeInv, TypeOK
    <2>6. z \in LinkedBy(b)
      BY <2>1, <2>2, <2>3, <2>5 DEF LinkedBy
    <2> QED BY <2>4, <2>6
  <1> QED BY <1>3, <1>4, <1>5

(* Every step keeps nChainTx and the candidates sound. *)
LEMMA LinkStep == LinkInv /\ [Next]_vars => LinkInv'
  <1> SUFFICES ASSUME LinkInv, [Next]_vars
               PROVE  LinkInv'
    OBVIOUS
  <1>0. TypeInv /\ TypeInv'
    BY Zenon, TypeStep DEF LinkInv
  <1> USE DEF LinkInv, LinkedIsReceived
  <1>1. ASSUME NEW b \in Block \ {Genesis}, AcceptHeader(b)
        PROVE  LinkInv'
    BY <1>0, <1>1 DEF AcceptHeader
  <1>2. ASSUME NEW b \in Block \ {Genesis}, RejectHeader(b)
        PROVE  LinkInv'
    BY <1>0, <1>2 DEF RejectHeader
  <1>3. ASSUME NEW t \in Thread, NEW b \in Block \ {Genesis}, NEW r \in BOOLEAN,
               IgnoreBlock(t, b, r)
        PROVE  LinkInv'
    BY Zenon, <1>0, <1>3 DEF IgnoreBlock
  <1>4. ASSUME NEW t \in Thread, NEW b \in Block \ {Genesis}, NEW r \in BOOLEAN,
               RejectBlock(t, b, r)
        PROVE  LinkInv'
    BY <1>0, <1>4 DEF RejectBlock
  <1>5. ASSUME NEW t \in Thread, NEW b \in Block \ {Genesis}, NEW r \in BOOLEAN,
               AcceptBlock(t, b, r)
        PROVE  LinkInv'
    <2> DEFINE queue == IF pprev[b] \in linked THEN LinkedBy(b) ELSE {}
    <2>1. /\ linked' = linked \cup queue /\ processed' = processed \cup {b}
          /\ setBlockIndexCandidates' \subseteq setBlockIndexCandidates \cup queue
          /\ mapBlocksUnlinked' \subseteq mapBlocksUnlinked \cup {<<pprev[b], b>>}
          /\ halted' = halted
      BY <1>5 DEF AcceptBlock, ReceivedBlockTransactions, StillUnlinked, NotWorse
    <2>2. \A d \in queue : Ancestors[d] \subseteq (linked \cup queue) \cap (processed \cup {b})
      BY QueueIsReceived
    <2> HIDE DEF queue
    <2>3. LinkedIsReceived'
      BY <2>1, <2>2
    <2>4. \A p \in mapBlocksUnlinked' : p[1] = pprev[p[2]] /\ p[2] \in processed'
      BY <2>1
    <2> QED BY <1>0, <2>1, <2>3, <2>4
  <1>6. ASSUME NEW b \in Block, PruneOneBlockFile(b)
        PROVE  LinkInv'
    BY <1>0, <1>6 DEF PruneOneBlockFile
  <1>7. ASSUME NEW t \in Thread, NEW b \in Block, InvalidateBlock(t, b)
        PROVE  LinkInv'
    <2>1. setBlockIndexCandidates' \subseteq setBlockIndexCandidates \cup linked
      BY Zenon, <1>7 DEF InvalidateBlock, NotWorse
    <2> QED BY Zenon, <1>0, <1>7, <2>1 DEF InvalidateBlock
  <1>8. ASSUME NEW t \in Thread, NEW b \in Block, InvalidateBlockFails(t, b)
        PROVE  LinkInv'
    BY Zenon, <1>0, <1>8 DEF InvalidateBlockFails
  <1>9. ASSUME NEW t \in Thread, NEW b \in Block, ResetBlockFailureFlags(t, b)
        PROVE  LinkInv'
    BY Zenon, <1>0, <1>9 DEF ResetBlockFailureFlags
  <1>10. ASSUME NEW t \in Thread, NEW b \in Block, PreciousBlock(t, b)
         PROVE  LinkInv'
    <2>1. /\ setBlockIndexCandidates' \subseteq setBlockIndexCandidates \cup linked
          /\ halted' \in {halted, "PruneBlockIndexCandidates"}
          /\ UNCHANGED <<linked, processed, mapBlocksUnlinked>>
      BY Zenon, <1>10 DEF PreciousBlock, NotWorse
    <2> QED BY <1>0, <2>1
  <1>11. ASSUME NEW t \in Thread, LockMain(t)
         PROVE  LinkInv'
    BY <1>0, <1>11 DEF LockMain
  <1>12. ASSUME NEW t \in Thread, FindMostWorkChain(t)
         PROVE  LinkInv'
    <2>1. \A c \in setBlockIndexCandidates : Path(c) \subseteq linked
      BY DEF Path
    <2>2. halted' = halted
      BY Zenon, <1>12, <2>1 DEF FindMostWorkChain
    <2> QED BY Zenon, <1>0, <1>12, <2>2 DEF FindMostWorkChain
  <1>13. ASSUME NEW t \in Thread, DropCandidate(t)
         PROVE  LinkInv'
    <2>1. PICK c \in setBlockIndexCandidates : \E x \in Unusable(c) : Drop(c, x)
      BY <1>13 DEF DropCandidate
    <2>x. PICK x \in Unusable(c) : Drop(c, x)
      BY <2>1
    <2>2. Ancestors[c] \subseteq linked \cap processed /\ x \in Ancestors[c]
      BY DEF Unusable, Path
    <2>3. setBlockIndexCandidates' \subseteq setBlockIndexCandidates /\ halted' = halted
      BY <2>x, <2>2 DEF Drop, Above, Dropped
    <2>4. \A p \in mapBlocksUnlinked' : p[1] = pprev[p[2]] /\ p[2] \in processed
      BY <2>x, <2>2 DEF Drop, Above, Dropped
    <2> QED BY <1>0, <1>13, <2>3, <2>4 DEF DropCandidate
  <1>14. ASSUME NEW t \in Thread, DisconnectTip(t)
         PROVE  LinkInv'
    <2>1. halted' \in {halted, "abort"}
      BY <1>14 DEF DisconnectTip
    <2> QED BY <1>0, <1>14, <2>1 DEF DisconnectTip
  <1>15. ASSUME NEW t \in Thread, NEW b \in Block, ConnectTip(t, b)
         PROVE  LinkInv'
    <2>1. /\ setBlockIndexCandidates' \subseteq setBlockIndexCandidates
          /\ halted' \in {halted, "PruneBlockIndexCandidates"}
          /\ UNCHANGED <<linked, processed, mapBlocksUnlinked>>
      BY Zenon, <1>15 DEF ConnectTip, NotWorse
    <2> QED BY <1>0, <2>1
  <1>16. ASSUME NEW t \in Thread, NEW b \in Block, InvalidBlockFound(t, b)
         PROVE  LinkInv'
    BY <1>0, <1>16 DEF InvalidBlockFound
  <1>17. ASSUME NEW t \in Thread, NEW b \in Block, ConnectWithoutData(t, b)
         PROVE  LinkInv'
    BY Zenon, <1>0, <1>17 DEF ConnectWithoutData
  <1>18. ASSUME NEW t \in Thread, Connected(t)
         PROVE  LinkInv'
    BY <1>0, <1>18 DEF Connected
  <1>19. ASSUME NEW t \in Thread, FinishStep(t)
         PROVE  LinkInv'
    <2>1. halted' \in {halted, "CheckForkWarningConditions"}
      BY Zenon, <1>19 DEF FinishStep
    <2> QED BY Zenon, <1>0, <1>19, <2>1 DEF FinishStep
  <1>20. CASE UNCHANGED vars
    BY Zenon, <1>0, <1>20 DEF vars
  <1> QED BY Zenon, <1>1, <1>2, <1>3, <1>4, <1>5, <1>6, <1>7, <1>8, <1>9, <1>10, <1>11, <1>12, <1>13,
             <1>14, <1>15, <1>16, <1>17, <1>18, <1>19, <1>20
          DEF Next, ProcessNewBlock, OperatorCall, ActivateBestChain

(* Blocks with nChainTx, candidates among them, have been received down to the *)
(* genesis block: with any number of threads, any operator calls, any pruning. *)
THEOREM LinkedCorrect == Spec => []LinkedIsReceived
  <1>1. LinkInv => LinkedIsReceived
    BY DEF LinkInv
  <1> QED BY <1>1, LinkInit, LinkStep, PTL DEF Spec

(* The assertion of FindMostWorkChain, that every block between a candidate    *)
(* and the active chain has nChainTx, never fails.                             *)
THEOREM FindMostWorkChainSafe == Spec => [](halted # "FindMostWorkChain")
  <1>1. LinkInv => halted # "FindMostWorkChain"
    BY DEF LinkInv
  <1> QED BY <1>1, LinkInit, LinkStep, PTL DEF Spec

------------------------------------------------------------------------------
(* The rules of validity, when no operator overrides them *)

(* A mark of invalidity has its cause in a rule that the block, or one below   *)
(* it, breaks; the active chain breaks none, and its scripts were verified.    *)
RuleInv ==
    /\ TypeInv
    /\ \A b \in failedValid : Verdict[b] # "ok"
    /\ \A b \in failedChild : \E a \in Ancestors[b] : Verdict[a] # "ok"
    /\ \A a \in Ancestors[tip] : Verdict[a] = "ok"
    /\ \A a \in Ancestors[tip] \ {Genesis} : validity[a] = BLOCK_VALID_SCRIPTS
    /\ \A b \in Block : validity[b] = BLOCK_VALID_SCRIPTS =>
          \A a \in Ancestors[b] \ {Genesis} : validity[a] = BLOCK_VALID_SCRIPTS

(* A block all of whose ancestors obey the rules carries no mark. *)
LEMMA NoCauseNoMark ==
    ASSUME RuleInv, NEW b \in Block, \A a \in Ancestors[b] : Verdict[a] = "ok"
    PROVE  b \notin Failed
  BY TreeFacts DEF RuleInv, Failed

(* Blocks above a block that breaks a rule, or stands on one that does. *)
LEMMA CauseAbove ==
    ASSUME RuleInv, NEW c \in Block, NEW x \in Ancestors[c], x \in Failed,
           NEW z \in Ancestors[c] \ Ancestors[x]
    PROVE  \E a \in Ancestors[z] : Verdict[a] # "ok"
  <1>1. x \in Ancestors[z] /\ z \in Block /\ x \in Block
    BY Zenon, Line, TreeFacts
  <1>2. Ancestors[x] \subseteq Ancestors[z]
    BY Zenon, <1>1, TreeFacts
  <1>3. \E a \in Ancestors[x] : Verdict[a] # "ok"
    BY <1>1, TreeFacts DEF RuleInv, Failed
  <1> QED BY <1>2, <1>3

(* A rise to less than BLOCK_VALID_SCRIPTS neither gives nor takes that level. *)
LEMMA LowRise ==
    ASSUME RuleInv, NEW b \in Block, NEW n \in {BLOCK_VALID_TREE, BLOCK_VALID_TRANSACTIONS},
           validity' = RaiseValidity(validity, b, n), NEW x \in Block
    PROVE  validity'[x] = BLOCK_VALID_SCRIPTS <=> validity[x] = BLOCK_VALID_SCRIPTS
  BY DEF RuleInv, TypeInv, TypeOK, RaiseValidity, BLOCK_VALID_UNKNOWN, BLOCK_VALID_TREE,
         BLOCK_VALID_TRANSACTIONS, BLOCK_VALID_SCRIPTS

(* A step that moves neither the tip nor the level of any block, and marks     *)
(* nothing without a cause, preserves RuleInv.                                 *)
LEMMA RuleKept ==
    ASSUME RuleInv, TypeInv', tip' = tip,
           \A x \in Block : validity'[x] = BLOCK_VALID_SCRIPTS <=> validity[x] = BLOCK_VALID_SCRIPTS,
           \A b \in failedValid' : Verdict[b] # "ok",
           \A b \in failedChild' : \E a \in Ancestors[b] : Verdict[a] # "ok"
    PROVE  RuleInv'
  <1>1. tip \in Block
    BY DEF RuleInv, TypeInv, TypeOK
  <1> QED BY Zenon, <1>1, TreeFacts DEF RuleInv

(* Initially nothing is marked, and only the genesis block is active. *)
LEMMA RuleInit == Init => RuleInv
  <1> SUFFICES ASSUME Init PROVE RuleInv
    OBVIOUS
  <1>1. /\ \A a \in Ancestors[tip] : Verdict[a] = "ok"
        /\ \A a \in Ancestors[tip] \ {Genesis} : validity[a] = BLOCK_VALID_SCRIPTS
    BY Zenon, BlockTreeAssumption, ChainStateAssumption
       DEF Init, BlockTreeAssumption, ChainStateAssumption
  <1>2. \A b \in Block : validity[b] \in {BLOCK_VALID_TRANSACTIONS, BLOCK_VALID_UNKNOWN}
    BY Zenon DEF Init
  <1>3. \A b \in Block : validity[b] # BLOCK_VALID_SCRIPTS
    <2>1. BLOCK_VALID_SCRIPTS \notin {BLOCK_VALID_TRANSACTIONS, BLOCK_VALID_UNKNOWN}
      BY DEF BLOCK_VALID_UNKNOWN, BLOCK_VALID_TRANSACTIONS, BLOCK_VALID_SCRIPTS
    <2> QED BY Zenon, <1>2, <2>1
  <1> QED BY Zenon, <1>1, <1>3, TypeInit DEF Init, RuleInv

(* Every step, other than one of invalidateblock, preserves RuleInv. *)
LEMMA RuleStep ==
    ASSUME "invalidateblock" \notin Rpc
    PROVE  RuleInv /\ [Next]_vars => RuleInv'
  <1> SUFFICES ASSUME RuleInv, [Next]_vars
               PROVE  RuleInv'
    OBVIOUS
  <1>0. /\ TypeInv /\ TypeInv'
        /\ \A b \in failedValid : Verdict[b] # "ok"
        /\ \A b \in failedChild : \E a \in Ancestors[b] : Verdict[a] # "ok"
    BY TypeStep DEF RuleInv
  <1>1. ASSUME NEW b \in Block \ {Genesis}, AcceptHeader(b)
        PROVE  RuleInv'
    <2>1. /\ validity' = RaiseValidity(validity, b, BLOCK_VALID_TREE)
          /\ UNCHANGED <<tip, failedValid, failedChild>>
      BY <1>1 DEF AcceptHeader
    <2> QED BY <1>0, <2>1, LowRise, RuleKept
  <1>2. ASSUME NEW b \in Block \ {Genesis}, RejectHeader(b)
        PROVE  RuleInv'
    <2>1. pprev[b] \in Block
      BY TreeFacts
    <2>2. UNCHANGED <<tip, validity, failedValid>>
      BY <1>2 DEF RejectHeader
    <2>3. \/ failedChild' = failedChild
          \/ \E f \in Ancestors[pprev[b]] \cap failedValid :
                failedChild' = failedChild \cup (Ancestors[pprev[b]] \ Ancestors[f])
      BY <1>2 DEF RejectHeader, FailedAncestors
    <2>4. \A z \in failedChild' : \E a \in Ancestors[z] : Verdict[a] # "ok"
      <3>1. CASE failedChild' = failedChild
        BY <1>0, <3>1
      <3>2. ASSUME NEW f \in Ancestors[pprev[b]] \cap failedValid,
                   failedChild' = failedChild \cup (Ancestors[pprev[b]] \ Ancestors[f])
            PROVE  \A z \in failedChild' : \E a \in Ancestors[z] : Verdict[a] # "ok"
        <4>1. f \in Failed
          BY DEF Failed
        <4> QED BY <1>0, <2>1, <3>2, <4>1, CauseAbove
      <3> QED BY <2>3, <3>1, <3>2
    <2> QED BY <1>0, <2>2, <2>4, RuleKept
  <1>3. ASSUME NEW t \in Thread, NEW b \in Block \ {Genesis}, NEW r \in BOOLEAN,
               IgnoreBlock(t, b, r)
        PROVE  RuleInv'
    <2>1. /\ validity' = RaiseValidity(validity, b, BLOCK_VALID_TREE)
          /\ UNCHANGED <<tip, failedValid, failedChild>>
      BY <1>3 DEF IgnoreBlock
    <2> QED BY <1>0, <2>1, LowRise, RuleKept
  <1>4. ASSUME NEW t \in Thread, NEW b \in Block \ {Genesis}, NEW r \in BOOLEAN,
               RejectBlock(t, b, r)
        PROVE  RuleInv'
    <2>1. /\ validity' = RaiseValidity(validity, b, BLOCK_VALID_TREE)
          /\ failedValid' = failedValid \cup {b} /\ Verdict[b] # "ok"
          /\ UNCHANGED <<tip, failedChild>>
      BY <1>4 DEF RejectBlock
    <2> QED BY <1>0, <2>1, LowRise, RuleKept
  <1>5. ASSUME NEW t \in Thread, NEW b \in Block \ {Genesis}, NEW r \in BOOLEAN,
               AcceptBlock(t, b, r)
        PROVE  RuleInv'
    <2>1. /\ validity' = RaiseValidity(validity, b, BLOCK_VALID_TRANSACTIONS)
          /\ UNCHANGED <<tip, failedValid, failedChild>>
      BY <1>5 DEF AcceptBlock, ReceivedBlockTransactions, StillUnlinked
    <2> QED BY <1>0, <2>1, LowRise, RuleKept
  <1>6. ASSUME NEW b \in Block, PruneOneBlockFile(b)
        PROVE  RuleInv'
    BY <1>0, <1>6, RuleKept DEF PruneOneBlockFile
  <1>7. ASSUME NEW t \in Thread, NEW b \in Block,
               InvalidateBlock(t, b) \/ InvalidateBlockFails(t, b)
        PROVE  RuleInv'
    BY Zenon, <1>7 DEF InvalidateBlock, InvalidateBlockFails
  <1>8. ASSUME NEW t \in Thread, NEW b \in Block, ResetBlockFailureFlags(t, b)
        PROVE  RuleInv'
    <2>1. /\ failedValid' \subseteq failedValid /\ failedChild' \subseteq failedChild
          /\ UNCHANGED <<tip, validity>>
      BY Zenon, <1>8 DEF ResetBlockFailureFlags
    <2> QED BY <1>0, <2>1, RuleKept
  <1>9. ASSUME NEW t \in Thread, NEW b \in Block, PreciousBlock(t, b)
        PROVE  RuleInv'
    <2>1. UNCHANGED <<tip, statusVars>>
      BY <1>9 DEF PreciousBlock
    <2> QED BY <1>0, <2>1, RuleKept
  <1>10. ASSUME NEW t \in Thread, LockMain(t)
         PROVE  RuleInv'
    BY <1>0, <1>10, RuleKept DEF LockMain
  <1>11. ASSUME NEW t \in Thread, FindMostWorkChain(t)
         PROVE  RuleInv'
    BY Zenon, <1>0, <1>11, RuleKept DEF FindMostWorkChain
  <1>12. ASSUME NEW t \in Thread, DropCandidate(t)
         PROVE  RuleInv'
    <2>1. PICK c \in setBlockIndexCandidates : \E x \in Unusable(c) : Drop(c, x)
      BY Zenon, <1>12 DEF DropCandidate
    <2>2. PICK x \in Unusable(c) : Drop(c, x)
      BY <2>1
    <2>3. c \in Block /\ x \in Ancestors[c]
      BY Zenon DEF Unusable, Path, RuleInv, TypeInv, TypeOK
    <2>4. UNCHANGED <<tip, validity, failedValid>>
      BY Zenon, <1>12 DEF DropCandidate
    <2>5. \/ failedChild' = failedChild
          \/ x \in Failed /\ failedChild' = failedChild \cup (Ancestors[c] \ Ancestors[x])
      BY Zenon, <2>2 DEF Drop, Above, Dropped
    <2>6. \A z \in failedChild' : \E a \in Ancestors[z] : Verdict[a] # "ok"
      BY <1>0, <2>3, <2>5, CauseAbove
    <2> QED BY <1>0, <2>4, <2>6, RuleKept
  <1>13. ASSUME NEW t \in Thread, DisconnectTip(t)
         PROVE  RuleInv'
    <2>1. tip' \in {tip, pprev[tip]} /\ UNCHANGED <<mapBlockIndex, statusVars>>
      BY <1>13 DEF DisconnectTip
    <2>2. tip \in Block /\ tip' \in Block
      BY Zenon, <1>0 DEF TypeInv, TypeOK
    <2>3. Ancestors[tip'] \subseteq Ancestors[tip]
      <3>1. CASE tip = Genesis
        BY <2>1, <2>2, <3>1, BlockTreeAssumption DEF BlockTreeAssumption
      <3>2. CASE tip # Genesis
        BY Zenon, <2>1, <2>2, <3>2, TreeFacts
      <3> QED BY <3>1, <3>2
    <2> QED BY Zenon, <1>0, <2>1, <2>3 DEF RuleInv
  <1>14. ASSUME NEW t \in Thread, NEW b \in Block, ConnectTip(t, b)
         PROVE  RuleInv'
    <2>1. /\ tip' = b /\ b # Genesis /\ pprev[b] = tip /\ Verdict[b] = "ok"
          /\ validity' = RaiseValidity(validity, b, BLOCK_VALID_SCRIPTS)
          /\ UNCHANGED <<mapBlockIndex, failedValid, failedChild>>
      BY Zenon, <1>14 DEF ConnectTip, Connecting
    <2>2. Ancestors[b] = Ancestors[tip] \cup {b}
      BY Zenon, <2>1, TreeFacts
    <2>3. \A a \in Ancestors[b] : Verdict[a] = "ok"
      BY Zenon, <2>1, <2>2 DEF RuleInv
    <2>4. validity \in [Block -> {BLOCK_VALID_UNKNOWN, BLOCK_VALID_TREE,
                                  BLOCK_VALID_TRANSACTIONS, BLOCK_VALID_SCRIPTS}]
      BY Zenon, <1>0 DEF TypeInv, TypeOK
    <2>5. \A x \in Block : validity'[x] = IF x = b THEN BLOCK_VALID_SCRIPTS ELSE validity[x]
      <3>1. b \notin Failed
        BY <2>3, NoCauseNoMark
      <3>2. validity' = IF validity[b] < BLOCK_VALID_SCRIPTS
                        THEN [validity EXCEPT ![b] = BLOCK_VALID_SCRIPTS] ELSE validity
        BY <2>1, <3>1 DEF RaiseValidity
      <3>3. validity[b] < BLOCK_VALID_SCRIPTS \/ validity[b] = BLOCK_VALID_SCRIPTS
        BY <2>4 DEF BLOCK_VALID_UNKNOWN, BLOCK_VALID_TREE,
                    BLOCK_VALID_TRANSACTIONS, BLOCK_VALID_SCRIPTS
      <3>4. CASE validity[b] < BLOCK_VALID_SCRIPTS
        BY <2>4, <3>2, <3>4
      <3>5. CASE ~(validity[b] < BLOCK_VALID_SCRIPTS)
        BY <3>2, <3>3, <3>5
      <3> QED BY <3>4, <3>5
    <2>6. \A a \in Ancestors[b] \ {Genesis} : validity'[a] = BLOCK_VALID_SCRIPTS
      <3>1. Ancestors[b] \subseteq Block
        BY TreeFacts
      <3> QED BY <2>2, <2>4, <2>5, <3>1 DEF RuleInv
    <2>7. ASSUME NEW x \in Block, validity'[x] = BLOCK_VALID_SCRIPTS,
                 NEW a \in Ancestors[x] \ {Genesis}
          PROVE  validity'[a] = BLOCK_VALID_SCRIPTS
      <3>1. a \in Block
        BY TreeFacts
      <3> QED BY <2>5, <2>6, <2>7, <3>1 DEF RuleInv
    <2> QED BY Zenon, <1>0, <2>1, <2>3, <2>6, <2>7 DEF RuleInv
  <1>15. ASSUME NEW t \in Thread, NEW b \in Block, InvalidBlockFound(t, b)
         PROVE  RuleInv'
    <2>1. /\ failedValid' = failedValid \cup {b} /\ Verdict[b] # "ok"
          /\ UNCHANGED <<tip, validity, failedChild>>
      BY <1>15 DEF InvalidBlockFound
    <2> QED BY <1>0, <2>1, RuleKept
  <1>16. ASSUME NEW t \in Thread, NEW b \in Block, ConnectWithoutData(t, b)
         PROVE  RuleInv'
    BY <1>0, <1>16, RuleKept DEF ConnectWithoutData
  <1>17. ASSUME NEW t \in Thread, Connected(t)
         PROVE  RuleInv'
    BY <1>0, <1>17, RuleKept DEF Connected
  <1>18. ASSUME NEW t \in Thread, FinishStep(t)
         PROVE  RuleInv'
    BY Zenon, <1>0, <1>18, RuleKept DEF FinishStep
  <1>19. CASE UNCHANGED vars
    BY Zenon, <1>0, <1>19, RuleKept DEF vars
  <1> QED BY <1>1, <1>2, <1>3, <1>4, <1>5, <1>6, <1>7, <1>8, <1>9, <1>10, <1>11, <1>12, <1>13,
             <1>14, <1>15, <1>16, <1>17, <1>18, <1>19
          DEF Next, ProcessNewBlock, OperatorCall, ActivateBestChain

(* As long as invalidateblock is not used, a block marked invalid is never     *)
(* part of the active chain, however the threads interleave between the steps  *)
(* of ActivateBestChain.                                                       *)
THEOREM ActiveChainCorrect ==
    ASSUME "invalidateblock" \notin Rpc
    PROVE  Spec => []ActiveChainNotFailed
  <1>1. ASSUME RuleInv PROVE ActiveChainNotFailed
    <2>1. tip \in Block
      BY Zenon, <1>1 DEF RuleInv, TypeInv, TypeOK
    <2>2. ASSUME NEW z \in Ancestors[tip] PROVE z \notin Failed
      <3>1. z \in Block /\ Ancestors[z] \subseteq Ancestors[tip]
        BY <2>1, TreeFacts
      <3>2. \A a \in Ancestors[z] : Verdict[a] = "ok"
        BY <1>1, <3>1 DEF RuleInv
      <3> QED BY <1>1, <3>1, <3>2, NoCauseNoMark
    <2> QED BY <2>2 DEF ActiveChainNotFailed
  <1> QED BY <1>1, RuleInit, RuleStep, PTL DEF Spec

(* As long as invalidateblock is not used, a block whose scripts were verified *)
(* stands on blocks whose scripts were verified, as CheckBlockIndex asserts.   *)
THEOREM ScriptsCorrect ==
    ASSUME "invalidateblock" \notin Rpc
    PROVE  Spec => []ScriptsValidBelow
  <1>1. RuleInv => ScriptsValidBelow
    BY DEF RuleInv, ScriptsValidBelow, TypeInv, TypeOK
  <1> QED BY <1>1, RuleInit, RuleStep, PTL DEF Spec

==============================================================================
