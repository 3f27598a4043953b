------------------------------ MODULE BlockTree ------------------------------
(***************************************************************************)
(* The tree of block headers the network can offer a node, and the order    *)
(* in which CBlockIndex entries are compared (chain.h, chain.cpp and the    *)
(* comparator at the top of validation.cpp).                                *)
(*                                                                          *)
(* A header commits to its predecessor, so the tree is a constant of a run; *)
(* what varies is how much of it a node has seen.  Hashes, times, versions  *)
(* and proofs of work are abstracted to block identities and total work.    *)
(***************************************************************************)
EXTENDS Integers

CONSTANTS
    Block,          \* every block that can ever be offered, the genesis included
    Genesis,        \* the genesis block
    NULL,           \* the null CBlockIndex pointer
    pprev,          \* pprev[b]: the predecessor of b (NULL for the genesis)
    Ancestors,      \* Ancestors[b]: b and every block below it
    nHeight,        \* nHeight[b]: distance from the genesis
    nChainWork,     \* nChainWork[b]: total work of the chain that ends in b
    Address         \* Address[b]: where the CBlockIndex of b was allocated

BlockOrNull == Block \cup {NULL}

(* The shape AddToBlockIndex gives the tree: one root, heights that count   *)
(* predecessors, work that grows, ancestor sets that are chains.            *)
ASSUME BlockTreeAssumption ==
    /\ Genesis \in Block
    /\ NULL \notin Block
    /\ pprev \in [Block -> BlockOrNull]
    /\ pprev[Genesis] = NULL
    /\ \A b \in Block \ {Genesis} : pprev[b] \in Block
    /\ Ancestors \in [Block -> SUBSET Block]
    /\ Ancestors[Genesis] = {Genesis}
    /\ \A b \in Block \ {Genesis} :
          /\ Ancestors[b] = Ancestors[pprev[b]] \cup {b}
          /\ b \notin Ancestors[pprev[b]]
    /\ \A b \in Block : Genesis \in Ancestors[b]
    /\ \A b \in Block : \A a \in Ancestors[b] : Ancestors[a] \subseteq Ancestors[b]
    /\ \A b \in Block : \A a, c \in Ancestors[b] :
          a \in Ancestors[c] \/ c \in Ancestors[a]
    /\ nHeight \in [Block -> Nat]
    /\ nHeight[Genesis] = 0
    /\ \A b \in Block \ {Genesis} : nHeight[b] = nHeight[pprev[b]] + 1
    /\ nChainWork \in [Block -> Nat]
    /\ \A b \in Block \ {Genesis} : nChainWork[b] > nChainWork[pprev[b]]
    /\ Address \in [Block -> Nat]
    /\ \A a, b \in Block : Address[a] = Address[b] => a = b

(* CBlockIndex::GetAncestor: null unless the chain of b has a block at h *)
GetAncestor(b, h) ==
    LET at == {a \in Ancestors[b] : nHeight[a] = h}
    IN  IF at = {} THEN NULL ELSE CHOOSE a \in at : TRUE

(* GetBlockProof: the work of one block *)
GetBlockProof(b) == IF b = Genesis THEN nChainWork[b]
                    ELSE nChainWork[b] - nChainWork[pprev[b]]

(* CChain::Contains, for the chain that ends in t *)
Contains(t, b) == b \in Ancestors[t]

(* CChain::FindFork, for the chain that ends in t: cut b to the height of    *)
(* the chain, then go back until a block is on it.                          *)
FindFork(t, b) ==
    LET back[pindex \in BlockOrNull] ==
            IF pindex = NULL \/ Contains(t, pindex) THEN pindex ELSE back[pprev[pindex]]
    IN  back[IF b # NULL /\ nHeight[b] > nHeight[t] THEN GetAncestor(b, nHeight[t]) ELSE b]

(* LastCommonAncestor: cut the longer chain to the height of the other, then *)
(* go back on both until they meet.                                         *)
LastCommonAncestor(a, b) ==
    LET back[q \in BlockOrNull \X BlockOrNull] ==
            IF q[1] = q[2] \/ q[1] = NULL \/ q[2] = NULL THEN q[1]
            ELSE back[<<pprev[q[1]], pprev[q[2]]>>]
    IN  back[<<IF nHeight[a] > nHeight[b] THEN GetAncestor(a, nHeight[b]) ELSE a,
               IF nHeight[b] > nHeight[a] THEN GetAncestor(b, nHeight[a]) ELSE b>>]

(* CBlockIndexWorkComparator()(a, b), with seq the blocks' nSequenceId:     *)
(* less work is worse, then received later is worse, then the address.      *)
Worse(a, b, seq) ==
    \/ nChainWork[a] < nChainWork[b]
    \/ nChainWork[a] = nChainWork[b] /\ seq[a] > seq[b]
    \/ nChainWork[a] = nChainWork[b] /\ seq[a] = seq[b] /\ Address[a] > Address[b]

==============================================================================
