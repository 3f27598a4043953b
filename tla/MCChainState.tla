----------------------------- MODULE MCChainState -----------------------------
(***************************************************************************)
(* Instances of ChainState for TLC.  A tree is given by its parent function *)
(* and the work of each block; ancestors, heights and total work follow.    *)
(***************************************************************************)
EXTENDS ChainState, TLC

CONSTANTS g, a1, a2, a3, b1, b2, c2

(* Trees *)
LongBranch  == (g :> NULL) @@ (a1 :> g) @@ (a2 :> a1) @@ (a3 :> a2) @@ (b1 :> g)
Fork        == (g :> NULL) @@ (a1 :> g) @@ (a2 :> a1) @@ (b1 :> g)
Three       == (g :> NULL) @@ (a1 :> g) @@ (a2 :> a1) @@ (a3 :> a2)
Six         == (g :> NULL) @@ (a1 :> g) @@ (a2 :> a1) @@ (a3 :> a2) @@ (c2 :> a1)
               @@ (b1 :> g) @@ (b2 :> b1)
MidFork     == (g :> NULL) @@ (a1 :> g) @@ (a2 :> a1) @@ (a3 :> a2) @@ (c2 :> a1)

RECURSIVE AncestorsOf(_, _)
AncestorsOf(parent, b) == IF b = NULL THEN {} ELSE {b} \cup AncestorsOf(parent, parent[b])

MCBlock     == DOMAIN pprev
MCAncestors == [b \in DOMAIN pprev |-> AncestorsOf(pprev, b)]
MCHeight    == [b \in DOMAIN pprev |-> Cardinality(AncestorsOf(pprev, b)) - 1]

(* Blocks of work 1; b1 may count for two or for three *)
UnitWork  == [b \in DOMAIN pprev |-> Cardinality(AncestorsOf(pprev, b))]
HeavyB    == [b \in DOMAIN pprev |-> Cardinality(AncestorsOf(pprev, b))
                                     + (IF b1 \in AncestorsOf(pprev, b) THEN 2 ELSE 0)]

TieB      == [b \in DOMAIN pprev |-> Cardinality(AncestorsOf(pprev, b))
                                     + (IF b1 \in AncestorsOf(pprev, b) THEN 1 ELSE 0)]

AddressOrder == <<g, a1, b1, a2, c2, b2, a3>>
MCAddress == [b \in DOMAIN pprev |-> CHOOSE i \in DOMAIN AddressOrder : AddressOrder[i] = b]

AllValid == [b \in DOMAIN pprev |-> "ok"]
BadA2    == [b \in DOMAIN pprev |-> IF b = a2 THEN "connect" ELSE "ok"]
BadA1    == [b \in DOMAIN pprev |-> IF b = a1 THEN "connect" ELSE "ok"]
BadMix   == [b \in DOMAIN pprev |-> IF b = a2 THEN "connect" ELSE IF b = b2 THEN "block" ELSE "ok"]
==============================================================================
