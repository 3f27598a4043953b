--------------------------- MODULE MCBlockDownload ---------------------------
(* An instance of BlockDownload for TLC: two peers, one of which is slow. *)
EXTENDS BlockDownload, TLC

CONSTANTS g, a1, a2, a3, b2, slow, good

MCpprev == (g :> NULL) @@ (a1 :> g) @@ (a2 :> a1) @@ (a3 :> a2) @@ (b2 :> a1)

MCAncestors == (g :> {g}) @@ (a1 :> {g, a1}) @@ (a2 :> {g, a1, a2}) @@ (a3 :> {g, a1, a2, a3})
               @@ (b2 :> {g, a1, b2})

MCHeight == (g :> 0) @@ (a1 :> 1) @@ (a2 :> 2) @@ (a3 :> 3) @@ (b2 :> 2)

MCWork == (g :> 1) @@ (a1 :> 2) @@ (a2 :> 3) @@ (a3 :> 4) @@ (b2 :> 3)

MCAddress == (g :> 1) @@ (a1 :> 2) @@ (a2 :> 3) @@ (a3 :> 4) @@ (b2 :> 5)

\* The slow peer grows a branch of its own, which is announced to us; the good one has the
\* best chain from the start.  MCGrowingTips, for a larger instance: both grow.
MCTips == (slow :> <<a1, b2>>) @@ (good :> <<a3>>)

MCGrowingTips == (slow :> <<a1, b2>>) @@ (good :> <<a1, a3>>)
=============================================================================
