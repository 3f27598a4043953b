------------------------------ MODULE MCMempool ------------------------------
(* An instance of Mempool for TLC.  Block a1 holds p and its child c, and    *)
(* a2 holds d, which spends both; e spends d.  On the other branch b1 holds  *)
(* s and b2 holds p; u spends p and s, and r conflicts with both.  q spends  *)
(* the coinbase of a1.  The genesis stands for the block the run starts at,  *)
(* and f for an old transaction whose outputs p, s and r want.               *)
EXTENDS Mempool, TLC

CONSTANTS g, a1, a2, b1, b2, f, k1, k2, k3, k4, p, c, d, e, s, u, r, q

MCpprev == (g :> NULL) @@ (a1 :> g) @@ (a2 :> a1) @@ (b1 :> g) @@ (b2 :> b1)

MCAncestors == (g :> {g}) @@ (a1 :> {g, a1}) @@ (a2 :> {g, a1, a2}) @@ (b1 :> {g, b1})
               @@ (b2 :> {g, b1, b2})

MCHeight == (g :> 0) @@ (a1 :> 1) @@ (a2 :> 2) @@ (b1 :> 1) @@ (b2 :> 2)

MCWork == (g :> 1) @@ (a1 :> 2) @@ (a2 :> 3) @@ (b1 :> 2) @@ (b2 :> 3)

MCAddress == (g :> 1) @@ (a1 :> 2) @@ (a2 :> 3) @@ (b1 :> 4) @@ (b2 :> 5)

MCVtx == (g :> <<f>>) @@ (a1 :> <<k1, p, c>>) @@ (a2 :> <<k2, d>>) @@ (b1 :> <<k3, s>>)
         @@ (b2 :> <<k4, p>>)

MCvin ==
  (f :> {}) @@ (k1 :> {}) @@ (k2 :> {}) @@ (k3 :> {}) @@ (k4 :> {})
  @@ (p :> {<<f, 0>>}) @@ (c :> {<<p, 0>>}) @@ (d :> {<<p, 1>>, <<c, 0>>}) @@ (e :> {<<d, 0>>})
  @@ (s :> {<<f, 1>>}) @@ (u :> {<<p, 2>>, <<s, 0>>}) @@ (r :> {<<f, 0>>, <<f, 1>>})
  @@ (q :> {<<k1, 0>>})

MCFee == (p :> 2) @@ (c :> 1) @@ (d :> 3) @@ (s :> 1) @@ (u :> 2) @@ (r :> 5) @@ [t \in Tx |-> 1]

MCSize == [t \in Tx |-> IF t = d THEN 2 ELSE 1]

MCLockTime == [t \in Tx |-> IF t = e THEN 1 ELSE 0]
=============================================================================
