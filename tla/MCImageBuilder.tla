--------------------------- MODULE MCImageBuilder ---------------------------
(* Bounds for checking ImageBuilder: a request that is in the pool is not   *)
(* made again, so the number of requests bounds the lanes.                  *)
EXTENDS ImageBuilder, TLC
CONSTANTS i1, i2, b1, b2
MCRequests == {i1, i2, b1, b2}
MCInlineMath == {i1, i2}
MCSectionOf == (i1 :> 0) @@ (i2 :> 1) @@ (b1 :> 0) @@ (b2 :> 1)
OneSection == [r \in MCRequests |-> 0]
SmallRequests == {i1, b1, b2}
SmallInlineMath == {i1}
SmallSectionOf == (i1 :> 0) @@ (b1 :> 0) @@ (b2 :> 1)
=============================================================================
