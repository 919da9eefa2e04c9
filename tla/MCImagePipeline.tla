--------------------------- MODULE MCImagePipeline ---------------------------
(* Bounds for checking ImagePipeline: two or three sections of one or two   *)
(* pictures each, and a cache with one or two slots to spare.               *)
EXTENDS ImagePipeline, TLC
OneEach == [s \in Sections |-> {1}]
TwoThenOne == [s \in Sections |-> IF s = 0 THEN {1, 2} ELSE {1}]
TwoEach == [s \in Sections |-> {1, 2}]
=============================================================================
