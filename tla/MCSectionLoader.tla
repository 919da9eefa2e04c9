--------------------------- MODULE MCSectionLoader ---------------------------
(* Bounds for checking SectionLoader: the channels stay short because only a *)
(* section that is not already requested is sent, except after an            *)
(* invalidation forgets the requests, which MaxSettings and MaxRef bound.    *)
EXTENDS SectionLoader
=============================================================================
