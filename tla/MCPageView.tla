----------------------------- MODULE MCPageView -----------------------------
(* Small instances of PageView.                                            *)
EXTENDS PageView

MCSections == 0 .. NumSections - 1
MCShapes == BOOLEAN \X Views \X Rasters
=============================================================================
