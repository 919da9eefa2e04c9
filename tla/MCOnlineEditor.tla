--------------------------- MODULE MCOnlineEditor ---------------------------
EXTENDS OnlineEditor
MC_Edited == <<"a", "b">>
=============================================================================
