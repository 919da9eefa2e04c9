--------------------------- MODULE MCLibraryDesk ---------------------------
EXTENDS LibraryDesk
MC_ByTitle == <<"a", "b", "c">>
MC_ByName == <<"m", "n">>
MC_Found == {"b", "c"}
=============================================================================
