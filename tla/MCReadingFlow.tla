--------------------------- MODULE MCReadingFlow ---------------------------
EXTENDS ReadingFlow
MC_Wrapped == [narrow |-> [c \in Chapters |-> <<5, 2, 7>>[c + 1]],
               wide |-> [c \in Chapters |-> <<3, 1, 4>>[c + 1]]]
=============================================================================
