--------------------------- MODULE MCBookRecords ---------------------------
EXTENDS BookRecords, TLC
CONSTANTS p, q, x, F, G
\* Two names in a configured folder, one elsewhere.
MCFolderOf == (p :> F) @@ (q :> F) @@ (x :> G)
MCSymmetry == {f @@ g : f \in Permutations({p, q}), g \in Permutations(Books)}
=============================================================================
