---------------------------- MODULE MCDuplicates ----------------------------
EXTENDS Duplicates
Book(fav, pct, converted, size) ==
    [favorite |-> fav, rating |-> 0, pct |-> pct, converted |-> converted,
     format |-> 3, meta |-> 1, size |-> size]
MC_Copies == <<"a", "b", "c", "d">>
MC_About == [a |-> Book(FALSE, 0, FALSE, 4), b |-> Book(FALSE, 40, TRUE, 4),
             c |-> Book(FALSE, 0, FALSE, 4), d |-> Book(TRUE, 0, TRUE, 9)]
MC_Pairs == {l \in Copy \X Copy : Place(l[1]) < Place(l[2])}
MC_Linkings == {ls \in SUBSET MC_Pairs : Cardinality(ls) <= 2 \/ ls = MC_Pairs}
MC_Contents == [a |-> {1, 2}, b |-> {1, 2, 3, 4}, c |-> {3, 4}, d |-> {5, 6}]
=============================================================================
