---------------------------- MODULE Subsequences ----------------------------
(* The part of a sequence that is in a set, in the order the sequence has it *)
(* (filter and retain of the source).  It is SelectSeq without recursion,    *)
(* for nothing can be proved of the recursive one.                           *)
EXTENDS Integers, Sequences, FiniteSets

PositionsIn(s, S) == {i \in DOMAIN s : s[i] \in S}

\* How many of the positions are not after i.
RankIn(s, S, i) == Cardinality({j \in PositionsIn(s, S) : j <= i})

Retained(s, S) ==
    [k \in 1 .. Cardinality(PositionsIn(s, S)) |->
        s[CHOOSE i \in PositionsIn(s, S) : RankIn(s, S, i) = k]]
=============================================================================
