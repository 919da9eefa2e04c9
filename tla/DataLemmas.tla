----------------------------- MODULE DataLemmas -----------------------------
(* Facts about sets of naturals, about the part of a sequence that is in a   *)
(* set, about stacks and about recursive functions, that the proofs of the   *)
(* component modules share.  The library states the least-number principle   *)
(* for an operator; these state it, and its mirror image, for sets.          *)
EXTENDS Integers, Subsequences, SequencesExt, FiniteSetTheorems, WellFoundedInduction, TLAPS

NatLess == {p \in Nat \X Nat : p[1] < p[2]}

(* Every nonempty set of naturals has a least element.  (Used to argue by a  *)
(* minimal counterexample.)                                                  *)
LEMMA LeastElement ==
    ASSUME NEW S \in SUBSET Nat, S # {}
    PROVE  \E m \in S : \A k \in S : m <= k
<1>1. IsWellFoundedOn(OpToRel(<, Nat), Nat)
  BY NatLessThanWellFounded
<1>2. OpToRel(<, Nat) = NatLess
  BY DEF OpToRel, NatLess
<1>3. IsWellFoundedOn(NatLess, Nat)
  BY <1>1, <1>2
<1>4. PICK m \in S : \A k \in S : ~ (<<k, m>> \in NatLess)
  BY <1>3, WFMin
<1>5. ASSUME NEW k \in S
      PROVE  m <= k
  <2>1. m \in Nat /\ k \in Nat
    OBVIOUS
  <2>2. k < m => <<k, m>> \in NatLess
    BY <2>1 DEF NatLess
  <2>3. QED BY <1>4, <2>1, <2>2
<1>6. QED BY <1>5

(* A nonempty set of positions in a sequence has a last one.                 *)
LEMMA GreatestElement ==
    ASSUME NEW n \in Nat, NEW S \in SUBSET (1 .. n), S # {}
    PROVE  \E m \in S : \A k \in S : k <= m
<1> DEFINE T == {n - i : i \in S}
<1>1. T \in SUBSET Nat /\ T # {}
  <2>1. \A i \in S : i \in Int /\ i <= n
    OBVIOUS
  <2>2. \A i \in S : n - i \in Nat
    BY <2>1
  <2>3. PICK i \in S : TRUE
    OBVIOUS
  <2>4. n - i \in T
    OBVIOUS
  <2>5. T \subseteq Nat
    BY <2>2
  <2>6. QED BY <2>4, <2>5
<1>2. PICK t \in T : \A k \in T : t <= k
  BY <1>1, LeastElement
<1>3. PICK m \in S : t = n - m
  BY <1>2
<1>4. \A k \in S : k <= m
  BY <1>2, <1>3
<1>5. QED BY <1>4
-----------------------------------------------------------------------------
(* Sequences without repetition, and parts of them.                          *)

(* A function on 1 .. n is a sequence of its values.                         *)
LEMMA SequenceOfValues ==
    ASSUME NEW n \in Nat, NEW f, f = [i \in 1 .. n |-> f[i]]
    PROVE  f \in Seq(Range(f))
BY DEF Range

(* The position numbers of a part of a sequence are 1, 2, ... without gaps.  *)
LEMMA RanksArePositions ==
    ASSUME NEW T, NEW s \in Seq(T), NEW S
    PROVE  LET at == PositionsIn(s, S)
               n == Cardinality(at)
           IN  /\ n \in Nat /\ n <= Len(s) /\ IsFiniteSet(at)
               /\ \A i \in at : RankIn(s, S, i) \in 1 .. n
               /\ \A i, j \in at : RankIn(s, S, i) = RankIn(s, S, j) => i = j
               /\ \A k \in 1 .. n : \E i \in at : RankIn(s, S, i) = k
<1> DEFINE at == PositionsIn(s, S)
           n == Cardinality(at)
           upto(i) == {j \in at : j <= i}
           r == [i \in at |-> RankIn(s, S, i)]
<1>1. at \in SUBSET (1 .. Len(s)) /\ Len(s) \in Nat
  BY DEF PositionsIn
<1> HIDE DEF at
<1>2. IsFiniteSet(at) /\ n \in Nat /\ n <= Len(s)
  <2>1. IsFiniteSet(1 .. Len(s)) /\ Cardinality(1 .. Len(s)) = Len(s)
    BY <1>1, FS_Interval
  <2>2. IsFiniteSet(at) /\ Cardinality(at) <= Cardinality(1 .. Len(s))
    BY <1>1, <2>1, FS_Subset
  <2> QED BY <2>1, <2>2, FS_CardinalityType
<1>3. \A i : RankIn(s, S, i) = Cardinality(upto(i))
  BY DEF RankIn, at
<1>4. ASSUME NEW i \in at PROVE Cardinality(upto(i)) \in 1 .. n /\ IsFiniteSet(upto(i))
  <2>1. upto(i) \in SUBSET at /\ i \in upto(i)
    BY <1>1
  <2>2. IsFiniteSet(upto(i)) /\ Cardinality(upto(i)) \in Nat /\ Cardinality(upto(i)) <= n
    BY <1>2, <2>1, FS_Subset, FS_CardinalityType
  <2>3. Cardinality(upto(i)) # 0
    BY <2>1, <2>2, FS_EmptySet
  <2> QED BY <1>2, <2>2, <2>3
<1>5. ASSUME NEW i \in at, NEW j \in at, i < j PROVE Cardinality(upto(i)) < Cardinality(upto(j))
  <2>1. upto(i) \in SUBSET upto(j) /\ j \in upto(j) /\ j \notin upto(i)
    <3>1. i \in Int /\ j \in Int /\ \A k \in at : k \in Int
      BY <1>1
    <3>2. \A k \in at : k <= i => k <= j
      BY <1>5, <3>1
    <3>3. upto(i) \subseteq upto(j)
      BY <3>2
    <3>4. j <= j /\ ~ (j <= i)
      BY <1>5, <3>1
    <3> QED BY <3>3, <3>4
  <2>2. Cardinality(upto(i)) <= Cardinality(upto(j)) /\ Cardinality(upto(i)) # Cardinality(upto(j))
    BY <1>4, <2>1, FS_Subset
  <2> QED BY <1>2, <1>4, <2>2
<1> HIDE DEF upto
<1>6. \A i, j \in at : RankIn(s, S, i) = RankIn(s, S, j) => i = j
  <2> SUFFICES ASSUME NEW i \in at, NEW j \in at, RankIn(s, S, i) = RankIn(s, S, j), i # j PROVE FALSE
    OBVIOUS
  <2>1. i < j \/ j < i
    BY <1>1
  <2>2. Cardinality(upto(i)) \in Nat /\ Cardinality(upto(j)) \in Nat
    BY <1>2, <1>4
  <2> QED BY <1>3, <1>5, <2>1, <2>2
<1>7. r \in Injection(at, 1 .. n)
  <2>1. r \in [at -> 1 .. n]
    BY <1>3, <1>4
  <2>2. \A i, j \in at : r[i] = r[j] => i = j
    BY <1>6
  <2> QED BY <2>1, <2>2 DEF Injection, IsInjective
<1>8. IsFiniteSet(1 .. n) /\ Cardinality(1 .. n) = n
  BY <1>2, FS_Interval
<1>9. r \in Surjection(at, 1 .. n)
  BY <1>7, <1>8, FS_Injection
<1>10. \A k \in 1 .. n : \E i \in at : RankIn(s, S, i) = k
  BY <1>9 DEF Surjection
<1> QED BY <1>2, <1>3, <1>4, <1>6, <1>10 DEF at

(* The part of a sequence that is in a set has the elements of both, and no  *)
(* repetition if the sequence has none.                                      *)
LEMMA RetainedIs ==
    ASSUME NEW T, NEW s \in Seq(T), NEW S
    PROVE  /\ Retained(s, S) \in Seq(T)
           /\ Range(Retained(s, S)) = Range(s) \cap S
           /\ IsInjective(s) => IsInjective(Retained(s, S))
<1> DEFINE at == PositionsIn(s, S)
           n == Cardinality(at)
           pos(k) == CHOOSE i \in at : RankIn(s, S, i) = k
           q == Retained(s, S)
<1>1. /\ n \in Nat
      /\ \A i \in at : RankIn(s, S, i) \in 1 .. n
      /\ \A i, j \in at : RankIn(s, S, i) = RankIn(s, S, j) => i = j
      /\ \A k \in 1 .. n : \E i \in at : RankIn(s, S, i) = k
  BY RanksArePositions
<1>2. \A k \in 1 .. n : pos(k) \in at /\ RankIn(s, S, pos(k)) = k
  BY <1>1
<1>3. \A i \in at : i \in DOMAIN s /\ s[i] \in S /\ s[i] \in T
  BY DEF PositionsIn
<1>4. \A i \in DOMAIN s : s[i] \in S => i \in at
  BY DEF PositionsIn
<1>5. q = [k \in 1 .. n |-> s[pos(k)]]
  BY DEF Retained
<1> HIDE DEF at, pos
<1>6. q \in Seq(T)
  BY <1>1, <1>2, <1>3, <1>5
<1>7. DOMAIN q = 1 .. n /\ \A k \in 1 .. n : q[k] = s[pos(k)]
  BY <1>5
<1> HIDE DEF q
<1>8. Range(q) \subseteq Range(s) \cap S
  BY <1>2, <1>3, <1>7 DEF Range
<1>9. ASSUME NEW i \in DOMAIN s, s[i] \in S PROVE s[i] \in Range(q)
  <2>1. i \in at
    BY <1>4, <1>9
  <2> DEFINE k == RankIn(s, S, i)
  <2>2. k \in 1 .. n /\ pos(k) = i
    BY <1>1, <1>2, <2>1
  <2> QED BY <1>7, <2>2 DEF Range
<1>10. Range(s) \cap S \subseteq Range(q)
  BY <1>9 DEF Range
<1>11. ASSUME IsInjective(s) PROVE IsInjective(q)
  <2> SUFFICES ASSUME NEW j \in 1 .. n, NEW k \in 1 .. n, q[j] = q[k] PROVE j = k
    BY <1>7 DEF IsInjective
  <2>1. pos(j) = pos(k)
    BY <1>2, <1>3, <1>7, <1>11 DEF IsInjective
  <2> QED BY <1>2, <2>1
<1> QED BY <1>6, <1>8, <1>10, <1>11 DEF q

(* A part of a part of a sequence is the part of the sequence.               *)
LEMMA RetainedTwice ==
    ASSUME NEW T, NEW s \in Seq(T), NEW A, NEW B, B \subseteq A
    PROVE  Retained(Retained(s, A), B) = Retained(s, B)
<1> DEFINE at == PositionsIn(s, A)
           n == Cardinality(at)
           rank(i) == RankIn(s, A, i)
           pos(k) == CHOOSE i \in at : rank(i) = k
           q == Retained(s, A)
           in == PositionsIn(q, B)
           bat == PositionsIn(s, B)
<1>1. /\ n \in Nat /\ IsFiniteSet(at)
      /\ \A i \in at : rank(i) \in 1 .. n
      /\ \A i, j \in at : rank(i) = rank(j) => i = j
      /\ \A k \in 1 .. n : \E i \in at : rank(i) = k
  BY RanksArePositions
<1>2. \A k \in 1 .. n : pos(k) \in at /\ rank(pos(k)) = k
  BY <1>1
<1>3. at \subseteq 1 .. Len(s) /\ bat \subseteq at /\ Len(s) \in Nat /\ \A i \in at : i \in bat <=> s[i] \in B
  BY DEF PositionsIn
<1>4. q = [k \in 1 .. n |-> s[pos(k)]]
  BY DEF Retained
<1>5. ASSUME NEW i \in at, NEW j \in at, i <= j PROVE rank(i) <= rank(j)
  <2> DEFINE upto(k) == {m \in at : m <= k}
  <2>1. upto(i) \in SUBSET upto(j) /\ upto(j) \in SUBSET at
    BY <1>3, <1>5
  <2>2. IsFiniteSet(upto(j)) /\ Cardinality(upto(i)) <= Cardinality(upto(j))
    BY <1>1, <2>1, FS_Subset
  <2> QED BY <2>2 DEF RankIn
<1> HIDE DEF at, rank, pos
<1>6. in = {k \in 1 .. n : pos(k) \in bat}
  <2>1. DOMAIN q = 1 .. n /\ \A k \in 1 .. n : q[k] = s[pos(k)]
    BY <1>4
  <2>2. in = {k \in 1 .. n : s[pos(k)] \in B}
    BY <2>1 DEF PositionsIn
  <2> QED BY <1>2, <1>3, <2>2
<1>61. ASSUME NEW i \in bat PROVE pos(rank(i)) = i /\ rank(i) \in in
  <2>1. i \in at /\ rank(i) \in 1 .. n
    BY <1>1, <1>3
  <2>2. pos(rank(i)) = i
    BY <1>1, <1>2, <2>1
  <2> QED BY <1>6, <2>1, <2>2
<1> DEFINE upto(k) == {j \in in : j <= k}
           bupto(i) == {j \in bat : j <= i}
<1>62. /\ \A k : RankIn(q, B, k) = Cardinality(upto(k))
       /\ \A i : RankIn(s, B, i) = Cardinality(bupto(i))
  BY DEF RankIn
<1>7. ASSUME NEW k \in in PROVE RankIn(q, B, k) = RankIn(s, B, pos(k))
  <2> DEFINE U == upto(k)
             V == bupto(pos(k))
             f == [j \in U |-> pos(j)]
  <2>1. k \in 1 .. n /\ pos(k) \in bat
    BY <1>6
  <2>2. \A j \in U : j \in 1 .. n /\ pos(j) \in bat /\ j <= k
    BY <1>6
  <2>3. ASSUME NEW j \in U PROVE pos(j) \in V
    <3>1. pos(j) \in Int /\ pos(k) \in Int /\ pos(j) \in at /\ pos(k) \in at /\ j \in Int /\ k \in Int /\ j <= k
      <4>1. j \in 1 .. n /\ j <= k /\ n \in Nat
        BY <1>1, <2>2
      <4>2. pos(j) \in at /\ pos(k) \in at
        BY <1>2, <2>1, <4>1
      <4>3. \A i \in at : i \in Int
        BY <1>3
      <4> QED BY <2>1, <4>1, <4>2, <4>3
    <3>2. CASE ~ (pos(j) <= pos(k))
      <4>1. pos(k) <= pos(j) /\ pos(k) # pos(j)
        BY <3>1, <3>2
      <4>2. rank(pos(k)) <= rank(pos(j))
        BY <1>5, <3>1, <4>1
      <4>3. k <= j
        BY <1>2, <2>1, <2>2, <4>2
      <4> QED BY <3>1, <4>1, <4>3
    <3> QED BY <2>2, <3>2
  <2>4. ASSUME NEW i \in V PROVE \E j \in U : pos(j) = i
    <3>1. i \in bat /\ i <= pos(k) /\ i \in at /\ pos(k) \in at
      BY <1>3, <2>1
    <3>2. rank(i) <= k
      BY <1>2, <1>5, <2>1, <3>1
    <3>3. rank(i) \in U /\ pos(rank(i)) = i
      BY <1>61, <3>1, <3>2
    <3> QED BY <3>3
  <2>5. \A i, j \in U : pos(i) = pos(j) => i = j
    BY <1>2, <2>2
  <2>6. f \in Bijection(U, V)
    <3>1. f \in [U -> V] /\ \A j \in U : f[j] = pos(j)
      BY <2>3
    <3> HIDE DEF f, U, V
    <3>2. f \in Injection(U, V)
      BY <2>5, <3>1 DEF Injection, IsInjective
    <3>3. f \in Surjection(U, V)
      BY <2>4, <3>1 DEF Surjection
    <3> QED BY <3>2, <3>3 DEF Bijection
  <2>7. IsFiniteSet(U)
    <3>1. U \in SUBSET (1 .. n) /\ IsFiniteSet(1 .. n)
      BY <1>1, <2>2, FS_Interval
    <3> QED BY <3>1, FS_Subset
  <2>8. Cardinality(V) = Cardinality(U)
    <3> HIDE DEF f, U, V
    <3>1. ExistsBijection(U, V)
      BY <2>6 DEF ExistsBijection
    <3> QED BY <2>7, <3>1, FS_Bijection
  <2> QED BY <1>62, <2>8
<1>8. Cardinality(in) = Cardinality(bat)
  <2> DEFINE f == [j \in in |-> pos(j)]
  <2>1. f \in Bijection(in, bat)
    <3>1. f \in [in -> bat] /\ \A j \in in : f[j] = pos(j)
      BY <1>6
    <3>2. \A i, j \in in : pos(i) = pos(j) => i = j
      BY <1>2, <1>6
    <3> HIDE DEF f, in, bat
    <3>3. f \in Injection(in, bat)
      BY <3>1, <3>2 DEF Injection, IsInjective
    <3>4. f \in Surjection(in, bat)
      BY <1>61, <3>1 DEF Surjection
    <3> QED BY <3>3, <3>4 DEF Bijection
  <2>2. IsFiniteSet(in)
    <3>1. in \in SUBSET (1 .. n) /\ IsFiniteSet(1 .. n)
      BY <1>1, <1>6, FS_Interval
    <3> QED BY <3>1, FS_Subset
  <2> HIDE DEF f, in, bat
  <2>3. ExistsBijection(in, bat)
    BY <2>1 DEF ExistsBijection
  <2> QED BY <2>2, <2>3, FS_Bijection
<1>9. /\ \A i \in bat : RankIn(s, B, i) \in 1 .. Cardinality(bat)
      /\ \A i, j \in bat : RankIn(s, B, i) = RankIn(s, B, j) => i = j
      /\ \A k \in 1 .. Cardinality(bat) : \E i \in bat : RankIn(s, B, i) = k
  BY RanksArePositions
<1>10. ASSUME NEW m \in 1 .. Cardinality(bat)
       PROVE  q[CHOOSE k \in in : RankIn(q, B, k) = m] = s[CHOOSE i \in bat : RankIn(s, B, i) = m]
  <2>1. PICK i \in bat : RankIn(s, B, i) = m
    BY <1>9
  <2>2. (CHOOSE j \in bat : RankIn(s, B, j) = m) = i
    BY <1>9, <2>1
  <2>3. rank(i) \in in /\ pos(rank(i)) = i
    BY <1>61
  <2>4. RankIn(q, B, rank(i)) = m
    BY <1>7, <2>1, <2>3
  <2> DEFINE k == CHOOSE j \in in : RankIn(q, B, j) = m
  <2>5. k \in in /\ RankIn(q, B, k) = m
    BY <2>3, <2>4
  <2> HIDE DEF k
  <2>6. pos(k) \in bat /\ RankIn(s, B, pos(k)) = m /\ k \in 1 .. n
    BY <1>6, <1>7, <2>5
  <2>7. pos(k) = i
    BY <1>9, <2>1, <2>6
  <2>8. q[k] = s[pos(k)]
    BY <1>4, <2>6
  <2> QED BY <2>2, <2>7, <2>8 DEF k
<1> HIDE DEF q
<1>11. Retained(q, B) = [m \in 1 .. Cardinality(in) |-> q[CHOOSE k \in in : RankIn(q, B, k) = m]]
  BY DEF Retained
<1>12. Retained(s, B) = [m \in 1 .. Cardinality(bat) |-> s[CHOOSE i \in bat : RankIn(s, B, i) = m]]
  BY DEF Retained
<1> HIDE DEF in, bat
<1>13. Retained(q, B) = Retained(s, B)
  BY <1>8, <1>10, <1>11, <1>12
<1> QED BY <1>13 DEF q

(* A sequence without repetition is as long as it has elements.              *)
LEMMA LengthOfInjective ==
    ASSUME NEW T, NEW s \in Seq(T), IsInjective(s)
    PROVE  IsFiniteSet(Range(s)) /\ Len(s) = Cardinality(Range(s))
<1>1. Len(s) \in Nat /\ DOMAIN s = 1 .. Len(s)
  OBVIOUS
<1>2. IsFiniteSet(1 .. Len(s)) /\ Cardinality(1 .. Len(s)) = Len(s)
  BY <1>1, FS_Interval
<1>3. s \in Surjection(1 .. Len(s), Range(s)) /\ s \in Injection(1 .. Len(s), Range(s))
  BY <1>1 DEF Surjection, Injection, Range, IsInjective
<1> QED BY <1>2, <1>3, FS_Surjection

(* One sequence after another that shares nothing with it.                 *)
LEMMA Joined ==
    ASSUME NEW T, NEW s \in Seq(T), NEW t \in Seq(T)
    PROVE  /\ s \o t \in Seq(T) /\ Range(s \o t) = Range(s) \cup Range(t)
           /\ (IsInjective(s) /\ IsInjective(t) /\ Range(s) \cap Range(t) = {}) => IsInjective(s \o t)
<1> DEFINE m == Len(s)
           n == Len(t)
           q == s \o t
<1>1. m \in Nat /\ n \in Nat /\ DOMAIN s = 1 .. m /\ DOMAIN t = 1 .. n
  OBVIOUS
<1>2. q \in Seq(T) /\ DOMAIN q = 1 .. (m + n)
  OBVIOUS
<1>3. \A i \in 1 .. m : q[i] = s[i] /\ i \in 1 .. (m + n)
  OBVIOUS
<1>4. \A i \in 1 .. n : q[m + i] = t[i] /\ m + i \in 1 .. (m + n)
  OBVIOUS
<1>5. \A i \in 1 .. (m + n) : i \in 1 .. m \/ (i - m \in 1 .. n /\ m + (i - m) = i)
  BY <1>1
<1> HIDE DEF m, n, q
<1>6. Range(q) \subseteq Range(s) \cup Range(t)
  <2> SUFFICES ASSUME NEW i \in 1 .. (m + n) PROVE q[i] \in Range(s) \cup Range(t)
    BY <1>2 DEF Range
  <2>1. CASE i \in 1 .. m
    BY <1>1, <1>3, <2>1 DEF Range
  <2>2. CASE i - m \in 1 .. n /\ m + (i - m) = i
    <3>1. q[i] = t[i - m]
      BY <1>4, <2>2
    <3> QED BY <1>1, <2>2, <3>1 DEF Range
  <2> QED BY <1>5, <2>1, <2>2
<1>7. Range(s) \cup Range(t) \subseteq Range(q)
  <2>1. \A i \in 1 .. m : s[i] \in Range(q)
    BY <1>2, <1>3 DEF Range
  <2>2. \A i \in 1 .. n : t[i] \in Range(q)
    BY <1>2, <1>4 DEF Range
  <2> QED BY <1>1, <2>1, <2>2 DEF Range
<1>8. ASSUME IsInjective(s), IsInjective(t), Range(s) \cap Range(t) = {} PROVE IsInjective(q)
  <2> SUFFICES ASSUME NEW i \in 1 .. (m + n), NEW j \in 1 .. (m + n), q[i] = q[j] PROVE i = j
    BY <1>2 DEF IsInjective
  <2>1. \A k \in 1 .. m : q[k] \in Range(s)
    BY <1>1, <1>3 DEF Range
  <2>2. \A k \in 1 .. (m + n) : k \notin 1 .. m => q[k] = t[k - m] /\ k - m \in 1 .. n /\ q[k] \in Range(t)
    <3> SUFFICES ASSUME NEW k \in 1 .. (m + n), k \notin 1 .. m
                 PROVE  q[k] = t[k - m] /\ k - m \in 1 .. n /\ q[k] \in Range(t)
      OBVIOUS
    <3>1. k - m \in 1 .. n /\ m + (k - m) = k
      BY <1>5
    <3>2. q[k] = t[k - m]
      BY <1>4, <3>1
    <3> QED BY <1>1, <3>1, <3>2 DEF Range
  <2>3. CASE i \in 1 .. m /\ j \in 1 .. m
    BY <1>1, <1>3, <1>8, <2>3 DEF IsInjective
  <2>4. CASE i \notin 1 .. m /\ j \notin 1 .. m
    <3>1. i - m = j - m
      BY <1>1, <1>8, <2>2, <2>4 DEF IsInjective
    <3> QED BY <1>1, <3>1
  <2>5. CASE (i \in 1 .. m) # (j \in 1 .. m)
    BY <1>8, <2>1, <2>2, <2>5
  <2> QED BY <2>3, <2>4, <2>5
<1> QED BY <1>2, <1>6, <1>7, <1>8 DEF q

(* The first of a queue without repetition is not among the rest.          *)
LEMMA FrontTaken ==
    ASSUME NEW T, NEW s \in Seq(T), s # <<>>
    PROVE  /\ Head(s) \in T /\ Tail(s) \in Seq(T) /\ Head(s) \in Range(s)
           /\ Range(Tail(s)) \subseteq Range(s)
           /\ IsInjective(s) => IsInjective(Tail(s)) /\ Head(s) \notin Range(Tail(s))
<1> DEFINE n == Len(s)
           q == Tail(s)
<1>1. n \in Nat /\ n > 0 /\ DOMAIN s = 1 .. n /\ \A i \in 1 .. n : s[i] \in T
  OBVIOUS
<1>2. q \in Seq(T) /\ DOMAIN q = 1 .. (n - 1) /\ \A i \in 1 .. (n - 1) : q[i] = s[i + 1]
  OBVIOUS
<1>3. Head(s) = s[1] /\ 1 \in 1 .. n
  BY <1>1
<1>4. \A i \in 1 .. (n - 1) : i + 1 \in 1 .. n /\ i + 1 # 1
  BY <1>1
<1>5. \A i, j \in 1 .. (n - 1) : i + 1 = j + 1 => i = j
  BY <1>1
<1> HIDE DEF n, q
<1>6. Range(q) \subseteq Range(s)
  BY <1>1, <1>2, <1>4 DEF Range
<1>7. IsInjective(s) => IsInjective(q)
  BY <1>1, <1>2, <1>4, <1>5 DEF IsInjective
<1>8. IsInjective(s) => Head(s) \notin Range(q)
  <2> SUFFICES ASSUME IsInjective(s), NEW i \in 1 .. (n - 1), q[i] = Head(s) PROVE FALSE
    BY <1>2 DEF Range
  <2>1. s[i + 1] = s[1] /\ i + 1 \in 1 .. n /\ 1 \in 1 .. n
    BY <1>2, <1>3, <1>4
  <2> QED BY <1>1, <1>4, <2>1 DEF IsInjective
<1>9. Head(s) \in T /\ Head(s) \in Range(s)
  BY <1>1, <1>3 DEF Range
<1> QED BY <1>2, <1>6, <1>7, <1>8, <1>9 DEF q

(* What is kept of a sequence is kept in its order.                        *)
LEMMA RetainedInOrder ==
    ASSUME NEW T, NEW s \in Seq(T), NEW S,
           NEW a \in DOMAIN Retained(s, S), NEW b \in DOMAIN Retained(s, S), a < b
    PROVE  \E i, j \in DOMAIN s : i < j /\ Retained(s, S)[a] = s[i] /\ Retained(s, S)[b] = s[j]
<1> DEFINE at == PositionsIn(s, S)
           n == Cardinality(at)
           pos(k) == CHOOSE i \in at : RankIn(s, S, i) = k
           upto(i) == {j \in at : j <= i}
<1>1. /\ n \in Nat /\ IsFiniteSet(at)
      /\ \A k \in 1 .. n : \E i \in at : RankIn(s, S, i) = k
  BY RanksArePositions
<1>2. \A k \in 1 .. n : pos(k) \in at /\ RankIn(s, S, pos(k)) = k
  BY <1>1
<1>3. Retained(s, S) = [k \in 1 .. n |-> s[pos(k)]]
  BY DEF Retained
<1>4. at \in SUBSET (1 .. Len(s)) /\ Len(s) \in Nat /\ DOMAIN s = 1 .. Len(s)
  BY DEF PositionsIn
<1>5. \A i : RankIn(s, S, i) = Cardinality(upto(i))
  BY DEF RankIn
<1> HIDE DEF at, pos
<1>6. a \in 1 .. n /\ b \in 1 .. n
  BY <1>3
<1>7. Retained(s, S)[a] = s[pos(a)] /\ Retained(s, S)[b] = s[pos(b)]
  BY <1>3, <1>6
<1> DEFINE i == pos(a)
           j == pos(b)
<1>8. i \in at /\ j \in at /\ Cardinality(upto(i)) = a /\ Cardinality(upto(j)) = b
  BY <1>2, <1>5, <1>6
<1> HIDE DEF i, j
<1>9. i < j
  <2> SUFFICES ASSUME j <= i PROVE FALSE
    BY <1>4, <1>8
  <2>1. \A k \in at : k \in Int
    BY <1>4
  <2>2. upto(j) \in SUBSET upto(i)
    BY <1>8, <2>1
  <2>3. IsFiniteSet(upto(i))
    BY <1>1, FS_Subset
  <2> HIDE DEF upto
  <2>4. Cardinality(upto(j)) <= Cardinality(upto(i))
    BY <2>2, <2>3, FS_Subset
  <2> QED BY <1>1, <1>6, <1>8, <2>4
<1>10. i \in DOMAIN s /\ j \in DOMAIN s
  BY <1>4, <1>8
<1> QED BY <1>7, <1>9, <1>10 DEF i, j

(* The recursion of a flattening has a solution on any first part of it.      *)
Flattens(f, ss, k) == f = [i \in 1 .. k |-> IF i = 1 THEN ss[i] ELSE f[i - 1] \o ss[i]]
\* The recursive function that joins the parts is there, up to any of them.
LEMMA FlattenedTo ==
    ASSUME NEW T, NEW ss \in Seq(Seq(T)), NEW k \in 1 .. Len(ss)
    PROVE  \E f \in [1 .. k -> Seq(T)] : Flattens(f, ss, k)
<1> DEFINE Solved(m) == \E f \in [1 .. m -> Seq(T)] : Flattens(f, ss, m)
           Bad == {m \in 1 .. Len(ss) : ~Solved(m)}
<1>0. Len(ss) \in Nat /\ \A i \in 1 .. Len(ss) : ss[i] \in Seq(T)
  OBVIOUS
<1> SUFFICES ASSUME Bad # {} PROVE FALSE
  OBVIOUS
<1>1. Bad \in SUBSET Nat
  <2> HIDE DEF Solved
  <2> QED BY <1>0
<1>2. PICK m \in Bad : \A j \in Bad : m <= j
  BY <1>1, LeastElement
<1>3. CASE m = 1
  <2> DEFINE f == [i \in 1 .. 1 |-> ss[i]]
  <2>1. f \in [1 .. 1 -> Seq(T)]
    BY <1>0, <1>2, <1>3
  <2>2. f = [i \in 1 .. 1 |-> IF i = 1 THEN ss[i] ELSE f[i - 1] \o ss[i]]
    OBVIOUS
  <2> HIDE DEF f
  <2> QED BY <1>2, <1>3, <2>1, <2>2 DEF Flattens
<1>4. CASE m # 1
  <2>1. m \in 1 .. Len(ss) /\ m - 1 \in 1 .. Len(ss) /\ ~(m <= m - 1)
    BY <1>0, <1>2, <1>4
  <2>2. Solved(m - 1)
    BY <1>2, <2>1
  <2>3. PICK g \in [1 .. m - 1 -> Seq(T)] :
            g = [i \in 1 .. m - 1 |-> IF i = 1 THEN ss[i] ELSE g[i - 1] \o ss[i]]
    BY <2>2 DEF Flattens
  <2> DEFINE f == [i \in 1 .. m |-> IF i = m THEN g[m - 1] \o ss[m] ELSE g[i]]
  <2>4. m \in Nat /\ m - 1 \in 1 .. m - 1 /\ \A i \in 1 .. m : i = m \/ i \in 1 .. m - 1
    BY <1>0, <2>1
  <2>5. g[m - 1] \o ss[m] \in Seq(T)
    BY <1>0, <2>1, <2>3, <2>4
  <2>6. f \in [1 .. m -> Seq(T)]
    BY <2>3, <2>4, <2>5
  <2>7. \A i \in 1 .. m : f[i] = IF i = 1 THEN ss[i] ELSE f[i - 1] \o ss[i]
    <3> SUFFICES ASSUME NEW i \in 1 .. m
                 PROVE  f[i] = IF i = 1 THEN ss[i] ELSE f[i - 1] \o ss[i]
      OBVIOUS
    <3>1. CASE i = m
      <4>1. m - 1 \in 1 .. m /\ m - 1 # m
        BY <2>1, <2>4
      <4>2. f[m - 1] = g[m - 1]
        BY <4>1
      <4> QED BY <1>4, <3>1, <4>2
    <3>2. CASE i # m
      <4>1. i \in 1 .. m - 1
        BY <2>4, <3>2
      <4>2. f[i] = g[i] /\ g[i] = IF i = 1 THEN ss[i] ELSE g[i - 1] \o ss[i]
        BY <2>3, <3>2, <4>1
      <4>3. i # 1 => i - 1 \in 1 .. m /\ i - 1 # m
        BY <2>4, <4>1
      <4>4. i # 1 => f[i - 1] = g[i - 1]
        BY <4>3
      <4> QED BY <4>2, <4>4
    <3> QED BY <3>1, <3>2
  <2> HIDE DEF f
  <2>8. f = [i \in 1 .. m |-> IF i = 1 THEN ss[i] ELSE f[i - 1] \o ss[i]]
    BY <2>6, <2>7
  <2>9. Solved(m)
    BY <2>6, <2>8 DEF Flattens
  <2> QED BY <1>2, <2>9
<1> QED BY <1>3, <1>4

(* Flattening keeps the type.                                                 *)
LEMMA FlattenedIs ==
    ASSUME NEW T, NEW ss \in Seq(Seq(T))
    PROVE  FlattenSeq(ss) \in Seq(T)
<1> DEFINE n == Len(ss)
           flatten == CHOOSE f : Flattens(f, ss, n)
<1>1. n \in Nat
  OBVIOUS
<1>2. CASE n = 0
  <2>1. FlattenSeq(ss) = ss
    BY <1>2 DEF FlattenSeq
  <2>2. DOMAIN ss = {}
    BY <1>2
  <2>3. ss \in Seq(T)
    BY <1>1, <1>2, <2>2
  <2> QED BY <2>1, <2>3
<1>3. CASE n # 0
  <2>1. n \in 1 .. n
    BY <1>1, <1>3
  <2>2. \E f : Flattens(f, ss, n)
    BY <2>1, FlattenedTo
  <2>3. Flattens(flatten, ss, n)
    BY <2>2
  <2>4. FlattenSeq(ss) = flatten[n]
    BY <1>3 DEF FlattenSeq, Flattens
  <2> HIDE DEF flatten
  <2> DEFINE Bad == {m \in 1 .. n : flatten[m] \notin Seq(T)}
  <2>5. \A m \in 1 .. n : ss[m] \in Seq(T) /\ flatten[m] = IF m = 1 THEN ss[m] ELSE flatten[m - 1] \o ss[m]
    <3>1. flatten = [i \in 1 .. n |-> IF i = 1 THEN ss[i] ELSE flatten[i - 1] \o ss[i]]
      BY <2>3 DEF Flattens
    <3>2. \A m \in 1 .. n : flatten[m] = IF m = 1 THEN ss[m] ELSE flatten[m - 1] \o ss[m]
      BY <3>1
    <3>3. \A m \in 1 .. n : ss[m] \in Seq(T)
      OBVIOUS
    <3> QED BY <3>2, <3>3
  <2>6. Bad = {}
    <3> SUFFICES ASSUME Bad # {} PROVE FALSE
      OBVIOUS
    <3>1. Bad \in SUBSET Nat
      BY <1>1
    <3>2. PICK m \in Bad : \A j \in Bad : m <= j
      BY <3>1, LeastElement
    <3>3. m \in 1 .. n /\ m \in Nat /\ (m # 1 => m - 1 \in 1 .. n /\ ~(m <= m - 1))
      BY <1>1, <3>2
    <3>4. m # 1 => flatten[m - 1] \in Seq(T)
      BY <3>2, <3>3
    <3>5. ss[m] \in Seq(T) /\ flatten[m] = IF m = 1 THEN ss[m] ELSE flatten[m - 1] \o ss[m]
      BY <2>5, <3>3
    <3>6. flatten[m] \in Seq(T)
      <4>1. CASE m = 1
        BY <3>5, <4>1
      <4>2. CASE m # 1
        <5>1. flatten[m - 1] \o ss[m] \in Seq(T)
          BY <3>4, <3>5, <4>2
        <5> QED BY <3>5, <4>2, <5>1
      <4> QED BY <4>1, <4>2
    <3> QED BY <3>2, <3>6
  <2> QED BY <2>1, <2>4, <2>6
<1> QED BY <1>2, <1>3

(* It has the elements of all its parts.                                   *)
LEMMA FlattenedHas ==
    ASSUME NEW T, NEW ss \in Seq(Seq(T))
    PROVE  Range(FlattenSeq(ss)) = UNION {Range(ss[i]) : i \in 1 .. Len(ss)}
<1> DEFINE n == Len(ss)
           flatten == CHOOSE f : Flattens(f, ss, n)
           Upto(m) == UNION {Range(ss[i]) : i \in 1 .. m}
<1>1. n \in Nat
  OBVIOUS
<1>2. CASE n = 0
  <2>1. FlattenSeq(ss) = ss /\ DOMAIN ss = {}
    BY <1>2 DEF FlattenSeq
  <2>2. Range(ss) = {}
    BY <2>1 DEF Range
  <2>3. Upto(n) = {}
    BY <1>2
  <2> QED BY <2>1, <2>2, <2>3
<1>3. CASE n # 0
  <2>1. n \in 1 .. n
    BY <1>1, <1>3
  <2>2. \E f \in [1 .. n -> Seq(T)] : Flattens(f, ss, n)
    BY <2>1, FlattenedTo
  <2>3. Flattens(flatten, ss, n)
    BY <2>2
  <2>4. FlattenSeq(ss) = flatten[n]
    BY <1>3 DEF FlattenSeq, Flattens
  <2> HIDE DEF flatten
  <2>5. flatten = [i \in 1 .. n |-> IF i = 1 THEN ss[i] ELSE flatten[i - 1] \o ss[i]]
    BY <2>3 DEF Flattens
  <2> DEFINE Bad == {m \in 1 .. n : ~(flatten[m] \in Seq(T) /\ Range(flatten[m]) = Upto(m))}
  <2>6. Bad = {}
    <3> SUFFICES ASSUME Bad # {} PROVE FALSE
      OBVIOUS
    <3>1. Bad \in SUBSET Nat
      <4> HIDE DEF Upto
      <4> QED BY <1>1
    <3> HIDE DEF Bad
    <3>2. PICK m \in Bad : \A j \in Bad : m <= j
      BY <3>1, LeastElement
    <3>3. m \in 1 .. n /\ ~(flatten[m] \in Seq(T) /\ Range(flatten[m]) = Upto(m))
      BY DEF Bad
    <3>4. m \in Nat /\ (m # 1 => m - 1 \in 1 .. n /\ ~(m <= m - 1))
      BY <1>1, <3>3
    <3>5. m # 1 => flatten[m - 1] \in Seq(T) /\ Range(flatten[m - 1]) = Upto(m - 1)
      BY <3>2, <3>4 DEF Bad
    <3>6. ss[m] \in Seq(T) /\ flatten[m] = IF m = 1 THEN ss[m] ELSE flatten[m - 1] \o ss[m]
      <4>1. \A i \in 1 .. n : flatten[i] = IF i = 1 THEN ss[i] ELSE flatten[i - 1] \o ss[i]
        BY <2>5
      <4>2. \A i \in 1 .. n : ss[i] \in Seq(T)
        OBVIOUS
      <4> QED BY <3>3, <4>1, <4>2
    <3>7. CASE m = 1
      <4>1. Upto(1) = Range(ss[1])
        <5>1. 1 .. 1 = {1}
          OBVIOUS
        <5> QED BY <5>1
      <4> QED BY <3>3, <3>6, <3>7, <4>1
    <3>8. CASE m # 1
      <4>1. 1 .. m = (1 .. m - 1) \cup {m}
        BY <3>3, <3>4
      <4>2. Upto(m) = Upto(m - 1) \cup Range(ss[m])
        BY <4>1
      <4> HIDE DEF Upto
      <4>3. /\ flatten[m - 1] \o ss[m] \in Seq(T)
            /\ Range(flatten[m - 1] \o ss[m]) = Range(flatten[m - 1]) \cup Range(ss[m])
        BY <3>5, <3>6, <3>8, Joined
      <4> QED BY <3>3, <3>5, <3>6, <3>8, <4>2, <4>3
    <3> QED BY <3>7, <3>8
  <2>7. Range(flatten[n]) = Upto(n)
    BY <2>1, <2>6
  <2> QED BY <2>4, <2>7
<1> QED BY <1>2, <1>3

(* It begins with the first of its parts that is not empty.                *)
LEMMA FlattenedBegins ==
    ASSUME NEW T, NEW ss \in Seq(Seq(T)), NEW first \in 1 .. Len(ss),
           \A j \in 1 .. (first - 1) : ss[j] = <<>>
    PROVE  /\ Len(ss[first]) <= Len(FlattenSeq(ss))
           /\ \A k \in 1 .. Len(ss[first]) : FlattenSeq(ss)[k] = ss[first][k]
<1> DEFINE n == Len(ss)
           flatten == CHOOSE f : Flattens(f, ss, n)
           head == ss[first]
           none == <<>>
           Begins(s) == Len(head) <= Len(s) /\ \A k \in 1 .. Len(head) : s[k] = head[k]
           Good(m) == /\ flatten[m] \in Seq(T)
                      /\ m < first => flatten[m] = none
                      /\ first <= m => Begins(flatten[m])
<1>1. n \in Nat /\ first \in Nat /\ 1 <= first /\ first <= n /\ head \in Seq(T) /\ Len(head) \in Nat
  OBVIOUS
<1>2. n \in 1 .. n
  BY <1>1
<1>3. Flattens(flatten, ss, n)
  <2>1. \E f \in [1 .. n -> Seq(T)] : Flattens(f, ss, n)
    BY <1>2, FlattenedTo
  <2> QED BY <2>1
<1>4. FlattenSeq(ss) = flatten[n]
  <2>1. n # 0
    BY <1>1
  <2> QED BY <2>1 DEF FlattenSeq, Flattens
<1> HIDE DEF flatten
<1>5. \A m \in 1 .. n : ss[m] \in Seq(T) /\ flatten[m] = IF m = 1 THEN ss[m] ELSE flatten[m - 1] \o ss[m]
  <2>1. flatten = [i \in 1 .. n |-> IF i = 1 THEN ss[i] ELSE flatten[i - 1] \o ss[i]]
    BY <1>3 DEF Flattens
  <2>2. \A m \in 1 .. n : flatten[m] = IF m = 1 THEN ss[m] ELSE flatten[m - 1] \o ss[m]
    BY <2>1
  <2>3. \A m \in 1 .. n : ss[m] \in Seq(T)
    OBVIOUS
  <2> QED BY <2>2, <2>3
<1>6. \A s, t \in Seq(T) : Begins(s) => Begins(s \o t)
  <2> SUFFICES ASSUME NEW s \in Seq(T), NEW t \in Seq(T), Begins(s) PROVE Begins(s \o t)
    OBVIOUS
  <2>1. Len(s) \in Nat /\ Len(t) \in Nat /\ Len(s \o t) = Len(s) + Len(t)
        /\ \A k \in 1 .. Len(s) : (s \o t)[k] = s[k]
    OBVIOUS
  <2>2. Len(head) <= Len(s) + Len(t)
    BY <1>1, <2>1
  <2>3. \A k \in 1 .. Len(head) : k \in 1 .. Len(s)
    BY <1>1, <2>1
  <2> QED BY <2>1, <2>2, <2>3
<1>7. none \in Seq(T) /\ (\A s \in Seq(T) : none \o s = s) /\ \A j \in 1 .. (first - 1) : ss[j] = none
  OBVIOUS
<1>8. Begins(head)
  BY <1>1
<1> HIDE DEF Begins, none, head
<1> DEFINE Bad == {m \in 1 .. n : ~Good(m)}
<1>9. Bad = {}
  <2> SUFFICES ASSUME Bad # {} PROVE FALSE
    OBVIOUS
  <2>1. Bad \in SUBSET Nat
    <3> HIDE DEF Good
    <3> QED BY <1>1
  <2> HIDE DEF Bad
  <2>2. PICK m \in Bad : \A j \in Bad : m <= j
    BY <2>1, LeastElement
  <2>3. m \in 1 .. n /\ ~Good(m)
    BY DEF Bad
  <2>4. m \in Nat /\ 1 <= m /\ m <= n /\ (m # 1 => m - 1 \in 1 .. n /\ ~(m <= m - 1))
    BY <1>1, <2>3
  <2>5. m # 1 => Good(m - 1)
    BY <2>2, <2>4 DEF Bad
  <2>6. ss[m] \in Seq(T) /\ flatten[m] = IF m = 1 THEN ss[m] ELSE flatten[m - 1] \o ss[m]
    BY <1>5, <2>3
  <2>7. m < first => ss[m] = none
    BY <1>1, <1>7, <2>4
  <2>8. m = first => ss[m] = head
    BY DEF head
  <2>9. CASE m = 1
    <3>1. flatten[m] = ss[m]
      BY <2>6, <2>9
    <3>2. m < first \/ m = first
      BY <1>1, <2>9
    <3>3. m < first => ~(first <= m)
      BY <1>1, <2>4
    <3>4. m = first => ~(m < first)
      BY <1>1
    <3> QED BY <1>8, <2>3, <2>6, <2>7, <2>8, <3>1, <3>2, <3>3, <3>4
  <2>10. CASE m # 1
    <3>1. Good(m - 1) /\ flatten[m] = flatten[m - 1] \o ss[m] /\ flatten[m - 1] \in Seq(T)
      BY <2>5, <2>6, <2>10
    <3>2. flatten[m] \in Seq(T)
      BY <2>6, <3>1
    <3>3. m < first \/ m = first \/ first < m
      BY <1>1, <2>4
    <3>4. CASE m < first
      <4>1. m - 1 < first /\ ~(first <= m)
        BY <1>1, <2>4, <3>4
      <4>2. flatten[m] = none
        BY <1>7, <2>7, <3>1, <3>4, <4>1
      <4> QED BY <2>3, <3>2, <4>1, <4>2
    <3>5. CASE m = first
      <4>1. m - 1 < first /\ ~(m < first)
        BY <1>1, <2>4, <3>5
      <4>2. flatten[m] = head
        BY <1>7, <2>6, <2>8, <3>1, <3>5, <4>1
      <4> QED BY <1>8, <2>3, <3>2, <4>1, <4>2
    <3>6. CASE first < m
      <4>1. first <= m - 1 /\ ~(m < first)
        BY <1>1, <2>4, <3>6
      <4>2. Begins(flatten[m])
        BY <1>6, <2>6, <3>1, <4>1
      <4> QED BY <2>3, <3>2, <4>1, <4>2
    <3> QED BY <3>3, <3>4, <3>5, <3>6
  <2> QED BY <2>9, <2>10
<1>10. Good(n)
  BY <1>2, <1>9
<1>11. Begins(flatten[n])
  BY <1>1, <1>10
<1> QED BY <1>4, <1>11 DEF Begins, head

-----------------------------------------------------------------------------
PassesOn(f, D, moves, next, rest) ==
    f = [q \in D |-> IF q \in moves THEN f[next[q]] ELSE rest[q]]

(* A function defined by a recursion that only ever passes its argument on,  *)
(* to one of a smaller rank, is there.                                       *)
LEMMA TailRecursion ==
    ASSUME NEW D, NEW K \in Nat, NEW rank \in [D -> 0 .. K], NEW moves \in SUBSET D,
           NEW next, NEW rest,
           \A q \in moves : next[q] \in D /\ rank[next[q]] < rank[q]
    PROVE  \E f : PassesOn(f, D, moves, next, rest)
<1> DEFINE Upto(f, k) == \A q \in D : rank[q] < k =>
                            f[q] = IF q \in moves THEN f[next[q]] ELSE rest[q]
           Bad == {k \in Nat : ~ \E f : Upto(f, k)}
<1>1. Bad = {}
  <2> SUFFICES ASSUME Bad # {} PROVE FALSE
    OBVIOUS
  <2>1. PICK k \in Bad : \A j \in Bad : k <= j
    <3>1. Bad \in SUBSET Nat
      OBVIOUS
    <3> QED BY <3>1, LeastElement
  <2>2. k # 0
    <3>1. \A q \in D : ~ (rank[q] < 0)
      OBVIOUS
    <3> QED BY <2>1, <3>1
  <2>3. k - 1 \in Nat /\ k - 1 \notin Bad
    <3>1. k \in Nat /\ k - 1 \in Nat
      BY <2>1, <2>2
    <3> QED BY <2>1, <3>1
  <2>4. PICK g : Upto(g, k - 1)
    BY <2>3
  <2> DEFINE h == [q \in D |-> IF rank[q] = k - 1
                                THEN IF q \in moves THEN g[next[q]] ELSE rest[q]
                                ELSE g[q]]
  <2>5. Upto(h, k)
    <3> SUFFICES ASSUME NEW q \in D, rank[q] < k
                 PROVE  h[q] = IF q \in moves THEN h[next[q]] ELSE rest[q]
      OBVIOUS
    <3>1. k \in Nat /\ rank[q] \in Nat /\ rank[q] <= k - 1
      BY <2>1
    <3>2. q \in moves => rank[next[q]] \in Nat /\ next[q] \in D
      OBVIOUS
    <3>3. q \in moves => h[next[q]] = g[next[q]]
      BY <3>1, <3>2
    <3>4. CASE rank[q] = k - 1
      BY <3>3, <3>4
    <3>5. CASE rank[q] < k - 1
      <4>1. h[q] = g[q]
        BY <3>5, <3>1
      <4> QED BY <2>4, <3>3, <3>5, <4>1
    <3> QED BY <3>1, <3>4, <3>5
  <2> QED BY <2>1, <2>5
<1>2. PICK f : Upto(f, K + 1)
  <2>1. K + 1 \in Nat
    OBVIOUS
  <2>2. K + 1 \notin Bad
    <3> HIDE DEF Bad
    <3> QED BY <1>1
  <2> QED BY <2>1, <2>2
<1> DEFINE s == [q \in D |-> f[q]]
<1>3. \A q \in D : s[q] = IF q \in moves THEN s[next[q]] ELSE rest[q]
  <2> TAKE q \in D
  <2>1. rank[q] < K + 1
    OBVIOUS
  <2>2. q \in moves => s[next[q]] = f[next[q]]
    OBVIOUS
  <2> QED BY <1>2, <2>1, <2>2
<1>4. s = [q \in D |-> s[q]]
  OBVIOUS
<1> HIDE DEF s
<1>5. s = [q \in D |-> IF q \in moves THEN s[next[q]] ELSE rest[q]]
  BY <1>3, <1>4
<1> QED BY <1>5 DEF PassesOn

-----------------------------------------------------------------------------
(* A stack as a sequence, and a sequence backwards.                          *)

\* The top of a stack and what is under it.
LEMMA StackTop ==
    ASSUME NEW T, NEW s \in Seq(T), s # <<>>
    PROVE  Front(s) \in Seq(T) /\ Last(s) \in T
<1>1. Len(s) \in Nat /\ Len(s) # 0
  OBVIOUS
<1>2. Last(s) \in T
  BY <1>1 DEF Last
<1>3. Front(s) \in Seq(T)
  BY <1>1 DEF Front
<1> QED BY <1>2, <1>3

\* A stack is what is under its top, and its top.
LEMMA LastThenFront ==
    ASSUME NEW T, NEW s \in Seq(T), s # <<>>
    PROVE  s = Front(s) \o <<Last(s)>>
<1>1. Len(s) \in Nat /\ Len(s) # 0
  OBVIOUS
<1>2. Front(s) = SubSeq(s, 1, Len(s) - 1) /\ Last(s) = s[Len(s)]
  BY DEF Front, Last
<1> QED BY <1>1, <1>2

\* A sequence backwards has the same values.
LEMMA ReverseIsSeq ==
    ASSUME NEW T, NEW s \in Seq(T)
    PROVE  Reverse(s) \in Seq(T)
<1>1. Reverse(s) = [i \in 1 .. Len(s) |-> s[Len(s) - i + 1]]
  BY DEF Reverse
<1>2. Len(s) \in Nat /\ \A i \in 1 .. Len(s) : s[Len(s) - i + 1] \in T
  OBVIOUS
<1> QED BY <1>1, <1>2

\* What is last comes first, backwards.
LEMMA ReverseAppended ==
    ASSUME NEW T, NEW s \in Seq(T), NEW x \in T
    PROVE  Reverse(Append(s, x)) = <<x>> \o Reverse(s)
<1> DEFINE l == Reverse(Append(s, x))
           r == <<x>> \o Reverse(s)
           n == Len(s) + 1
           a == Append(s, x)
<1>1. Len(a) = n /\ n \in Nat /\ Len(s) \in Nat
  OBVIOUS
<1>2. a[n] = x /\ \A i \in 1 .. Len(s) : a[i] = s[i]
  OBVIOUS
<1> HIDE DEF a
<1>3. l = [i \in 1 .. n |-> a[n - i + 1]]
  BY <1>1 DEF Reverse, a
<1>4. Reverse(s) = [i \in 1 .. Len(s) |-> s[Len(s) - i + 1]]
  BY DEF Reverse
<1>5. Reverse(s) \in Seq(T) /\ Len(Reverse(s)) = Len(s)
  <2>1. \A i \in 1 .. Len(s) : s[Len(s) - i + 1] \in T
    BY <1>1
  <2> QED BY <1>1, <1>4, <2>1
<1>6. r \in Seq(T) /\ Len(r) = n /\ r[1] = x /\ \A i \in 2 .. n : r[i] = Reverse(s)[i - 1]
  BY <1>1, <1>5
<1> HIDE DEF l, r
<1>7. \A i \in 1 .. n : l[i] = r[i]
  <2> TAKE i \in 1 .. n
  <2>1. CASE i = 1
    BY <1>1, <1>2, <1>3, <1>6, <2>1
  <2>2. CASE i \in 2 .. n
    <3>1. i - 1 \in 1 .. Len(s) /\ Len(s) - (i - 1) + 1 = n - i + 1 /\ n - i + 1 \in 1 .. Len(s)
      BY <1>1, <2>2 DEF n
    <3>2. Reverse(s)[i - 1] = s[n - i + 1]
      BY <1>4, <3>1
    <3> HIDE DEF n
    <3> QED BY <1>2, <1>3, <1>6, <2>2, <3>1, <3>2
  <2> QED BY <1>1, <2>1, <2>2
<1>8. l \in Seq(T) /\ Len(l) = n
  <2>1. \A i \in 1 .. n : r[i] \in T
    BY <1>6
  <2>2. \A i \in 1 .. n : l[i] \in T
    BY <1>7, <2>1
  <2>3. \A i \in 1 .. n : a[n - i + 1] \in T
    BY <1>3, <2>2
  <2> HIDE DEF n
  <2> QED BY <1>1, <1>3, <2>3
<1>9. l = r
  <2> HIDE DEF n
  <2> QED BY <1>6, <1>7, <1>8
<1> QED BY <1>9 DEF l, r

=============================================================================
